SPECIFICATION Spec
CONSTANTS
  Task = {t1}
  Source = {s1}
  SourceLists = {{s1}}
  QueueSize = 1
  MaxUpdate = 1
  MaxId = 1
  MaxLate = 0
PROPERTY UpdateAnswered
CHECK_DEADLOCK FALSE
