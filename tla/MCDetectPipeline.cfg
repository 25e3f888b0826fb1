SPECIFICATION Spec
CONSTANTS
  Task = {t1, t2}
  Source = {s1, s2}
  SourceLists = {{s1}, {s1, s2}}
  QueueSize = 1
  MaxUpdate = 1
  MaxId = 2
  MaxLate = 1
INVARIANTS AlertsConfigured UpdateInForce
PROPERTY ImplementsAlertTable
CHECK_DEADLOCK FALSE
