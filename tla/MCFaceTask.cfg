SPECIFICATION Spec
CONSTANTS
  Task = {t1}
  Source = {s1, s2}
  Registrar = {r1, r2}
  SourceLists = {{s1}, {s1, s2}}
  QueueSize = 1
  MaxUpdate = 1
  MaxFaces = 2
  MaxInFrame = 1
  MaxRestart = 1
  MaxId = 2
  MaxLate = 1
INVARIANTS ReportKnown RegisteredInForce HolderNeverWaits
PROPERTY ImplementsAlertTable
CHECK_DEADLOCK FALSE
