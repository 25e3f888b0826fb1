SPECIFICATION Spec
CONSTANTS
  Modes = {"stream"}
  QueueTypes = {"FaceQueue"}
  Capacity = 1
  MaxVer = 2
  MaxSub = 1

PROPERTY UpdateApplied
CHECK_DEADLOCK FALSE
