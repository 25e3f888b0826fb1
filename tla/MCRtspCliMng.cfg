SPECIFICATION Spec
CONSTANTS
  Modes = {"stream", "snapshot"}
  QueueTypes = {"FaceQueue"}
  Capacity = 2
  MaxVer = 2
  MaxSub = 1
INVARIANTS TypeOK SingleProducer PictureSizes NoThreadOutlivesCamera
PROPERTY UpdateServed
CHECK_DEADLOCK FALSE
