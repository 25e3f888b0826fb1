SPECIFICATION Spec
CONSTANTS
  Writer = {w1, w2}
  QueueSize = 2
  MaxId = 6
  MaxLate = 1
  MaxBatch = 2
INVARIANTS Window Bounded NothingSkipped NothingTwice BatchNotEmpty
PROPERTY DownloadEnds
CHECK_DEADLOCK TRUE
