SPECIFICATION FrameSpec
CONSTANTS
  Bodies <- MCBodies
  Versions <- MCVersions
  Pieces <- MCPieces
  MaxRecCache = 300
  MaxMsg = 2
  MaxConn = 2
  CalcCRC1021 <- Checksum
INVARIANT AnyLength
CHECK_DEADLOCK FALSE
