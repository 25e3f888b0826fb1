SPECIFICATION FrameSpec
CONSTANTS
  Bodies <- MCBodies
  Versions <- MCVersions
  Pieces <- MCPieces
  MaxRecCache = 30
  MaxMsg = 2
  MaxConn = 2
  CalcCRC1021 <- Checksum
INVARIANTS FrameTypeOK Delivered OnlySent
CHECK_DEADLOCK FALSE
