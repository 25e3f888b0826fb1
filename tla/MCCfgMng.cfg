SPECIFICATION Spec
CONSTANTS
  Client = {c1}
  Nodes <- TwoNodes
  ListNodes = {"App"}
  Words <- MCWords
  FactorySize = 2
  FactoryBody <- MCFactoryBody
  Bodies <- MCBodies
  MaxVer = 2
  MaxNew = 1
  MaxCrash = 2
  MaxFail = 1
INVARIANTS TypeOK DiskWhole StoreAgrees UniqueIdx
PROPERTIES RecoversKnown HandlerEnds
