SPECIFICATION Spec
CONSTANTS
  Caller = {p1, p2}
  Client = {k1, k2, k3, k4}
  MaxRpcConn = 2
INVARIANTS Exclusive NoLateAnswer
PROPERTY CallEnds
