CONSTANTS
    c1 = c1
    c2 = c2
    Cam <- MCCam
    Listings <- MCListings
    Handler = {h1, h2}
    MaxOps = 3
SPECIFICATION Spec
INVARIANTS NoOpenAfterErase CamerasWhole
PROPERTY OperationEnds
CHECK_DEADLOCK FALSE
