SPECIFICATION Spec
CONSTANTS
    Node = {n1, n2}
    Operator = {n1}
    Miner = {n1}
    Address = {k1, k2}
    None = none
    Interval = 2
    LockBlocks = 2
    MaxMarker = 3
    MaxHeight = 2
    MaxEvents = 1
    MaxRequests = 1
SYMMETRY Symmetry
CHECK_DEADLOCK FALSE
INVARIANTS KingTypeOK ReloadKeepsLocked EngineCoversRegistry RotationReachesAll
PROPERTIES PastKingsFixed CrashKeepsRegistrations
