SPECIFICATION Spec
CONSTANTS
    c1 = c1
    c2 = c2
    Client <- MCClient
    PoolSize = 2
    MaxPages = 3
    MaxLsn = 3
    ForceFlush = FALSE
INVARIANTS FramesPartitioned PinsProtect Coherent WriteAhead
PROPERTY StoreSpec
SYMMETRY ClientSymmetry
CHECK_DEADLOCK FALSE
