SPECIFICATION HeapSpec
CONSTANTS
    Txn = {0, 1}
    Rid <- MCRid
    Strict = TRUE
    Calls = {"S", "X"}
    CntMod = 16
    Tuple <- MCSameSize
    SlotCount = 1
    MaxPages = 2
    PageSpace = 2
    SlotSize = 1
    MaxWrites = 3
    CommitAborted = FALSE
INVARIANTS
    OnlyCommitted
    ReadsStable
    ReadsDurable
CHECK_DEADLOCK FALSE
