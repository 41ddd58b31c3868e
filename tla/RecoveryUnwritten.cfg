SPECIFICATION Spec
CONSTANTS
    Tuple = {a, b}
    NoTuple = NoTuple
    SlotCount = 2
    BufferRecords = 6
    MaxTxn = 2
    MaxRecords = 7
    MaxWrites = 1
    MaxFlushes = 2
    MaxCrashes = 2
    Again = FALSE
    Unwritten = TRUE
SYMMETRY MCSymmetry
INVARIANT RedoRestores
CHECK_DEADLOCK FALSE
