SPECIFICATION Spec
CONSTANTS
    Tuple = {a, b}
    NoTuple = NoTuple
    SlotCount = 2
    BufferRecords = 4
    MaxTxn = 2
    MaxRecords = 7
    MaxWrites = 1
    MaxFlushes = 3
    MaxCrashes = 2
    Again = FALSE
    Unwritten = FALSE
SYMMETRY MCSymmetry
INVARIANTS RedoRestores CommittedSurvive
CHECK_DEADLOCK FALSE
