SPECIFICATION Spec
CONSTANTS
    b1 = b1
    b2 = b2
    Byte <- MCByte
    Tuple <- MCTuple
    PageSize = 10
    HeaderSize = 1
    SlotSize = 1
    ResizeWhileMarked = TRUE
PROPERTIES TuplesSpec
CHECK_DEADLOCK FALSE
