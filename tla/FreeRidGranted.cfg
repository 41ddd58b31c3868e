SPECIFICATION Spec
CONSTANTS
    r1 = r1
    r2 = r2
    Txn <- MCTxn2
    Rid <- MCRid2
    Strict = TRUE
    Calls = {"S", "X"}
    CntMod = 8
PROPERTY FreeRidGranted
SYMMETRY RidSymmetry
CHECK_DEADLOCK FALSE
