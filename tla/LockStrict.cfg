SPECIFICATION Spec
CONSTANTS
    r1 = r1
    r2 = r2
    Txn <- MCTxn
    Rid <- MCRid2
    Strict = TRUE
    Calls = {"S", "X", "U"}
    CntMod = 8
INVARIANTS GrantOrder LockSetsBacked NoLostWakeup RequestsOwned
SYMMETRY RidSymmetry
CHECK_DEADLOCK FALSE
