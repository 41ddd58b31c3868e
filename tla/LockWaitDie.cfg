SPECIFICATION HLiveSpec
CONSTANTS
    Txn = {0, 1, 2}
    Rid = {r1, r2}
    Strict = FALSE
    Calls = {"S", "X"}
    CntMod = 8
INVARIANTS Serializable WaitsOnlyForYounger SharedSetProtects ExclusiveCntExact
PROPERTY EveryCallReturns
CHECK_DEADLOCK FALSE
