SPECIFICATION Spec
CONSTANTS
    MaxKey = 5
    MaxPage = 9
    Key <- MCKey
    PageId <- MCPageId
    Thread = {t1, t2}
    Value <- MCValue
    LeafMax = 2
    InternalMax = 3
    Scans = FALSE
    ScanPast = TRUE
    LendFirst = TRUE
    Drain = FALSE
    Race = FALSE
INVARIANTS
    RightLeaf
    ParentMatches
    NoDeadlock
    PoolClean
    HeaderIsRoot
