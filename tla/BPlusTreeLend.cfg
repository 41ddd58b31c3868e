SPECIFICATION Spec
CONSTANTS
    MaxKey = 7
    MaxPage = 9
    Key <- MCKey
    PageId <- MCPageId
    Thread = {t1}
    Value <- MCValue
    LeafMax = 4
    InternalMax = 3
    Scans = FALSE
    ScanPast = FALSE
    LendFirst = TRUE
    Drain = TRUE
    Race = FALSE
INVARIANT RightLeaf
