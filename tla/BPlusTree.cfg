SPECIFICATION Spec
CONSTANTS
    MaxKey = 10
    MaxPage = 9
    Key <- MCKey
    PageId <- MCPageId
    Thread = {t1}
    Value <- MCValue
    LeafMax = 4
    InternalMax = 3
    Scans = TRUE
    ScanPast = FALSE
    LendFirst = FALSE
    Drain = TRUE
    Race = FALSE
INVARIANTS
    RightLeaf
    SearchTree
    ScanInOrder
