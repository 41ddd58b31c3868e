SPECIFICATION LogLiveSpec
CONSTANTS
    BufferSize = 3
    RecordSize <- MCRecordSize
    MaxRecords = 4
    NameLsn <- MCNameLsn
INVARIANTS PersistentInOrder PrefixInOrder
PROPERTIES CommitReturns EvictionTold
CHECK_DEADLOCK FALSE
