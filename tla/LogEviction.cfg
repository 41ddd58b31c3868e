SPECIFICATION LogLiveSpec
CONSTANTS
    BufferSize = 3
    RecordSize <- MCRecordSize
    MaxRecords = 4
    NameLsn <- MCNameLsn
PROPERTY EvictionReturns
CHECK_DEADLOCK FALSE
