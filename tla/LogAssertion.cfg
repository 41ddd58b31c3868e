SPECIFICATION LogSpec
CONSTANTS
    BufferSize = 3
    RecordSize <- MCRecordSize
    MaxRecords = 4
    NameLsn <- MCNameLsn
INVARIANT WriteSwapped
CHECK_DEADLOCK FALSE
