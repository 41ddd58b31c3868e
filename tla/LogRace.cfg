SPECIFICATION LogSpec
CONSTANTS
    BufferSize = 3
    RecordSize <- MCRecordSize
    MaxRecords = 4
    NameLsn <- MCNameLsn
INVARIANT PersistentOnDisk
CHECK_DEADLOCK FALSE
