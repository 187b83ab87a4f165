SPECIFICATION FairSpec
CONSTANTS
    Producers = {p1}
    Flushers = {f1}
    Closer = main
    Capacity = 2
    BatchSize = 2
    MaxDrain = 2
    MaxRecords = 2
PROPERTIES RecordsSettle CallersReturn
\* The store has been closed and everything offered to it.
CHECK_DEADLOCK FALSE
