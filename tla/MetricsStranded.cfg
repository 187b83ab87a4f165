SPECIFICATION Spec
CONSTANTS
    Producers = {p1}
    Flushers = {}
    Closer = main
    Capacity = 2
    BatchSize = 2
    MaxDrain = 2
    MaxRecords = 2
INVARIANT NothingStranded
CHECK_DEADLOCK FALSE
