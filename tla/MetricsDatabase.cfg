SPECIFICATION Spec
CONSTANTS
    Sessions = {s1}
    Starts = {c1}
    Ms = 2
    KeepSamples = 1
    KeepSessions = 1
    PruneBatch = 1
    QueueCap = 2
    MaxRange = 1
    MaxSamples = 1
    MaxRecords = 3
    MaxTime = 3
    MaxFailures = 1
    MaxCrashes = 1
INVARIANTS Durable Openable ReadsExact
PROPERTY RetentionExact
\* All records are produced, every bound is used up.
CHECK_DEADLOCK FALSE
