SPECIFICATION FairSpec
CONSTANTS
    OutCap = 1
    CmdCap = 1
    MaxSeq = 2
INVARIANTS NumbersHonest GoodbyeUnheard EndExplained DrainedMeansRecorded
PROPERTY Teardown
\* The process has exited.
CHECK_DEADLOCK FALSE
