\* A longer queue and one more number, without the liveness.
SPECIFICATION Spec
CONSTANTS
    OutCap = 2
    CmdCap = 1
    MaxSeq = 3
INVARIANTS NumbersHonest GoodbyeUnheard EndExplained DrainedMeansRecorded
\* The process has exited.
CHECK_DEADLOCK FALSE
