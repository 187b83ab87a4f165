\* Two producers can be about to count a drop at once, the ring wraps around, and
\* a flush meets the limit of what it writes.
SPECIFICATION Spec
CONSTANTS
    Producers = {p1, p2}
    Flushers = {f1}
    Closer = main
    Capacity = 2
    BatchSize = 2
    MaxDrain = 2
    MaxRecords = 4
INVARIANTS WritesSound LossVisible
PROPERTIES FlushHonest RingIsFifo
SYMMETRY ProducerSymmetry
\* The store has been closed and everything offered to it.
CHECK_DEADLOCK FALSE
