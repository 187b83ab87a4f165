SPECIFICATION FeedSpec
CONSTANTS
    Prices = {1, 2}
    Quantities = {0, 1}
    Depth = 1
    BootEpoch = 0
    BootId = 0
    MailboxCap = 1
    FaultKinds = {}
    MaxId = 2
    MaxEpoch = 0
    MaxQueued = 1
    BufferCap = 2
    MaxAttempts = 1
    Loads = {l1}
    MaxInbox = 1
INVARIANTS LiveExact NotAhead
