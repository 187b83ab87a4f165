SPECIFICATION FairSpec
CONSTANTS
    Prices = {1}
    Quantities = {0, 1}
    BufferCap = 2
    MaxAttempts = 1
    Loads = {l1}
    MaxInbox = 1
    MaxId = 2
    MaxEpoch = 0
INVARIANT DrainAgrees
PROPERTY Settles
