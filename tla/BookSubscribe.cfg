SPECIFICATION Spec
CONSTANTS
    Prices = {1, 2}
    Quantities = {0, 1}
    Depth = 1
    BootEpoch = 0
    BootId = 0
    MailboxCap = 2
    FaultKinds = {}
    MaxId = 3
    MaxEpoch = 0
    MaxQueued = 1
INVARIANT ExactAfterSnapshot
