SPECIFICATION Spec
CONSTANTS
    Prices = {1, 2}
    Quantities = {0, 1}
    Depth = 1
    BootEpoch = 1
    BootId = 1
    MailboxCap = 2
    FaultKinds = {}
    MaxId = 3
    MaxEpoch = 1
    MaxQueued = 1
PROPERTY UpdateIdsNeverRewind
