SPECIFICATION Spec
CONSTANTS
    Prices = {1, 2}
    Quantities = {0, 1}
    Depth = 1
    BootEpoch = 0
    BootId = 0
    MailboxCap = 2
    FaultKinds = {"gap", "reverse", "duplicate"}
    MaxId = 2
    MaxEpoch = 1
    MaxQueued = 1
INVARIANTS DeliverySound RangeHonest ExactWhenCoherent
PROPERTY NothingGoesBack
