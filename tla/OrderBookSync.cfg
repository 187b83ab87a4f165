SPECIFICATION Spec
CONSTANTS
    Prices = {}
    Quantities = {0}
    BufferCap = 2
    MaxAttempts = 1
    Loads = {l1, l2}
    MaxInbox = 1
    MaxId = 3
    MaxEpoch = 1
INVARIANTS SyncSound WaitingIsAsked
PROPERTY NoSkippedUpdate
SYMMETRY LoadSymmetry
