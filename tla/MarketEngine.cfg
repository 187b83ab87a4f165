SPECIFICATION Spec
CONSTANTS
    Window = 2
    Times = {0, 1, 2}
    Prices = {1, 2}
    Spans = {1, 2}
    Depth = 1
    TapeCap = 2
    Warmup = 1
    Buffer = 1
    Callers = {c1, c2}
    MaxTrades = 3
    MaxControls = 2
SYMMETRY CallerSymmetry
INVARIANTS ReadModelsExact ControlsAgree
\* Run has returned, or the bounds are reached.
CHECK_DEADLOCK FALSE
