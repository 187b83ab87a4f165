SPECIFICATION Spec
CONSTANTS
    Cap = 1
    OutCap = 1
    MaxTrades = 3
    MaxAsks = 2
    MaxWork = 4
INVARIANTS ChartSound AtRestCurrent
PROPERTY NoRewrite
\* The bounds on trades and loads end every behaviour.
CHECK_DEADLOCK FALSE
