SPECIFICATION LevelsSpec
CONSTANTS
    MaxLevels = 3
    KeepLevels = 2
    WidenEvery = 2
    Anchor = 9
    Deviation = 2
    MaxStep = 2
    MaxChanges = 4
    Deltas = FALSE
INVARIANT BidsDescend
\* The process has crashed.
CHECK_DEADLOCK FALSE
