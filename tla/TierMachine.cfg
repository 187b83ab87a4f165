\* Short streaks that keep the order of the code's (3 and 5), every band reachable
\* from either measure, and an age below the hold that is not zero.
SPECIFICATION FairSpec
CONSTANTS
    FullMax = 1
    MinimalMin = 2
    Samples = {0, 1, 2}
    DegradeStreak = 2
    RecoverStreak = 3
    StreakCap = 3
    ReportHold = 2
    ReportDegrade = 3
    DebugControls = TRUE
INVARIANTS TierSound CadenceFollowsTier NoOverdueMove
PROPERTIES RecoveryEarned MovesJustified SilenceEndsMinimal GoodHealthRecovers
