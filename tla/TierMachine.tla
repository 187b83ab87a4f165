------------------------------ MODULE TierMachine ------------------------------
(***************************************************************************)
(* The adaptive delivery tier of one WebSocket session: the hysteresis     *)
(* machine (delivery/tier.go), the health tracker that dates the client's  *)
(* last report, and the parts of the session's delivery loop that drive    *)
(* them (delivery/session.go): latency reports, the 250 ms watchdog, the   *)
(* debug override, and the one-slot channel that re-arms the flush ticker. *)
(*                                                                         *)
(* All of it runs on the delivery loop, one select case at a time, so      *)
(* every action is one case.  Time is counted in units of the report age.  *)
(***************************************************************************)
EXTENDS Integers

CONSTANTS
    FullMax, MinimalMin,      \* band limits: one scale serves rtt and jitter
    Samples,                  \* the rtt and jitter values a report may carry
    DegradeStreak, RecoverStreak,
    StreakCap,                \* the counters stop here (16 in the code)
    ReportHold, ReportDegrade,
    DebugControls             \* whether tier_override is honoured

\* What config.Validate enforces.  It does not ask that the cap leaves the
\* streaks reachable, and neither is it assumed here.
ASSUME TierAssumption ==
    /\ FullMax \in Nat /\ MinimalMin \in Nat /\ FullMax < MinimalMin
    /\ Samples \subseteq Nat
    /\ StreakCap \in Nat /\ DegradeStreak \in Nat \ {0} /\ RecoverStreak \in Nat \ {0}
    /\ ReportHold \in Nat \ {0} /\ ReportDegrade \in Nat /\ ReportHold < ReportDegrade
    /\ DebugControls \in BOOLEAN

VARIABLES
    autoTier,         \* what the automatic rules produce
    tier,             \* the effective tier
    override,         \* the forced tier, or "NONE"
    good, bad, minimal, recovery,  \* the four streak counters
    watchdogApplied,  \* this silence episode was already acted on
    reason,
    hasReport,        \* HealthTracker.hasReport
    age,              \* time since the last report, or since the connection
    retune,           \* a token waits in the retune channel
    cadence,          \* the tier the flush ticker is armed for
    row,              \* the last persisted tier transition
    sinceFall,        \* history: reports since autoTier last fell
    sinceRise         \* history: reports since autoTier last rose

machine == <<autoTier, tier, override, watchdogApplied, reason>>
streaks == <<good, bad, minimal, recovery>>
history == <<sinceFall, sinceRise>>
vars == <<machine, streaks, hasReport, age, retune, cadence, row, history>>

Tiers == {"FULL", "DEGRADED", "MINIMAL"}
Bands == {"GOOD", "DEGRADED_BAND", "MINIMAL_BAND"}
Reasons == {"GOOD_HEALTH", "HIGH_RTT", "HIGH_JITTER", "MISSING_REPORTS",
            "FORCED_OVERRIDE", "RECOVERY", "INITIAL"}

\* DeliveryTier.Rank: best to worst, so that a move has a direction.
Rank(t) == IF t = "FULL" THEN 2 ELSE IF t = "DEGRADED" THEN 1 ELSE 0

\* DefaultPolicy.Classify: either measure alone is enough to leave a band.
Classify(rtt, jitter) ==
    IF rtt >= MinimalMin \/ jitter >= MinimalMin THEN "MINIMAL_BAND"
    ELSE IF rtt >= FullMax \/ jitter >= FullMax THEN "DEGRADED_BAND"
    ELSE "GOOD"

\* Mutant: the cap is checked one report too late.
StreakPastCap(n, hit) == IF ~hit THEN 0 ELSE IF n <= StreakCap THEN n + 1 ELSE StreakCap

\* One counter of updateStreaks: counts up to the cap while hit, else restarts.
Streak(n, hit) == IF ~hit THEN 0 ELSE IF n < StreakCap THEN n + 1 ELSE StreakCap

bandReason(band) == IF band = "MINIMAL_BAND" THEN "HIGH_JITTER" ELSE "HIGH_RTT"

oneStepDown(t) == IF t = "FULL" THEN "DEGRADED" ELSE "MINIMAL"

\* Mutant: every streak has to exceed its threshold.
NextTierStrict(t, g, b, m, r) ==
    CASE t = "FULL" /\ b > DegradeStreak -> "DEGRADED"
      [] t = "DEGRADED" /\ m > DegradeStreak -> "MINIMAL"
      [] t = "DEGRADED" /\ m <= DegradeStreak /\ g > RecoverStreak -> "FULL"
      [] t = "MINIMAL" /\ r > RecoverStreak -> "DEGRADED"
      [] OTHER -> t

\* Mutant: a long enough good streak skips DEGRADED on the way up.
NextTierJump(t, g, b, m, r) ==
    CASE t = "FULL" /\ b >= DegradeStreak -> "DEGRADED"
      [] t = "DEGRADED" /\ m >= DegradeStreak -> "MINIMAL"
      [] t # "FULL" /\ m < DegradeStreak /\ g >= RecoverStreak -> "FULL"
      [] OTHER -> t

\* The tier the automatic rules choose after a report, from the new streaks.
NextTier(t, g, b, m, r) ==
    CASE t = "FULL" /\ b >= DegradeStreak -> "DEGRADED"
      [] t = "DEGRADED" /\ m >= DegradeStreak -> "MINIMAL"
      [] t = "DEGRADED" /\ m < DegradeStreak /\ g >= RecoverStreak -> "FULL"
      [] t = "MINIMAL" /\ r >= RecoverStreak -> "DEGRADED"
      [] OTHER -> t

\* The reason that goes with a move of the automatic tier.
MoveReason(from, to, band) ==
    IF Rank(to) < Rank(from) THEN bandReason(band)
    ELSE IF to = "FULL" THEN "GOOD_HEALTH" ELSE "RECOVERY"

\* Mutant: the minimal streak is reported for every bad-health reason.
StreakWrongCounter(why, at, g, b, m, r) ==
    CASE why \in {"HIGH_RTT", "HIGH_JITTER"} -> m
      [] why = "GOOD_HEALTH" -> g
      [] why = "RECOVERY" -> r
      [] OTHER -> 0

\* TierMachine.Streak: the counter behind a reason.
StreakBehind(why, at, g, b, m, r) ==
    CASE why \in {"HIGH_RTT", "HIGH_JITTER"} -> IF at = "MINIMAL" THEN m ELSE b
      [] why = "GOOD_HEALTH" -> g
      [] why = "RECOVERY" -> r
      [] OTHER -> 0

\* HealthTracker.Snapshot: the age is zero until a first report arrives.
ReportAge == IF hasReport THEN age ELSE 0

--------------------------------------------------------------------------------

\* NewTierMachine and NewHealthTracker, and the flush ticker armed on entry to
\* the delivery loop.
Init ==
    /\ autoTier = "FULL" /\ tier = "FULL" /\ override = "NONE"
    /\ good = 0 /\ bad = 0 /\ minimal = 0 /\ recovery = 0
    /\ watchdogApplied = FALSE /\ reason = "INITIAL"
    /\ hasReport = FALSE /\ age = 0
    /\ retune = FALSE /\ cadence = "FULL"
    /\ row = [from |-> "FULL", to |-> "FULL", reason |-> "INITIAL", streak |-> 0]
    /\ sinceFall = StreakCap /\ sinceRise = StreakCap

\* Mutant: the transition is recorded but the ticker is not re-armed.
onTierChangedNoRetune(from, why, streak) ==
    /\ row' = IF tier' # from
              THEN [from |-> from, to |-> tier', reason |-> why, streak |-> streak]
              ELSE row
    /\ UNCHANGED retune

\* onTierChanged: persist the transition and ask for a new cadence.  The send
\* on the one-slot channel never blocks; a token already there is enough.
onTierChanged(from, why, streak) ==
    IF tier' # from
    THEN /\ row' = [from |-> from, to |-> tier', reason |-> why, streak |-> streak]
         /\ retune' = TRUE
    ELSE UNCHANGED <<row, retune>>

\* The history counters after a report that took autoTier to its new value.
CountReport ==
    LET more(n) == IF n < StreakCap THEN n + 1 ELSE StreakCap
    IN  /\ sinceFall' = IF Rank(autoTier') < Rank(autoTier) THEN 0 ELSE more(sinceFall)
        /\ sinceRise' = IF Rank(autoTier') > Rank(autoTier) THEN 0 ELSE more(sinceRise)

\* Mutant: a good report does not end a bad streak.
UpdateStreaksSticky(band) ==
    /\ good' = Streak(good, band = "GOOD")
    /\ bad' = IF band = "GOOD" THEN bad ELSE Streak(bad, TRUE)
    /\ minimal' = Streak(minimal, band = "MINIMAL_BAND")
    /\ recovery' = Streak(recovery, band # "MINIMAL_BAND")

\* updateStreaks
UpdateStreaks(band) ==
    /\ good' = Streak(good, band = "GOOD")
    /\ bad' = Streak(bad, band # "GOOD")
    /\ minimal' = Streak(minimal, band = "MINIMAL_BAND")
    /\ recovery' = Streak(recovery, band # "MINIMAL_BAND")

\* Observe: an override pins the effective tier; the automatic tier, the streaks
\* and the reason move underneath it.
Observe(band) ==
    /\ UpdateStreaks(band)
    /\ watchdogApplied' = FALSE
    /\ autoTier' = NextTier(autoTier, good', bad', minimal', recovery')
    /\ reason' = IF autoTier' # autoTier
                 THEN MoveReason(autoTier, autoTier', band) ELSE reason
    /\ tier' = IF override = "NONE" THEN autoTier' ELSE tier
    /\ UNCHANGED override

\* handleLatencyReport: Ingest, Observe, and the consequences of a new tier.
LatencyReport(rtt, jitter) ==
    /\ hasReport' = TRUE /\ age' = 0
    /\ Observe(Classify(rtt, jitter))
    /\ onTierChanged(tier, reason',
           StreakBehind(reason', autoTier', good', bad', minimal', recovery'))
    /\ CountReport
    /\ UNCHANGED cadence

\* Mutant: a watchdog drop keeps the streaks.
DropToKeepStreaks(target) ==
    /\ autoTier' = target
    /\ reason' = "MISSING_REPORTS"
    /\ tier' = IF override = "NONE" THEN target ELSE tier
    /\ onTierChanged(tier, "MISSING_REPORTS", 0)
    /\ sinceFall' = 0 /\ UNCHANGED <<streaks, sinceRise>>

\* OnMissingReports for a target below autoTier.
DropTo(target) ==
    /\ autoTier' = target
    /\ reason' = "MISSING_REPORTS"
    /\ good' = 0 /\ bad' = 0 /\ minimal' = 0 /\ recovery' = 0
    /\ tier' = IF override = "NONE" THEN target ELSE tier
    /\ onTierChanged(tier, "MISSING_REPORTS", 0)
    /\ sinceFall' = 0 /\ UNCHANGED sinceRise

\* Mutant: once an episode was acted on, no age is acted on again.
WatchdogOnce ==
    LET target == IF ReportAge >= ReportDegrade THEN "MINIMAL" ELSE oneStepDown(autoTier)
    IN  /\ ReportAge >= ReportHold /\ ~watchdogApplied
        /\ watchdogApplied' = TRUE
        /\ IF target = autoTier
           THEN UNCHANGED <<autoTier, tier, reason, streaks, row, retune, sinceFall, sinceRise>>
           ELSE DropTo(target)
        /\ UNCHANGED <<override, hasReport, age, cadence>>

\* The watchdog case of the delivery loop: OnMissingReports at the current age.
\* A target that is already the automatic tier changes nothing but the flag,
\* the streaks included.
WatchdogTick ==
    LET target == IF ReportAge >= ReportDegrade THEN "MINIMAL" ELSE oneStepDown(autoTier)
    IN  /\ \/ ReportAge >= ReportDegrade
           \/ ReportAge >= ReportHold /\ ~watchdogApplied
        /\ watchdogApplied' = TRUE
        /\ IF target = autoTier
           THEN UNCHANGED <<autoTier, tier, reason, streaks, row, retune, sinceFall, sinceRise>>
           ELSE DropTo(target)
        /\ UNCHANGED <<override, hasReport, age, cadence>>

\* Mutant: a forced tier is applied without the side effects of a transition.
ForceUnrecorded(t) ==
    /\ DebugControls
    /\ override' = t
    /\ tier' = t
    /\ reason' = "FORCED_OVERRIDE"
    /\ UNCHANGED <<autoTier, watchdogApplied, streaks, hasReport, age, cadence, history, row, retune>>

\* handleTierOverride with a tier: Force.
ForceTier(t) ==
    /\ DebugControls
    /\ override' = t
    /\ tier' = t
    /\ reason' = "FORCED_OVERRIDE"
    /\ onTierChanged(tier, "FORCED_OVERRIDE", 0)
    /\ UNCHANGED <<autoTier, watchdogApplied, streaks, hasReport, age, cadence, history>>

\* Mutant: clearing the override leaves the forced tier in effect.
ClearOverrideStale ==
    /\ DebugControls
    /\ override # "NONE"
    /\ override' = "NONE"
    /\ reason' = "RECOVERY"
    /\ UNCHANGED <<tier, row, retune>>
    /\ UNCHANGED <<autoTier, watchdogApplied, streaks, hasReport, age, cadence, history>>

\* handleTierOverride with AUTO: ClearOverride.
ClearOverride ==
    /\ DebugControls
    /\ override # "NONE"
    /\ override' = "NONE"
    /\ tier' = autoTier
    /\ reason' = "RECOVERY"
    /\ onTierChanged(tier, "RECOVERY", 0)
    /\ UNCHANGED <<autoTier, watchdogApplied, streaks, hasReport, age, cadence, history>>

\* The retune case: the ticker is reset from the tier of this moment, not from
\* the tier that asked for it.
Retune ==
    /\ retune
    /\ retune' = FALSE
    /\ cadence' = tier
    /\ UNCHANGED <<machine, streaks, hasReport, age, row, history>>

\* Time passes; an age beyond ReportDegrade carries no further information.
TimePasses ==
    /\ age < ReportDegrade
    /\ age' = age + 1
    /\ UNCHANGED <<machine, streaks, hasReport, retune, cadence, row, history>>

Next ==
    \/ \E rtt, jitter \in Samples : LatencyReport(rtt, jitter)
    \/ WatchdogTick
    \/ \E t \in Tiers : ForceTier(t)
    \/ ClearOverride
    \/ Retune
    \/ TimePasses

Spec == Init /\ [][Next]_vars

\* The watchdog ticker and the retune channel are cases of a select that always
\* runs again, so each is taken eventually; clients owe the server nothing.
FairSpec == Spec /\ WF_vars(WatchdogTick) /\ WF_vars(Retune)

--------------------------------------------------------------------------------
(* Properties *)

\* The state a session's tier machine, health tracker and flush ticker can be in.
TypeOK ==
    /\ autoTier \in Tiers /\ tier \in Tiers /\ cadence \in Tiers
    /\ override \in Tiers \cup {"NONE"}
    /\ good \in 0..StreakCap /\ bad \in 0..StreakCap
    /\ minimal \in 0..StreakCap /\ recovery \in 0..StreakCap
    /\ watchdogApplied \in BOOLEAN /\ hasReport \in BOOLEAN /\ retune \in BOOLEAN
    /\ reason \in Reasons
    /\ age \in 0..ReportDegrade
    /\ row \in [from : Tiers, to : Tiers, reason : Reasons, streak : 0..StreakCap]
    /\ sinceFall \in 0..StreakCap /\ sinceRise \in 0..StreakCap

\* Whatever reports, silences and overrides interleave, delivery follows the
\* override while there is one and the automatic tier otherwise: clearing an
\* override never leaves the session on a stale tier.
EffectiveTier == tier = IF override = "NONE" THEN autoTier ELSE override

\* A flush ticker running at another tier's rate has a retune token on its way,
\* although the channel holds one token and tiers can change faster than the
\* loop takes it.
CadenceFollowsTier == cadence # tier => retune

\* The persisted transition rows end at the tier the session delivers at: no
\* path changes the effective tier without a row, forced or automatic.
TimelineIntact == row.to = tier

\* A streak that entitles the session to leave its tier is acted on by the very
\* report that completes it.  DEGRADED is the exception: it can be entered by a
\* streak that already satisfies its own exit, which the next report decides.
NoOverdueMove ==
    /\ autoTier = "FULL" => bad < DegradeStreak
    /\ autoTier = "MINIMAL" => recovery < RecoverStreak
    /\ autoTier = "DEGRADED" => minimal <= DegradeStreak /\ good <= RecoverStreak

\* A persisted row explains itself: a move blamed on health carries a streak at
\* least as long as the policy asks for.
RowExplained ==
    /\ row.reason \in {"HIGH_RTT", "HIGH_JITTER"} => row.streak >= DegradeStreak
    /\ row.reason = "GOOD_HEALTH" => row.streak >= RecoverStreak

\* Recovery is slow: the automatic tier rises only after RecoverStreak reports
\* have arrived since it last fell, whether a report or the watchdog made it fall.
RecoveryEarned ==
    [][Rank(autoTier') > Rank(autoTier) => sinceFall + 1 >= RecoverStreak]_vars

\* One noisy sample never oscillates the tier: a report-driven fall comes at least
\* DegradeStreak reports after the last rise.
FallEarned ==
    [][(Rank(autoTier') < Rank(autoTier) /\ reason' # "MISSING_REPORTS")
          => sinceRise + 1 >= DegradeStreak]_vars

\* Reports move the automatic tier one step at a time in either direction; only
\* silence can take FULL to MINIMAL, and nothing takes MINIMAL to FULL.
OneStepAtATime ==
    [][/\ autoTier = "MINIMAL" => autoTier' # "FULL"
       /\ (autoTier = "FULL" /\ autoTier' = "MINIMAL") => hasReport /\ age >= ReportDegrade]_vars

\* A client that has reported and then falls silent ends up MINIMAL unless it
\* reports again.
SilenceEndsMinimal ==
    (hasReport /\ age = ReportDegrade) ~> (autoTier = "MINIMAL" \/ age < ReportDegrade)

\* A client that keeps reporting good health, and never pauses long enough for
\* the watchdog, is eventually served at FULL for good.
GoodHealthRecovers ==
    (/\ <>[][\A rtt, jitter \in Samples :
                LatencyReport(rtt, jitter) => Classify(rtt, jitter) = "GOOD"]_vars
     /\ <>[](age < ReportHold)
     /\ []<><<\E rtt, jitter \in Samples : LatencyReport(rtt, jitter)>>_vars)
    => <>[](autoTier = "FULL")

\* What the session delivers at, what the machine decided and what the timeline
\* says are one tier, within the types of the machine, after any mixture of
\* reports, silences, overrides and their removal.
TierSound == TypeOK /\ EffectiveTier /\ TimelineIntact

\* Every fall by report is earned since the last rise, moves go one step at a time,
\* and the row that records a move carries the streak that justified it.
MovesJustified == FallEarned /\ OneStepAtATime /\ []RowExplained
================================================================================
