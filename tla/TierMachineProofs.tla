--------------------------- MODULE TierMachineProofs ---------------------------
(***************************************************************************)
(* Proofs about TierMachine, for every choice of thresholds, streaks, cap  *)
(* and report ages that config.Validate accepts.                           *)
(***************************************************************************)
EXTENDS TierMachine, TLAPS

\* How the four streak counters relate to each other and to the reports since
\* the last fall: the strengthening that makes NoOverdueMove and RecoveryEarned
\* inductive.
StreakOrder ==
    /\ minimal <= bad
    /\ good <= recovery
    /\ good = 0 \/ bad = 0
    /\ minimal = 0 \/ recovery = 0
    /\ good <= sinceFall
    /\ autoTier = "MINIMAL" => recovery <= sinceFall

IInv ==
    /\ TypeOK
    /\ EffectiveTier
    /\ CadenceFollowsTier
    /\ TimelineIntact
    /\ StreakOrder
    /\ NoOverdueMove

\* The streak counters stay within the cap.
LEMMA StreakType ==
    ASSUME NEW n \in 0..StreakCap, NEW hit \in BOOLEAN
    PROVE  /\ Streak(n, hit) \in 0..StreakCap
           /\ Streak(n, hit) <= n + 1
           /\ ~hit => Streak(n, hit) = 0
  BY TierAssumption DEF TierAssumption, Streak

\* Classify returns a band.
LEMMA ClassifyType ==
    ASSUME NEW rtt \in Samples, NEW jitter \in Samples
    PROVE  Classify(rtt, jitter) \in Bands
  BY DEF Classify, Bands

\* The Boolean and the persisted parts of TypeOK, apart from the arithmetic.
FlagsOK == watchdogApplied \in BOOLEAN /\ hasReport \in BOOLEAN /\ retune \in BOOLEAN
RowOK == row \in [from : Tiers, to : Tiers, reason : Reasons, streak : 0..StreakCap]
RestOK ==
    /\ autoTier \in Tiers /\ tier \in Tiers /\ cadence \in Tiers
    /\ override \in Tiers \cup {"NONE"}
    /\ good \in 0..StreakCap /\ bad \in 0..StreakCap
    /\ minimal \in 0..StreakCap /\ recovery \in 0..StreakCap
    /\ reason \in Reasons
    /\ age \in 0..ReportDegrade
    /\ sinceFall \in 0..StreakCap /\ sinceRise \in 0..StreakCap

\* TypeOK is the conjunction of its parts.
LEMMA TypeParts == TypeOK <=> FlagsOK /\ RowOK /\ RestOK
  BY Zenon DEF TypeOK, FlagsOK, RowOK, RestOK

\* The same in the next state.
LEMMA TypePartsNext == TypeOK' <=> FlagsOK' /\ RowOK' /\ RestOK'
  BY Zenon DEF TypeOK, FlagsOK, RowOK, RestOK

\* The initial state satisfies the inductive invariant.
LEMMA InitIInv == Init => IInv
  <1> SUFFICES ASSUME Init PROVE IInv
    OBVIOUS
  <1>1. FlagsOK
    BY Zenon DEF Init, FlagsOK
  <1>2. RowOK
    BY TierAssumption DEF TierAssumption, Init, RowOK, Tiers, Reasons
  <1>3. RestOK
    BY TierAssumption DEF TierAssumption, Init, RestOK, Tiers, Reasons
  <1>4. EffectiveTier /\ CadenceFollowsTier /\ TimelineIntact /\ StreakOrder /\ NoOverdueMove
    BY TierAssumption DEF TierAssumption, Init, EffectiveTier, CadenceFollowsTier,
       TimelineIntact, StreakOrder, NoOverdueMove
  <1>5. QED
    BY <1>1, <1>2, <1>3, <1>4, TypeParts DEF IInv

\* A latency report preserves the inductive invariant.
LEMMA ReportIInv ==
    ASSUME IInv, NEW rtt \in Samples, NEW jitter \in Samples, LatencyReport(rtt, jitter)
    PROVE  IInv'
  <1> DEFINE band == Classify(rtt, jitter)
  <1>1. band \in Bands
    BY ClassifyType
  <1>2. /\ good' = Streak(good, band = "GOOD")
        /\ bad' = Streak(bad, band # "GOOD")
        /\ minimal' = Streak(minimal, band = "MINIMAL_BAND")
        /\ recovery' = Streak(recovery, band # "MINIMAL_BAND")
    BY DEF LatencyReport, Observe, UpdateStreaks
  <1>3. /\ good' \in 0..StreakCap /\ bad' \in 0..StreakCap
        /\ minimal' \in 0..StreakCap /\ recovery' \in 0..StreakCap
    BY <1>2, StreakType DEF IInv, TypeOK
  <1>4. autoTier' = NextTier(autoTier, good', bad', minimal', recovery')
    BY DEF LatencyReport, Observe
  <1>5. autoTier' \in Tiers
    BY <1>4 DEF NextTier, Tiers, IInv, TypeOK
  <1>6. /\ minimal' <= bad' /\ good' <= recovery'
        /\ good' = 0 \/ bad' = 0
        /\ minimal' = 0 \/ recovery' = 0
    BY <1>1, <1>2, TierAssumption DEF TierAssumption, Streak, Bands, IInv, TypeOK, StreakOrder
  <1>7. NoOverdueMove'
    BY <1>2, <1>3, <1>4, <1>6, TierAssumption
    DEF TierAssumption, Streak, NextTier, Tiers, IInv, TypeOK, StreakOrder, NoOverdueMove
  <1>8. StreakOrder'
    BY <1>2, <1>3, <1>4, <1>6, TierAssumption
    DEF TierAssumption, Streak, NextTier, Tiers, IInv, TypeOK, StreakOrder, LatencyReport, Observe,
        CountReport, Rank
  <1>9. reason' \in Reasons
    BY DEF LatencyReport, Observe, MoveReason, bandReason, Reasons, IInv, TypeOK
  <1>10. EffectiveTier' /\ tier' \in Tiers
    BY <1>5 DEF LatencyReport, Observe, EffectiveTier, IInv, TypeOK, Tiers
  <1>11. CadenceFollowsTier' /\ TimelineIntact'
    BY DEF LatencyReport, Observe, onTierChanged, IInv, CadenceFollowsTier, TimelineIntact
  <1>12. StreakBehind(reason', autoTier', good', bad', minimal', recovery') \in 0..StreakCap
    BY <1>3, TierAssumption DEF TierAssumption, StreakBehind
  <1>13. RowOK'
    BY <1>9, <1>10, <1>12 DEF LatencyReport, Observe, onTierChanged, IInv, TypeOK, RowOK
  <1>14. FlagsOK'
    BY Zenon DEF LatencyReport, Observe, onTierChanged, IInv, TypeOK, FlagsOK
  <1>15. /\ sinceFall' \in 0..StreakCap /\ sinceRise' \in 0..StreakCap
    BY TierAssumption DEF TierAssumption, LatencyReport, Observe, CountReport, IInv, TypeOK
  <1>16. RestOK'
    BY <1>3, <1>5, <1>9, <1>10, <1>15, TierAssumption
    DEF TierAssumption, TypeOK, RestOK, IInv, LatencyReport, Observe
  <1>17. QED
    BY <1>7, <1>8, <1>10, <1>11, <1>13, <1>16, <1>14, TypePartsNext DEF IInv

\* The watchdog preserves the inductive invariant.
LEMMA WatchdogIInv ==
    ASSUME IInv, WatchdogTick
    PROVE  IInv'
  <1> DEFINE target == IF ReportAge >= ReportDegrade THEN "MINIMAL" ELSE oneStepDown(autoTier)
  <1>1. target \in {"DEGRADED", "MINIMAL"}
    BY DEF oneStepDown
  <1>2. CASE target = autoTier
    BY <1>2, TierAssumption
    DEF TierAssumption, WatchdogTick, IInv, TypeOK, EffectiveTier, CadenceFollowsTier,
        TimelineIntact, StreakOrder, NoOverdueMove, streaks
  <1>3. CASE target # autoTier
    <2>1. DropTo(target)
      BY <1>3 DEF WatchdogTick
    <2>2. TypeOK'
      <3>1. FlagsOK'
        BY <2>1, Zenon DEF WatchdogTick, DropTo, onTierChanged, IInv, TypeOK, FlagsOK
      <3>2. RestOK'
        BY <1>1, <2>1, TierAssumption
        DEF TierAssumption, WatchdogTick, DropTo, IInv, TypeOK, RestOK, Tiers, Reasons
      <3>3. RowOK'
        BY <2>1, <3>2, TierAssumption
        DEF TierAssumption, DropTo, onTierChanged, IInv, TypeOK, RestOK, RowOK, Reasons
      <3>4. QED
        BY <3>1, <3>2, <3>3, TypePartsNext
    <2>3. EffectiveTier' /\ CadenceFollowsTier' /\ TimelineIntact'
      BY <2>1 DEF WatchdogTick, DropTo, onTierChanged, IInv, EffectiveTier,
         CadenceFollowsTier, TimelineIntact
    <2>4. StreakOrder' /\ NoOverdueMove'
      BY <1>1, <2>1, TierAssumption DEF TierAssumption, DropTo, StreakOrder, NoOverdueMove
    <2>5. QED
      BY <2>2, <2>3, <2>4 DEF IInv
  <1>4. QED
    BY <1>2, <1>3

\* Every step preserves the inductive invariant.
LEMMA NextIInv == IInv /\ [Next]_vars => IInv'
  <1> SUFFICES ASSUME IInv, [Next]_vars PROVE IInv'
    OBVIOUS
  <1>1. ASSUME NEW rtt \in Samples, NEW jitter \in Samples, LatencyReport(rtt, jitter)
        PROVE  IInv'
    BY <1>1, ReportIInv
  <1>2. CASE WatchdogTick
    BY <1>2, WatchdogIInv
  <1>3. ASSUME NEW t \in Tiers, ForceTier(t)
        PROVE  IInv'
    <2>1. FlagsOK'
      BY <1>3, Zenon DEF ForceTier, onTierChanged, IInv, TypeOK, FlagsOK
    <2>2. RestOK'
      BY <1>3, TierAssumption
      DEF TierAssumption, ForceTier, IInv, TypeOK, RestOK, streaks, history, Reasons
    <2>3. RowOK'
      BY <1>3, <2>2, TierAssumption
      DEF TierAssumption, ForceTier, onTierChanged, IInv, TypeOK, RowOK, RestOK
    <2>4. EffectiveTier' /\ CadenceFollowsTier' /\ TimelineIntact'
      BY <1>3 DEF ForceTier, onTierChanged, IInv, EffectiveTier, CadenceFollowsTier,
         TimelineIntact, Tiers
    <2>5. StreakOrder' /\ NoOverdueMove'
      BY <1>3 DEF ForceTier, IInv, StreakOrder, NoOverdueMove, streaks, history
    <2>6. QED
      BY <2>1, <2>2, <2>3, <2>4, <2>5, TypePartsNext DEF IInv
  <1>4. CASE ClearOverride
    <2>1. FlagsOK'
      BY <1>4, Zenon DEF ClearOverride, onTierChanged, IInv, TypeOK, FlagsOK
    <2>2. RestOK'
      BY <1>4, TierAssumption
      DEF TierAssumption, ClearOverride, IInv, TypeOK, RestOK, streaks, history, Reasons
    <2>3. RowOK'
      BY <1>4, <2>2, TierAssumption
      DEF TierAssumption, ClearOverride, onTierChanged, IInv, TypeOK, RowOK, RestOK
    <2>4. EffectiveTier' /\ CadenceFollowsTier' /\ TimelineIntact'
      BY <1>4 DEF ClearOverride, onTierChanged, IInv, EffectiveTier, CadenceFollowsTier,
         TimelineIntact
    <2>5. StreakOrder' /\ NoOverdueMove'
      BY <1>4 DEF ClearOverride, IInv, StreakOrder, NoOverdueMove, streaks, history
    <2>6. QED
      BY <2>1, <2>2, <2>3, <2>4, <2>5, TypePartsNext DEF IInv
  <1>5. CASE Retune
    BY <1>5 DEF Retune, IInv, TypeOK, EffectiveTier, CadenceFollowsTier, TimelineIntact,
       StreakOrder, NoOverdueMove, machine, streaks, history
  <1>6. CASE TimePasses
    BY <1>6, TierAssumption
    DEF TierAssumption, TimePasses, IInv, TypeOK, EffectiveTier, CadenceFollowsTier,
        TimelineIntact, StreakOrder, NoOverdueMove, machine, streaks, history
  <1>7. CASE UNCHANGED vars
    BY <1>7 DEF vars, IInv, TypeOK, EffectiveTier, CadenceFollowsTier, TimelineIntact,
       StreakOrder, NoOverdueMove, machine, streaks, history
  <1>8. QED
    BY <1>1, <1>2, <1>3, <1>4, <1>5, <1>6, <1>7 DEF Next

\* The inductive invariant holds in every behaviour.
THEOREM Invariance == Spec => []IInv
  BY InitIInv, NextIInv, PTL DEF Spec

\* The tier machine's variables keep their types.
THEOREM TypeCorrect == Spec => []TypeOK
  <1>1. IInv => TypeOK
    BY DEF IInv
  <1>2. QED
    BY <1>1, Invariance, PTL

\* Delivery follows the override, or else the automatic tier.
THEOREM EffectiveTierCorrect == Spec => []EffectiveTier
  <1>1. IInv => EffectiveTier
    BY DEF IInv
  <1>2. QED
    BY <1>1, Invariance, PTL

\* The flush ticker runs at the effective tier's rate or is about to.
THEOREM CadenceCorrect == Spec => []CadenceFollowsTier
  <1>1. IInv => CadenceFollowsTier
    BY DEF IInv
  <1>2. QED
    BY <1>1, Invariance, PTL

\* The persisted transitions end at the effective tier.
THEOREM TimelineCorrect == Spec => []TimelineIntact
  <1>1. IInv => TimelineIntact
    BY DEF IInv
  <1>2. QED
    BY <1>1, Invariance, PTL

\* No completed streak is left waiting.
THEOREM NoOverdueMoveCorrect == Spec => []NoOverdueMove
  <1>1. IInv => NoOverdueMove
    BY DEF IInv
  <1>2. QED
    BY <1>1, Invariance, PTL

\* Recovery is slow: a rise takes RecoverStreak reports since the last fall.
THEOREM RecoveryEarnedCorrect == Spec => RecoveryEarned
  <1>1. IInv /\ [Next]_vars =>
          [Rank(autoTier') > Rank(autoTier) => sinceFall + 1 >= RecoverStreak]_vars
    <2> SUFFICES ASSUME IInv, Next, Rank(autoTier') > Rank(autoTier)
                 PROVE  sinceFall + 1 >= RecoverStreak
      OBVIOUS
    <2>1. ASSUME NEW rtt \in Samples, NEW jitter \in Samples, LatencyReport(rtt, jitter)
          PROVE  sinceFall + 1 >= RecoverStreak
      <3>1. /\ good' = Streak(good, Classify(rtt, jitter) = "GOOD")
            /\ recovery' = Streak(recovery, Classify(rtt, jitter) # "MINIMAL_BAND")
            /\ autoTier' = NextTier(autoTier, good', bad', minimal', recovery')
        BY <2>1 DEF LatencyReport, Observe, UpdateStreaks
      <3>2. good' \in Nat /\ recovery' \in Nat /\ good' <= good + 1 /\ recovery' <= recovery + 1
        BY <3>1, TierAssumption DEF TierAssumption, Streak, IInv, TypeOK
      <3>3. \/ autoTier = "DEGRADED" /\ good' >= RecoverStreak
            \/ autoTier = "MINIMAL" /\ recovery' >= RecoverStreak
        BY <3>1 DEF NextTier, Rank, Tiers, IInv, TypeOK
      <3>4. QED
        BY <3>2, <3>3, TierAssumption DEF TierAssumption, IInv, StreakOrder, TypeOK
    <2>2. CASE WatchdogTick
      BY <2>2, TierAssumption
      DEF TierAssumption, WatchdogTick, DropTo, oneStepDown, Rank, IInv, TypeOK, Tiers
    <2>3. ASSUME UNCHANGED autoTier PROVE FALSE
      BY <2>3 DEF Rank
    <2>4. QED
      BY <2>1, <2>2, <2>3 DEF Next, ForceTier, ClearOverride, Retune, TimePasses, machine
  <1>2. QED
    BY <1>1, Invariance, PTL DEF Spec, RecoveryEarned

\* Machine, session and timeline agree on the tier, for every setting.
THEOREM TierSoundCorrect == Spec => []TierSound
  <1>1. IInv => TierSound
    BY DEF IInv, TierSound
  <1>2. QED
    BY <1>1, Invariance, PTL

\* How the counters of bad health relate to the reports since the last rise, and that
\* the persisted row carries the streak behind it: what MovesJustified needs beyond IInv.
FallOrder ==
    /\ minimal <= sinceRise
    /\ autoTier = "FULL" => bad <= sinceRise

\* A latency report keeps the counters of bad health within the reports since the last
\* rise, because a rise ends both of them.
LEMMA ReportFallOrder ==
    ASSUME IInv, FallOrder, NEW rtt \in Samples, NEW jitter \in Samples,
           LatencyReport(rtt, jitter)
    PROVE  FallOrder'
  <1> DEFINE band == Classify(rtt, jitter)
  <1>1. /\ good' = Streak(good, band = "GOOD")
        /\ bad' = Streak(bad, band # "GOOD")
        /\ minimal' = Streak(minimal, band = "MINIMAL_BAND")
        /\ recovery' = Streak(recovery, band # "MINIMAL_BAND")
        /\ autoTier' = NextTier(autoTier, good', bad', minimal', recovery')
    BY DEF LatencyReport, Observe, UpdateStreaks
  <1>2. StreakOrder' /\ TypeOK'
    BY ReportIInv DEF IInv
  <1>3. CASE Rank(autoTier') > Rank(autoTier)
    <2>1. \/ autoTier' = "FULL" /\ good' > 0
          \/ autoTier' = "DEGRADED" /\ recovery' > 0
      BY <1>1, <1>2, <1>3, TierAssumption
      DEF TierAssumption, NextTier, Rank, Tiers, IInv, TypeOK
    <2>2. minimal' = 0 /\ (autoTier' = "FULL" => bad' = 0)
      BY <1>2, <2>1 DEF StreakOrder, TypeOK
    <2>3. sinceRise' = 0
      BY <1>3 DEF LatencyReport, CountReport
    <2>4. QED
      BY <2>2, <2>3 DEF FallOrder
  <1>4. CASE ~(Rank(autoTier') > Rank(autoTier))
    <2>1. sinceRise' = IF sinceRise < StreakCap THEN sinceRise + 1 ELSE StreakCap
      BY <1>4 DEF LatencyReport, CountReport
    <2>2. autoTier' = "FULL" => autoTier = "FULL"
      BY <1>4 DEF Rank, Tiers, IInv, TypeOK
    <2>3. minimal' <= sinceRise'
      BY <1>1, <2>1, TierAssumption DEF TierAssumption, Streak, FallOrder, IInv, TypeOK
    <2>4. autoTier = "FULL" => bad' <= sinceRise'
      BY <1>1, <2>1, TierAssumption DEF TierAssumption, Streak, FallOrder, IInv, TypeOK
    <2>5. QED
      BY <2>2, <2>3, <2>4 DEF FallOrder
  <1>5. QED
    BY <1>3, <1>4

\* A latency report persists a row only with the streak its reason speaks of.
LEMMA ReportRow ==
    ASSUME IInv, RowExplained, NEW rtt \in Samples, NEW jitter \in Samples,
           LatencyReport(rtt, jitter)
    PROVE  RowExplained'
  <1> DEFINE streak == StreakBehind(reason', autoTier', good', bad', minimal', recovery')
  <1>1. CASE tier' = tier
    BY <1>1 DEF LatencyReport, onTierChanged, RowExplained
  <1>2. CASE tier' # tier
    <2>1. row' = [from |-> tier, to |-> tier', reason |-> reason', streak |-> streak]
      BY <1>2 DEF LatencyReport, onTierChanged
    <2>2. /\ autoTier' # autoTier
          /\ autoTier' = NextTier(autoTier, good', bad', minimal', recovery')
          /\ reason' = MoveReason(autoTier, autoTier', Classify(rtt, jitter))
      BY <1>2 DEF LatencyReport, Observe, IInv, EffectiveTier
    <2>3. \/ autoTier = "FULL" /\ autoTier' = "DEGRADED" /\ bad' >= DegradeStreak
          \/ autoTier = "DEGRADED" /\ autoTier' = "MINIMAL" /\ minimal' >= DegradeStreak
          \/ autoTier = "DEGRADED" /\ autoTier' = "FULL" /\ good' >= RecoverStreak
          \/ autoTier = "MINIMAL" /\ autoTier' = "DEGRADED"
      BY <2>2 DEF NextTier
    <2>4. /\ reason' \in {"HIGH_RTT", "HIGH_JITTER"} => streak >= DegradeStreak
          /\ reason' = "GOOD_HEALTH" => streak >= RecoverStreak
      BY <2>2, <2>3 DEF MoveReason, bandReason, Rank, StreakBehind
    <2>5. QED
      BY <2>1, <2>4 DEF RowExplained
  <1>3. QED
    BY <1>1, <1>2

\* Every step keeps the counters ordered and the persisted row explained.
LEMMA NextJustified ==
    ASSUME IInv, FallOrder, RowExplained, [Next]_vars
    PROVE  FallOrder' /\ RowExplained'
  <1>1. ASSUME NEW rtt \in Samples, NEW jitter \in Samples, LatencyReport(rtt, jitter)
        PROVE  FallOrder' /\ RowExplained'
    BY <1>1, ReportFallOrder, ReportRow
  <1>2. CASE WatchdogTick
    <2> DEFINE target == IF ReportAge >= ReportDegrade THEN "MINIMAL" ELSE oneStepDown(autoTier)
    <2>1. CASE target = autoTier
      BY <1>2, <2>1 DEF WatchdogTick, FallOrder, RowExplained, streaks
    <2>2. CASE target # autoTier
      <3>1. DropTo(target)
        BY <1>2, <2>2 DEF WatchdogTick
      <3>2. QED
        BY <3>1 DEF DropTo, onTierChanged, FallOrder, RowExplained, IInv, TypeOK
    <2>3. QED
      BY <2>1, <2>2
  <1>3. ASSUME NEW t \in Tiers, ForceTier(t)
        PROVE  FallOrder' /\ RowExplained'
    BY <1>3 DEF ForceTier, onTierChanged, FallOrder, RowExplained, streaks, history
  <1>4. CASE ClearOverride
    BY <1>4 DEF ClearOverride, onTierChanged, FallOrder, RowExplained, streaks, history
  <1>5. CASE Retune \/ TimePasses \/ UNCHANGED vars
    BY <1>5 DEF Retune, TimePasses, vars, machine, streaks, history, FallOrder, RowExplained
  <1>6. QED
    BY <1>1, <1>2, <1>3, <1>4, <1>5 DEF Next

\* A report takes the tier down only after DegradeStreak reports since the last rise.
LEMMA FallStep ==
    ASSUME IInv, FallOrder, Next, Rank(autoTier') < Rank(autoTier),
           reason' # "MISSING_REPORTS"
    PROVE  sinceRise + 1 >= DegradeStreak
  <1>1. ASSUME NEW rtt \in Samples, NEW jitter \in Samples, LatencyReport(rtt, jitter)
        PROVE  sinceRise + 1 >= DegradeStreak
    <2>1. /\ bad' = Streak(bad, Classify(rtt, jitter) # "GOOD")
          /\ minimal' = Streak(minimal, Classify(rtt, jitter) = "MINIMAL_BAND")
          /\ autoTier' = NextTier(autoTier, good', bad', minimal', recovery')
      BY <1>1 DEF LatencyReport, Observe, UpdateStreaks
    <2>2. bad' \in Nat /\ minimal' \in Nat /\ bad' <= bad + 1 /\ minimal' <= minimal + 1
      BY <2>1, TierAssumption DEF TierAssumption, Streak, IInv, TypeOK
    <2>3. \/ autoTier = "FULL" /\ bad' >= DegradeStreak
          \/ autoTier = "DEGRADED" /\ minimal' >= DegradeStreak
      BY <2>1 DEF NextTier, Rank, Tiers, IInv, TypeOK
    <2>4. QED
      BY <2>2, <2>3, TierAssumption DEF TierAssumption, IInv, FallOrder, TypeOK
  <1>2. ASSUME UNCHANGED autoTier PROVE FALSE
    BY <1>2 DEF Rank
  <1>3. CASE WatchdogTick
    BY <1>2, <1>3 DEF WatchdogTick, DropTo
  <1>4. QED
    BY <1>1, <1>2, <1>3 DEF Next, ForceTier, ClearOverride, Retune, TimePasses, machine

\* Reports move the tier one step, and only a long silence moves it two.
LEMMA OneStep ==
    ASSUME IInv, Next
    PROVE  /\ autoTier = "MINIMAL" => autoTier' # "FULL"
           /\ (autoTier = "FULL" /\ autoTier' = "MINIMAL") => hasReport /\ age >= ReportDegrade
  <1>1. ASSUME NEW rtt \in Samples, NEW jitter \in Samples, LatencyReport(rtt, jitter)
        PROVE  /\ autoTier = "MINIMAL" => autoTier' # "FULL"
               /\ autoTier = "FULL" => autoTier' # "MINIMAL"
    <2>1. autoTier' = NextTier(autoTier, good', bad', minimal', recovery')
      BY <1>1 DEF LatencyReport, Observe
    <2>2. QED
      BY <2>1 DEF NextTier
  <1>2. CASE WatchdogTick
    <2>1. autoTier' = "FULL" => autoTier = "FULL"
      BY <1>2 DEF WatchdogTick, DropTo, oneStepDown
    <2>2. autoTier = "FULL" /\ autoTier' = "MINIMAL" => ReportAge >= ReportDegrade
      BY <1>2 DEF WatchdogTick, DropTo, oneStepDown
    <2>3. ReportAge >= ReportDegrade => hasReport /\ age >= ReportDegrade
      BY TierAssumption DEF TierAssumption, ReportAge
    <2>4. QED
      BY <2>1, <2>2, <2>3
  <1>3. CASE UNCHANGED autoTier
    BY <1>3
  <1>4. QED
    BY <1>1, <1>2, <1>3 DEF Next, ForceTier, ClearOverride, Retune, TimePasses, machine

\* Every fall by report is earned since the last rise, moves go one step at a time and
\* rows explain themselves, for every setting (Observe, OnMissingReports, Streak).
THEOREM MovesJustifiedCorrect == Spec => MovesJustified
  <1>1. Init => FallOrder /\ RowExplained
    BY TierAssumption DEF TierAssumption, Init, FallOrder, RowExplained
  <1>2. IInv /\ FallOrder /\ RowExplained /\ [Next]_vars => FallOrder' /\ RowExplained'
    BY NextJustified
  <1>3. Spec => [](IInv /\ FallOrder /\ RowExplained)
    BY <1>1, <1>2, Invariance, PTL DEF Spec
  <1>4. IInv /\ FallOrder /\ [Next]_vars =>
          [(Rank(autoTier') < Rank(autoTier) /\ reason' # "MISSING_REPORTS")
              => sinceRise + 1 >= DegradeStreak]_vars
    BY FallStep
  <1>5. IInv /\ [Next]_vars =>
          [/\ autoTier = "MINIMAL" => autoTier' # "FULL"
           /\ (autoTier = "FULL" /\ autoTier' = "MINIMAL")
                 => hasReport /\ age >= ReportDegrade]_vars
    BY OneStep
  <1>6. QED
    BY <1>3, <1>4, <1>5, PTL DEF Spec, MovesJustified, FallEarned, OneStepAtATime
================================================================================
