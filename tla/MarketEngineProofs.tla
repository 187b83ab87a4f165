-------------------------- MODULE MarketEngineProofs --------------------------
(***************************************************************************)
(* Proofs about MarketEngine, for every size of the rings and any number   *)
(* of handlers, trades and controls.                                       *)
(***************************************************************************)
EXTENDS MarketEngine, FiniteSetTheorems, SequenceTheorems, WellFoundedInduction, TLAPS

(* ------------------------------- the controls ------------------------------ *)

Publishers == Callers \cup {Run}

Offers == {<<>>, <<"read">>} \cup (States \X Nat)
Providers == [pc : {"wait", "send"}, paused : BOOLEAN, closed : BOOLEAN, left : Int]

\* The part of the state the controls touch keeps its types.
ControlTypes ==
    /\ state \in States /\ epoch \in Nat
    /\ engine \in {"start", "warmup", "loop", "event", "tick", "ended"}
    /\ provider \in Providers
    /\ ctl \in [Callers -> {"idle", "PAUSED", "LIVE", "publish"}]
    /\ pub \in [Publishers -> Offers]
    /\ after \in Nat /\ overlap \in BOOLEAN

\* An event is applied in the PAUSED state only if it was checked before the pause,
\* and there is no such event left once one was applied.
PauseInv ==
    /\ after <= 1
    /\ state # "PAUSED" => after = 0
    /\ engine \in {"event", "tick"} => after = 0

\* A handler publishes exactly when it holds a status.
HoldsStatus == \A c \in Callers : ctl[c] = "publish" <=> pub[c] # <<>>

\* The state and the provider agree on the pause.
Agree == (state = "PAUSED") = provider.paused

\* A status under way is not yet read, or still the engine's.
Fresh(p) == p = <<"read">> \/ p = <<state, epoch>>

\* Before the loop starts no control was called.
Untouched ==
    engine \in {"start", "warmup"} =>
        CallersIdle /\ (\A a \in Publishers : pub[a] = <<>>) /\ ~provider.paused

\* While Run publishes LIVE no control is under way.
RunPublishes ==
    Looping /\ pub[Run] # <<>> =>
        CallersIdle /\ state = "LIVE" /\ ~provider.paused /\ Fresh(pub[Run])

\* At most one control is under way, and it goes on from the step before.
OneControl ==
    Looping /\ pub[Run] = <<>> =>
        /\ \A c, d \in Callers : ctl[c] # "idle" /\ ctl[d] # "idle" => c = d
        /\ \A c \in Callers :
              /\ ctl[c] = "PAUSED" => provider.paused
              /\ ctl[c] = "LIVE" => ~provider.paused
              /\ ctl[c] = "publish" => Agree /\ Fresh(pub[c])
        /\ CallersIdle => Agree /\ shown = <<state, epoch>>

\* The inductive invariant of the controls.
ControlInv ==
    /\ ControlTypes /\ PauseInv /\ HoldsStatus
    /\ ~overlap => Untouched /\ RunPublishes /\ OneControl

\* A status is told apart from an empty place and from one that is not read yet.
LEMMA Statuses ==
    /\ <<"read">> # <<>>
    /\ \A s \in States, e \in Nat : <<s, e>> # <<>> /\ <<s, e>> # <<"read">> /\ Len(<<s, e>>) = 2
    /\ Len(<<"read">>) = 1 /\ Len(<<>>) = 0
    /\ <<>> \in Offers /\ <<"read">> \in Offers
    /\ \A s \in States, e \in Nat : <<s, e>> \in Offers
    /\ \A p \in Offers : Len(p) = 2 => p # <<>> /\ p # <<"read">>
  <1>1. <<"read">> # <<>> /\ Len(<<"read">>) = 1 /\ Len(<<>>) = 0
    OBVIOUS
  <1>2. ASSUME NEW s \in States, NEW e \in Nat
        PROVE  <<s, e>> # <<>> /\ <<s, e>> # <<"read">> /\ Len(<<s, e>>) = 2
    OBVIOUS
  <1> QED BY <1>1, <1>2 DEF Offers

\* The run's own name is no handler's.
LEMMA RunApart == Run \in Publishers /\ Callers \subseteq Publishers /\ Run \notin Callers
  BY EngineAssumption DEF Run, Publishers

\* The engine's own steps before the loop.
LEMMA BootKeeps ==
    ASSUME ControlInv, StartWarmup \/ WarmupEvent \/ GoLive
    PROVE  ControlInv'
  <1> USE RunApart, Statuses DEF Untouched, RunPublishes, OneControl, CallersIdle, Looping,
          Agree, Fresh, HoldsStatus, PauseInv, SetState
  <1>1. CASE StartWarmup
    <2>1. ControlTypes'
      BY <1>1 DEF ControlInv, ControlTypes, StartWarmup, ctlVars, feedVars, States
    <2> QED BY <1>1, <2>1 DEF ControlInv, ControlTypes, StartWarmup, ctlVars, feedVars
  <1>2. CASE WarmupEvent
    <2>1. ControlTypes'
      BY <1>2 DEF ControlInv, ControlTypes, WarmupEvent, ctlVars
    <2> QED BY <1>2, <2>1 DEF ControlInv, ControlTypes, WarmupEvent, ctlVars
  <1>3. CASE GoLive
    <2>1. ControlTypes'
      BY <1>3 DEF ControlInv, ControlTypes, GoLive, ctlVars, feedVars, States, Publishers
    <2> QED BY <1>3, <2>1 DEF ControlInv, ControlTypes, GoLive, ctlVars, feedVars
  <1> QED BY <1>1, <1>2, <1>3

\* The loop: a checked event is applied at most once after a pause.
LEMMA LoopKeeps ==
    ASSUME ControlInv, TakeEvent \/ TakeTick \/ ApplyEvent \/ Stop
    PROVE  ControlInv'
  <1> USE RunApart, Statuses DEF Untouched, RunPublishes, OneControl, CallersIdle, Looping,
          Agree, Fresh, HoldsStatus, PauseInv, SetState, LoopReady
  <1>1. CASE TakeEvent
    <2>1. ControlTypes'
      BY <1>1 DEF ControlInv, ControlTypes, TakeEvent, ctlVars
    <2> QED BY <1>1, <2>1 DEF ControlInv, ControlTypes, TakeEvent, ctlVars
  <1>2. CASE TakeTick
    <2>1. ControlTypes'
      BY <1>2 DEF ControlInv, ControlTypes, TakeTick, ctlVars, feedVars
    <2> QED BY <1>2, <2>1 DEF ControlInv, ControlTypes, TakeTick, ctlVars, feedVars
  <1>3. CASE ApplyEvent
    <2>1. ControlTypes'
      BY <1>3 DEF ControlInv, ControlTypes, ApplyEvent, ctlVars, feedVars
    <2> QED BY <1>3, <2>1 DEF ControlInv, ControlTypes, ApplyEvent, ctlVars, feedVars
  <1>4. CASE Stop
    <2>1. ControlTypes'
      BY <1>4 DEF ControlInv, ControlTypes, Stop, ctlVars, feedVars, States, Publishers
    <2> QED BY <1>4, <2>1 DEF ControlInv, ControlTypes, Stop, ctlVars, feedVars
  <1> QED BY <1>1, <1>2, <1>3, <1>4

\* The provider's steps leave its pause alone.
LEMMA ProviderKeeps ==
    ASSUME ControlInv, Generate \/ Emit \/ CloseStream
    PROVE  ControlInv'
  <1>1. provider' \in Providers
    <2>1. CASE Generate
      <3>1. provider.left - 1 \in Int
        BY DEF ControlInv, ControlTypes, Providers
      <3> QED BY <2>1, <3>1 DEF ControlInv, ControlTypes, Providers, Generate
    <2>2. CASE Emit
      BY <2>2 DEF ControlInv, ControlTypes, Providers, Emit
    <2>3. CASE CloseStream
      BY <2>3 DEF ControlInv, ControlTypes, Providers, CloseStream
    <2> QED BY <2>1, <2>2, <2>3
  <1>2. provider'.paused = provider.paused
    BY DEF ControlInv, ControlTypes, Providers, Generate, Emit, CloseStream
  <1>3. UNCHANGED <<state, epoch, engine, ctl, pub, shown, after, overlap>>
    BY DEF Generate, Emit, CloseStream, runVars, ctlVars
  <1> QED BY <1>1, <1>2, <1>3 DEF ControlInv, ControlTypes, PauseInv, HoldsStatus, Untouched,
        RunPublishes, OneControl, CallersIdle, Looping, Agree, Fresh

\* The first step of a control.
LEMMA CallKeeps ==
    ASSUME ControlInv, NEW c \in Callers, Pause(c) \/ Resume(c) \/ Reset(c)
    PROVE  ControlInv'
  <1> USE RunApart, Statuses DEF Untouched, RunPublishes, OneControl, CallersIdle, Looping,
          Agree, Fresh, HoldsStatus, PauseInv, Call
  <1>1. CASE Pause(c)
    <2>1. provider' \in Providers /\ provider'.paused = TRUE
      BY <1>1 DEF ControlInv, ControlTypes, Providers, Pause
    <2>2. ControlTypes'
      BY <1>1, <2>1 DEF ControlInv, ControlTypes, Pause, runVars
    <2>3. PauseInv' /\ HoldsStatus'
      BY <1>1 DEF ControlInv, ControlTypes, Pause, runVars
    <2>4. ~overlap' => Untouched'
      BY <1>1 DEF ControlInv, ControlTypes, Pause, runVars
    <2>5. ~overlap' => RunPublishes'
      BY <1>1 DEF ControlInv, ControlTypes, Pause, runVars
    <2>6. ~overlap' => OneControl'
      BY <1>1, <2>1 DEF ControlInv, ControlTypes, Pause, runVars
    <2> QED BY <2>2, <2>3, <2>4, <2>5, <2>6 DEF ControlInv
  <1>2. CASE Resume(c)
    <2>1. provider' \in Providers /\ provider'.paused = FALSE
      BY <1>2 DEF ControlInv, ControlTypes, Providers, Resume
    <2>2. ControlTypes'
      BY <1>2, <2>1 DEF ControlInv, ControlTypes, Resume, runVars
    <2>3. PauseInv' /\ HoldsStatus'
      BY <1>2 DEF ControlInv, ControlTypes, Resume, runVars
    <2>4. ~overlap' => Untouched'
      BY <1>2 DEF ControlInv, ControlTypes, Resume, runVars
    <2>5. ~overlap' => RunPublishes'
      BY <1>2 DEF ControlInv, ControlTypes, Resume, runVars
    <2>6. ~overlap' => OneControl'
      BY <1>2, <2>1 DEF ControlInv, ControlTypes, Resume, runVars
    <2> QED BY <2>2, <2>3, <2>4, <2>5, <2>6 DEF ControlInv
  <1>3. CASE Reset(c)
    <2>1. /\ ctl' = [ctl EXCEPT ![c] = "publish"] /\ pub' = [pub EXCEPT ![c] = <<"read">>]
          /\ epoch' = epoch + 1 /\ UNCHANGED <<state, provider, after, engine, shown>>
          /\ ctl[c] = "idle"
          /\ overlap' = (overlap \/ ~CallersIdle \/ ~Looping \/ pub[Run] # <<>>)
      BY <1>3 DEF Reset, runVars
    <2>2. ctl' \in [Callers -> {"idle", "PAUSED", "LIVE", "publish"}]
      BY <2>1 DEF ControlInv, ControlTypes
    <2>3. pub' \in [Publishers -> Offers]
      BY <2>1 DEF ControlInv, ControlTypes
    <2>4. ControlTypes'
      BY <2>1, <2>2, <2>3 DEF ControlInv, ControlTypes
    <2>5. PauseInv' /\ HoldsStatus'
      BY <2>1 DEF ControlInv, ControlTypes
    <2>6. ~overlap' => Untouched'
      BY <2>1 DEF ControlInv, ControlTypes
    <2>7. ~overlap' => RunPublishes'
      BY <2>1 DEF ControlInv, ControlTypes
    <2>8. ~overlap' => OneControl'
      BY <2>1 DEF ControlInv, ControlTypes
    <2> QED BY <2>4, <2>5, <2>6, <2>7, <2>8 DEF ControlInv
  <1> QED BY <1>1, <1>2, <1>3

\* The second step of Pause and Resume.
LEMMA ControlStateKeeps ==
    ASSUME ControlInv, NEW c \in Callers, ControlState(c)
    PROVE  ControlInv'
  <1> USE RunApart, Statuses DEF Untouched, RunPublishes, OneControl, CallersIdle, Looping,
          Agree, Fresh, HoldsStatus, PauseInv, SetState
  <1>1. /\ ctl' = [ctl EXCEPT ![c] = "publish"] /\ pub' = [pub EXCEPT ![c] = <<"read">>]
        /\ state' = ctl[c] /\ ctl[c] \in {"PAUSED", "LIVE"}
        /\ after' = IF ctl[c] = "PAUSED" THEN after ELSE 0
        /\ UNCHANGED <<provider, epoch, engine, shown, overlap>>
    BY DEF ControlState, runVars, feedVars
  <1>2. ctl' \in [Callers -> {"idle", "PAUSED", "LIVE", "publish"}]
    BY <1>1 DEF ControlInv, ControlTypes
  <1>3. pub' \in [Publishers -> Offers]
    BY <1>1 DEF ControlInv, ControlTypes
  <1>4. state' \in States /\ after' \in Nat
    BY <1>1 DEF ControlInv, ControlTypes, States
  <1>5. ControlTypes'
    BY <1>1, <1>2, <1>3, <1>4 DEF ControlInv, ControlTypes
  <1>6. PauseInv' /\ HoldsStatus'
    BY <1>1 DEF ControlInv, ControlTypes
  <1>7. ~overlap => Untouched'
    BY <1>1 DEF ControlInv, ControlTypes
  <1>8. ~overlap => RunPublishes'
    BY <1>1 DEF ControlInv, ControlTypes
  <1>9. ~overlap => OneControl'
    <2> SUFFICES ASSUME ~overlap, Looping', pub'[Run] = <<>> PROVE OneControl'
      BY DEF OneControl
    <2>1. /\ Looping /\ pub[Run] = <<>> /\ OneControl
          /\ \A d \in Callers : d # c => ctl[d] = "idle" /\ ctl'[d] = "idle"
      BY <1>1 DEF ControlInv, ControlTypes
    <2>2. Agree'
      <3>1. provider.paused \in BOOLEAN
        BY DEF ControlInv, ControlTypes, Providers
      <3>2. provider.paused = (ctl[c] = "PAUSED")
        BY <1>1, <2>1, <3>1
      <3> QED BY <1>1, <3>2
    <2>3. ctl'[c] = "publish" /\ Fresh(pub[c])'
      BY <1>1 DEF ControlInv, ControlTypes
    <2> QED BY <2>1, <2>2, <2>3
  <1> QED BY <1>1, <1>5, <1>6, <1>7, <1>8, <1>9 DEF ControlInv

\* The two steps of publishStatus.
LEMMA StatusKeeps ==
    ASSUME ControlInv, NEW a \in Publishers, ReadStatus(a) \/ SendStatus(a)
    PROVE  ControlInv'
  <1> USE RunApart, Statuses DEF Untouched, RunPublishes, OneControl, CallersIdle, Looping,
          Agree, Fresh, HoldsStatus, PauseInv
  <1>1. CASE ReadStatus(a)
    <2>1. ControlTypes'
      BY <1>1 DEF ControlInv, ControlTypes, ReadStatus, runVars, feedVars, ctlVars, Publishers
    <2> QED BY <1>1, <2>1 DEF ControlInv, ControlTypes, ReadStatus, runVars, feedVars, ctlVars
  <1>2. CASE SendStatus(a)
    <2>1. ctl' \in [Callers -> {"idle", "PAUSED", "LIVE", "publish"}]
      BY <1>2 DEF ControlInv, ControlTypes, SendStatus
    <2>2. pub' \in [Publishers -> Offers]
      BY <1>2 DEF ControlInv, ControlTypes, SendStatus
    <2>3. ControlTypes'
      BY <1>2, <2>1, <2>2 DEF ControlInv, ControlTypes, SendStatus, runVars, feedVars
    <2>4. pub[a] # <<>> /\ pub[a] # <<"read">> /\ a \in DOMAIN pub /\ DOMAIN ctl = Callers
      BY <1>2 DEF ControlInv, ControlTypes, SendStatus
    <2>5. PauseInv'
      BY <1>2 DEF ControlInv, SendStatus, runVars
    <2>6. HoldsStatus'
      BY <1>2, <2>4 DEF ControlInv, SendStatus
    <2>7. UNCHANGED <<state, epoch, provider, engine, overlap>>
      BY <1>2 DEF SendStatus, runVars, feedVars
    <2>8. ~overlap => Untouched'
      BY <1>2, <2>4, <2>7 DEF ControlInv, SendStatus
    <2>9. ~overlap => RunPublishes' /\ OneControl'
      <3>1. CASE a = Run
        <4>1. ~overlap /\ Looping => /\ state = "LIVE" /\ CallersIdle' /\ shown' = <<state, epoch>>
                                     /\ ~provider.paused
          BY <1>2, <2>4, <2>7, <3>1 DEF ControlInv, SendStatus
        <4>2. ~overlap /\ Looping => Agree'
          BY <2>7, <4>1 DEF ControlInv, ControlTypes, Providers
        <4>3. pub'[Run] = <<>>
          BY <1>2, <2>4, <3>1 DEF SendStatus
        <4> QED BY <2>7, <4>1, <4>2, <4>3
      <3>2. CASE a # Run
        <4>1. a \in Callers /\ ctl[a] = "publish" /\ pub'[Run] = pub[Run]
          BY <1>2, <2>4, <3>2 DEF ControlInv, SendStatus, Publishers
        <4>2. ~overlap => RunPublishes'
          BY <1>2, <2>4, <2>7, <4>1 DEF ControlInv, SendStatus
        <4>3. ~overlap => OneControl'
          BY <1>2, <2>4, <2>7, <3>2, <4>1 DEF ControlInv, SendStatus
        <4> QED BY <4>2, <4>3
      <3> QED BY <3>1, <3>2
    <2> QED BY <2>3, <2>5, <2>6, <2>7, <2>8, <2>9 DEF ControlInv
  <1> QED BY <1>1, <1>2

\* The controls' invariant holds in every state.
THEOREM ControlInvariant == Spec => []ControlInv
  <1>1. Init => ControlInv
    <2> SUFFICES ASSUME Init PROVE ControlInv
      OBVIOUS
    <2>1. provider \in Providers
      BY EngineAssumption DEF Init, Providers
    <2>2. pub \in [Publishers -> Offers]
      BY Statuses DEF Init, Publishers
    <2>3. ControlTypes
      BY <2>1, <2>2 DEF Init, ControlTypes, States
    <2> QED BY <2>3, RunApart DEF Init, ControlInv, PauseInv, HoldsStatus, Untouched,
          RunPublishes, OneControl, CallersIdle, Looping, Publishers
  <1>2. ControlInv /\ [Next]_vars => ControlInv'
    <2> SUFFICES ASSUME ControlInv, [Next]_vars PROVE ControlInv'
      OBVIOUS
    <2>1. CASE UNCHANGED vars
      BY <2>1 DEF vars, runVars, feedVars, ctlVars, ControlInv, ControlTypes, PauseInv,
         HoldsStatus, Untouched, RunPublishes, OneControl, CallersIdle, Looping, Agree, Fresh
    <2>2. CASE Next
      BY <2>2, BootKeeps, LoopKeeps, ProviderKeeps, CallKeeps, ControlStateKeeps, StatusKeeps
         DEF Next, Publishers
    <2> QED BY <2>1, <2>2
  <1> QED BY <1>1, <1>2, PTL DEF Spec

\* ControlsAgree holds for every number of handlers and controls: a pause lets at most
\* the one event through that the loop had checked, and while no two controls overlapped
\* the state, the provider and the last status agree.
THEOREM ControlsAgreeProved == Spec => []ControlsAgree
  <1>1. ControlInv => ControlsAgree
    BY DEF ControlInv, ControlsAgree, PauseFreezes, PauseInv, QuietAgrees, OneControl, Agree
  <1> QED BY <1>1, ControlInvariant, PTL

--------------------------------------------------------------------------------
(* Numbers and rings. *)

LEMMA LeastOfNats ==
    ASSUME NEW T, T \subseteq Nat, T # {}
    PROVE  \E x \in T : \A y \in T : x <= y
  <1> DEFINE R == OpToRel(<, Nat)
  <1>1. IsWellFoundedOn(R, Nat)
    BY NatLessThanWellFounded, Zenon
  <1>2. \A x, y \in Nat : <<x, y>> \in R <=> x < y
    BY DEF OpToRel
  <1> HIDE DEF R
  <1>3. PICK x \in T : \A y \in T : ~ (<<y, x>> \in R)
    BY <1>1, WFMin
  <1>4. \A y \in T : y \in Nat /\ x \in Nat /\ ~ (y < x)
    BY <1>2, <1>3
  <1> QED BY <1>4

\* Bounded numbers have a largest one.
LEMMA LargestOfNats ==
    ASSUME NEW T, T \subseteq Nat, T # {}, NEW n \in Nat, \A x \in T : x <= n
    PROVE  \E x \in T : \A y \in T : y <= x
  <1> DEFINE U == {n - x : x \in T}
  <1>0. \A x \in T : n - x \in Nat /\ x \in Nat
    OBVIOUS
  <1>1. U \subseteq Nat /\ U # {}
    BY <1>0
  <1>2. \A x \in T : n - x \in U /\ x \in Nat
    BY <1>0
  <1>3. PICK u \in U : \A v \in U : u <= v
    <2> HIDE DEF U
    <2> QED BY <1>1, LeastOfNats
  <1>4. PICK x \in T : u = n - x
    BY <1>3
  <1> HIDE DEF U
  <1> QED BY <1>2, <1>3, <1>4

\* Induction, for a set of numbers.
LEMMA Induct ==
    ASSUME NEW T, 0 \in T, \A n \in Nat : n \in T => n + 1 \in T
    PROVE  Nat \subseteq T
  <1> SUFFICES ASSUME Nat \ T # {} PROVE FALSE
    OBVIOUS
  <1>1. PICK x \in Nat \ T : \A y \in Nat \ T : x <= y
    BY LeastOfNats
  <1>2. x # 0 /\ x - 1 \in Nat /\ x - 1 \in T
    BY <1>1
  <1> QED BY <1>1, <1>2

\* The slot that lies k places behind the head h of a ring of c slots.
Back(c, h, k) == (h - k + c) % c

LEMMA Wrap ==
    ASSUME NEW c \in Nat \ {0}
    PROVE  /\ \A a \in 0..c - 1 : a % c = a
           /\ \A a \in c..2 * c - 1 : a % c = a - c
           /\ \A a \in 2 * c..3 * c - 1 : a % c = a - 2 * c
  OBVIOUS

LEMMA BackIs ==
    ASSUME NEW c \in Nat \ {0}, NEW h \in 0..c - 1, NEW k \in 1..c
    PROVE  /\ Back(c, h, k) = IF k <= h THEN h - k ELSE h - k + c
           /\ Back(c, h, k) \in 0..c - 1
  <1>1. CASE k <= h
    <2>1. h - k + c \in c..2 * c - 1
      BY <1>1
    <2>2. (h - k + c) % c = (h - k + c) - c
      BY <2>1, Wrap
    <2> QED BY <1>1, <2>2 DEF Back
  <1>2. CASE k > h
    <2>1. h - k + c \in 0..c - 1
      BY <1>2
    <2>2. (h - k + c) % c = h - k + c
      BY <2>1, Wrap
    <2> QED BY <1>2, <2>2 DEF Back
  <1> QED BY <1>1, <1>2

LEMMA BackTwice ==
    ASSUME NEW c \in Nat \ {0}, NEW h \in 0..c - 1, NEW k \in 1..c
    PROVE  (h - k + 2 * c) % c = Back(c, h, k)
  <1> DEFINE a == h - k + 2 * c
  <1>1. CASE k <= h
    <2>1. a \in 2 * c..3 * c - 1
      BY <1>1
    <2>2. a - 2 * c = h - k
      OBVIOUS
    <2> HIDE DEF a
    <2>3. a % c = a - 2 * c
      BY <2>1, Wrap
    <2>4. a % c = Back(c, h, k)
      BY <1>1, <2>2, <2>3, BackIs
    <2> QED BY <2>4 DEF a
  <1>2. CASE k > h
    <2>1. a \in c..2 * c - 1
      BY <1>2
    <2>2. a - c = h - k + c
      OBVIOUS
    <2> HIDE DEF a
    <2>3. a % c = a - c
      BY <2>1, Wrap
    <2>4. a % c = Back(c, h, k)
      BY <1>2, <2>2, <2>3, BackIs
    <2> QED BY <2>4 DEF a
  <1> QED BY <1>1, <1>2

\* The head moves on: what it leaves is one place behind it, the rest one place more.
LEMMA HeadMoves ==
    ASSUME NEW c \in Nat \ {0}, NEW h \in 0..c - 1
    PROVE  /\ (h + 1) % c \in 0..c - 1
           /\ (h + 1) % c = IF h + 1 < c THEN h + 1 ELSE 0
           /\ Back(c, (h + 1) % c, 1) = h
           /\ \A k \in 1..c - 1 : /\ Back(c, (h + 1) % c, k + 1) = Back(c, h, k)
                                  /\ Back(c, h, k) # h
  <1> DEFINE g == IF h + 1 < c THEN h + 1 ELSE 0
  <1>1. (h + 1) % c = g
    <2>1. CASE h + 1 < c
      <3>1. h + 1 \in 0..c - 1
        BY <2>1
      <3> QED BY <2>1, <3>1, Wrap
    <2>2. CASE h + 1 = c
      <3>1. c \in c..2 * c - 1
        OBVIOUS
      <3>2. c % c = c - c
        BY <3>1, Wrap
      <3> QED BY <2>2, <3>2
    <2> QED BY <2>1, <2>2
  <1>2. g \in 0..c - 1
    OBVIOUS
  <1>3. Back(c, g, 1) = h
    BY <1>2, BackIs
  <1>4. ASSUME NEW k \in 1..c - 1
        PROVE  Back(c, g, k + 1) = Back(c, h, k) /\ Back(c, h, k) # h
    <2>1. k \in 1..c /\ k + 1 \in 1..c
      OBVIOUS
    <2>2. Back(c, h, k) = IF k <= h THEN h - k ELSE h - k + c
      BY <2>1, BackIs
    <2>3. Back(c, g, k + 1) = IF k + 1 <= g THEN g - (k + 1) ELSE g - (k + 1) + c
      BY <1>2, <2>1, BackIs
    <2> QED BY <2>2, <2>3
  <1> QED BY <1>1, <1>2, <1>3, <1>4

--------------------------------------------------------------------------------
(* The tape. *)

Trades == [id : Nat \X Nat, time : Times, price : Prices]

\* A log with one more trade.
LEMMA Logged ==
    ASSUME NEW l \in Seq(Trades), NEW t \in Trades
    PROVE  /\ Append(l, t) \in Seq(Trades) /\ Len(Append(l, t)) = Len(l) + 1 /\ Len(l) \in Nat
           /\ Append(l, t)[Len(l) + 1] = t
           /\ \A i \in 1..Len(l) : Append(l, t)[i] = l[i] /\ l[i] \in Trades
  OBVIOUS

\* The fields of a trade.
LEMMA TradeFields ==
    ASSUME NEW t \in Trades
    PROVE  t.time \in Times /\ t.time \in Nat /\ t.price \in Prices /\ t.price \in Nat /\ t.price # 0
  BY EngineAssumption DEF Trades

\* Places of the log, seen from the log with one more trade.
LEMMA LogPlaces ==
    ASSUME NEW l \in Seq(Trades), NEW t \in Trades, NEW I, I \subseteq 1..Len(l)
    PROVE  /\ Len(l) + 1 \in Nat /\ Append(l, t)[Len(l) + 1] = t /\ t.price \in Nat
           /\ \A i \in I : /\ i \in Int /\ i < Len(l) + 1 /\ Append(l, t)[i] = l[i]
                           /\ l[i].price \in Nat /\ l[i].time \in Nat
  <1>1. Len(l) + 1 \in Nat /\ Append(l, t)[Len(l) + 1] = t /\ t.price \in Nat
    BY Logged, TradeFields
  <1>2. ASSUME NEW i \in I
        PROVE  /\ i \in Int /\ i < Len(l) + 1 /\ Append(l, t)[i] = l[i]
               /\ l[i].price \in Nat /\ l[i].time \in Nat
    <2>1. i \in 1..Len(l)
      OBVIOUS
    <2>2. l[i] \in Trades /\ Append(l, t)[i] = l[i]
      BY <2>1, Logged
    <2> QED BY <2>1, <2>2, TradeFields
  <1> QED BY <1>1, <1>2

\* The ring holds the newest trades behind its head.
TapeInv(r, l) ==
    /\ DOMAIN r.buf = 0..TapeCap - 1 /\ r.head \in 0..TapeCap - 1
    /\ r.count = IF Len(l) < TapeCap THEN Len(l) ELSE TapeCap
    /\ \A k \in 1..r.count : r.buf[Back(TapeCap, r.head, k)] = l[Len(l) - k + 1].id

LEMMA TapeStarts == TapeInv(NewTradeRing, <<>>)
  BY EngineAssumption DEF TapeInv, NewTradeRing

LEMMA TapePush ==
    ASSUME NEW l \in Seq(Trades), NEW t \in Trades, NEW r, TapeInv(r, l)
    PROVE  TapeInv(PushTrade(r, t), Append(l, t))
  <1> DEFINE q == PushTrade(r, t)
             m == Append(l, t)
             n == Len(l)
  <1>1. TapeCap \in Nat \ {0} /\ n \in Nat
    BY EngineAssumption
  <1>2. /\ Len(m) = n + 1 /\ m[n + 1] = t
        /\ \A i \in 1..n : m[i] = l[i]
    BY Logged
  <1>3. /\ DOMAIN r.buf = 0..TapeCap - 1 /\ r.head \in 0..TapeCap - 1
        /\ r.count = IF n < TapeCap THEN n ELSE TapeCap
        /\ \A k \in 1..r.count : r.buf[Back(TapeCap, r.head, k)] = l[n - k + 1].id
    BY DEF TapeInv
  <1>4. /\ q.buf = [r.buf EXCEPT ![r.head] = t.id] /\ q.head = (r.head + 1) % TapeCap
        /\ q.count = IF r.count < TapeCap THEN r.count + 1 ELSE r.count
    BY DEF PushTrade
  <1> HIDE DEF q, m, n
  <1>a. /\ q.head \in 0..TapeCap - 1 /\ Back(TapeCap, q.head, 1) = r.head
        /\ \A k \in 1..TapeCap - 1 : /\ Back(TapeCap, q.head, k + 1) = Back(TapeCap, r.head, k)
                                     /\ Back(TapeCap, r.head, k) # r.head
    <2>1. /\ (r.head + 1) % TapeCap \in 0..TapeCap - 1
          /\ Back(TapeCap, (r.head + 1) % TapeCap, 1) = r.head
          /\ \A k \in 1..TapeCap - 1 :
                /\ Back(TapeCap, (r.head + 1) % TapeCap, k + 1) = Back(TapeCap, r.head, k)
                /\ Back(TapeCap, r.head, k) # r.head
      BY <1>1, <1>3, HeadMoves, Zenon
    <2> QED BY <1>4, <2>1, Zenon
  <1>5. DOMAIN q.buf = 0..TapeCap - 1 /\ q.head \in 0..TapeCap - 1
    BY <1>3, <1>4, <1>a
  <1>6. q.count = (IF n + 1 < TapeCap THEN n + 1 ELSE TapeCap) /\ q.count <= TapeCap /\ q.count - 1 <= r.count
    BY <1>1, <1>3, <1>4
  <1>7. q.buf[Back(TapeCap, q.head, 1)] = m[n + 1].id
    BY <1>2, <1>3, <1>4, <1>a
  <1>8. ASSUME NEW k \in 2..q.count
        PROVE  q.buf[Back(TapeCap, q.head, k)] = m[(n + 1) - k + 1].id
    <2>1. k - 1 \in 1..TapeCap - 1 /\ k - 1 \in 1..r.count /\ (k - 1) + 1 = k
      BY <1>1, <1>3, <1>6
    <2>2. /\ Back(TapeCap, q.head, (k - 1) + 1) = Back(TapeCap, r.head, k - 1)
          /\ Back(TapeCap, r.head, k - 1) # r.head
      BY <2>1, <1>a
    <2>3. Back(TapeCap, r.head, k - 1) \in 0..TapeCap - 1
      <3>1. k - 1 \in 1..TapeCap
        BY <1>1, <2>1
      <3> QED BY <1>1, <1>3, <3>1, BackIs
    <2>4. q.buf[Back(TapeCap, q.head, k)] = l[n - (k - 1) + 1].id
      BY <1>3, <1>4, <2>1, <2>2, <2>3
    <2>5. n - (k - 1) + 1 = (n + 1) - k + 1 /\ n - (k - 1) + 1 \in 1..n
      BY <1>1, <1>3, <2>1
    <2> QED BY <1>2, <2>4, <2>5
  <1>9. \A k \in 1..q.count : q.buf[Back(TapeCap, q.head, k)] = m[(n + 1) - k + 1].id
    <2>1. (n + 1) - 1 + 1 = n + 1
      BY <1>1
    <2>2. \A k \in 1..q.count : k = 1 \/ k \in 2..q.count
      BY <1>1, <1>6
    <2> QED BY <1>7, <1>8, <2>1, <2>2
  <1> QED BY <1>2, <1>5, <1>6, <1>9 DEF TapeInv, q, m

LEMMA TapeServes ==
    ASSUME NEW l \in Seq(Trades), NEW r, TapeInv(r, l), NEW limit \in 1..TapeCap
    PROVE  LET seen == Recent(r, limit)
           IN  /\ Len(seen) = IF Len(l) < limit THEN Len(l) ELSE limit
               /\ \A i \in 1..Len(seen) : seen[i] = l[Len(l) - i + 1].id
  <1> DEFINE seen == Recent(r, limit)
             n == Len(l)
             k == IF limit > r.count THEN r.count ELSE limit
  <1>1. TapeCap \in Nat \ {0} /\ n \in Nat /\ limit \in Nat
    BY EngineAssumption
  <1>2. /\ r.head \in 0..TapeCap - 1
        /\ r.count = IF n < TapeCap THEN n ELSE TapeCap
        /\ \A i \in 1..r.count : r.buf[Back(TapeCap, r.head, i)] = l[n - i + 1].id
    BY DEF TapeInv
  <1> HIDE DEF n
  <1>3. k \in Nat /\ k = (IF n < limit THEN n ELSE limit) /\ k <= r.count /\ r.count \in 0..TapeCap
    BY <1>1, <1>2
  <1>4. seen = [i \in 1..k |-> r.buf[(r.head - 1 - (i - 1) + 2 * TapeCap) % TapeCap]]
    BY DEF Recent
  <1> HIDE DEF k, seen
  <1>5. Len(seen) = k /\ \A i \in 1..k : seen[i] = r.buf[(r.head - 1 - (i - 1) + 2 * TapeCap) % TapeCap]
    BY <1>3, <1>4
  <1>6. ASSUME NEW i \in 1..k
        PROVE  seen[i] = l[n - i + 1].id
    <2>1. i \in 1..TapeCap /\ i \in 1..r.count
      BY <1>1, <1>3
    <2>2. (r.head - 1 - (i - 1) + 2 * TapeCap) = r.head - i + 2 * TapeCap
      BY <1>1, <1>2, <2>1
    <2>4. (r.head - i + 2 * TapeCap) % TapeCap = Back(TapeCap, r.head, i)
      BY <1>1, <1>2, <2>1, BackTwice, Zenon
    <2> QED BY <1>2, <1>5, <2>1, <2>2, <2>4
  <1> QED BY <1>3, <1>5, <1>6 DEF seen, n

--------------------------------------------------------------------------------
(* The candles. *)

\* c is the candle with start b of the trades at places I.
IsCandle(c, l, I, b) ==
    \E f, h, w, m \in I :
        /\ \A j \in I : /\ f <= j /\ j <= m
                        /\ l[j].price <= l[h].price /\ l[w].price <= l[j].price
        /\ c = [start |-> b, open |-> l[f].price, high |-> l[h].price, low |-> l[w].price,
                close |-> l[m].price, trades |-> Cardinality(I), seq |-> l[m].id]

LEMMA Places ==
    ASSUME NEW n \in Nat, NEW I, I \subseteq 1..n
    PROVE  IsFiniteSet(I) /\ Cardinality(I) \in Nat /\ \A i \in I : i \in Int /\ i <= n
  <1>1. IsFiniteSet(1..n)
    BY FS_Interval
  <1>2. IsFiniteSet(I)
    BY <1>1, FS_Subset
  <1> QED BY <1>2, FS_CardinalityType

\* The reference's candle is the only one.
LEMMA CandleIs ==
    ASSUME NEW l \in Seq(Trades), NEW I, I \subseteq 1..Len(l), NEW b, NEW c, IsCandle(c, l, I, b)
    PROVE  c = [start |-> b, open |-> l[FirstOf(I)].price, high |-> HighOf(l, I),
                low |-> LowOf(l, I), close |-> l[LastOf(I)].price, trades |-> Cardinality(I),
                seq |-> l[LastOf(I)].id]
  <1>1. PICK f, h, w, m \in I :
            /\ \A j \in I : /\ f <= j /\ j <= m
                            /\ l[j].price <= l[h].price /\ l[w].price <= l[j].price
            /\ c = [start |-> b, open |-> l[f].price, high |-> l[h].price, low |-> l[w].price,
                    close |-> l[m].price, trades |-> Cardinality(I), seq |-> l[m].id]
    BY DEF IsCandle
  <1>2. \A i \in I : i \in Int /\ l[i].price \in Nat
    <2>1. \A i \in I : i \in Int /\ l[i] \in Trades
      OBVIOUS
    <2> QED BY <2>1, TradeFields
  <1>3. FirstOf(I) = f /\ LastOf(I) = m
    <2>1. \A j \in I : (\A i \in I : j <= i) => j = f
      BY <1>1, <1>2
    <2>2. \A j \in I : (\A i \in I : j >= i) => j = m
      BY <1>1, <1>2
    <2>3. \A i \in I : f <= i /\ m >= i
      BY <1>1, <1>2
    <2> QED BY <1>1, <2>1, <2>2, <2>3 DEF FirstOf, LastOf
  <1>4. HighOf(l, I) = l[h].price
    <2> DEFINE P == {l[i].price : i \in I}
    <2>1. l[h].price \in P /\ \A i \in I : l[i].price <= l[h].price
      BY <1>1
    <2>2. \A p \in P : (\A i \in I : l[i].price <= p) => p = l[h].price
      BY <1>1, <1>2
    <2> QED BY <2>1, <2>2 DEF HighOf
  <1>5. LowOf(l, I) = l[w].price
    <2> DEFINE P == {l[i].price : i \in I}
    <2>1. l[w].price \in P /\ \A i \in I : l[i].price >= l[w].price
      BY <1>1, <1>2
    <2>2. \A p \in P : (\A i \in I : l[i].price >= p) => p = l[w].price
      BY <1>1, <1>2
    <2> QED BY <2>1, <2>2 DEF LowOf
  <1> QED BY <1>1, <1>3, <1>4, <1>5

\* A later trade does not change the candle of the places before it.
LEMMA CandleStays ==
    ASSUME NEW l \in Seq(Trades), NEW t \in Trades, NEW I, I \subseteq 1..Len(l), NEW b, NEW c,
           IsCandle(c, l, I, b)
    PROVE  IsCandle(c, Append(l, t), I, b)
  <1>1. \A i \in I : Append(l, t)[i] = l[i]
    BY Logged
  <1>2. PICK f, h, w, m \in I :
            /\ \A j \in I : /\ f <= j /\ j <= m
                            /\ l[j].price <= l[h].price /\ l[w].price <= l[j].price
            /\ c = [start |-> b, open |-> l[f].price, high |-> l[h].price, low |-> l[w].price,
                    close |-> l[m].price, trades |-> Cardinality(I), seq |-> l[m].id]
    BY DEF IsCandle
  <1> DEFINE q == Append(l, t)
  <1> HIDE DEF q
  <1>3. \A i \in I : q[i] = l[i]
    BY <1>1 DEF q
  <1>4. \A j \in I : /\ f <= j /\ j <= m
                     /\ q[j].price <= q[h].price /\ q[w].price <= q[j].price
    BY <1>2, <1>3
  <1>5. c = [start |-> b, open |-> q[f].price, high |-> q[h].price, low |-> q[w].price,
             close |-> q[m].price, trades |-> Cardinality(I), seq |-> q[m].id]
    BY <1>2, <1>3
  <1>6. IsCandle(c, q, I, b)
    BY <1>4, <1>5 DEF IsCandle
  <1> QED BY <1>6 DEF q

\* A trade that starts a candle.
LEMMA CandleNew ==
    ASSUME NEW l \in Seq(Trades), NEW t \in Trades, NEW s \in Spans
    PROVE  IsCandle(NewCandle(s, t), Append(l, t), {Len(l) + 1}, BucketStart(s, t.time))
  <1> DEFINE k == Len(l) + 1
  <1>1. k \in Nat /\ Append(l, t)[k] = t
    BY Logged
  <1>2. Cardinality({k}) = 1
    BY FS_Singleton
  <1>3. t.price \in Nat
    BY TradeFields
  <1> QED BY <1>1, <1>2, <1>3 DEF IsCandle, NewCandle

LEMMA FoldFields ==
    ASSUME NEW b, NEW o, NEW h, NEW w, NEW x, NEW n, NEW q, NEW t
    PROVE  FoldTrade([start |-> b, open |-> o, high |-> h, low |-> w, close |-> x,
                      trades |-> n, seq |-> q], t) =
           [start |-> b, open |-> o, high |-> IF t.price > h THEN t.price ELSE h,
            low |-> IF t.price < w THEN t.price ELSE w, close |-> t.price, trades |-> n + 1,
            seq |-> t.id]
  <1> DEFINE c == [start |-> b, open |-> o, high |-> h, low |-> w, close |-> x,
                   trades |-> n, seq |-> q]
             H == IF t.price > h THEN t.price ELSE h
             W == IF t.price < w THEN t.price ELSE w
             N == n + 1
  <1>1. c.high = h /\ c.low = w /\ c.trades = n
    OBVIOUS
  <1>2. FoldTrade(c, t) = [c EXCEPT !.high = H, !.low = W, !.close = t.price, !.trades = N,
                                    !.seq = t.id]
    <2> HIDE DEF c
    <2> QED BY <1>1 DEF FoldTrade
  <1> HIDE DEF H, W, N
  <1>3. [c EXCEPT !.high = H, !.low = W, !.close = t.price, !.trades = N, !.seq = t.id] =
        [start |-> b, open |-> o, high |-> H, low |-> W, close |-> t.price, trades |-> N,
         seq |-> t.id]
    <2> DEFINE z == t.price
               y == t.id
               c1 == [start |-> b, open |-> o, high |-> H, low |-> w, close |-> x, trades |-> n, seq |-> q]
               c2 == [start |-> b, open |-> o, high |-> H, low |-> W, close |-> x, trades |-> n, seq |-> q]
               c3 == [start |-> b, open |-> o, high |-> H, low |-> W, close |-> z, trades |-> n, seq |-> q]
               c4 == [start |-> b, open |-> o, high |-> H, low |-> W, close |-> z, trades |-> N, seq |-> q]
               c5 == [start |-> b, open |-> o, high |-> H, low |-> W, close |-> z, trades |-> N, seq |-> y]
    <2> HIDE DEF z, y
    <2>1. [c EXCEPT !.high = H] = c1
      OBVIOUS
    <2>2. [c1 EXCEPT !.low = W] = c2
      OBVIOUS
    <2>3. [c2 EXCEPT !.close = z] = c3
      OBVIOUS
    <2>4. [c3 EXCEPT !.trades = N] = c4
      OBVIOUS
    <2>5. [c4 EXCEPT !.seq = y] = c5
      OBVIOUS
    <2> HIDE DEF c, c1, c2, c3, c4, c5
    <2>6. [c EXCEPT !.high = H, !.low = W, !.close = z, !.trades = N, !.seq = y] = c5
      BY <2>1, <2>2, <2>3, <2>4, <2>5, Zenon
    <2> QED BY <2>6 DEF c, c5, z, y
  <1>4. FoldTrade(c, t) = [start |-> b, open |-> o, high |-> H, low |-> W, close |-> t.price,
                           trades |-> N, seq |-> t.id]
    BY <1>2, <1>3
  <1> QED BY <1>4 DEF H, W, N

\* A trade that goes into a candle.
LEMMA CandleFolds ==
    ASSUME NEW l \in Seq(Trades), NEW t \in Trades, NEW I, I \subseteq 1..Len(l), NEW b, NEW c,
           IsCandle(c, l, I, b)
    PROVE  IsCandle(FoldTrade(c, t), Append(l, t), I \cup {Len(l) + 1}, b)
  <1> DEFINE k == Len(l) + 1
             q == Append(l, t)
             J == I \cup {k}
  <1>1. PICK f, h, w, m \in I :
            /\ \A j \in I : /\ f <= j /\ j <= m
                            /\ l[j].price <= l[h].price /\ l[w].price <= l[j].price
            /\ c = [start |-> b, open |-> l[f].price, high |-> l[h].price, low |-> l[w].price,
                    close |-> l[m].price, trades |-> Cardinality(I), seq |-> l[m].id]
    BY DEF IsCandle
  <1>2. /\ k \in Nat /\ q[k] = t /\ t.price \in Nat
        /\ \A i \in I : i \in Int /\ i < k /\ q[i] = l[i] /\ l[i].price \in Nat
    <2>1. k \in Nat /\ q[k] = t /\ t.price \in Nat
      BY LogPlaces
    <2>2. ASSUME NEW i \in I PROVE i \in Int /\ i < k /\ q[i] = l[i] /\ l[i].price \in Nat
      BY LogPlaces
    <2> QED BY <2>1, <2>2
  <1>3. Cardinality(J) = Cardinality(I) + 1
    <2>1. Len(l) \in Nat
      OBVIOUS
    <2>2. IsFiniteSet(I)
      BY <2>1, Places
    <2>3. k \notin I
      BY <1>2
    <2> QED BY <2>2, <2>3, FS_AddElement
  <1> HIDE DEF k, q
  <1> DEFINE hh == IF t.price > l[h].price THEN k ELSE h
             ww == IF t.price < l[w].price THEN k ELSE w
  <1>4. f \in J /\ hh \in J /\ ww \in J /\ k \in J
    OBVIOUS
  <1>5. \A j \in J : /\ f <= j /\ j <= k
                     /\ q[j].price <= q[hh].price /\ q[ww].price <= q[j].price
    <2>1. q[f] = l[f] /\ q[h] = l[h] /\ q[w] = l[w] /\ f < k /\ m < k /\ f \in Int /\ m \in Int
      BY <1>2
    <2>2. /\ q[hh].price = IF t.price > l[h].price THEN t.price ELSE l[h].price
          /\ q[ww].price = IF t.price < l[w].price THEN t.price ELSE l[w].price
      BY <1>2, <2>1
    <2>3. l[h].price \in Nat /\ l[w].price \in Nat
      BY <1>2
    <2>4. q[k].price <= q[hh].price /\ q[ww].price <= q[k].price /\ f <= k /\ k <= k
      BY <1>2, <2>1, <2>2, <2>3
    <2>5. ASSUME NEW j \in I
          PROVE  /\ f <= j /\ j <= k
                 /\ q[j].price <= q[hh].price /\ q[ww].price <= q[j].price
      <3>1. q[j] = l[j] /\ l[j].price \in Nat /\ j < k /\ j \in Int
        BY <1>2
      <3>2. f <= j /\ l[j].price <= l[h].price /\ l[w].price <= l[j].price
        BY <1>1
      <3> HIDE DEF hh, ww
      <3> QED BY <1>2, <2>2, <2>3, <3>1, <3>2
    <2> HIDE DEF hh, ww
    <2> QED BY <2>4, <2>5
  <1>6. FoldTrade(c, t) =
           [start |-> b, open |-> q[f].price, high |-> q[hh].price, low |-> q[ww].price,
            close |-> q[k].price, trades |-> Cardinality(J), seq |-> q[k].id]
    <2>1. FoldTrade(c, t) =
           [start |-> b, open |-> l[f].price,
            high |-> IF t.price > l[h].price THEN t.price ELSE l[h].price,
            low |-> IF t.price < l[w].price THEN t.price ELSE l[w].price,
            close |-> t.price, trades |-> Cardinality(I) + 1, seq |-> t.id]
      BY <1>1, FoldFields
    <2>2. /\ q[hh].price = IF t.price > l[h].price THEN t.price ELSE l[h].price
          /\ q[ww].price = IF t.price < l[w].price THEN t.price ELSE l[w].price
          /\ q[f].price = l[f].price /\ q[k].price = t.price /\ q[k].id = t.id
      BY <1>2
    <2> HIDE DEF hh, ww, J
    <2> QED BY <1>3, <2>1, <2>2
  <1>7. IsCandle(FoldTrade(c, t), q, J, b)
    <2> HIDE DEF hh, ww, J
    <2> QED BY <1>4, <1>5, <1>6 DEF IsCandle
  <1> QED BY <1>7 DEF k, q

LEMMA Buckets ==
    ASSUME NEW s \in Spans, NEW time \in Nat
    PROVE  BucketStart(s, time) \in Nat
  BY EngineAssumption DEF BucketStart

\* One more trade joins the places of its bucket, unless a later bucket came before it.
LEMMA InBucketGrows ==
    ASSUME NEW l \in Seq(Trades), NEW t \in Trades, NEW s \in Spans, NEW b
    PROVE  InBucket(Append(l, t), s, b) =
              InBucket(l, s, b) \cup
                 (IF /\ b = BucketStart(s, t.time)
                     /\ \A j \in 1..Len(l) : BucketStart(s, l[j].time) <= BucketStart(s, t.time)
                  THEN {Len(l) + 1} ELSE {})
  <1> DEFINE q == Append(l, t)
             n == Len(l)
             B(m, i) == BucketStart(s, m[i].time)
             z == BucketStart(s, t.time)
  <1>1. /\ n \in Nat /\ Len(q) = n + 1 /\ q[n + 1] = t
        /\ \A i \in 1..n : q[i] = l[i]
    BY Logged
  <1>2. z \in Nat
    BY TradeFields, Buckets
  <1>3. InBucket(q, s, b) = {i \in 1..n + 1 : B(q, i) = b /\ \A j \in 1..i : B(q, j) <= b}
    BY <1>1 DEF InBucket
  <1>4. InBucket(l, s, b) = {i \in 1..n : B(l, i) = b /\ \A j \in 1..i : B(l, j) <= b}
    BY DEF InBucket
  <1>5. (\A i \in 1..n : B(q, i) = B(l, i)) /\ B(q, n + 1) = z
    BY <1>1
  <1> HIDE DEF q, n, B, z
  <1>6. ASSUME NEW i \in 1..n
        PROVE  i \in InBucket(q, s, b) <=> i \in InBucket(l, s, b)
    <2>1. i \in 1..n + 1 /\ \A j \in 1..i : j \in 1..n
      BY <1>1
    <2> QED BY <1>3, <1>4, <1>5, <2>1
  <1>7. n + 1 \in InBucket(q, s, b) <=> b = z /\ \A j \in 1..n : B(l, j) <= z
    <2>1. \A j \in 1..n + 1 : j \in 1..n \/ j = n + 1
      BY <1>1
    <2>2. z <= z /\ n + 1 \in 1..n + 1 /\ \A j \in 1..n : j \in 1..n + 1
      BY <1>1, <1>2
    <2> QED BY <1>3, <1>5, <2>1, <2>2
  <1>8. InBucket(q, s, b) \subseteq 1..n + 1 /\ InBucket(l, s, b) \subseteq 1..n
    BY <1>3, <1>4
  <1>9. InBucket(q, s, b) = InBucket(l, s, b) \cup
            (IF b = z /\ \A j \in 1..n : B(l, j) <= z THEN {n + 1} ELSE {})
    <2>1. (n + 1) \notin 1..n /\ \A i \in 1..n + 1 : i \in 1..n \/ i = n + 1
      BY <1>1
    <2> QED BY <1>6, <1>7, <1>8, <2>1
  <1> QED BY <1>9 DEF q, n, B, z

LEMMA StartsAre ==
    ASSUME NEW l \in Seq(Trades), NEW s \in Spans
    PROVE  /\ \A b : b \in Starts(l, s) <=> InBucket(l, s, b) # {}
           /\ Starts(l, s) \subseteq Nat
           /\ \A b : InBucket(l, s, b) \subseteq 1..Len(l)
  <1>1. \A b : \A i \in InBucket(l, s, b) : i \in 1..Len(l) /\ BucketStart(s, l[i].time) = b
    BY DEF InBucket
  <1>2. \A i \in 1..Len(l) : BucketStart(s, l[i].time) \in Nat
    <2>1. \A i \in 1..Len(l) : l[i] \in Trades
      OBVIOUS
    <2> QED BY <2>1, TradeFields, Buckets
  <1>3. \A b : b \in Starts(l, s) <=> InBucket(l, s, b) # {}
    BY <1>1 DEF Starts
  <1> QED BY <1>1, <1>2, <1>3 DEF Starts

LEMMA StartsGrow ==
    ASSUME NEW l \in Seq(Trades), NEW t \in Trades, NEW s \in Spans
    PROVE  Starts(Append(l, t), s) =
              Starts(l, s) \cup
                 (IF \A j \in 1..Len(l) : BucketStart(s, l[j].time) <= BucketStart(s, t.time)
                  THEN {BucketStart(s, t.time)} ELSE {})
  <1> DEFINE q == Append(l, t)
             z == BucketStart(s, t.time)
             on == \A j \in 1..Len(l) : BucketStart(s, l[j].time) <= z
  <1>1. q \in Seq(Trades)
    BY Logged
  <1>2. \A b : InBucket(q, s, b) = InBucket(l, s, b) \cup (IF b = z /\ on THEN {Len(l) + 1} ELSE {})
    BY InBucketGrows
  <1>3. /\ \A b : b \in Starts(l, s) <=> InBucket(l, s, b) # {}
        /\ \A b : b \in Starts(q, s) <=> InBucket(q, s, b) # {}
    BY <1>1, StartsAre
  <1> HIDE DEF q, z, on
  <1>4. \A b : b \in Starts(q, s) <=> b \in Starts(l, s) \/ (b = z /\ on)
    BY <1>2, <1>3
  <1>5. Starts(q, s) = Starts(l, s) \cup (IF on THEN {z} ELSE {})
    BY <1>4
  <1> QED BY <1>5 DEF q, z, on

\* A trade that no later bucket came before.
LEMMA OnTime ==
    ASSUME NEW l \in Seq(Trades), NEW t \in Trades, NEW s \in Spans, NEW z,
           z = BucketStart(s, t.time), \A j \in 1..Len(l) : BucketStart(s, l[j].time) <= z
    PROVE  /\ Starts(Append(l, t), s) = Starts(l, s) \cup {z}
           /\ InBucket(Append(l, t), s, z) = InBucket(l, s, z) \cup {Len(l) + 1}
           /\ \A b : b # z => InBucket(Append(l, t), s, b) = InBucket(l, s, b)
  <1> DEFINE on == \A j \in 1..Len(l) : BucketStart(s, l[j].time) <= BucketStart(s, t.time)
  <1>1. on
    OBVIOUS
  <1>2. \A b : InBucket(Append(l, t), s, b) =
              InBucket(l, s, b) \cup (IF b = BucketStart(s, t.time) /\ on THEN {Len(l) + 1} ELSE {})
    BY InBucketGrows
  <1>3. Starts(Append(l, t), s) = Starts(l, s) \cup (IF on THEN {BucketStart(s, t.time)} ELSE {})
    BY StartsGrow
  <1> HIDE DEF on
  <1> QED BY <1>1, <1>2, <1>3

\* A trade that a later bucket came before.
LEMMA OutOfTime ==
    ASSUME NEW l \in Seq(Trades), NEW t \in Trades, NEW s \in Spans,
           \E j \in 1..Len(l) : ~ (BucketStart(s, l[j].time) <= BucketStart(s, t.time))
    PROVE  /\ Starts(Append(l, t), s) = Starts(l, s)
           /\ \A b : InBucket(Append(l, t), s, b) = InBucket(l, s, b)
  <1> DEFINE on == \A j \in 1..Len(l) : BucketStart(s, l[j].time) <= BucketStart(s, t.time)
  <1>1. ~on
    OBVIOUS
  <1>2. \A b : InBucket(Append(l, t), s, b) =
              InBucket(l, s, b) \cup (IF b = BucketStart(s, t.time) /\ on THEN {Len(l) + 1} ELSE {})
    BY InBucketGrows
  <1>3. Starts(Append(l, t), s) = Starts(l, s) \cup (IF on THEN {BucketStart(s, t.time)} ELSE {})
    BY StartsGrow
  <1> HIDE DEF on
  <1> QED BY <1>1, <1>2, <1>3

\* The aggregator with these parts.
Agg(x, c, h, n) == [active |-> x, closed |-> c, head |-> h, closedN |-> n]

LEMMA AggFields ==
    ASSUME NEW x, NEW c, NEW h, NEW n
    PROVE  /\ Agg(x, c, h, n).active = x /\ Agg(x, c, h, n).closed = c
           /\ Agg(x, c, h, n).head = h /\ Agg(x, c, h, n).closedN = n
           /\ \A y : [Agg(x, c, h, n) EXCEPT !.active = y] = Agg(y, c, h, n)
           /\ \A y : [Agg(x, c, h, n) EXCEPT !.closed = y] = Agg(x, y, h, n)
           /\ \A y : [Agg(x, c, h, n) EXCEPT !.head = y] = Agg(x, c, y, n)
           /\ \A y : [Agg(x, c, h, n) EXCEPT !.closedN = y] = Agg(x, c, h, y)
  BY DEF Agg

LEMMA PushFields ==
    ASSUME NEW x, NEW c, NEW h, NEW n
    PROVE  PushClosed(Agg(x, c, h, n)) =
              Agg(x, [c EXCEPT ![h] = x], (h + 1) % Depth, IF n < Depth THEN n + 1 ELSE n)
  <1> DEFINE a == Agg(x, c, h, n)
             C == [c EXCEPT ![h] = x]
             H == (h + 1) % Depth
             N == IF n < Depth THEN n + 1 ELSE n
  <1>1. a.active = x /\ a.closed = c /\ a.head = h /\ a.closedN = n
    BY AggFields
  <1>2. PushClosed(a) = [a EXCEPT !.closed = C, !.head = H, !.closedN = N]
    <2> HIDE DEF a
    <2> QED BY <1>1 DEF PushClosed
  <1> HIDE DEF C, H, N
  <1>3. [a EXCEPT !.closed = C] = Agg(x, C, h, n)
    BY AggFields
  <1>4. [Agg(x, C, h, n) EXCEPT !.head = H] = Agg(x, C, H, n)
    BY AggFields
  <1>5. [Agg(x, C, H, n) EXCEPT !.closedN = N] = Agg(x, C, H, N)
    BY AggFields
  <1>6. PushClosed(a) = Agg(x, C, H, N)
    <2> HIDE DEF a
    <2> QED BY <1>2, <1>3, <1>4, <1>5, Zenon
  <1> QED BY <1>6 DEF C, H, N

Later(l, s, b) == {d \in Starts(l, s) : d > b}

\* y is the candle of the k-th bucket before the newest one.
Closed(y, k, s, l) ==
    /\ y.start \in Starts(l, s) /\ IsFiniteSet(Later(l, s, y.start))
    /\ Cardinality(Later(l, s, y.start)) = k
    /\ IsCandle(y, l, InBucket(l, s, y.start), y.start)

\* x is the candle of the newest bucket.
Newest(x, s, l) ==
    /\ \A i \in 1..Len(l) : BucketStart(s, l[i].time) <= x.start
    /\ x.start \in Starts(l, s)
    /\ IsCandle(x, l, InBucket(l, s, x.start), x.start)

\* The aggregator holds the candles of the newest buckets of the log.
CandleInv(a, s, l) ==
    /\ a = Agg(a.active, a.closed, a.head, a.closedN)
    /\ DOMAIN a.closed = 0..Depth - 1 /\ a.head \in 0..Depth - 1 /\ a.closedN \in 0..Depth
    /\ a.closedN < Depth => a.head = a.closedN
    /\ IsFiniteSet(Starts(l, s))
    /\ l = <<>> => a.active = NoCandle /\ a.closedN = 0 /\ Starts(l, s) = {}
    /\ l # <<>> =>
          /\ Newest(a.active, s, l)
          /\ a.closedN = IF Cardinality(Starts(l, s)) - 1 < Depth
                         THEN Cardinality(Starts(l, s)) - 1 ELSE Depth
    /\ \A k \in 1..a.closedN : Closed(a.closed[Back(Depth, a.head, k)], k, s, l)

LEMMA CandleStarts ==
    ASSUME NEW s \in Spans
    PROVE  CandleInv(NewAggregator, s, <<>>)
  <1>1. Starts(<<>>, s) = {}
    BY DEF Starts
  <1>2. IsFiniteSet({})
    BY FS_EmptySet
  <1>3. NewAggregator = Agg(NoCandle, [i \in 0..Depth - 1 |-> NoCandle], 0, 0)
    BY DEF NewAggregator, Agg
  <1>4. /\ NewAggregator.active = NoCandle /\ NewAggregator.head = 0 /\ NewAggregator.closedN = 0
        /\ NewAggregator.closed = [i \in 0..Depth - 1 |-> NoCandle]
    BY DEF NewAggregator
  <1>5. DOMAIN NewAggregator.closed = 0..Depth - 1 /\ 0 \in 0..Depth - 1 /\ 0 \in 0..Depth
        /\ \A k \in 1..0 : FALSE
    BY <1>4, EngineAssumption
  <1> QED BY <1>1, <1>2, <1>3, <1>4, <1>5 DEF CandleInv

\* The newest bucket is the largest, and every closed one is before it.
LEMMA NewestIsTop ==
    ASSUME NEW l \in Seq(Trades), NEW s \in Spans, NEW x, Newest(x, s, l)
    PROVE  /\ x.start \in Nat /\ x # NoCandle
           /\ \A b \in Starts(l, s) : b \in Nat /\ b <= x.start
           /\ \A y : \A k \in Nat \ {0} : Closed(y, k, s, l) => y.start \in Nat /\ y.start < x.start
  <1>1. x.start \in Nat /\ \A b \in Starts(l, s) : b \in Nat
    BY StartsAre DEF Newest
  <1>2. \A b \in Starts(l, s) : b <= x.start
    <2> SUFFICES ASSUME NEW b \in Starts(l, s) PROVE b <= x.start
      OBVIOUS
    <2>1. PICK i : i \in InBucket(l, s, b)
      BY StartsAre
    <2>2. i \in 1..Len(l) /\ BucketStart(s, l[i].time) = b
      BY <2>1 DEF InBucket
    <2> QED BY <2>2 DEF Newest
  <1>3. x # NoCandle
    <2>1. PICK f \in InBucket(l, s, x.start) : x.open = l[f].price
      BY DEF Newest, IsCandle
    <2>2. f \in 1..Len(l)
      BY DEF InBucket
    <2>3. l[f] \in Trades
      BY <2>2
    <2>4. x.open # 0
      BY <2>1, <2>3, TradeFields
    <2> QED BY <2>4 DEF NoCandle
  <1>4. ASSUME NEW y, NEW k \in Nat \ {0}, Closed(y, k, s, l)
        PROVE  y.start \in Nat /\ y.start < x.start
    <2>1. y.start \in Nat
      BY <1>1, <1>4 DEF Closed
    <2>2. Later(l, s, y.start) # {}
      BY <1>4, FS_EmptySet DEF Closed
    <2>3. PICK b \in Starts(l, s) : b > y.start
      BY <2>2 DEF Later
    <2> QED BY <1>1, <1>2, <2>1, <2>3
  <1> QED BY <1>1, <1>2, <1>3, <1>4

\* A closed candle stays what it was while its own bucket gets no trade and no bucket
\* is added.
LEMMA ClosedStays ==
    ASSUME NEW l \in Seq(Trades), NEW t \in Trades, NEW s \in Spans, NEW y, NEW k,
           Closed(y, k, s, l), Starts(Append(l, t), s) = Starts(l, s),
           InBucket(Append(l, t), s, y.start) = InBucket(l, s, y.start)
    PROVE  Closed(y, k, s, Append(l, t))
  <1>1. Later(Append(l, t), s, y.start) = Later(l, s, y.start)
    BY DEF Later
  <1>2. IsCandle(y, Append(l, t), InBucket(l, s, y.start), y.start)
    BY StartsAre, CandleStays DEF Closed
  <1> QED BY <1>1, <1>2 DEF Closed

\* A later bucket puts it one place further back.
LEMMA ClosedAges ==
    ASSUME NEW l \in Seq(Trades), NEW t \in Trades, NEW s \in Spans, NEW y, NEW k \in Nat,
           Closed(y, k, s, l), NEW z \in Nat, z \notin Starts(l, s), y.start < z,
           Starts(Append(l, t), s) = Starts(l, s) \cup {z},
           InBucket(Append(l, t), s, y.start) = InBucket(l, s, y.start)
    PROVE  Closed(y, k + 1, s, Append(l, t))
  <1>1. Later(Append(l, t), s, y.start) = Later(l, s, y.start) \cup {z}
    <2>1. y.start \in Nat
      BY StartsAre DEF Closed
    <2> QED BY <2>1 DEF Later
  <1>2. z \notin Later(l, s, y.start)
    BY DEF Later
  <1>3. /\ IsFiniteSet(Later(l, s, y.start) \cup {z})
        /\ Cardinality(Later(l, s, y.start) \cup {z}) = k + 1
    BY <1>2, FS_AddElement DEF Closed
  <1>4. IsCandle(y, Append(l, t), InBucket(l, s, y.start), y.start)
    BY StartsAre, CandleStays DEF Closed
  <1> QED BY <1>1, <1>3, <1>4 DEF Closed

\* The newest candle becomes the first closed one.
LEMMA NewestCloses ==
    ASSUME NEW l \in Seq(Trades), NEW t \in Trades, NEW s \in Spans, NEW x, Newest(x, s, l),
           NEW z \in Nat, z > x.start,
           Starts(Append(l, t), s) = Starts(l, s) \cup {z},
           InBucket(Append(l, t), s, x.start) = InBucket(l, s, x.start)
    PROVE  Closed(x, 1, s, Append(l, t))
  <1>1. x.start \in Nat /\ \A b \in Starts(l, s) : b \in Nat /\ b <= x.start
    BY NewestIsTop
  <1>2. Later(Append(l, t), s, x.start) = {z}
    <2>1. \A b \in Starts(l, s) : ~ (b > x.start)
      BY <1>1
    <2> QED BY <1>1, <2>1 DEF Later
  <1>3. IsFiniteSet({z}) /\ Cardinality({z}) = 1
    BY FS_Singleton
  <1>4. IsCandle(x, Append(l, t), InBucket(l, s, x.start), x.start)
    BY StartsAre, CandleStays DEF Newest
  <1> QED BY <1>2, <1>3, <1>4 DEF Closed, Newest

\* The first trade.
LEMMA FirstTrade ==
    ASSUME NEW t \in Trades, NEW s \in Spans, NEW a, CandleInv(a, s, <<>>)
    PROVE  CandleInv(ApplyCandle(a, s, t), s, Append(<<>>, t))
  <1> DEFINE l == <<>>
             q == Append(l, t)
             z == BucketStart(s, t.time)
             x == NewCandle(s, t)
  <1>1. /\ a = Agg(NoCandle, a.closed, a.head, 0) /\ DOMAIN a.closed = 0..Depth - 1
        /\ a.head \in 0..Depth - 1 /\ (0 < Depth => a.head = 0) /\ Starts(l, s) = {}
        /\ a.active = NoCandle
    BY DEF CandleInv
  <1>2. ApplyCandle(a, s, t) = Agg(x, a.closed, a.head, 0)
    <2>1. ApplyCandle(a, s, t) = [a EXCEPT !.active = x]
      BY <1>1 DEF ApplyCandle
    <2> QED BY <1>1, <2>1, AggFields
  <1>3. l \in Seq(Trades) /\ Len(l) = 0 /\ q \in Seq(Trades) /\ Len(q) = 1 /\ q[1] = t /\ q # <<>>
    OBVIOUS
  <1>4. z \in Nat /\ x.start = z
    BY TradeFields, Buckets DEF NewCandle
  <1> HIDE DEF l, q
  <1>5. Starts(q, s) = {z} /\ InBucket(q, s, z) = {1}
    <2>1. \A j \in 1..Len(l) : FALSE
      BY <1>3
    <2>2. Starts(q, s) = Starts(l, s) \cup {z}
      BY <1>3, <2>1, StartsGrow DEF q
    <2>3. InBucket(q, s, z) = InBucket(l, s, z) \cup {Len(l) + 1}
      BY <1>3, <2>1, InBucketGrows DEF q
    <2>4. InBucket(l, s, z) = {}
      BY <1>1, <1>3, StartsAre
    <2> QED BY <1>1, <1>3, <2>2, <2>3, <2>4
  <1>6. Newest(x, s, q)
    <2>0. Len(l) + 1 = 1
      BY <1>3
    <2>2. IsCandle(x, Append(l, t), {Len(l) + 1}, z)
      BY <1>3, CandleNew
    <2>1. IsCandle(x, q, {1}, z)
      <3> HIDE DEF x, z
      <3> QED BY <2>0, <2>2 DEF q
    <2>3. \A i \in 1..Len(q) : BucketStart(s, q[i].time) <= z
      BY <1>3, <1>4
    <2> HIDE DEF x, z
    <2> QED BY <1>4, <1>5, <2>1, <2>3 DEF Newest
  <1>7. IsFiniteSet(Starts(q, s)) /\ Cardinality(Starts(q, s)) = 1
    BY <1>5, FS_Singleton
  <1> DEFINE r == Agg(x, a.closed, a.head, 0)
  <1>8. r.active = x /\ r.closed = a.closed /\ r.head = a.head /\ r.closedN = 0
    BY AggFields
  <1> HIDE DEF x, z, r
  <1>9. /\ 0 \in 0..Depth /\ 0 = (IF 1 - 1 < Depth THEN 1 - 1 ELSE Depth) /\ \A k \in 1..0 : FALSE
        /\ (0 < Depth => a.head = 0)
    BY <1>1, EngineAssumption
  <1>10. CandleInv(r, s, q)
    <2>1. r = Agg(r.active, r.closed, r.head, r.closedN)
      BY <1>8 DEF r
    <2> QED BY <1>1, <1>3, <1>6, <1>7, <1>8, <1>9, <2>1 DEF CandleInv
  <1> QED BY <1>2, <1>10 DEF q, l, r

\* A trade of the newest bucket.
LEMMA SameBucketTrade ==
    ASSUME NEW l \in Seq(Trades), l # <<>>, NEW t \in Trades, NEW s \in Spans, NEW a,
           CandleInv(a, s, l), BucketStart(s, t.time) = a.active.start
    PROVE  CandleInv(ApplyCandle(a, s, t), s, Append(l, t))
  <1> DEFINE q == Append(l, t)
             z == BucketStart(s, t.time)
             x == FoldTrade(a.active, t)
             r == Agg(x, a.closed, a.head, a.closedN)
  <1>1. /\ q \in Seq(Trades) /\ Len(q) = Len(l) + 1 /\ Len(l) \in Nat /\ q[Len(l) + 1] = t
        /\ \A i \in 1..Len(l) : q[i] = l[i]
    BY Logged
  <1>2. Newest(a.active, s, l) /\ a = Agg(a.active, a.closed, a.head, a.closedN)
    BY DEF CandleInv
  <1>3. a.active # NoCandle /\ z \in Nat
    BY <1>2, NewestIsTop
  <1>4. ApplyCandle(a, s, t) = r
    <2>1. ApplyCandle(a, s, t) = [a EXCEPT !.active = x]
      BY <1>3 DEF ApplyCandle
    <2> QED BY <1>2, <2>1, AggFields
  <1>5. r.active = x /\ r.closed = a.closed /\ r.head = a.head /\ r.closedN = a.closedN
    BY AggFields
  <1>6. \A j \in 1..Len(l) : BucketStart(s, l[j].time) <= z
    BY <1>2 DEF Newest
  <1>7. z \in Starts(l, s)
    BY <1>2 DEF Newest
  <1>8. Starts(q, s) = Starts(l, s)
    <2>1. Starts(q, s) = Starts(l, s) \cup {z}
      BY <1>6, OnTime
    <2> QED BY <1>7, <2>1
  <1>9. /\ InBucket(q, s, z) = InBucket(l, s, z) \cup {Len(l) + 1}
        /\ \A b : b # z => InBucket(q, s, b) = InBucket(l, s, b)
    BY <1>6, OnTime
  <1>10. IsCandle(x, q, InBucket(q, s, z), z)
    <2>1. InBucket(l, s, z) \subseteq 1..Len(l) /\ IsCandle(a.active, l, InBucket(l, s, z), z)
      BY <1>2, StartsAre DEF Newest
    <2>2. IsCandle(x, q, InBucket(l, s, z) \cup {Len(l) + 1}, z)
      BY <2>1, CandleFolds
    <2> QED BY <1>9, <2>2
  <1>11. x.start = z
    BY <1>10 DEF IsCandle
  <1>12. Newest(x, s, q)
    <2>1. \A i \in 1..Len(q) : i \in 1..Len(l) \/ i = Len(l) + 1
      BY <1>1
    <2>2. \A i \in 1..Len(q) : BucketStart(s, q[i].time) <= z
      <3>1. z <= z
        BY <1>3
      <3> QED BY <1>1, <1>6, <2>1, <3>1
    <2> HIDE DEF x, z, q
    <2> QED BY <1>7, <1>8, <1>10, <1>11, <2>2 DEF Newest
  <1>13. ASSUME NEW k \in 1..a.closedN
         PROVE  Closed(a.closed[Back(Depth, a.head, k)], k, s, q)
    <2> DEFINE y == a.closed[Back(Depth, a.head, k)]
    <2>1. Closed(y, k, s, l) /\ k \in Nat \ {0}
      BY DEF CandleInv
    <2>2. y.start # z
      BY <1>2, <1>3, <2>1, NewestIsTop
    <2>3. InBucket(q, s, y.start) = InBucket(l, s, y.start)
      BY <1>9, <2>2
    <2> HIDE DEF y
    <2>4. Closed(y, k, s, q)
      BY <1>8, <2>1, <2>3, ClosedStays
    <2> QED BY <2>4 DEF y
  <1> HIDE DEF x, z
  <1>14. q # <<>>
    BY <1>1
  <1> HIDE DEF q
  <1>15. r = Agg(r.active, r.closed, r.head, r.closedN)
    BY <1>5 DEF r
  <1> HIDE DEF r
  <1>16. CandleInv(r, s, q)
    BY <1>5, <1>8, <1>12, <1>13, <1>14, <1>15 DEF CandleInv
  <1> QED BY <1>4, <1>16 DEF q

\* A trade whose bucket has closed.
LEMMA LateTrade ==
    ASSUME NEW l \in Seq(Trades), l # <<>>, NEW t \in Trades, NEW s \in Spans, NEW a,
           CandleInv(a, s, l), BucketStart(s, t.time) < a.active.start
    PROVE  CandleInv(ApplyCandle(a, s, t), s, Append(l, t))
  <1> DEFINE q == Append(l, t)
             z == BucketStart(s, t.time)
             x == a.active
  <1>1. /\ q \in Seq(Trades) /\ Len(q) = Len(l) + 1 /\ Len(l) \in Nat /\ q[Len(l) + 1] = t
        /\ \A i \in 1..Len(l) : q[i] = l[i]
    BY Logged
  <1>2. Newest(x, s, l)
    BY DEF CandleInv
  <1>3. x # NoCandle /\ z \in Nat /\ x.start \in Nat
    BY <1>2, NewestIsTop, TradeFields, Buckets
  <1>4. ApplyCandle(a, s, t) = a
    <2>1. ~ (z = x.start) /\ ~ (z > x.start)
      BY <1>3
    <2> QED BY <1>3, <2>1 DEF ApplyCandle
  <1>5. \E j \in 1..Len(l) : ~ (BucketStart(s, l[j].time) <= z)
    <2>1. PICK j : j \in InBucket(l, s, x.start)
      BY <1>2, StartsAre DEF Newest
    <2>2. j \in 1..Len(l) /\ BucketStart(s, l[j].time) = x.start
      BY <2>1 DEF InBucket
    <2> QED BY <1>3, <2>2
  <1>6. Starts(q, s) = Starts(l, s)
    BY <1>5, OutOfTime
  <1>7. \A b : InBucket(q, s, b) = InBucket(l, s, b)
    BY <1>5, OutOfTime
  <1>8. Newest(x, s, q)
    <2>1. \A i \in 1..Len(q) : i \in 1..Len(l) \/ i = Len(l) + 1
      BY <1>1
    <2>2. \A i \in 1..Len(q) : BucketStart(s, q[i].time) <= x.start
      <3>1. z <= x.start
        BY <1>3
      <3> QED BY <1>1, <1>2, <2>1, <3>1 DEF Newest
    <2>3. IsCandle(x, q, InBucket(l, s, x.start), x.start)
      BY <1>2, StartsAre, CandleStays DEF Newest
    <2> HIDE DEF x, q
    <2> QED BY <1>2, <1>6, <1>7, <2>2, <2>3 DEF Newest
  <1>9. ASSUME NEW k \in 1..a.closedN
        PROVE  Closed(a.closed[Back(Depth, a.head, k)], k, s, q)
    <2>1. Closed(a.closed[Back(Depth, a.head, k)], k, s, l)
      BY DEF CandleInv
    <2> QED BY <1>6, <1>7, <2>1, ClosedStays
  <1>10. q # <<>>
    BY <1>1
  <1> HIDE DEF q
  <1>11. CandleInv(a, s, q)
    BY <1>6, <1>8, <1>9, <1>10 DEF CandleInv
  <1> QED BY <1>4, <1>11 DEF q

\* A trade of a later bucket: the newest candle closes.
LEMMA NextBucketTrade ==
    ASSUME NEW l \in Seq(Trades), l # <<>>, NEW t \in Trades, NEW s \in Spans, NEW a,
           CandleInv(a, s, l), BucketStart(s, t.time) > a.active.start
    PROVE  CandleInv(ApplyCandle(a, s, t), s, Append(l, t))
  <1> DEFINE q == Append(l, t)
             z == BucketStart(s, t.time)
             x == NewCandle(s, t)
             C == [a.closed EXCEPT ![a.head] = a.active]
             H == (a.head + 1) % Depth
             N == IF a.closedN < Depth THEN a.closedN + 1 ELSE a.closedN
             r == Agg(x, C, H, N)
  <1>1. /\ q \in Seq(Trades) /\ Len(q) = Len(l) + 1 /\ Len(l) \in Nat /\ q[Len(l) + 1] = t
        /\ \A i \in 1..Len(l) : q[i] = l[i]
    BY Logged
  <1>2. /\ Newest(a.active, s, l) /\ a = Agg(a.active, a.closed, a.head, a.closedN)
        /\ DOMAIN a.closed = 0..Depth - 1 /\ a.head \in 0..Depth - 1 /\ a.closedN \in 0..Depth
        /\ a.closedN < Depth => a.head = a.closedN
        /\ IsFiniteSet(Starts(l, s))
        /\ a.closedN = IF Cardinality(Starts(l, s)) - 1 < Depth
                       THEN Cardinality(Starts(l, s)) - 1 ELSE Depth
        /\ Depth \in Nat \ {0}
    BY EngineAssumption DEF CandleInv
  <1>3. /\ a.active # NoCandle /\ z \in Nat /\ a.active.start \in Nat
        /\ \A b \in Starts(l, s) : b \in Nat /\ b <= a.active.start
    BY <1>2, NewestIsTop, TradeFields, Buckets
  <1>4. ApplyCandle(a, s, t) = r
    <2>1. ApplyCandle(a, s, t) = [PushClosed(a) EXCEPT !.active = x]
      <3>1. ~ (z = a.active.start)
        BY <1>3
      <3> QED BY <1>3, <3>1 DEF ApplyCandle
    <2>2. PushClosed(a) = Agg(a.active, C, H, N)
      BY <1>2, PushFields
    <2> HIDE DEF C, H, N, x
    <2> QED BY <2>1, <2>2, AggFields
  <1>5. r.active = x /\ r.closed = C /\ r.head = H /\ r.closedN = N
    BY AggFields
  <1>6. \A j \in 1..Len(l) : BucketStart(s, l[j].time) <= z
    <2> SUFFICES ASSUME NEW j \in 1..Len(l) PROVE BucketStart(s, l[j].time) <= z
      OBVIOUS
    <2>1. BucketStart(s, l[j].time) <= a.active.start
      BY <1>2 DEF Newest
    <2>2. BucketStart(s, l[j].time) \in Nat
      <3>1. l[j] \in Trades
        OBVIOUS
      <3> QED BY <3>1, TradeFields, Buckets
    <2> QED BY <1>3, <2>1, <2>2
  <1>7. z \notin Starts(l, s)
    BY <1>3
  <1>8. /\ Starts(q, s) = Starts(l, s) \cup {z}
        /\ InBucket(q, s, z) = InBucket(l, s, z) \cup {Len(l) + 1}
        /\ \A b : b # z => InBucket(q, s, b) = InBucket(l, s, b)
    <2>1. Starts(q, s) = Starts(l, s) \cup {z}
      BY <1>6, OnTime
    <2>2. /\ InBucket(q, s, z) = InBucket(l, s, z) \cup {Len(l) + 1}
          /\ \A b : b # z => InBucket(q, s, b) = InBucket(l, s, b)
      BY <1>6, OnTime
    <2> QED BY <2>1, <2>2
  <1>9. InBucket(q, s, z) = {Len(l) + 1}
    <2>1. InBucket(l, s, z) = {}
      BY <1>7, StartsAre
    <2> QED BY <1>8, <2>1
  <1>10. x.start = z
    BY DEF NewCandle
  <1>11. Newest(x, s, q)
    <2>1. \A i \in 1..Len(q) : i \in 1..Len(l) \/ i = Len(l) + 1
      BY <1>1
    <2>2. \A i \in 1..Len(q) : BucketStart(s, q[i].time) <= z
      <3>1. z <= z
        BY <1>3
      <3> QED BY <1>1, <1>6, <2>1, <3>1
    <2>3. IsCandle(x, q, {Len(l) + 1}, z)
      BY CandleNew
    <2> HIDE DEF x, z, q
    <2> QED BY <1>8, <1>9, <1>10, <2>2, <2>3 DEF Newest
  <1>12. IsFiniteSet(Starts(q, s)) /\ Cardinality(Starts(q, s)) = Cardinality(Starts(l, s)) + 1
    BY <1>2, <1>7, <1>8, FS_AddElement
  <1>13. Cardinality(Starts(l, s)) \in Nat
    BY <1>2, FS_CardinalityType
  <1>14. N = (IF Cardinality(Starts(q, s)) - 1 < Depth THEN Cardinality(Starts(q, s)) - 1 ELSE Depth)
         /\ N \in 1..Depth /\ N - 1 <= a.closedN
    BY <1>2, <1>12, <1>13
  <1>15. /\ H \in 0..Depth - 1 /\ H = (IF a.head + 1 < Depth THEN a.head + 1 ELSE 0)
         /\ Back(Depth, H, 1) = a.head
         /\ \A k \in 1..Depth - 1 : /\ Back(Depth, H, k + 1) = Back(Depth, a.head, k)
                                    /\ Back(Depth, a.head, k) # a.head
    BY <1>2, HeadMoves, Zenon
  <1> HIDE DEF H
  <1>16. N < Depth => H = N
    BY <1>2, <1>15
  <1> HIDE DEF N
  <1>17. Closed(C[Back(Depth, H, 1)], 1, s, q)
    <2>1. C[Back(Depth, H, 1)] = a.active
      BY <1>2, <1>15
    <2>2. InBucket(q, s, a.active.start) = InBucket(l, s, a.active.start)
      BY <1>3, <1>8
    <2>3. z > a.active.start
      OBVIOUS
    <2> HIDE DEF z
    <2>4. Closed(a.active, 1, s, Append(l, t))
      BY <1>2, <1>3, <1>8, <2>2, <2>3, NewestCloses
    <2> QED BY <2>1, <2>4
  <1>18. ASSUME NEW k \in 2..N
         PROVE  Closed(C[Back(Depth, H, k)], k, s, q)
    <2> DEFINE j == k - 1
               y == a.closed[Back(Depth, a.head, j)]
    <2>1. j \in 1..Depth - 1 /\ j \in 1..a.closedN /\ j + 1 = k /\ j \in 1..Depth /\ j \in Nat \ {0}
      BY <1>2, <1>14
    <2> HIDE DEF j
    <2>2. C[Back(Depth, H, k)] = y
      <3>1. Back(Depth, H, j + 1) = Back(Depth, a.head, j) /\ Back(Depth, a.head, j) # a.head
        BY <1>15, <2>1
      <3>2. Back(Depth, a.head, j) \in 0..Depth - 1
        BY <1>2, <2>1, BackIs
      <3> QED BY <1>2, <2>1, <3>1, <3>2
    <2>3. Closed(y, j, s, l)
      BY <2>1 DEF CandleInv
    <2>4. y.start \in Nat /\ y.start < a.active.start
      BY <1>2, <2>1, <2>3, NewestIsTop
    <2>5. y.start < z /\ y.start # z
      BY <1>3, <2>4
    <2>6. InBucket(q, s, y.start) = InBucket(l, s, y.start)
      BY <1>8, <2>5
    <2> HIDE DEF y, z
    <2>7. Closed(y, j + 1, s, Append(l, t))
      BY <1>3, <1>7, <1>8, <2>1, <2>3, <2>5, <2>6, ClosedAges
    <2> QED BY <2>1, <2>2, <2>7
  <1>19. ASSUME NEW k \in 1..N
         PROVE  Closed(C[Back(Depth, H, k)], k, s, q)
    <2>1. k = 1 \/ k \in 2..N
      BY <1>14
    <2> QED BY <1>17, <1>18, <2>1
  <1>20. q # <<>> /\ DOMAIN C = 0..Depth - 1
    BY <1>1, <1>2
  <1> HIDE DEF q, x, z, C
  <1>21. r = Agg(r.active, r.closed, r.head, r.closedN)
    BY <1>5 DEF r
  <1> HIDE DEF r
  <1>22. N \in 0..Depth
    BY <1>2, <1>14
  <1>23. CandleInv(r, s, q)
    BY <1>5, <1>11, <1>12, <1>14, <1>15, <1>16, <1>19, <1>20, <1>21, <1>22 DEF CandleInv
  <1> QED BY <1>4, <1>23 DEF q

LEMMA CandleKeeps ==
    ASSUME NEW l \in Seq(Trades), NEW t \in Trades, NEW s \in Spans, NEW a, CandleInv(a, s, l)
    PROVE  CandleInv(ApplyCandle(a, s, t), s, Append(l, t))
  <1>1. CASE l = <<>>
    BY <1>1, FirstTrade
  <1>2. CASE l # <<>>
    <2>1. a.active.start \in Nat /\ BucketStart(s, t.time) \in Nat
      BY <1>2, NewestIsTop, TradeFields, Buckets DEF CandleInv
    <2>2. \/ BucketStart(s, t.time) = a.active.start
          \/ BucketStart(s, t.time) < a.active.start
          \/ BucketStart(s, t.time) > a.active.start
      BY <2>1
    <2> QED BY <1>2, <2>2, SameBucketTrade, LateTrade, NextBucketTrade
  <1> QED BY <1>1, <1>2

\* The history served, place by place.
LEMMA HistoryIs ==
    ASSUME NEW l \in Seq(Trades), l # <<>>, NEW s \in Spans, NEW a, CandleInv(a, s, l),
           NEW limit \in 1..Depth + 1
    PROVE  LET served == HistoryWithActive(a, limit)
               room == IF limit - 1 > a.closedN THEN a.closedN ELSE limit - 1
           IN  /\ room \in Nat /\ room <= a.closedN /\ Len(served) = room + 1
               /\ served[room + 1] = a.active
               /\ \A i \in 1..room : served[i] = a.closed[Back(Depth, a.head, room - i + 1)]
  <1> DEFINE served == HistoryWithActive(a, limit)
             room == IF limit - 1 > a.closedN THEN a.closedN ELSE limit - 1
             F == [i \in 1..room |-> a.closed[Idx(a, a.closedN - room + i - 1)]]
  <1>1. /\ Depth \in Nat \ {0} /\ a.head \in 0..Depth - 1 /\ a.closedN \in 0..Depth
        /\ a.closedN < Depth => a.head = a.closedN
        /\ Newest(a.active, s, l)
    BY EngineAssumption DEF CandleInv
  <1>2. a.active # NoCandle
    BY <1>1, NewestIsTop
  <1>3. room \in Nat /\ room <= a.closedN
    BY <1>1
  <1>4. served = F \o <<a.active>>
    <2>1. Len(<<a.active>>) = 1
      OBVIOUS
    <2> QED BY <1>2, <2>1 DEF HistoryWithActive
  <1> HIDE DEF room, served
  <1>5. Len(F) = room /\ \A i \in 1..room : F[i] = a.closed[Idx(a, a.closedN - room + i - 1)]
    BY <1>3
  <1>6. /\ Len(served) = room + 1 /\ served[room + 1] = a.active
        /\ \A i \in 1..room : served[i] = F[i]
    <2> DEFINE S == {a.closed[Idx(a, a.closedN - room + i - 1)] : i \in 1..room} \cup {a.active}
    <2>2. a.active \in S /\ \A i \in 1..room : a.closed[Idx(a, a.closedN - room + i - 1)] \in S
      OBVIOUS
    <2> HIDE DEF S
    <2>3. F \in [1..room -> S]
      BY <2>2 DEF F
    <2>4. F \in Seq(S)
      BY <1>3, <2>3
    <2>5. <<a.active>> \in Seq(S) /\ Len(<<a.active>>) = 1 /\ <<a.active>>[1] = a.active
      BY <2>2
    <2> HIDE DEF F, S
    <2> QED BY <1>3, <1>4, <1>5, <2>4, <2>5
  <1> HIDE DEF F
  <1>7. ASSUME NEW i \in 1..room
        PROVE  Idx(a, a.closedN - room + i - 1) = Back(Depth, a.head, room - i + 1)
    <2> DEFINE k == room - i + 1
    <2>1. k \in 1..Depth /\ k \in 1..a.closedN /\ a.closedN - room + i - 1 = a.closedN - k
      BY <1>1, <1>3
    <2> HIDE DEF k
    <2>2. CASE a.closedN = Depth
      <3>1. Idx(a, a.closedN - k) = (a.head + (Depth - k)) % Depth
        BY <2>2 DEF Idx
      <3>2. a.head + (Depth - k) = a.head - k + Depth
        BY <1>1, <2>1
      <3>3. Idx(a, a.closedN - k) = Back(Depth, a.head, k)
        BY <3>1, <3>2 DEF Back
      <3> QED BY <2>1, <3>3 DEF k
    <2>3. CASE a.closedN # Depth
      <3>1. a.head = a.closedN /\ a.closedN - k \in 0..Depth - 1 /\ k <= a.head
        BY <1>1, <2>1, <2>3
      <3>2. Idx(a, a.closedN - k) = (0 + (a.closedN - k)) % Depth
        BY <2>3 DEF Idx
      <3>3. 0 + (a.closedN - k) = a.closedN - k
        BY <3>1
      <3>4. (a.closedN - k) % Depth = a.closedN - k
        BY <1>1, <3>1, Wrap
      <3>5. Back(Depth, a.head, k) = a.head - k
        BY <1>1, <2>1, <3>1, BackIs
      <3>6. Idx(a, a.closedN - k) = Back(Depth, a.head, k)
        BY <3>1, <3>2, <3>3, <3>4, <3>5
      <3> QED BY <2>1, <3>6 DEF k
    <2> QED BY <2>2, <2>3
  <1>8. \A i \in 1..room : served[i] = a.closed[Back(Depth, a.head, room - i + 1)]
    BY <1>5, <1>6, <1>7
  <1> QED BY <1>3, <1>6, <1>8 DEF room, served

\* The history that aggregator a serves is the one of the log l.
ServesHistory(a, s, l, limit) ==
    LET starts == Starts(l, s)
        served == HistoryWithActive(a, limit)
    IN  /\ Len(served) = IF Cardinality(starts) < limit THEN Cardinality(starts) ELSE limit
        /\ \A i \in 1..Len(served) :
              LET later == {b \in starts : b > served[i].start}
              IN  /\ served[i].start \in starts
                  /\ Cardinality(later) = Len(served) - i
                  /\ served[i] = CandleOf(l, s, served[i].start)

LEMMA CandleServes ==
    ASSUME NEW l \in Seq(Trades), NEW s \in Spans, NEW a, CandleInv(a, s, l),
           NEW limit \in 1..Depth + 1
    PROVE  ServesHistory(a, s, l, limit)
  <1> USE DEF ServesHistory
  <1> DEFINE served == HistoryWithActive(a, limit)
             starts == Starts(l, s)
  <1>0. Depth \in Nat \ {0} /\ a.closedN \in 0..Depth /\ limit \in Nat \ {0}
    BY EngineAssumption DEF CandleInv
  <1>1. CASE l = <<>>
    <2>1. a.active = NoCandle /\ a.closedN = 0 /\ starts = {}
      BY <1>1 DEF CandleInv
    <2>2. served = [i \in 1..0 |-> a.closed[Idx(a, 0 - 0 + i - 1)]] \o <<>>
      <3>1. Len(<<>>) = 0 /\ limit - 0 > 0
        BY <1>0
      <3> QED BY <2>1, <3>1 DEF HistoryWithActive
    <2>3. served = <<>>
      BY <2>2
    <2>4. Len(served) = 0 /\ Cardinality(starts) = 0
      BY <2>1, <2>3, FS_EmptySet
    <2> HIDE DEF served, starts
    <2>5. 0 < limit /\ \A i \in 1..0 : FALSE
      BY <1>0
    <2>6. /\ Len(served) = IF Cardinality(starts) < limit THEN Cardinality(starts) ELSE limit
          /\ \A i \in 1..Len(served) : FALSE
      BY <2>4, <2>5
    <2> QED BY <2>6 DEF served, starts
  <1>2. CASE l # <<>>
    <2> DEFINE room == IF limit - 1 > a.closedN THEN a.closedN ELSE limit - 1
    <2>1. /\ room \in Nat /\ room <= a.closedN /\ Len(served) = room + 1
          /\ served[room + 1] = a.active
          /\ \A i \in 1..room : served[i] = a.closed[Back(Depth, a.head, room - i + 1)]
      BY <1>2, HistoryIs
    <2>2. /\ IsFiniteSet(starts) /\ Cardinality(starts) \in Nat
          /\ a.closedN = IF Cardinality(starts) - 1 < Depth THEN Cardinality(starts) - 1 ELSE Depth
          /\ Newest(a.active, s, l)
      BY <1>2, FS_CardinalityType DEF CandleInv
    <2> HIDE DEF served
    <2>3. Len(served) = IF Cardinality(starts) < limit THEN Cardinality(starts) ELSE limit
      BY <1>0, <2>1, <2>2
    <2> HIDE DEF room
    <2>4. ASSUME NEW i \in 1..Len(served)
          PROVE  /\ served[i].start \in starts
                 /\ Cardinality({b \in starts : b > served[i].start}) = Len(served) - i
                 /\ IsCandle(served[i], l, InBucket(l, s, served[i].start), served[i].start)
      <3>1. CASE i = room + 1
        <4>1. {b \in starts : b > a.active.start} = {}
          <5>1. \A b \in starts : b \in Nat /\ b <= a.active.start /\ a.active.start \in Nat
            BY <2>2, NewestIsTop
          <5> QED BY <5>1
        <4>2. Len(served) - i = 0
          BY <2>1, <3>1
        <4>3. Cardinality({b \in starts : b > a.active.start}) = 0
          BY <4>1, FS_EmptySet
        <4> HIDE DEF starts
        <4>4. a.active.start \in starts /\ IsCandle(a.active, l, InBucket(l, s, a.active.start), a.active.start)
          BY <2>2 DEF Newest, starts
        <4> QED BY <2>1, <3>1, <4>2, <4>3, <4>4
      <3>2. CASE i # room + 1
        <4> DEFINE k == room - i + 1
        <4>1. i \in 1..room /\ k \in 1..a.closedN /\ Len(served) - i = k
          BY <1>0, <2>1, <3>2
        <4> HIDE DEF k
        <4>2. Closed(a.closed[Back(Depth, a.head, k)], k, s, l)
          BY <4>1 DEF CandleInv
        <4>3. served[i] = a.closed[Back(Depth, a.head, k)]
          BY <2>1, <4>1 DEF k
        <4> QED BY <4>1, <4>2, <4>3 DEF Closed, Later
      <3> QED BY <3>1, <3>2
    <2>5. ASSUME NEW i \in 1..Len(served)
          PROVE  served[i] = CandleOf(l, s, served[i].start)
      <3> DEFINE I == InBucket(l, s, served[i].start)
      <3>1. IsCandle(served[i], l, I, served[i].start) /\ I \subseteq 1..Len(l)
        BY <2>4, StartsAre
      <3>2. served[i] = [start |-> served[i].start, open |-> l[FirstOf(I)].price,
                 high |-> HighOf(l, I), low |-> LowOf(l, I), close |-> l[LastOf(I)].price,
                 trades |-> Cardinality(I), seq |-> l[LastOf(I)].id]
        <4> HIDE DEF I
        <4> QED BY <3>1, CandleIs
      <3> QED BY <3>2 DEF CandleOf
    <2> QED BY <2>3, <2>4, <2>5 DEF served
  <1> QED BY <1>1, <1>2

--------------------------------------------------------------------------------
(* Sums over places of the log. *)

\* f adds up what the first n places of the log, as far as they are in I, carry.
Adds(f, l, I, n) ==
    /\ f \in [0..n -> Int] /\ f[0] = 0
    /\ \A k \in 1..n : f[k] = f[k - 1] + (IF k \in I THEN l[k].price ELSE 0)

LEMMA Priced ==
    ASSUME NEW l \in Seq(Trades), NEW I
    PROVE  \A k \in 1..Len(l) : /\ (IF k \in I THEN l[k].price ELSE 0) \in Nat
                                /\ l[k].price \in Nat /\ l[k].time \in Nat
  <1>1. \A k \in 1..Len(l) : l[k] \in Trades
    OBVIOUS
  <1> QED BY <1>1, TradeFields

LEMMA AddsExists ==
    ASSUME NEW l \in Seq(Trades), NEW I
    PROVE  \E f : Adds(f, l, I, Len(l))
  <1> DEFINE T == {n \in Nat : n <= Len(l) => \E f : Adds(f, l, I, n)}
  <1>1. 0 \in T
    <2> DEFINE f == [k \in 0..0 |-> 0]
    <2>1. f \in [0..0 -> Int] /\ f[0] = 0 /\ \A k \in 1..0 : FALSE
      OBVIOUS
    <2>2. Adds(f, l, I, 0)
      BY <2>1 DEF Adds
    <2> QED BY <2>2
  <1>2. ASSUME NEW n \in Nat, n \in T PROVE n + 1 \in T
    <2> SUFFICES ASSUME n + 1 <= Len(l) PROVE \E f : Adds(f, l, I, n + 1)
      OBVIOUS
    <2>1. n <= Len(l) /\ n + 1 \in 1..Len(l)
      OBVIOUS
    <2>2. PICK f : Adds(f, l, I, n)
      BY <1>2, <2>1
    <2> DEFINE d == IF n + 1 \in I THEN l[n + 1].price ELSE 0
               g == [k \in 0..n + 1 |-> IF k = n + 1 THEN f[n] + d ELSE f[k]]
    <2>3. d \in Nat
      BY <2>1, Priced
    <2>4. f \in [0..n -> Int] /\ f[0] = 0 /\ n \in 0..n
          /\ \A k \in 1..n : f[k] = f[k - 1] + (IF k \in I THEN l[k].price ELSE 0)
      BY <2>2 DEF Adds
    <2>5. g \in [0..n + 1 -> Int]
      <3>1. \A k \in 0..n + 1 : k = n + 1 \/ k \in 0..n
        OBVIOUS
      <3>2. f[n] + d \in Int
        BY <2>3, <2>4
      <3> HIDE DEF d
      <3> QED BY <2>4, <3>1, <3>2
    <2>6. g[0] = 0
      BY <2>4
    <2>7. ASSUME NEW k \in 1..n + 1
          PROVE  g[k] = g[k - 1] + (IF k \in I THEN l[k].price ELSE 0)
      <3>1. k - 1 \in 0..n + 1 /\ k \in 0..n + 1 /\ k - 1 # n + 1 /\ g[k - 1] = f[k - 1]
        OBVIOUS
      <3>2. CASE k = n + 1
        <4>1. g[k] = f[n] + d /\ k - 1 = n
          BY <3>2
        <4> QED BY <3>1, <3>2, <4>1
      <3>3. CASE k # n + 1
        <4>1. k \in 1..n /\ g[k] = f[k]
          BY <3>3
        <4> QED BY <2>4, <3>1, <4>1
      <3> QED BY <3>2, <3>3
    <2> HIDE DEF g
    <2>8. Adds(g, l, I, n + 1)
      BY <2>5, <2>6, <2>7 DEF Adds
    <2> QED BY <2>8
  <1>3. Len(l) \in Nat
    OBVIOUS
  <1>4. Nat \subseteq T
    <2> HIDE DEF T
    <2> QED BY <1>1, <1>2, Induct
  <1>5. Len(l) \in T /\ Len(l) <= Len(l)
    BY <1>3, <1>4
  <1> QED BY <1>5

LEMMA AddsUnique ==
    ASSUME NEW l \in Seq(Trades), NEW I, NEW f, NEW g, DOMAIN g = 0..Len(l), g[0] = 0,
           Adds(f, l, I, Len(l)),
           \A k \in 1..Len(l) : g[k] = g[k - 1] + (IF k \in I THEN l[k].price ELSE 0)
    PROVE  g[Len(l)] = f[Len(l)]
  <1> DEFINE T == {n \in Nat : n <= Len(l) => g[n] = f[n]}
  <1>1. 0 \in T
    BY DEF Adds
  <1>2. ASSUME NEW n \in Nat, n \in T PROVE n + 1 \in T
    <2> SUFFICES ASSUME n + 1 <= Len(l) PROVE g[n + 1] = f[n + 1]
      OBVIOUS
    <2>1. n <= Len(l) /\ n + 1 \in 1..Len(l) /\ (n + 1) - 1 = n
      OBVIOUS
    <2>2. g[n] = f[n]
      BY <1>2, <2>1
    <2>3. g[n + 1] = g[n] + (IF n + 1 \in I THEN l[n + 1].price ELSE 0)
      BY <2>1
    <2>4. f[n + 1] = f[n] + (IF n + 1 \in I THEN l[n + 1].price ELSE 0)
      BY <2>1 DEF Adds
    <2> QED BY <2>2, <2>3, <2>4
  <1>3. Len(l) \in Nat
    OBVIOUS
  <1>4. Nat \subseteq T
    <2> HIDE DEF T
    <2> QED BY <1>1, <1>2, Induct
  <1>5. Len(l) \in T /\ Len(l) <= Len(l)
    BY <1>3, <1>4
  <1> QED BY <1>5

LEMMA SumIs ==
    ASSUME NEW l \in Seq(Trades), NEW I, NEW f, Adds(f, l, I, Len(l))
    PROVE  SumOf(l, I) = f[Len(l)] /\ SumOf(l, I) \in Int
  <1> DEFINE n == Len(l)
             D(k) == IF k \in I THEN l[k].price ELSE 0
             Is(g) == g = [k \in 0..n |-> IF k = 0 THEN 0 ELSE g[k - 1] + D(k)]
             c == CHOOSE g : Is(g)
  <1>1. n \in Nat
    OBVIOUS
  <1>2. Is(f)
    <2>1. /\ f \in [0..n -> Int] /\ f[0] = 0
          /\ \A k \in 1..n : f[k] = f[k - 1] + D(k)
      BY DEF Adds
    <2>2. \A k \in 0..n : k = 0 \/ k \in 1..n
      BY <1>1
    <2> HIDE DEF D
    <2>3. \A k \in 0..n : f[k] = IF k = 0 THEN 0 ELSE f[k - 1] + D(k)
      BY <2>1, <2>2
    <2> QED BY <2>1, <2>3
  <1>3. Is(c)
    <2> HIDE DEF Is
    <2>1. \E g : Is(g)
      BY <1>2
    <2> QED BY <2>1
  <1>4. SumOf(l, I) = c[n]
    BY DEF SumOf
  <1> HIDE DEF c, n
  <1>5. DOMAIN c = 0..n /\ \A k \in 0..n : c[k] = IF k = 0 THEN 0 ELSE c[k - 1] + D(k)
    BY <1>3
  <1>6. 0 \in 0..n /\ \A k \in 1..n : k \in 0..n /\ k # 0
    BY <1>1
  <1>7. c[0] = 0 /\ \A k \in 1..n : c[k] = c[k - 1] + D(k)
    BY <1>5, <1>6
  <1>8. c[n] = f[n]
    BY <1>5, <1>7, AddsUnique DEF n
  <1>9. f[n] \in Int
    BY <1>1 DEF Adds, n
  <1> QED BY <1>4, <1>8, <1>9 DEF n

LEMMA SumNat ==
    ASSUME NEW l \in Seq(Trades), NEW I
    PROVE  SumOf(l, I) \in Nat
  <1>1. PICK f : Adds(f, l, I, Len(l))
    BY AddsExists
  <1> DEFINE T == {n \in Nat : n <= Len(l) => f[n] \in Nat}
  <1>2. 0 \in T
    BY <1>1 DEF Adds
  <1>3. ASSUME NEW n \in Nat, n \in T PROVE n + 1 \in T
    <2> SUFFICES ASSUME n + 1 <= Len(l) PROVE f[n + 1] \in Nat
      OBVIOUS
    <2>1. n <= Len(l) /\ n + 1 \in 1..Len(l) /\ (n + 1) - 1 = n
      OBVIOUS
    <2> DEFINE d == IF n + 1 \in I THEN l[n + 1].price ELSE 0
    <2>2. f[n] \in Nat /\ f[n + 1] = f[n] + d
      BY <1>1, <1>3, <2>1 DEF Adds
    <2>3. d \in Nat
      BY <2>1, Priced
    <2> QED BY <2>2, <2>3
  <1>4. Len(l) \in Nat
    OBVIOUS
  <1>5. Nat \subseteq T
    <2> HIDE DEF T
    <2> QED BY <1>2, <1>3, Induct
  <1>6. f[Len(l)] \in Nat
    BY <1>4, <1>5
  <1> QED BY <1>1, <1>6, SumIs

LEMMA SumEmpty ==
    ASSUME NEW l \in Seq(Trades)
    PROVE  SumOf(l, {}) = 0
  <1> DEFINE f == [k \in 0..Len(l) |-> 0]
  <1>1. Len(l) \in Nat
    OBVIOUS
  <1>2. /\ f \in [0..Len(l) -> Int] /\ f[0] = 0
        /\ \A k \in 1..Len(l) : f[k] = 0 /\ f[k - 1] = 0
    BY <1>1
  <1> HIDE DEF f
  <1>3. Adds(f, l, {}, Len(l))
    BY <1>2 DEF Adds
  <1>4. f[Len(l)] = 0
    BY <1>1 DEF f
  <1> QED BY <1>3, <1>4, SumIs

LEMMA SumMinus ==
    ASSUME NEW l \in Seq(Trades), NEW I, NEW J, J \subseteq I
    PROVE  SumOf(l, I \ J) = SumOf(l, I) - SumOf(l, J)
  <1>1. PICK f : Adds(f, l, I, Len(l))
    BY AddsExists
  <1>2. PICK g : Adds(g, l, J, Len(l))
    BY AddsExists
  <1> DEFINE n == Len(l)
             h == [k \in 0..n |-> f[k] - g[k]]
  <1>3. n \in Nat
    OBVIOUS
  <1>4. /\ f \in [0..n -> Int] /\ f[0] = 0 /\ g \in [0..n -> Int] /\ g[0] = 0
        /\ \A k \in 1..n : f[k] = f[k - 1] + (IF k \in I THEN l[k].price ELSE 0)
        /\ \A k \in 1..n : g[k] = g[k - 1] + (IF k \in J THEN l[k].price ELSE 0)
    BY <1>1, <1>2 DEF Adds
  <1>5. h \in [0..n -> Int] /\ h[0] = 0
    BY <1>3, <1>4
  <1>6. ASSUME NEW k \in 1..n
        PROVE  h[k] = h[k - 1] + (IF k \in I \ J THEN l[k].price ELSE 0)
    <2>1. k \in 0..n /\ k - 1 \in 0..n
      BY <1>3
    <2>2. h[k] = f[k] - g[k] /\ h[k - 1] = f[k - 1] - g[k - 1]
      BY <2>1
    <2>3. f[k - 1] \in Int /\ g[k - 1] \in Int /\ l[k].price \in Nat
      BY <1>4, <2>1, Priced
    <2> HIDE DEF h
    <2>4. CASE k \in J
      BY <1>4, <2>2, <2>3, <2>4
    <2>5. CASE k \notin J
      <3>1. CASE k \in I
        BY <1>4, <2>2, <2>3, <2>5, <3>1
      <3>2. CASE k \notin I
        BY <1>4, <2>2, <2>3, <2>5, <3>2
      <3> QED BY <3>1, <3>2
    <2> QED BY <2>4, <2>5
  <1>7. h[n] = f[n] - g[n]
    BY <1>3
  <1> HIDE DEF h
  <1>8. Adds(h, l, I \ J, n)
    BY <1>5, <1>6 DEF Adds
  <1> QED BY <1>1, <1>2, <1>7, <1>8, SumIs

\* The sum after one more trade.
LEMMA SumAppend ==
    ASSUME NEW l \in Seq(Trades), NEW t \in Trades, NEW I, NEW J,
           \A k \in 1..Len(l) : k \in J <=> k \in I
    PROVE  SumOf(Append(l, t), J) = SumOf(l, I) + (IF Len(l) + 1 \in J THEN t.price ELSE 0)
  <1>1. PICK f : Adds(f, l, I, Len(l))
    BY AddsExists
  <1> DEFINE n == Len(l)
             q == Append(l, t)
             d == IF n + 1 \in J THEN t.price ELSE 0
             h == [k \in 0..n + 1 |-> IF k = n + 1 THEN f[n] + d ELSE f[k]]
  <1>2. n \in Nat /\ Len(q) = n + 1 /\ q \in Seq(Trades) /\ q[n + 1] = t
        /\ \A k \in 1..n : q[k] = l[k]
    BY Logged
  <1>3. d \in Nat
    BY TradeFields
  <1>4. /\ f \in [0..n -> Int] /\ f[0] = 0
        /\ \A k \in 1..n : f[k] = f[k - 1] + (IF k \in I THEN l[k].price ELSE 0)
    BY <1>1 DEF Adds
  <1> HIDE DEF n, q, d
  <1>5. h \in [0..n + 1 -> Int] /\ h[0] = 0
    <2>1. \A k \in 0..n + 1 : k = n + 1 \/ k \in 0..n
      BY <1>2
    <2>2. f[n] + d \in Int /\ 0 \in 0..n + 1 /\ 0 # n + 1
      BY <1>2, <1>3, <1>4
    <2> QED BY <1>4, <2>1, <2>2
  <1>6. ASSUME NEW k \in 1..n + 1
        PROVE  h[k] = h[k - 1] + (IF k \in J THEN q[k].price ELSE 0)
    <2>1. k \in 0..n + 1 /\ k - 1 \in 0..n + 1 /\ k - 1 # n + 1 /\ h[k - 1] = f[k - 1]
      BY <1>2
    <2>2. CASE k = n + 1
      <3>1. h[k] = f[n] + d /\ k - 1 = n /\ d = (IF k \in J THEN q[k].price ELSE 0)
        BY <1>2, <2>1, <2>2 DEF d
      <3> QED BY <2>1, <3>1
    <2>3. CASE k # n + 1
      <3>1. k \in 1..n /\ h[k] = f[k]
        BY <1>2, <2>1, <2>3
      <3>2. (k \in J <=> k \in I) /\ q[k] = l[k]
        BY <1>2, <3>1 DEF n
      <3> QED BY <1>4, <2>1, <3>1, <3>2
    <2> QED BY <2>2, <2>3
  <1>7. h[n + 1] = f[n] + d
    BY <1>2
  <1> HIDE DEF h
  <1>8. Adds(h, q, J, Len(q))
    BY <1>2, <1>5, <1>6 DEF Adds
  <1>9. SumOf(q, J) = h[n + 1] /\ SumOf(l, I) = f[n]
    BY <1>1, <1>2, <1>8, SumIs DEF n
  <1> QED BY <1>7, <1>9 DEF n, q, d

--------------------------------------------------------------------------------
(* A bucket of the summary. *)

\* The bucket with these parts.
Bk(m, v, h, w, o, n) ==
    [minute |-> m, volume |-> v, high |-> h, low |-> w, open |-> o, trades |-> n]

LEMMA BkFields ==
    ASSUME NEW m, NEW v, NEW h, NEW w, NEW o, NEW n
    PROVE  /\ Bk(m, v, h, w, o, n).minute = m /\ Bk(m, v, h, w, o, n).volume = v
           /\ Bk(m, v, h, w, o, n).high = h /\ Bk(m, v, h, w, o, n).low = w
           /\ Bk(m, v, h, w, o, n).open = o /\ Bk(m, v, h, w, o, n).trades = n
           /\ \A y : [Bk(m, v, h, w, o, n) EXCEPT !.volume = y] = Bk(m, y, h, w, o, n)
           /\ \A y : [Bk(m, v, h, w, o, n) EXCEPT !.trades = y] = Bk(m, v, h, w, o, y)
           /\ \A y : [Bk(m, v, h, w, o, n) EXCEPT !.high = y] = Bk(m, v, y, w, o, n)
           /\ \A y : [Bk(m, v, h, w, o, n) EXCEPT !.low = y] = Bk(m, v, h, y, o, n)
  BY DEF Bk

LEMMA FoldedFields ==
    ASSUME NEW m, NEW v, NEW h, NEW w, NEW o, NEW n, n # 0, NEW t
    PROVE  Folded(Bk(m, v, h, w, o, n), t) =
              Bk(m, v + t.price, IF t.price > h THEN t.price ELSE h,
                 IF t.price < w THEN t.price ELSE w, o, n + 1)
  <1> DEFINE b == Bk(m, v, h, w, o, n)
             V == v + t.price
             N == n + 1
             H == IF t.price > h THEN t.price ELSE h
             W == IF t.price < w THEN t.price ELSE w
  <1>1. b.volume = v /\ b.high = h /\ b.low = w /\ b.trades = n
    BY BkFields
  <1>2. Folded(b, t) = [b EXCEPT !.volume = V, !.trades = N, !.high = H, !.low = W]
    <2> HIDE DEF b
    <2> QED BY <1>1 DEF Folded
  <1> HIDE DEF V, N, H, W
  <1>3. [b EXCEPT !.volume = V] = Bk(m, V, h, w, o, n)
    BY BkFields
  <1>4. [Bk(m, V, h, w, o, n) EXCEPT !.trades = N] = Bk(m, V, h, w, o, N)
    BY BkFields
  <1>5. [Bk(m, V, h, w, o, N) EXCEPT !.high = H] = Bk(m, V, H, w, o, N)
    BY BkFields
  <1>6. [Bk(m, V, H, w, o, N) EXCEPT !.low = W] = Bk(m, V, H, W, o, N)
    BY BkFields
  <1>7. Folded(b, t) = Bk(m, V, H, W, o, N)
    <2> HIDE DEF b
    <2> QED BY <1>2, <1>3, <1>4, <1>5, <1>6, Zenon
  <1> QED BY <1>7 DEF V, N, H, W

\* The first, the highest and the lowest of the places J, which share a minute.
Marks(f, h, w, l, J) ==
    /\ f \in J /\ h \in J /\ w \in J
    /\ \A j \in J : /\ f <= j /\ l[j].time = l[f].time
                    /\ l[j].price <= l[h].price /\ l[w].price <= l[j].price

\* b is the bucket of the trades at places J.
BucketHolds(b, l, J) ==
    \/ J = {} /\ b = NoBucket
    \/ \E f, h, w \in J :
          /\ Marks(f, h, w, l, J)
          /\ b = Bk(l[f].time, SumOf(l, J), l[h].price, l[w].price, l[f].price, Cardinality(J))

LEMMA BucketCounts ==
    ASSUME NEW l \in Seq(Trades), NEW J, J \subseteq 1..Len(l), NEW b, BucketHolds(b, l, J)
    PROVE  /\ b.volume = SumOf(l, J) /\ b.trades = Cardinality(J) /\ b.trades \in Nat
           /\ b.trades > 0 <=> J # {}
           /\ \A j \in J : l[j].time = b.minute
  <1>1. Cardinality(J) \in Nat /\ IsFiniteSet(J)
    <2>1. Len(l) \in Nat
      OBVIOUS
    <2> QED BY <2>1, Places
  <1>2. CASE J = {} /\ b = NoBucket
    BY <1>2, SumEmpty, FS_EmptySet DEF NoBucket
  <1>3. CASE J # {}
    <2>1. PICK f, h, w \in J :
             /\ Marks(f, h, w, l, J)
             /\ b = Bk(l[f].time, SumOf(l, J), l[h].price, l[w].price, l[f].price, Cardinality(J))
      BY <1>3 DEF BucketHolds
    <2>2. b.volume = SumOf(l, J) /\ b.trades = Cardinality(J) /\ b.minute = l[f].time
      BY <2>1, BkFields
    <2>3. Cardinality(J) # 0
      BY <1>1, <1>3, FS_EmptySet
    <2> QED BY <1>1, <1>3, <2>1, <2>2, <2>3 DEF Marks
  <1> QED BY <1>2, <1>3 DEF BucketHolds

LEMMA BucketTime ==
    ASSUME NEW l, NEW J, NEW b, BucketHolds(b, l, J), NEW j \in J
    PROVE  l[j].time = b.minute
  <1>1. PICK f, h, w \in J :
           /\ Marks(f, h, w, l, J)
           /\ b = Bk(l[f].time, SumOf(l, J), l[h].price, l[w].price, l[f].price, Cardinality(J))
    BY DEF BucketHolds
  <1>2. b.minute = l[f].time
    BY <1>1, BkFields
  <1> QED BY <1>1, <1>2 DEF Marks

LEMMA BucketStays ==
    ASSUME NEW l \in Seq(Trades), NEW t \in Trades, NEW J, J \subseteq 1..Len(l), NEW b,
           BucketHolds(b, l, J)
    PROVE  BucketHolds(b, Append(l, t), J)
  <1> DEFINE q == Append(l, t)
  <1>1. CASE J = {} /\ b = NoBucket
    BY <1>1 DEF BucketHolds
  <1>2. CASE \E f, h, w \in J :
          /\ Marks(f, h, w, l, J)
          /\ b = Bk(l[f].time, SumOf(l, J), l[h].price, l[w].price, l[f].price, Cardinality(J))
    <2>1. PICK f, h, w \in J :
          /\ Marks(f, h, w, l, J)
          /\ b = Bk(l[f].time, SumOf(l, J), l[h].price, l[w].price, l[f].price, Cardinality(J))
      BY <1>2
    <2>2. \A j \in J : q[j] = l[j]
      BY Logged
    <2>3. SumOf(q, J) = SumOf(l, J)
      <3>1. Len(l) + 1 \notin J
        OBVIOUS
      <3>2. SumOf(q, J) = SumOf(l, J) + 0
        BY <3>1, SumAppend
      <3> QED BY <3>2, SumNat
    <2> HIDE DEF q
    <2>4. Marks(f, h, w, q, J)
      BY <2>1, <2>2 DEF Marks
    <2>5. b = Bk(q[f].time, SumOf(q, J), q[h].price, q[w].price, q[f].price, Cardinality(J))
      BY <2>1, <2>2, <2>3
    <2>6. BucketHolds(b, q, J)
      BY <2>4, <2>5 DEF BucketHolds
    <2> QED BY <2>6 DEF q
  <1> QED BY <1>1, <1>2 DEF BucketHolds

LEMMA BucketFolds ==
    ASSUME NEW l \in Seq(Trades), NEW t \in Trades, NEW J, J \subseteq 1..Len(l), NEW b,
           BucketHolds(b, l, J), \A j \in J : l[j].time = t.time
    PROVE  BucketHolds(Folded(b, t), Append(l, t), J \cup {Len(l) + 1})
  <1> DEFINE q == Append(l, t)
             k == Len(l) + 1
             I == J \cup {k}
  <1>1. /\ k \in Nat /\ q[k] = t /\ t.price \in Nat
        /\ \A i \in J : i \in Int /\ i < k /\ q[i] = l[i] /\ l[i].price \in Nat
    BY LogPlaces
  <1>2. SumOf(q, I) = SumOf(l, J) + t.price
    <2>1. \A i \in 1..Len(l) : i \in I <=> i \in J
      OBVIOUS
    <2>2. k \in I
      OBVIOUS
    <2> HIDE DEF I
    <2> QED BY <2>1, <2>2, SumAppend
  <1>3. IsFiniteSet(J) /\ Cardinality(J) \in Nat /\ Cardinality(I) = Cardinality(J) + 1
    <2>1. Len(l) \in Nat
      OBVIOUS
    <2>2. IsFiniteSet(J) /\ Cardinality(J) \in Nat
      BY <2>1, Places
    <2>3. k \notin J
      BY <1>1
    <2> QED BY <2>2, <2>3, FS_AddElement
  <1> HIDE DEF k, q
  <1>4. CASE J = {} /\ b = NoBucket
    <2>1. Folded(b, t) = Bk(t.time, t.price, t.price, t.price, t.price, 1)
      BY <1>4 DEF Folded, NoBucket, Bk
    <2>2. I = {k} /\ SumOf(q, I) = t.price /\ Cardinality(I) = 1
      BY <1>1, <1>2, <1>3, <1>4, SumEmpty, FS_EmptySet
    <2>3. Marks(k, k, k, q, I)
      <3> HIDE DEF I
      <3> QED BY <1>1, <2>2 DEF Marks
    <2>4. Folded(b, t) = Bk(q[k].time, SumOf(q, I), q[k].price, q[k].price, q[k].price, Cardinality(I))
      <3> HIDE DEF I
      <3> QED BY <1>1, <2>1, <2>2
    <2>5. BucketHolds(Folded(b, t), q, I)
      <3>1. k \in I
        OBVIOUS
      <3> HIDE DEF I
      <3> QED BY <2>3, <2>4, <3>1 DEF BucketHolds
    <2> QED BY <2>5 DEF q, k
  <1>5. CASE J # {}
    <2>1. PICK f, h, w \in J :
          /\ Marks(f, h, w, l, J)
          /\ b = Bk(l[f].time, SumOf(l, J), l[h].price, l[w].price, l[f].price, Cardinality(J))
      BY <1>5 DEF BucketHolds
    <2>2. Cardinality(J) # 0
      BY <1>3, <1>5, FS_EmptySet
    <2>3. Folded(b, t) =
              Bk(l[f].time, SumOf(l, J) + t.price, IF t.price > l[h].price THEN t.price ELSE l[h].price,
                 IF t.price < l[w].price THEN t.price ELSE l[w].price, l[f].price, Cardinality(J) + 1)
      BY <2>1, <2>2, FoldedFields
    <2> DEFINE hh == IF t.price > l[h].price THEN k ELSE h
               ww == IF t.price < l[w].price THEN k ELSE w
    <2>4. /\ q[hh].price = IF t.price > l[h].price THEN t.price ELSE l[h].price
          /\ q[ww].price = IF t.price < l[w].price THEN t.price ELSE l[w].price
          /\ q[f].time = l[f].time /\ q[f].price = l[f].price
      BY <1>1
    <2>5. hh \in I /\ ww \in I /\ f \in I
      OBVIOUS
    <2>6. l[h].price \in Nat /\ l[w].price \in Nat /\ f \in Int /\ f < k /\ q[f].time = t.time
      BY <1>1
    <2> HIDE DEF hh, ww
    <2>7. ASSUME NEW j \in J
          PROVE  /\ f <= j /\ q[j].time = q[f].time
                 /\ q[j].price <= q[hh].price /\ q[ww].price <= q[j].price
      <3>1. q[j] = l[j] /\ l[j].price \in Nat
        BY <1>1
      <3>2. f <= j /\ l[j].time = l[f].time /\ l[j].price <= l[h].price /\ l[w].price <= l[j].price
        BY <2>1 DEF Marks
      <3> QED BY <1>1, <2>4, <2>6, <3>1, <3>2
    <2>8. /\ f <= k /\ q[k].time = q[f].time
          /\ q[k].price <= q[hh].price /\ q[ww].price <= q[k].price
      BY <1>1, <2>4, <2>6
    <2>9. Marks(f, hh, ww, q, I)
      BY <2>5, <2>7, <2>8 DEF Marks
    <2> HIDE DEF I
    <2>10. Folded(b, t) = Bk(q[f].time, SumOf(q, I), q[hh].price, q[ww].price, q[f].price, Cardinality(I))
      BY <1>2, <1>3, <2>3, <2>4
    <2>11. BucketHolds(Folded(b, t), q, I)
      BY <2>5, <2>9, <2>10 DEF BucketHolds
    <2> QED BY <2>11 DEF q, k, I
  <1> QED BY <1>4, <1>5 DEF BucketHolds

--------------------------------------------------------------------------------
(* The summary. *)

\* The summary with these parts.
Sm(B, V, T, C, H, W, O, A, X, N) ==
    [buckets |-> B, volume |-> V, trades |-> T, count |-> C, high |-> H, low |-> W,
     open |-> O, openAt |-> A, last |-> X, newest |-> N]

LEMMA SmFields ==
    ASSUME NEW B, NEW V, NEW T, NEW C, NEW H, NEW W, NEW O, NEW A, NEW X, NEW N, NEW s,
           s = Sm(B, V, T, C, H, W, O, A, X, N)
    PROVE  /\ s.buckets = B /\ s.volume = V /\ s.trades = T /\ s.count = C /\ s.high = H
           /\ s.low = W /\ s.open = O /\ s.openAt = A /\ s.last = X /\ s.newest = N
           /\ \A y : [s EXCEPT !.buckets = y] = Sm(y, V, T, C, H, W, O, A, X, N)
           /\ \A y : [s EXCEPT !.volume = y] = Sm(B, y, T, C, H, W, O, A, X, N)
           /\ \A y : [s EXCEPT !.trades = y] = Sm(B, V, y, C, H, W, O, A, X, N)
           /\ \A y : [s EXCEPT !.count = y] = Sm(B, V, T, y, H, W, O, A, X, N)
           /\ \A y : [s EXCEPT !.high = y] = Sm(B, V, T, C, y, W, O, A, X, N)
           /\ \A y : [s EXCEPT !.low = y] = Sm(B, V, T, C, H, y, O, A, X, N)
           /\ \A y : [s EXCEPT !.open = y] = Sm(B, V, T, C, H, W, y, A, X, N)
           /\ \A y : [s EXCEPT !.openAt = y] = Sm(B, V, T, C, H, W, O, y, X, N)
           /\ \A y : [s EXCEPT !.newest = y] = Sm(B, V, T, C, H, W, O, A, X, y)
  BY DEF Sm

\* The buckets that are set, their highest and lowest price and the earliest of them.
Live(B) == {b \in Range(B) : b.trades > 0}
TopOf(B) == CHOOSE p \in {b.high : b \in Live(B)} : \A b \in Live(B) : b.high <= p
BottomOf(B) == CHOOSE p \in {b.low : b \in Live(B)} : \A b \in Live(B) : b.low >= p
EarliestOf(B) == CHOOSE b \in Live(B) : \A c \in Live(B) : b.minute <= c.minute

LEMMA RecomputeIs ==
    ASSUME NEW B, NEW V, NEW T, NEW C, NEW H, NEW W, NEW O, NEW A, NEW X, NEW N, NEW s,
           s = Sm(B, V, T, C, H, W, O, A, X, N)
    PROVE  /\ RecomputeHigh(s) = Sm(B, V, T, C, TopOf(B), W, O, A, X, N)
           /\ RecomputeLow(s) = Sm(B, V, T, C, H, BottomOf(B), O, A, X, N)
           /\ RecomputeOpen(s) = Sm(B, V, T, C, H, W, EarliestOf(B).open, EarliestOf(B).minute, X, N)
  <1>1. s.buckets = B
    BY SmFields
  <1>2. SetBuckets(s) = Live(B)
    BY <1>1 DEF SetBuckets, Live
  <1>3. RecomputeHigh(s) = [s EXCEPT !.high = TopOf(B)]
    BY <1>2 DEF RecomputeHigh, TopOf
  <1>4. RecomputeLow(s) = [s EXCEPT !.low = BottomOf(B)]
    BY <1>2 DEF RecomputeLow, BottomOf
  <1> DEFINE o == EarliestOf(B).open
             a == EarliestOf(B).minute
  <1>5. RecomputeOpen(s) = [s EXCEPT !.open = o, !.openAt = a]
    BY <1>2 DEF RecomputeOpen, EarliestOf
  <1>6. RecomputeHigh(s) = Sm(B, V, T, C, TopOf(B), W, O, A, X, N)
    BY <1>3, SmFields
  <1>7. RecomputeLow(s) = Sm(B, V, T, C, H, BottomOf(B), O, A, X, N)
    BY <1>4, SmFields
  <1>8. RecomputeOpen(s) = Sm(B, V, T, C, H, W, o, a, X, N)
    <2> HIDE DEF o, a
    <2>1. [s EXCEPT !.open = o] = Sm(B, V, T, C, H, W, o, A, X, N)
      BY SmFields
    <2>2. [Sm(B, V, T, C, H, W, o, A, X, N) EXCEPT !.openAt = a] = Sm(B, V, T, C, H, W, o, a, X, N)
      BY SmFields
    <2> QED BY <1>5, <2>1, <2>2, Zenon
  <1> QED BY <1>6, <1>7, <1>8

LEMMA ExpireIs ==
    ASSUME NEW i, NEW s,
           s = Sm(s.buckets, s.volume, s.trades, s.count, s.high, s.low, s.open, s.openAt,
                  s.last, s.newest)
    PROVE  LET b == s.buckets[i]
               D == [s.buckets EXCEPT ![i] = NoBucket]
           IN  Expire(s, i) =
                  IF s.count - 1 = 0
                  THEN Sm(D, s.volume - b.volume, s.trades - b.trades, s.count - 1, 0, 0, 0, 0,
                          s.last, s.newest)
                  ELSE Sm(D, s.volume - b.volume, s.trades - b.trades, s.count - 1,
                          IF b.high = s.high THEN TopOf(D) ELSE s.high,
                          IF b.low = s.low THEN BottomOf(D) ELSE s.low,
                          IF b.minute = s.openAt THEN EarliestOf(D).open ELSE s.open,
                          IF b.minute = s.openAt THEN EarliestOf(D).minute ELSE s.openAt,
                          s.last, s.newest)
  <1> DEFINE B == s.buckets
             V == s.volume
             T == s.trades
             C == s.count
             H == s.high
             W == s.low
             O == s.open
             A == s.openAt
             X == s.last
             N == s.newest
  <1>0. s = Sm(B, V, T, C, H, W, O, A, X, N)
    OBVIOUS
  <1>1. /\ s.buckets = B /\ s.volume = V /\ s.trades = T /\ s.count = C /\ s.high = H
        /\ s.low = W /\ s.openAt = A
    OBVIOUS
  <1> HIDE DEF B, V, T, C, H, W, O, A, X, N
  <1> DEFINE b == B[i]
             D == [B EXCEPT ![i] = NoBucket]
             v == V - b.volume
             t == T - b.trades
             c == C - 1
             cut == [s EXCEPT !.buckets = D, !.volume = v, !.trades = t, !.count = c]
             high == IF b.high = H THEN RecomputeHigh(cut) ELSE cut
             low == IF b.low = W THEN RecomputeLow(high) ELSE high
             h == IF b.high = H THEN TopOf(D) ELSE H
             w == IF b.low = W THEN BottomOf(D) ELSE W
             o == IF b.minute = A THEN EarliestOf(D).open ELSE O
             a == IF b.minute = A THEN EarliestOf(D).minute ELSE A
  <1>2. cut = Sm(D, v, t, c, H, W, O, A, X, N)
    <2> HIDE DEF D, v, t, c
    <2>1. [Sm(B, V, T, C, H, W, O, A, X, N) EXCEPT !.buckets = D] = Sm(D, V, T, C, H, W, O, A, X, N)
      BY DEF Sm
    <2>2. [Sm(D, V, T, C, H, W, O, A, X, N) EXCEPT !.volume = v] = Sm(D, v, T, C, H, W, O, A, X, N)
      BY DEF Sm
    <2>3. [Sm(D, v, T, C, H, W, O, A, X, N) EXCEPT !.trades = t] = Sm(D, v, t, C, H, W, O, A, X, N)
      BY DEF Sm
    <2>4. [Sm(D, v, t, C, H, W, O, A, X, N) EXCEPT !.count = c] = Sm(D, v, t, c, H, W, O, A, X, N)
      BY DEF Sm
    <2>5. [s EXCEPT !.buckets = D] = Sm(D, V, T, C, H, W, O, A, X, N)
      BY <1>0, <2>1, Zenon
    <2> QED BY <2>2, <2>3, <2>4, <2>5, Zenon
  <1>3. cut.count = c
    <2> HIDE DEF cut, D, v, t, c
    <2> QED BY <1>2 DEF Sm
  <1>4. Expire(s, i) = IF c = 0 THEN [cut EXCEPT !.high = 0, !.low = 0, !.open = 0, !.openAt = 0]
                       ELSE IF b.minute = A THEN RecomputeOpen(low) ELSE low
    <2>1. Expire(s, i) = IF cut.count = 0 THEN [cut EXCEPT !.high = 0, !.low = 0, !.open = 0, !.openAt = 0]
                         ELSE IF b.minute = A THEN RecomputeOpen(low) ELSE low
      BY <1>1 DEF Expire
    <2> HIDE DEF cut, low, b, c
    <2> QED BY <1>3, <2>1
  <1> HIDE DEF D, v, t, c, cut
  <1>5. [cut EXCEPT !.high = 0, !.low = 0, !.open = 0, !.openAt = 0] =
        Sm(D, v, t, c, 0, 0, 0, 0, X, N)
    <2>1. [Sm(D, v, t, c, H, W, O, A, X, N) EXCEPT !.high = 0] = Sm(D, v, t, c, 0, W, O, A, X, N)
      BY DEF Sm
    <2>2. [Sm(D, v, t, c, 0, W, O, A, X, N) EXCEPT !.low = 0] = Sm(D, v, t, c, 0, 0, O, A, X, N)
      BY DEF Sm
    <2>3. [Sm(D, v, t, c, 0, 0, O, A, X, N) EXCEPT !.open = 0] = Sm(D, v, t, c, 0, 0, 0, A, X, N)
      BY DEF Sm
    <2>4. [Sm(D, v, t, c, 0, 0, 0, A, X, N) EXCEPT !.openAt = 0] = Sm(D, v, t, c, 0, 0, 0, 0, X, N)
      BY DEF Sm
    <2> QED BY <1>2, <2>1, <2>2, <2>3, <2>4, Zenon
  <1> HIDE DEF b
  <1>6. high = Sm(D, v, t, c, h, W, O, A, X, N)
    BY <1>2, RecomputeIs
  <1> HIDE DEF high, h
  <1>7. low = Sm(D, v, t, c, h, w, O, A, X, N)
    BY <1>6, RecomputeIs
  <1> HIDE DEF low, w
  <1>8. (IF b.minute = A THEN RecomputeOpen(low) ELSE low) = Sm(D, v, t, c, h, w, o, a, X, N)
    BY <1>7, RecomputeIs
  <1> HIDE DEF o, a
  <1>9. Expire(s, i) = IF c = 0 THEN Sm(D, v, t, c, 0, 0, 0, 0, X, N)
                       ELSE Sm(D, v, t, c, h, w, o, a, X, N)
    BY <1>4, <1>5, <1>8
  <1> QED BY <1>9 DEF b, D, v, t, c, h, w, o, a, B, V, T, C, H, W, O, A, X, N


\* The places of K in slot i, and the slots K fills.
InSlot(l, K, i) == {k \in K : BucketIndex(l[k].time) = i}
Held(l, K) == {i \in 0..Window - 1 : InSlot(l, K, i) # {}}

\* The highest and the lowest price at places K, and the first place of the earliest minute.
HighIn(h, l, K) == \E x \in K : h = l[x].price /\ \A k \in K : l[k].price <= h
LowIn(w, l, K) == \E x \in K : w = l[x].price /\ \A k \in K : l[k].price >= w
OpenIn(o, a, l, K) ==
    \E f \in K : /\ a = l[f].time /\ o = l[f].price
                 /\ \A k \in K : l[k].time >= a /\ (l[k].time = a => f <= k)

\* The ring B holds the places K, each in its slot.
RingHolds(B, l, K) ==
    /\ DOMAIN B = 0..Window - 1
    /\ \A i \in 0..Window - 1 : BucketHolds(B[i], l, InSlot(l, K, i))

\* The summary s holds the places K.
Holds(s, l, K) ==
    /\ s = Sm(s.buckets, s.volume, s.trades, s.count, s.high, s.low, s.open, s.openAt,
              s.last, s.newest)
    /\ K \subseteq 1..Len(l) /\ RingHolds(s.buckets, l, K)
    /\ s.volume = SumOf(l, K) /\ s.trades = Cardinality(K) /\ s.count = Cardinality(Held(l, K))
    /\ K # {} => HighIn(s.high, l, K) /\ LowIn(s.low, l, K) /\ OpenIn(s.open, s.openAt, l, K)

LEMMA SlotOf ==
    ASSUME NEW m \in Nat
    PROVE  BucketIndex(m) \in 0..Window - 1
  BY WindowAssumption DEF BucketIndex

\* The places of a set of places.
LEMMA PlacesOf ==
    ASSUME NEW l \in Seq(Trades), NEW K, K \subseteq 1..Len(l)
    PROVE  /\ IsFiniteSet(K) /\ Cardinality(K) \in Nat
           /\ IsFiniteSet(Held(l, K)) /\ Cardinality(Held(l, K)) \in 0..Window
           /\ (Cardinality(Held(l, K)) = 0) <=> K = {}
           /\ \A k \in K : /\ k \in 1..Len(l) /\ k \in Int /\ l[k] \in Trades /\ l[k].price \in Nat
                           /\ l[k].time \in Nat /\ BucketIndex(l[k].time) \in 0..Window - 1
                           /\ k \in InSlot(l, K, BucketIndex(l[k].time))
           /\ \A i : InSlot(l, K, i) \subseteq K
  <1>1. Len(l) \in Nat /\ Window \in Nat \ {0}
    BY WindowAssumption
  <1>2. IsFiniteSet(K) /\ Cardinality(K) \in Nat
    BY <1>1, Places
  <1>3. ASSUME NEW k \in K
        PROVE  /\ k \in 1..Len(l) /\ k \in Int /\ l[k] \in Trades /\ l[k].price \in Nat
               /\ l[k].time \in Nat /\ BucketIndex(l[k].time) \in 0..Window - 1
               /\ k \in InSlot(l, K, BucketIndex(l[k].time))
    <2>1. k \in 1..Len(l) /\ k \in Int /\ l[k] \in Trades
      OBVIOUS
    <2>2. l[k].price \in Nat /\ l[k].time \in Nat
      BY <2>1, TradeFields
    <2> QED BY <2>1, <2>2, SlotOf DEF InSlot
  <1>4. /\ IsFiniteSet(0..Window - 1) /\ Cardinality(0..Window - 1) = Window
    <2>1. 0 \in Int /\ Window - 1 \in Int /\ ~ (0 > Window - 1) /\ Window - 1 - 0 + 1 = Window
      BY <1>1
    <2> QED BY <2>1, FS_Interval
  <1>5. IsFiniteSet(Held(l, K)) /\ Cardinality(Held(l, K)) <= Window
    <2>1. Held(l, K) \subseteq 0..Window - 1
      BY DEF Held
    <2> QED BY <1>4, <2>1, FS_Subset
  <1>6. Cardinality(Held(l, K)) \in 0..Window
    BY <1>1, <1>5, FS_CardinalityType
  <1>7. Held(l, K) = {} <=> K = {}
    BY <1>3 DEF Held, InSlot
  <1>8. Cardinality(Held(l, K)) = 0 <=> K = {}
    BY <1>5, <1>7, FS_EmptySet
  <1>9. \A i : InSlot(l, K, i) \subseteq K
    BY DEF InSlot
  <1> QED BY <1>2, <1>3, <1>5, <1>6, <1>8, <1>9

\* Every bucket that is set has a first, a highest and a lowest place in K, and every
\* place of K a bucket that is set.
LiveHas(B, l, K) ==
    \A b \in Live(B) : \E f, h, w \in K :
        /\ b.minute = l[f].time /\ b.open = l[f].price /\ b.high = l[h].price
        /\ b.low = l[w].price
        /\ \A k \in K : l[k].time = l[f].time => f <= k
LiveFor(B, l, K) ==
    \A k \in K : \E b \in Live(B) :
        b.minute = l[k].time /\ b.high >= l[k].price /\ b.low <= l[k].price

LEMMA LiveIs ==
    ASSUME NEW l \in Seq(Trades), NEW K, K \subseteq 1..Len(l), NEW B, RingHolds(B, l, K)
    PROVE  LiveHas(B, l, K) /\ LiveFor(B, l, K) /\ (K # {} => Live(B) # {})
  <1>1. \A j \in 0..Window - 1 : InSlot(l, K, j) \subseteq 1..Len(l) /\ BucketHolds(B[j], l, InSlot(l, K, j))
    BY PlacesOf DEF RingHolds
  <1>2. ASSUME NEW j \in 0..Window - 1
        PROVE  B[j] \in Range(B) /\ (B[j].trades > 0 <=> InSlot(l, K, j) # {})
    <2>1. B[j].trades > 0 <=> InSlot(l, K, j) # {}
      BY <1>1, BucketCounts
    <2>2. B[j] \in Range(B)
      BY DEF RingHolds, Range
    <2> QED BY <2>1, <2>2
  <1>3. ASSUME NEW b \in Live(B)
        PROVE  \E f, h, w \in K :
                 /\ b.minute = l[f].time /\ b.open = l[f].price /\ b.high = l[h].price
                 /\ b.low = l[w].price
                 /\ \A k \in K : l[k].time = l[f].time => f <= k
    <2>1. PICK j \in 0..Window - 1 : b = B[j]
      BY DEF Live, RingHolds, Range
    <2> DEFINE J == InSlot(l, K, j)
    <2>2. J # {} /\ BucketHolds(b, l, J) /\ J \subseteq K
      BY <1>1, <1>2, <2>1 DEF Live, InSlot
    <2> HIDE DEF J
    <2>3. PICK f, h, w \in J :
             /\ Marks(f, h, w, l, J)
             /\ b = Bk(l[f].time, SumOf(l, J), l[h].price, l[w].price, l[f].price, Cardinality(J))
      BY <2>2 DEF BucketHolds
    <2>4. b.minute = l[f].time /\ b.open = l[f].price /\ b.high = l[h].price /\ b.low = l[w].price
      BY <2>3, BkFields
    <2>5. ASSUME NEW k \in K, l[k].time = l[f].time
          PROVE  f <= k
      <3>1. k \in J
        BY <2>3, <2>5 DEF J, InSlot
      <3> QED BY <2>3, <3>1 DEF Marks
    <2> QED BY <2>2, <2>4, <2>5
  <1>4. ASSUME NEW k \in K
        PROVE  \E b \in Live(B) :
                 b.minute = l[k].time /\ b.high >= l[k].price /\ b.low <= l[k].price
    <2> DEFINE j == BucketIndex(l[k].time)
               J == InSlot(l, K, j)
    <2>1. j \in 0..Window - 1 /\ k \in J
      BY PlacesOf
    <2>2. B[j] \in Live(B)
      BY <1>2, <2>1 DEF Live
    <2>3. BucketHolds(B[j], l, J) /\ J \subseteq K
      BY <1>1, <2>1 DEF InSlot
    <2> HIDE DEF J, j
    <2>4. PICK f, h, w \in J :
             /\ Marks(f, h, w, l, J)
             /\ B[j] = Bk(l[f].time, SumOf(l, J), l[h].price, l[w].price, l[f].price, Cardinality(J))
      BY <2>1, <2>3 DEF BucketHolds
    <2>5. B[j].minute = l[f].time /\ B[j].high = l[h].price /\ B[j].low = l[w].price
      BY <2>4, BkFields
    <2>6. l[k].time = l[f].time /\ l[k].price <= l[h].price /\ l[w].price <= l[k].price
      BY <2>1, <2>4 DEF Marks
    <2>7. l[k].price \in Nat /\ l[h].price \in Nat /\ l[w].price \in Nat
      BY <2>3, <2>4, PlacesOf
    <2>8. B[j].minute = l[k].time /\ B[j].high >= l[k].price /\ B[j].low <= l[k].price
      BY <2>5, <2>6, <2>7
    <2> QED BY <2>2, <2>8
  <1>5. K # {} => Live(B) # {}
    BY <1>4
  <1> QED BY <1>3, <1>4, <1>5 DEF LiveHas, LiveFor

\* What a recomputation over the ring finds.
LEMMA TopIn ==
    ASSUME NEW l \in Seq(Trades), NEW K, K \subseteq 1..Len(l), K # {}, NEW B, RingHolds(B, l, K),
           NEW n \in Nat, \A k \in K : l[k].price <= n
    PROVE  HighIn(TopOf(B), l, K)
  <1> DEFINE P == {b.high : b \in Live(B)}
  <1>0. LiveHas(B, l, K) /\ LiveFor(B, l, K)
    BY LiveIs
  <1>1. \A b \in Live(B) : \E h \in K : b.high = l[h].price
    BY <1>0 DEF LiveHas
  <1>2. \A k \in K : l[k].price \in Nat
    BY PlacesOf
  <1>3. P \subseteq Nat /\ P # {} /\ \A p \in P : p <= n
    <2>1. Live(B) # {}
      BY LiveIs
    <2> QED BY <1>1, <1>2, <2>1
  <1>4. \E p \in P : \A r \in P : r <= p
    <2> HIDE DEF P
    <2> QED BY <1>3, LargestOfNats
  <1>5. \E p \in P : \A b \in Live(B) : b.high <= p
    BY <1>4
  <1>6. TopOf(B) \in P /\ \A b \in Live(B) : b.high <= TopOf(B)
    BY <1>5 DEF TopOf
  <1>7. PICK x \in K : TopOf(B) = l[x].price
    BY <1>1, <1>6
  <1>8. ASSUME NEW k \in K PROVE l[k].price <= TopOf(B)
    <2>1. PICK b \in Live(B) : b.high >= l[k].price
      BY <1>0 DEF LiveFor
    <2>2. b.high <= TopOf(B) /\ b.high \in Nat /\ TopOf(B) \in Nat
      BY <1>1, <1>2, <1>6, <1>7
    <2> QED BY <1>2, <2>1, <2>2
  <1> QED BY <1>7, <1>8 DEF HighIn

LEMMA BottomIn ==
    ASSUME NEW l \in Seq(Trades), NEW K, K \subseteq 1..Len(l), K # {}, NEW B, RingHolds(B, l, K)
    PROVE  LowIn(BottomOf(B), l, K)
  <1> DEFINE P == {b.low : b \in Live(B)}
  <1>0. LiveHas(B, l, K) /\ LiveFor(B, l, K)
    BY LiveIs
  <1>1. \A b \in Live(B) : \E h \in K : b.low = l[h].price
    BY <1>0 DEF LiveHas
  <1>2. \A k \in K : l[k].price \in Nat
    BY PlacesOf
  <1>3. P \subseteq Nat /\ P # {}
    <2>1. Live(B) # {}
      BY LiveIs
    <2> QED BY <1>1, <1>2, <2>1
  <1>4. \E p \in P : \A r \in P : p <= r
    <2> HIDE DEF P
    <2> QED BY <1>3, LeastOfNats
  <1>5. \E p \in P : \A b \in Live(B) : b.low >= p
    <2>1. PICK p \in P : \A r \in P : p <= r
      BY <1>4
    <2>2. \A b \in Live(B) : b.low \in P /\ b.low \in Nat /\ p \in Nat
      BY <1>3, <2>1
    <2>3. \A b \in Live(B) : b.low >= p
      <3> HIDE DEF P
      <3> QED BY <2>1, <2>2
    <2> QED BY <2>1, <2>3
  <1>6. BottomOf(B) \in P /\ \A b \in Live(B) : b.low >= BottomOf(B)
    BY <1>5 DEF BottomOf
  <1>7. PICK x \in K : BottomOf(B) = l[x].price
    BY <1>1, <1>6
  <1>8. ASSUME NEW k \in K PROVE l[k].price >= BottomOf(B)
    <2>1. PICK b \in Live(B) : b.low <= l[k].price
      BY <1>0 DEF LiveFor
    <2>2. b.low >= BottomOf(B) /\ b.low \in Nat /\ BottomOf(B) \in Nat
      BY <1>1, <1>2, <1>6, <1>7
    <2> QED BY <1>2, <2>1, <2>2
  <1> QED BY <1>7, <1>8 DEF LowIn

LEMMA EarliestIn ==
    ASSUME NEW l \in Seq(Trades), NEW K, K \subseteq 1..Len(l), K # {}, NEW B, RingHolds(B, l, K)
    PROVE  OpenIn(EarliestOf(B).open, EarliestOf(B).minute, l, K)
  <1> DEFINE P == {b.minute : b \in Live(B)}
             e == EarliestOf(B)
  <1>0. LiveHas(B, l, K) /\ LiveFor(B, l, K)
    BY LiveIs
  <1>1. \A b \in Live(B) : \E f \in K : /\ b.minute = l[f].time /\ b.open = l[f].price
                                        /\ \A k \in K : l[k].time = l[f].time => f <= k
    BY <1>0 DEF LiveHas
  <1>2. \A k \in K : l[k].time \in Nat
    BY PlacesOf
  <1>3. P \subseteq Nat /\ P # {}
    <2>1. Live(B) # {}
      BY LiveIs
    <2> QED BY <1>1, <1>2, <2>1
  <1>4. \E p \in P : \A r \in P : p <= r
    <2> HIDE DEF P
    <2> QED BY <1>3, LeastOfNats
  <1>5. \E b \in Live(B) : \A c \in Live(B) : b.minute <= c.minute
    BY <1>4
  <1>6. e \in Live(B) /\ \A c \in Live(B) : e.minute <= c.minute
    BY <1>5 DEF EarliestOf
  <1> HIDE DEF e, P
  <1>7. PICK f \in K : /\ e.minute = l[f].time /\ e.open = l[f].price
                       /\ \A k \in K : l[k].time = l[f].time => f <= k
    BY <1>1, <1>6
  <1>8. ASSUME NEW k \in K PROVE l[k].time >= e.minute
    <2>1. PICK b \in Live(B) : b.minute = l[k].time
      BY <1>0 DEF LiveFor
    <2> QED BY <1>2, <1>6, <1>7, <2>1
  <1>9. OpenIn(e.open, e.minute, l, K)
    BY <1>7, <1>8 DEF OpenIn
  <1> QED BY <1>9 DEF e

\* An expired slot takes its places along, and nothing else.
LEMMA ExpireHolds ==
    ASSUME NEW l \in Seq(Trades), NEW K, NEW s, Holds(s, l, K), NEW i \in 0..Window - 1,
           InSlot(l, K, i) # {}
    PROVE  /\ Holds(Expire(s, i), l, K \ InSlot(l, K, i))
           /\ Expire(s, i).last = s.last /\ Expire(s, i).newest = s.newest
  <1> DEFINE J == InSlot(l, K, i)
             M == K \ J
             B == s.buckets
             b == B[i]
             D == [B EXCEPT ![i] = NoBucket]
             r == Expire(s, i)
  <1>1. /\ s = Sm(s.buckets, s.volume, s.trades, s.count, s.high, s.low, s.open, s.openAt,
                  s.last, s.newest)
        /\ K \subseteq 1..Len(l) /\ RingHolds(B, l, K)
        /\ s.volume = SumOf(l, K) /\ s.trades = Cardinality(K) /\ s.count = Cardinality(Held(l, K))
        /\ HighIn(s.high, l, K) /\ LowIn(s.low, l, K) /\ OpenIn(s.open, s.openAt, l, K)
    BY DEF Holds, InSlot
  <1>2. /\ J \subseteq K /\ J # {} /\ M \subseteq K /\ M \subseteq 1..Len(l) /\ J \subseteq 1..Len(l)
    BY <1>1 DEF InSlot
  <1>3. /\ BucketHolds(b, l, J) /\ b.volume = SumOf(l, J) /\ b.trades = Cardinality(J)
        /\ \A j \in J : l[j].time = b.minute
    <2>0. RingHolds(s.buckets, l, K)
      BY <1>1
    <2>1. BucketHolds(b, l, J)
      BY <2>0 DEF RingHolds
    <2>2. J \subseteq 1..Len(l)
      BY <1>2
    <2> HIDE DEF b, J
    <2>3. b.volume = SumOf(l, J) /\ b.trades = Cardinality(J) /\ b.trades \in Nat
      BY <2>1, <2>2, BucketCounts
    <2>4. \A j \in J : l[j].time = b.minute
      BY <2>1, BucketTime
    <2> QED BY <2>1, <2>3, <2>4
  <1>4. r = IF s.count - 1 = 0
            THEN Sm(D, s.volume - b.volume, s.trades - b.trades, s.count - 1, 0, 0, 0, 0,
                    s.last, s.newest)
            ELSE Sm(D, s.volume - b.volume, s.trades - b.trades, s.count - 1,
                    IF b.high = s.high THEN TopOf(D) ELSE s.high,
                    IF b.low = s.low THEN BottomOf(D) ELSE s.low,
                    IF b.minute = s.openAt THEN EarliestOf(D).open ELSE s.open,
                    IF b.minute = s.openAt THEN EarliestOf(D).minute ELSE s.openAt,
                    s.last, s.newest)
    BY <1>1, ExpireIs
  <1>5. InSlot(l, M, i) = {} /\ \A j : j # i => InSlot(l, M, j) = InSlot(l, K, j)
    BY DEF InSlot
  <1> HIDE DEF M, J
  <1>6. RingHolds(D, l, M)
    <2>1. DOMAIN D = 0..Window - 1 /\ D[i] = NoBucket /\ \A j \in 0..Window - 1 : j # i => D[j] = B[j]
      BY <1>1 DEF RingHolds
    <2>2. BucketHolds(D[i], l, InSlot(l, M, i))
      BY <1>5, <2>1 DEF BucketHolds
    <2>3. ASSUME NEW j \in 0..Window - 1, j # i PROVE BucketHolds(D[j], l, InSlot(l, M, j))
      BY <1>1, <1>5, <2>1, <2>3 DEF RingHolds
    <2> HIDE DEF D
    <2> QED BY <2>1, <2>2, <2>3 DEF RingHolds
  <1>7. s.volume - b.volume = SumOf(l, M)
    <2>1. SumOf(l, K \ J) = SumOf(l, K) - SumOf(l, J)
      BY <1>2, SumMinus
    <2> QED BY <1>1, <1>3, <2>1 DEF M
  <1>8. s.trades - b.trades = Cardinality(M)
    <2>1. IsFiniteSet(K)
      BY <1>1, PlacesOf
    <2>2. K \cap J = J
      BY <1>2
    <2>3. Cardinality(K \ J) = Cardinality(K) - Cardinality(K \cap J)
      BY <2>1, FS_Difference
    <2> QED BY <1>1, <1>3, <2>2, <2>3 DEF M
  <1>9. s.count - 1 = Cardinality(Held(l, M)) /\ (s.count - 1 = 0 <=> M = {})
    <2>1. Held(l, M) = Held(l, K) \ {i} /\ i \in Held(l, K)
      BY <1>2, <1>5 DEF Held, J
    <2>2. IsFiniteSet(Held(l, K))
      BY <1>1, PlacesOf
    <2>3. Cardinality(Held(l, M)) = Cardinality(Held(l, K)) - 1
      BY <2>1, <2>2, FS_RemoveElement
    <2>4. Cardinality(Held(l, M)) = 0 <=> M = {}
      BY <1>2, PlacesOf
    <2> QED BY <1>1, <2>3, <2>4
  <1> HIDE DEF D, b, r, B
  <1>10. CASE M = {}
    <2>1. r = Sm(D, s.volume - b.volume, s.trades - b.trades, s.count - 1, 0, 0, 0, 0,
                 s.last, s.newest)
      BY <1>4, <1>9, <1>10
    <2>2. /\ r.buckets = D /\ r.volume = SumOf(l, M) /\ r.trades = Cardinality(M)
          /\ r.count = Cardinality(Held(l, M)) /\ r.high = 0 /\ r.low = 0 /\ r.open = 0
          /\ r.openAt = 0 /\ r.last = s.last /\ r.newest = s.newest
      BY <1>7, <1>8, <1>9, <2>1, SmFields
    <2>3. r = Sm(r.buckets, r.volume, r.trades, r.count, r.high, r.low, r.open, r.openAt,
                 r.last, r.newest)
      BY <1>7, <1>8, <1>9, <2>1, <2>2
    <2>4. Holds(r, l, M)
      BY <1>2, <1>6, <1>10, <2>2, <2>3 DEF Holds
    <2> QED BY <2>2, <2>4 DEF r, M, J
  <1>11. CASE M # {}
    <2> DEFINE h == IF b.high = s.high THEN TopOf(D) ELSE s.high
               w == IF b.low = s.low THEN BottomOf(D) ELSE s.low
               o == IF b.minute = s.openAt THEN EarliestOf(D).open ELSE s.open
               a == IF b.minute = s.openAt THEN EarliestOf(D).minute ELSE s.openAt
    <2>1. r = Sm(D, s.volume - b.volume, s.trades - b.trades, s.count - 1, h, w, o, a,
                 s.last, s.newest)
      BY <1>4, <1>9, <1>11
    <2>2. PICK f, hp, wp \in J :
             /\ Marks(f, hp, wp, l, J)
             /\ b = Bk(l[f].time, SumOf(l, J), l[hp].price, l[wp].price, l[f].price, Cardinality(J))
      BY <1>2, <1>3 DEF BucketHolds
    <2>3. b.minute = l[f].time /\ b.high = l[hp].price /\ b.low = l[wp].price
      BY <2>2, BkFields
    <2>4. \A k \in K : l[k].price \in Nat /\ l[k].time \in Nat
      BY <1>1, PlacesOf
    <2>5. HighIn(h, l, M)
      <3>1. PICK x \in K : s.high = l[x].price /\ \A k \in K : l[k].price <= s.high
        BY <1>1 DEF HighIn
      <3>2. CASE b.high = s.high
        <4>1. s.high \in Nat /\ \A k \in M : l[k].price <= s.high
          BY <1>2, <2>4, <3>1
        <4>2. HighIn(TopOf(D), l, M)
          BY <1>2, <1>6, <1>11, <4>1, TopIn
        <4> QED BY <3>2, <4>2
      <3>3. CASE b.high # s.high
        <4>1. x \notin J
          <5> SUFFICES ASSUME x \in J PROVE FALSE
            OBVIOUS
          <5>1. l[x].price <= l[hp].price /\ l[hp].price <= s.high
            BY <1>2, <2>2, <3>1 DEF Marks
          <5>2. l[hp].price \in Nat /\ l[x].price \in Nat
            BY <1>2, <2>4
          <5> QED BY <2>3, <3>1, <3>3, <5>1, <5>2
        <4>2. x \in M
          BY <4>1 DEF M
        <4>3. HighIn(s.high, l, M)
          BY <1>2, <3>1, <4>2 DEF HighIn
        <4> QED BY <3>3, <4>3
      <3> QED BY <3>2, <3>3
    <2>6. LowIn(w, l, M)
      <3>1. PICK x \in K : s.low = l[x].price /\ \A k \in K : l[k].price >= s.low
        BY <1>1 DEF LowIn
      <3>2. CASE b.low = s.low
        <4>1. LowIn(BottomOf(D), l, M)
          BY <1>2, <1>6, <1>11, BottomIn
        <4> QED BY <3>2, <4>1
      <3>3. CASE b.low # s.low
        <4>1. x \notin J
          <5> SUFFICES ASSUME x \in J PROVE FALSE
            OBVIOUS
          <5>1. l[wp].price <= l[x].price /\ l[wp].price >= s.low
            BY <1>2, <2>2, <3>1 DEF Marks
          <5>2. l[wp].price \in Nat /\ l[x].price \in Nat
            BY <1>2, <2>4
          <5> QED BY <2>3, <3>1, <3>3, <5>1, <5>2
        <4>2. x \in M
          BY <4>1 DEF M
        <4>3. LowIn(s.low, l, M)
          BY <1>2, <3>1, <4>2 DEF LowIn
        <4> QED BY <3>3, <4>3
      <3> QED BY <3>2, <3>3
    <2>7. OpenIn(o, a, l, M)
      <3>1. PICK x \in K : /\ s.openAt = l[x].time /\ s.open = l[x].price
                           /\ \A k \in K : l[k].time >= s.openAt /\ (l[k].time = s.openAt => x <= k)
        BY <1>1 DEF OpenIn
      <3>2. CASE b.minute = s.openAt
        <4>1. OpenIn(EarliestOf(D).open, EarliestOf(D).minute, l, M)
          BY <1>2, <1>6, <1>11, EarliestIn
        <4> QED BY <3>2, <4>1
      <3>3. CASE b.minute # s.openAt
        <4>1. x \in M
          BY <1>3, <3>1, <3>3 DEF M
        <4>2. OpenIn(s.open, s.openAt, l, M)
          BY <1>2, <3>1, <4>1 DEF OpenIn
        <4> QED BY <3>3, <4>2
      <3> QED BY <3>2, <3>3
    <2> HIDE DEF h, w, o, a
    <2>8. /\ r.buckets = D /\ r.volume = SumOf(l, M) /\ r.trades = Cardinality(M)
          /\ r.count = Cardinality(Held(l, M)) /\ r.high = h /\ r.low = w /\ r.open = o
          /\ r.openAt = a /\ r.last = s.last /\ r.newest = s.newest
      BY <1>7, <1>8, <1>9, <2>1, SmFields
    <2>9. r = Sm(r.buckets, r.volume, r.trades, r.count, r.high, r.low, r.open, r.openAt,
                 r.last, r.newest)
      BY <1>7, <1>8, <1>9, <2>1, <2>8
    <2>10. Holds(r, l, M)
      BY <1>2, <1>6, <2>5, <2>6, <2>7, <2>8, <2>9 DEF Holds
    <2> QED BY <2>8, <2>10 DEF r, M, J
  <1> QED BY <1>10, <1>11

\* A summary without trades, whatever last price and newest minute it keeps.
LEMMA EmptyHolds ==
    ASSUME NEW l \in Seq(Trades), NEW x, NEW n, NEW s,
           s = Sm([i \in 0..Window - 1 |-> NoBucket], 0, 0, 0, 0, 0, 0, 0, x, n)
    PROVE  Holds(s, l, {}) /\ s.last = x /\ s.newest = n
  <1> DEFINE D == [i \in 0..Window - 1 |-> NoBucket]
  <1>1. DOMAIN D = 0..Window - 1 /\ \A i \in 0..Window - 1 : D[i] = NoBucket
    OBVIOUS
  <1> HIDE DEF D
  <1>2. s = Sm(D, 0, 0, 0, 0, 0, 0, 0, x, n)
    BY DEF D
  <1>3. /\ s.buckets = D /\ s.volume = 0 /\ s.trades = 0 /\ s.count = 0 /\ s.high = 0
        /\ s.low = 0 /\ s.open = 0 /\ s.openAt = 0 /\ s.last = x /\ s.newest = n
    BY <1>2, SmFields
  <1>4. RingHolds(D, l, {})
    <2>1. \A i : InSlot(l, {}, i) = {}
      BY DEF InSlot
    <2> QED BY <1>1, <2>1 DEF RingHolds, BucketHolds
  <1>5. Held(l, {}) = {}
    BY DEF Held, InSlot
  <1>6. SumOf(l, {}) = 0 /\ Cardinality({}) = 0
    BY SumEmpty, FS_EmptySet
  <1>7. s = Sm(s.buckets, s.volume, s.trades, s.count, s.high, s.low, s.open, s.openAt,
               s.last, s.newest)
    BY <1>2, <1>3
  <1> QED BY <1>3, <1>4, <1>5, <1>6, <1>7 DEF Holds

LEMMA ClearHolds ==
    ASSUME NEW l \in Seq(Trades), NEW s
    PROVE  /\ Holds(EmptySummary, l, {})
           /\ Holds(Clear(s), l, {}) /\ Clear(s).last = s.last /\ Clear(s).newest = s.newest
  <1> DEFINE D == [i \in 0..Window - 1 |-> NoBucket]
             z == 0
             x == s.last
             m == s.newest
  <1>1. EmptySummary = Sm(D, z, z, z, z, z, z, z, z, z)
    BY DEF EmptySummary, Sm
  <1> HIDE DEF D, z, x, m
  <1>2. [Sm(D, z, z, z, z, z, z, z, z, z) EXCEPT !.last = x] = Sm(D, z, z, z, z, z, z, z, x, z)
    BY DEF Sm
  <1>3. [Sm(D, z, z, z, z, z, z, z, x, z) EXCEPT !.newest = m] = Sm(D, z, z, z, z, z, z, z, x, m)
    BY SmFields
  <1>4. Clear(s) = [[EmptySummary EXCEPT !.last = x] EXCEPT !.newest = m]
    BY DEF Clear, x, m
  <1>5. Clear(s) = Sm(D, z, z, z, z, z, z, z, x, m)
    BY <1>1, <1>2, <1>3, <1>4, Zenon
  <1>6. \A y, n, r : r = Sm(D, z, z, z, z, z, z, z, y, n) =>
                        Holds(r, l, {}) /\ r.last = y /\ r.newest = n
    BY EmptyHolds, Zenon DEF D, z
  <1>7. Holds(EmptySummary, l, {})
    BY <1>1, <1>6
  <1>8. Holds(Clear(s), l, {}) /\ Clear(s).last = x /\ Clear(s).newest = m
    BY <1>5, <1>6
  <1> QED BY <1>7, <1>8 DEF x, m

\* The newest minute is not part of what a summary holds.
Until(s, m) == [s EXCEPT !.newest = m]
LEMMA NewestHolds ==
    ASSUME NEW l, NEW K, NEW s, Holds(s, l, K), NEW m
    PROVE  Holds(Until(s, m), l, K) /\ Until(s, m).last = s.last /\ Until(s, m).newest = m
  <1> DEFINE r == Until(s, m)
  <1>1. s = Sm(s.buckets, s.volume, s.trades, s.count, s.high, s.low, s.open, s.openAt,
               s.last, s.newest)
    BY DEF Holds
  <1>2. r = Sm(s.buckets, s.volume, s.trades, s.count, s.high, s.low, s.open, s.openAt,
               s.last, m)
    BY <1>1, SmFields DEF Until
  <1> HIDE DEF r
  <1>3. /\ r.buckets = s.buckets /\ r.volume = s.volume /\ r.trades = s.trades
        /\ r.count = s.count /\ r.high = s.high /\ r.low = s.low /\ r.open = s.open
        /\ r.openAt = s.openAt /\ r.last = s.last /\ r.newest = m
    BY <1>2, SmFields
  <1>4. r = Sm(r.buckets, r.volume, r.trades, r.count, r.high, r.low, r.open, r.openAt,
               r.last, r.newest)
    BY <1>2, <1>3
  <1>5. Holds(r, l, K)
    BY <1>3, <1>4 DEF Holds
  <1> QED BY <1>3, <1>5 DEF r

\* The function of the minutes passed exists, so it is what its definition says.
Steps(f, s, last, n) ==
    f = [k \in 0..n |-> IF k = 0 THEN s ELSE ExpireOld(f[k - 1], s.newest + k, last)]

LEMMA StepsExist ==
    ASSUME NEW s, NEW last, NEW N \in Nat
    PROVE  \E f : Steps(f, s, last, N)
  <1> DEFINE T == {n \in Nat : \E f : Steps(f, s, last, n)}
  <1>1. 0 \in T
    <2> DEFINE f == [k \in 0..0 |-> s]
    <2>1. f = [k \in 0..0 |-> IF k = 0 THEN s ELSE ExpireOld(f[k - 1], s.newest + k, last)]
      OBVIOUS
    <2>2. Steps(f, s, last, 0)
      BY <2>1 DEF Steps
    <2> QED BY <2>2
  <1>2. ASSUME NEW n \in Nat, n \in T PROVE n + 1 \in T
    <2>1. PICK f : Steps(f, s, last, n)
      BY <1>2
    <2> DEFINE E(x, k) == ExpireOld(x, s.newest + k, last)
               g == [k \in 0..n + 1 |-> IF k = n + 1 THEN E(f[n], n + 1) ELSE f[k]]
    <2>2. f = [k \in 0..n |-> IF k = 0 THEN s ELSE E(f[k - 1], k)]
      BY <2>1 DEF Steps
    <2> HIDE DEF E
    <2>3. \A k \in 0..n : f[k] = IF k = 0 THEN s ELSE E(f[k - 1], k)
      BY <2>2
    <2>4. ASSUME NEW k \in 0..n + 1
          PROVE  g[k] = IF k = 0 THEN s ELSE E(g[k - 1], k)
      <3>1. CASE k = 0
        <4>1. 0 \in 0..n /\ 0 # n + 1 /\ g[k] = f[0]
          BY <3>1
        <4> QED BY <2>3, <3>1, <4>1
      <3>2. CASE k # 0
        <4>1. k - 1 \in 0..n /\ k - 1 \in 0..n + 1 /\ k - 1 # n + 1
          BY <3>2
        <4>2. g[k - 1] = f[k - 1]
          BY <4>1
        <4>3. CASE k = n + 1
          <5>1. k - 1 = n /\ g[k] = E(f[n], k)
            BY <4>3
          <5> QED BY <3>2, <4>2, <5>1
        <4>4. CASE k # n + 1
          <5>1. k \in 0..n /\ g[k] = f[k]
            BY <4>4
          <5>2. f[k] = E(f[k - 1], k)
            BY <2>3, <3>2, <5>1
          <5> QED BY <3>2, <4>2, <5>1, <5>2
        <4> QED BY <4>3, <4>4
      <3> QED BY <3>1, <3>2
    <2>5. g = [k \in 0..n + 1 |-> g[k]]
      OBVIOUS
    <2> HIDE DEF g
    <2>6. g = [k \in 0..n + 1 |-> IF k = 0 THEN s ELSE E(g[k - 1], k)]
      BY <2>4, <2>5
    <2>7. Steps(g, s, last, n + 1)
      BY <2>6 DEF Steps, E
    <2> QED BY <2>7
  <1>3. Nat \subseteq T
    <2> HIDE DEF T
    <2> QED BY <1>1, <1>2, Induct
  <1> QED BY <1>3

LEMMA PassedIs ==
    ASSUME NEW s, NEW last
    PROVE  /\ Passed(s, last)[0] = s
           /\ \A k \in 1..Window : Passed(s, last)[k] =
                 ExpireOld(Passed(s, last)[k - 1], s.newest + k, last)
  <1> DEFINE p == CHOOSE f : Steps(f, s, last, Window)
  <1>1. Steps(p, s, last, Window)
    <2>1. \E f : Steps(f, s, last, Window)
      BY StepsExist, WindowAssumption
    <2> QED BY <2>1
  <1>2. Passed(s, last) = p
    BY DEF Passed, Steps
  <1> HIDE DEF p
  <1> DEFINE E(x, k) == ExpireOld(x, s.newest + k, last)
  <1>3. p = [k \in 0..Window |-> IF k = 0 THEN s ELSE E(p[k - 1], k)]
    BY <1>1 DEF Steps
  <1>4. 0 \in 0..Window /\ \A k \in 1..Window : k \in 0..Window /\ k # 0
    BY WindowAssumption
  <1> HIDE DEF E
  <1>5. \A k \in 0..Window : p[k] = IF k = 0 THEN s ELSE E(p[k - 1], k)
    BY <1>3
  <1>6. p[0] = s /\ \A k \in 1..Window : p[k] = E(p[k - 1], k)
    BY <1>4, <1>5
  <1> QED BY <1>2, <1>6 DEF E

\* Division with a remainder: a slot comes back after a window and not before.
LEMMA DivMod ==
    ASSUME NEW u \in Int, NEW W \in Nat \ {0}, NEW q, NEW r, q = u \div W, r = u % W
    PROVE  q \in Int /\ r \in 0..W - 1 /\ u = W * q + r
  <1>1. q \in Int /\ r \in 0..W - 1 /\ r \in Int /\ W \in Int /\ W > 0
    OBVIOUS
  <1>2. u = W * q + r
    BY <1>1
  <1> QED BY <1>1, <1>2

LEMMA Remainder ==
    ASSUME NEW W \in Nat \ {0}, NEW q \in Int, NEW r \in 0..W - 1, NEW q2 \in Int, NEW r2 \in 0..W - 1,
           W * q + r = W * q2 + r2
    PROVE  q = q2 /\ r = r2
  <1>1. W * (q - q2) = r2 - r
    OBVIOUS
  <1>2. q - q2 >= 1 => W * (q - q2) >= W
    OBVIOUS
  <1>3. q2 - q >= 1 => W * (q2 - q) >= W
    OBVIOUS
  <1>4. W * (q2 - q) = r - r2
    OBVIOUS
  <1>5. r2 - r < W /\ r - r2 < W
    OBVIOUS
  <1>6. ~ (q - q2 >= 1) /\ ~ (q2 - q >= 1)
    BY <1>1, <1>2, <1>3, <1>4, <1>5
  <1>7. q = q2
    BY <1>6
  <1> QED BY <1>7

LEMMA SlotAgain ==
    ASSUME NEW u \in Nat, NEW W \in Nat \ {0}
    PROVE  (u + W) % W = u % W
  <1> DEFINE q == u \div W
             r == u % W
             p == (u + W) \div W
             x == (u + W) % W
             w == u + W
  <1>0. w \in Int /\ q = u \div W /\ r = u % W /\ p = w \div W /\ x = w % W
    OBVIOUS
  <1> HIDE DEF q, r, p, x, w
  <1>1. q \in Int /\ r \in 0..W - 1 /\ u = W * q + r
    BY <1>0, DivMod
  <1>2. p \in Int /\ x \in 0..W - 1 /\ w = W * p + x
    BY <1>0, DivMod
  <1>3. W * (q + 1) + r = W * p + x
    <2>1. W * (q + 1) = W * q + W
      BY <1>1
    <2> QED BY <1>1, <1>2, <2>1 DEF w
  <1>4. q + 1 \in Int /\ p \in Int /\ r \in 0..W - 1 /\ x \in 0..W - 1
    BY <1>1, <1>2
  <1>5. x = r
    BY <1>3, <1>4, Remainder
  <1> QED BY <1>5 DEF x, r

LEMMA SlotApart ==
    ASSUME NEW u \in Nat, NEW v \in Nat, NEW W \in Nat \ {0}, u % W = v % W, u - v < W, v - u < W
    PROVE  u = v
  <1> DEFINE q == u \div W
             p == v \div W
             r == u % W
  <1>0. q = u \div W /\ r = u % W /\ p = v \div W /\ r = v % W
    OBVIOUS
  <1> HIDE DEF q, p, r
  <1>1. q \in Int /\ p \in Int /\ r \in Int /\ u = W * q + r /\ v = W * p + r
    BY <1>0, DivMod
  <1>2. u - v = W * (q - p) /\ v - u = W * (p - q)
    BY <1>1
  <1>3. (q - p >= 1 => W * (q - p) >= W) /\ (p - q >= 1 => W * (p - q) >= W)
    BY <1>1
  <1>4. q = p
    BY <1>1, <1>2, <1>3
  <1> QED BY <1>1, <1>4

\* The place x is in the slot of minute m, and older than the window that ends at last.
Aged(l, x, m, last) ==
    l[x].time < last - Window + 1 /\ BucketIndex(m) = BucketIndex(l[x].time)
Young(l, K, m, last) == {x \in K : ~ Aged(l, x, m, last)}

\* One minute of the way: its slot goes if what it holds is older than the window.
LEMMA ExpireOldHolds ==
    ASSUME NEW l \in Seq(Trades), NEW K, NEW s, Holds(s, l, K), NEW m \in Nat, NEW last \in Nat
    PROVE  /\ Holds(ExpireOld(s, m, last), l, Young(l, K, m, last))
           /\ ExpireOld(s, m, last).last = s.last /\ ExpireOld(s, m, last).newest = s.newest
  <1> DEFINE i == BucketIndex(m)
             J == InSlot(l, K, i)
             b == s.buckets[i]
             M == Young(l, K, m, last)
  <1>1. i \in 0..Window - 1
    BY SlotOf
  <1>2. K \subseteq 1..Len(l) /\ RingHolds(s.buckets, l, K) /\ J \subseteq K
    BY DEF Holds, InSlot
  <1>3. BucketHolds(b, l, J) /\ J \subseteq 1..Len(l)
    BY <1>1, <1>2 DEF RingHolds
  <1>4. ExpireOld(s, m, last) = IF b.trades > 0 /\ b.minute < last - Window + 1
                                THEN Expire(s, i) ELSE s
    BY DEF ExpireOld
  <1>5. \A x \in K : x \in J <=> BucketIndex(m) = BucketIndex(l[x].time)
    BY DEF InSlot
  <1> HIDE DEF b, i
  <1>6. (b.trades > 0 <=> J # {}) /\ \A j \in J : l[j].time = b.minute
    <2> HIDE DEF J
    <2>1. b.trades > 0 <=> J # {}
      BY <1>3, BucketCounts
    <2>2. \A j \in J : l[j].time = b.minute
      BY <1>3, BucketTime
    <2> QED BY <2>1, <2>2
  <1>7. CASE b.trades > 0 /\ b.minute < last - Window + 1
    <2>1. M = K \ J
      <3> HIDE DEF J
      <3>1. \A x \in K : x \in J => l[x].time < last - Window + 1
        BY <1>6, <1>7
      <3> QED BY <1>2, <1>5, <3>1 DEF Aged, Young
    <2>2. /\ Holds(Expire(s, i), l, K \ J)
          /\ Expire(s, i).last = s.last /\ Expire(s, i).newest = s.newest
      BY <1>1, <1>6, <1>7, ExpireHolds
    <2> QED BY <1>4, <1>7, <2>1, <2>2
  <1>8. CASE ~ (b.trades > 0 /\ b.minute < last - Window + 1)
    <2>1. M = K
      <3> HIDE DEF J
      <3>1. \A x \in K : x \in J => ~ (l[x].time < last - Window + 1)
        BY <1>6, <1>8
      <3> QED BY <1>5, <3>1 DEF Aged, Young
    <2> QED BY <1>4, <1>8, <2>1
  <1> QED BY <1>7, <1>8

\* The place x is gone when k minutes after minute n have passed on the way to last.
Gone(l, x, n, k, last) ==
    /\ l[x].time < last - Window + 1
    /\ \E m \in n + 1..n + k : BucketIndex(m) = BucketIndex(l[x].time)

Staying(l, K, n, k, last) == {x \in K : ~ Gone(l, x, n, k, last)}

LEMMA PassedHolds ==
    ASSUME NEW l \in Seq(Trades), NEW K, NEW s, Holds(s, l, K), s.newest \in Nat, NEW last \in Nat,
           NEW N \in 0..Window
    PROVE  /\ Holds(Passed(s, last)[N], l, Staying(l, K, s.newest, N, last))
           /\ Passed(s, last)[N].last = s.last /\ Passed(s, last)[N].newest = s.newest
  <1> DEFINE p == Passed(s, last)
             n == s.newest
             R(k) == Staying(l, K, n, k, last)
             T == {k \in Nat : k <= Window =>
                     Holds(p[k], l, R(k)) /\ p[k].last = s.last /\ p[k].newest = n}
  <1>1. p[0] = s /\ \A k \in 1..Window : p[k] = ExpireOld(p[k - 1], n + k, last)
    BY PassedIs
  <1> HIDE DEF p, n
  <1>2. n \in Nat /\ Window \in Nat
    BY WindowAssumption DEF n
  <1>3. 0 \in T
    <2>1. n + 1..n + 0 = {}
      BY <1>2
    <2>2. R(0) = K
      BY <2>1 DEF Gone, Staying
    <2> HIDE DEF R
    <2> QED BY <1>1, <2>2 DEF n
  <1>4. ASSUME NEW k \in Nat, k \in T PROVE k + 1 \in T
    <2> SUFFICES ASSUME k + 1 <= Window
                 PROVE  /\ Holds(p[k + 1], l, R(k + 1)) /\ p[k + 1].last = s.last
                        /\ p[k + 1].newest = n
      OBVIOUS
    <2>1. k <= Window /\ k + 1 \in 1..Window /\ (k + 1) - 1 = k
      BY <1>2
    <2>2. Holds(p[k], l, R(k)) /\ p[k].last = s.last /\ p[k].newest = n
      BY <1>4, <2>1
    <2> DEFINE m == n + (k + 1)
    <2>3. p[k + 1] = ExpireOld(p[k], m, last) /\ m \in Nat
      BY <1>1, <1>2, <2>1
    <2>4. \A y : y \in n + 1..n + (k + 1) <=> y \in n + 1..n + k \/ y = m
      BY <1>2
    <2> HIDE DEF m
    <2>5. R(k + 1) = Young(l, R(k), m, last)
      BY <2>4 DEF Gone, Aged, Young, Staying
    <2> DEFINE a == p[k]
               U == R(k)
               V == R(k + 1)
    <2> HIDE DEF R, a, U, V
    <2>6. Holds(a, l, U) /\ V = Young(l, U, m, last)
      BY <2>2, <2>5 DEF a, U, V
    <2>7. /\ Holds(ExpireOld(a, m, last), l, V)
          /\ ExpireOld(a, m, last).last = a.last
          /\ ExpireOld(a, m, last).newest = a.newest
      BY <2>3, <2>6, ExpireOldHolds
    <2> QED BY <2>2, <2>3, <2>7 DEF a, V
  <1>5. Nat \subseteq T
    <2> HIDE DEF T
    <2> QED BY <1>3, <1>4, Induct
  <1>6. N \in T /\ N <= Window
    <2> HIDE DEF T
    <2> QED BY <1>2, <1>5
  <1> QED BY <1>6 DEF p, n

\* The places in the window that ends at minute n.
InWindow(l, n) == {i \in 1..Len(l) : l[i].time > n - Window}

\* advance keeps what is in the new window, when the summary held what was in the old one.
Advanced(r, s, l, K, top) ==
    \E M \in SUBSET K :
        /\ Holds(r, l, M) /\ r.last = s.last /\ r.newest = top
        /\ K = InWindow(l, s.newest) => M = InWindow(l, top)

LEMMA AdvanceHolds ==
    ASSUME NEW l \in Seq(Trades), NEW K, NEW s, Holds(s, l, K), s.newest \in Nat, NEW m \in Nat,
           K = {} <=> l = <<>>, \A i \in 1..Len(l) : l[i].time <= s.newest,
           NEW top, top = IF l = <<>> \/ m > s.newest THEN m ELSE s.newest
    PROVE  Advanced(Advance(s, m), s, l, K, top)
  <1> USE DEF Advanced
  <1> DEFINE r == Advance(s, m)
             n == s.newest
             Good(M) == /\ Holds(r, l, M) /\ r.last = s.last /\ r.newest = top
                        /\ K = InWindow(l, n) => M = InWindow(l, top)
  <1>1. /\ Window \in Nat /\ n \in Nat /\ K \subseteq 1..Len(l) /\ s.count \in Nat
        /\ s.count = 0 <=> K = {}
    <2>1. K \subseteq 1..Len(l) /\ s.count = Cardinality(Held(l, K))
      BY DEF Holds
    <2>2. Cardinality(Held(l, K)) \in 0..Window /\ (Cardinality(Held(l, K)) = 0 <=> K = {})
      BY <2>1, PlacesOf
    <2> QED BY <2>1, <2>2, WindowAssumption
  <1>2. \A i \in 1..Len(l) : l[i].time \in Nat /\ l[i].time <= n
    <2>1. \A i \in 1..Len(l) : l[i] \in Trades
      OBVIOUS
    <2> QED BY <2>1, TradeFields
  <1>3. CASE K = {}
    <2>1. r = Until(s, m) /\ top = m
      BY <1>1, <1>3 DEF Advance, Until
    <2>2. InWindow(l, top) = {}
      BY <1>3 DEF InWindow
    <2>3. Holds(r, l, K) /\ r.last = s.last /\ r.newest = m
      <3> HIDE DEF r
      <3> QED BY <2>1, NewestHolds
    <2>4. Good(K)
      BY <1>3, <2>1, <2>2, <2>3
    <2> QED BY <2>4
  <1>4. CASE K # {} /\ m <= n
    <2>1. top = n
      <3>1. ~ (m > n)
        BY <1>1, <1>4
      <3>2. l # <<>>
        BY <1>4
      <3> QED BY <3>1, <3>2
    <2>2. s.count # 0 /\ s.count > 0 /\ m <= s.newest
      <3>1. s.count # 0 /\ m <= n
        BY <1>1, <1>4
      <3>2. s.count > 0
        <4> DEFINE c == s.count
        <4> HIDE DEF c
        <4>1. c \in Nat /\ c # 0
          BY <1>1, <3>1 DEF c
        <4>2. c > 0
          BY <4>1
        <4> QED BY <4>2 DEF c
      <3> QED BY <3>1, <3>2
    <2>3. r = s
      BY <1>1, <2>2, WindowAssumption DEF Advance
    <2>4. Good(K)
      BY <2>1, <2>3
    <2> QED BY <2>4
  <1>5. CASE K # {} /\ m > n /\ m - n >= Window
    <2>1. r = Until(Clear(s), m) /\ top = m
      BY <1>1, <1>5 DEF Advance, Until
    <2>2. Holds(Clear(s), l, {}) /\ Clear(s).last = s.last
      BY ClearHolds
    <2>3. Holds(r, l, {}) /\ r.last = s.last /\ r.newest = top
      <3> HIDE DEF r
      <3> QED BY <2>1, <2>2, NewestHolds
    <2>4. InWindow(l, top) = {}
      <3> SUFFICES ASSUME NEW i \in 1..Len(l), l[i].time > m - Window PROVE FALSE
        BY <2>1 DEF InWindow
      <3> DEFINE u == l[i].time
      <3> HIDE DEF n, u
      <3>1. u \in Nat /\ u <= n /\ u > m - Window
        BY <1>2 DEF u
      <3> QED BY <1>1, <1>5, <3>1
    <2>5. {} \in SUBSET K /\ Good({})
      BY <2>3, <2>4
    <2> QED BY <2>5
  <1>6. CASE K # {} /\ m > n /\ m - n < Window
    <2> DEFINE N == m - n
               p == Passed(s, m)[N]
               M == Staying(l, K, n, N, m)
    <2>1. r = Until(p, m) /\ top = m /\ N \in 0..Window /\ n + N = m
      BY <1>1, <1>6 DEF Advance, Until
    <2> HIDE DEF N
    <2>2. Holds(p, l, M) /\ p.last = s.last
      BY <1>1, <2>1, PassedHolds
    <2> HIDE DEF p, n
    <2>3. Holds(r, l, M) /\ r.last = s.last /\ r.newest = top
      <3> HIDE DEF M
      <3> HIDE DEF r
      <3> QED BY <2>1, <2>2, NewestHolds
    <2>4. ASSUME K = InWindow(l, n) PROVE M = InWindow(l, m)
      <3>1. ASSUME NEW x \in M PROVE x \in InWindow(l, m)
        <4>1. x \in 1..Len(l) /\ x \in K /\ ~ Gone(l, x, n, N, m)
          BY <1>1, <3>1 DEF Staying
        <4>2. l[x].time \in Nat /\ l[x].time > n - Window /\ l[x].time <= n
          BY <1>2, <2>4, <4>1 DEF InWindow
        <4> SUFFICES ASSUME l[x].time <= m - Window PROVE FALSE
          BY <1>1, <4>1, <4>2 DEF InWindow
        <4> DEFINE u == l[x].time
                   v == u + Window
        <4>3. u \in Nat /\ u > n - Window /\ u <= m - Window
          BY <4>2
        <4> HIDE DEF u
        <4>4. v \in n + 1..n + N /\ BucketIndex(v) = BucketIndex(u)
          <5>1. v \in Int /\ n + 1 <= v /\ v <= m
            BY <1>1, <4>3
          <5>2. v \in n + 1..n + N
            BY <1>1, <2>1, <5>1
          <5> QED BY <4>3, <5>2, SlotAgain, WindowAssumption DEF BucketIndex
        <4>5. u < m - Window + 1
          BY <1>1, <4>3
        <4> QED BY <4>1, <4>4, <4>5 DEF Gone, u
      <3>2. ASSUME NEW x \in InWindow(l, m) PROVE x \in M
        <4>1. x \in 1..Len(l) /\ l[x].time > m - Window /\ l[x].time \in Nat
          BY <1>2 DEF InWindow
        <4>2. l[x].time > n - Window /\ ~ (l[x].time < m - Window + 1)
          BY <1>1, <1>6, <4>1
        <4> QED BY <2>4, <4>1, <4>2 DEF InWindow, Gone, Staying
      <3> QED BY <3>1, <3>2
    <2>5. M \in SUBSET K /\ Good(M)
      <3> HIDE DEF r
      <3>1. M \in SUBSET K
        BY DEF Staying
      <3>2. K = InWindow(l, s.newest) => M = InWindow(l, top)
        BY <2>1, <2>4 DEF n
      <3> HIDE DEF M
      <3>3. Good(M)
        BY <2>3, <3>2 DEF n
      <3> QED BY <3>1, <3>3
    <2> QED BY <2>5 DEF n
  <1> QED BY <1>1, <1>3, <1>4, <1>5, <1>6

\* The slot of the trade is free for its minute.
Freed(s, t) ==
    LET i == BucketIndex(t.time)
        b == s.buckets[i]
    IN  IF b.trades > 0 /\ b.minute # t.time THEN Expire(s, i) ELSE s

FreeFor(r, s, l, K, t) ==
    \E F \in SUBSET K :
        /\ Holds(r, l, F) /\ r.last = s.last /\ r.newest = s.newest
        /\ \A x \in InSlot(l, F, BucketIndex(t.time)) : l[x].time = t.time
        /\ (\A x \in K : l[x].time - t.time < Window /\ t.time - l[x].time < Window) => F = K

LEMMA FreedHolds ==
    ASSUME NEW l \in Seq(Trades), NEW K, NEW s, Holds(s, l, K), NEW t \in Trades
    PROVE  FreeFor(Freed(s, t), s, l, K, t)
  <1> USE DEF FreeFor
  <1> DEFINE i == BucketIndex(t.time)
             J == InSlot(l, K, i)
             b == s.buckets[i]
  <1>0. t.time \in Nat
    BY TradeFields
  <1>1. i \in 0..Window - 1
    BY <1>0, SlotOf
  <1>2. K \subseteq 1..Len(l) /\ RingHolds(s.buckets, l, K) /\ J \subseteq K
    BY DEF Holds, InSlot
  <1>3. BucketHolds(b, l, J) /\ J \subseteq 1..Len(l)
    BY <1>1, <1>2 DEF RingHolds
  <1>4. Freed(s, t) = IF b.trades > 0 /\ b.minute # t.time THEN Expire(s, i) ELSE s
    BY DEF Freed
  <1> HIDE DEF b
  <1>5. (b.trades > 0 <=> J # {}) /\ \A j \in J : l[j].time = b.minute
    <2> HIDE DEF J
    <2>1. b.trades > 0 <=> J # {}
      BY <1>3, BucketCounts
    <2>2. \A j \in J : l[j].time = b.minute
      BY <1>3, BucketTime
    <2> QED BY <2>1, <2>2
  <1>6. CASE b.trades > 0 /\ b.minute # t.time
    <2>1. /\ Holds(Expire(s, i), l, K \ J)
          /\ Expire(s, i).last = s.last /\ Expire(s, i).newest = s.newest
      <3> HIDE DEF i
      <3> QED BY <1>1, <1>5, <1>6, ExpireHolds
    <2>2. InSlot(l, K \ J, i) = {}
      BY DEF InSlot
    <2>3. PICK x \in J : TRUE
      BY <1>5, <1>6
    <2>4. x \in K /\ l[x].time # t.time /\ l[x].time \in Nat /\ BucketIndex(l[x].time) = i
      <3>1. x \in K /\ BucketIndex(l[x].time) = i
        BY DEF InSlot
      <3>2. l[x].time \in Nat
        BY <1>2, <3>1, PlacesOf
      <3> QED BY <1>5, <1>6, <2>3, <3>1, <3>2
    <2>5. ~ (l[x].time - t.time < Window /\ t.time - l[x].time < Window)
      BY <1>0, <2>4, SlotApart, WindowAssumption DEF BucketIndex
    <2>6. /\ Holds(Freed(s, t), l, K \ J)
          /\ Freed(s, t).last = s.last /\ Freed(s, t).newest = s.newest
      BY <1>4, <1>6, <2>1
    <2> HIDE DEF J
    <2> QED BY <2>2, <2>4, <2>5, <2>6
  <1>7. CASE ~ (b.trades > 0 /\ b.minute # t.time)
    <2>1. Freed(s, t) = s
      BY <1>4, <1>7
    <2>2. \A x \in J : l[x].time = t.time
      <3> HIDE DEF J
      <3> QED BY <1>5, <1>7
    <2> QED BY <2>1, <2>2
  <1> QED BY <1>6, <1>7

\* The summary with the trade folded into the bucket that is free for it.
Absorbed(s, t) ==
    LET i == BucketIndex(t.time)
        fresh == s.buckets[i].trades = 0
        count == IF fresh THEN s.count + 1 ELSE s.count
        first == fresh /\ (count = 1 \/ t.time < s.openAt)
        only == count = 1 /\ fresh
    IN  Sm([s.buckets EXCEPT ![i] = Folded(s.buckets[i], t)], s.volume + t.price, s.trades + 1,
           count, IF only \/ t.price > s.high THEN t.price ELSE s.high,
           IF only \/ t.price < s.low THEN t.price ELSE s.low,
           IF first THEN t.price ELSE s.open, IF first THEN t.time ELSE s.openAt,
           t.price, IF t.time > s.newest THEN t.time ELSE s.newest)

LEMMA ApplySummaryIs ==
    ASSUME NEW s, NEW t
    PROVE  ApplySummary(s, t) = Absorbed(Freed(Advance(s, t.time), t), t)
  BY DEF ApplySummary, Absorbed, Freed, Sm

LEMMA AbsorbedFields ==
    ASSUME NEW s, NEW t
    PROVE  /\ Absorbed(s, t).last = t.price
           /\ Absorbed(s, t).newest = IF t.time > s.newest THEN t.time ELSE s.newest
  BY DEF Absorbed, Sm

LEMMA AbsorbedHolds ==
    ASSUME NEW l \in Seq(Trades), NEW K, NEW s, Holds(s, l, K), NEW t \in Trades, s.newest \in Nat,
           \A x \in InSlot(l, K, BucketIndex(t.time)) : l[x].time = t.time
    PROVE  Holds(Absorbed(s, t), Append(l, t), K \cup {Len(l) + 1})
  <1> DEFINE i == BucketIndex(t.time)
             J == InSlot(l, K, i)
             q == Append(l, t)
             k == Len(l) + 1
             I == K \cup {k}
             B == s.buckets
             D == [B EXCEPT ![i] = Folded(B[i], t)]
             fresh == B[i].trades = 0
             count == IF fresh THEN s.count + 1 ELSE s.count
             first == fresh /\ (count = 1 \/ t.time < s.openAt)
             only == count = 1 /\ fresh
             h == IF only \/ t.price > s.high THEN t.price ELSE s.high
             w == IF only \/ t.price < s.low THEN t.price ELSE s.low
             o == IF first THEN t.price ELSE s.open
             a == IF first THEN t.time ELSE s.openAt
             m == IF t.time > s.newest THEN t.time ELSE s.newest
             r == Absorbed(s, t)
  <1>1. /\ K \subseteq 1..Len(l) /\ RingHolds(B, l, K)
        /\ s.volume = SumOf(l, K) /\ s.trades = Cardinality(K) /\ s.count = Cardinality(Held(l, K))
        /\ K # {} => HighIn(s.high, l, K) /\ LowIn(s.low, l, K) /\ OpenIn(s.open, s.openAt, l, K)
    BY DEF Holds
  <1>2. r = Sm(D, s.volume + t.price, s.trades + 1, count, h, w, o, a, t.price, m)
    BY DEF Absorbed
  <1>3. /\ t.time \in Nat /\ t.price \in Nat /\ i \in 0..Window - 1 /\ k \in Nat /\ q \in Seq(Trades)
        /\ Len(q) = k /\ q[k] = t
    <2>1. t.time \in Nat /\ t.price \in Nat
      BY TradeFields
    <2>2. i \in 0..Window - 1
      BY <2>1, SlotOf
    <2>3. Len(l) \in Nat /\ q \in Seq(Trades) /\ Len(q) = k /\ q[k] = t
      BY Logged
    <2>4. k \in Nat
      BY <2>3
    <2> HIDE DEF q, k, i
    <2> QED BY <2>1, <2>2, <2>3, <2>4
  <1>4. \A x \in K : /\ x \in 1..Len(l) /\ x \in Int /\ x < k /\ q[x] = l[x]
                     /\ l[x].price \in Nat /\ l[x].time \in Nat
    BY <1>1, LogPlaces
  <1>5. J \subseteq K /\ J \subseteq 1..Len(l) /\ \A x \in J : l[x].time = t.time
    BY <1>1 DEF InSlot
  <1> HIDE DEF q, k, r, B
  <1>6. \A j \in 0..Window - 1 :
           InSlot(q, I, j) = IF j = i THEN J \cup {k} ELSE InSlot(l, K, j)
    BY <1>3, <1>4 DEF InSlot
  <1>7. /\ BucketHolds(B[i], l, J) /\ DOMAIN B = 0..Window - 1
        /\ \A j \in 0..Window - 1 : BucketHolds(B[j], l, InSlot(l, K, j))
    BY <1>1, <1>3 DEF RingHolds
  <1>8. fresh <=> J = {}
    <2> DEFINE b == B[i]
    <2> HIDE DEF b, J
    <2>1. BucketHolds(b, l, J)
      BY <1>7 DEF b
    <2>2. b.trades \in Nat /\ (b.trades > 0 <=> J # {})
      BY <1>5, <2>1, BucketCounts
    <2>3. b.trades = 0 <=> J = {}
      BY <2>2
    <2> QED BY <2>3 DEF b
  <1> HIDE DEF i
  <1>9. RingHolds(D, q, I)
    <2>1. DOMAIN D = 0..Window - 1 /\ D[i] = Folded(B[i], t)
          /\ \A j \in 0..Window - 1 : j # i => D[j] = B[j]
      BY <1>3, <1>7
    <2> HIDE DEF D, I
    <2>2. BucketHolds(D[i], q, InSlot(q, I, i))
      <3> DEFINE b == B[i]
      <3> HIDE DEF b, J
      <3>1. BucketHolds(b, l, J)
        BY <1>7 DEF b
      <3>2. BucketHolds(Folded(b, t), q, J \cup {k})
        BY <1>5, <3>1, BucketFolds DEF q, k
      <3> QED BY <1>3, <1>6, <2>1, <3>2 DEF b
    <2>3. ASSUME NEW j \in 0..Window - 1, j # i PROVE BucketHolds(D[j], q, InSlot(q, I, j))
      <3>1. InSlot(l, K, j) \subseteq 1..Len(l) /\ BucketHolds(B[j], l, InSlot(l, K, j))
        BY <1>1, <1>7 DEF InSlot
      <3>2. BucketHolds(B[j], q, InSlot(l, K, j))
        BY <3>1, BucketStays DEF q
      <3> QED BY <1>6, <2>1, <2>3, <3>2
    <2> QED BY <2>1, <2>2, <2>3 DEF RingHolds
  <1>10. s.volume + t.price = SumOf(q, I)
    <2>1. \A x \in 1..Len(l) : x \in I <=> x \in K
      BY <1>3 DEF k
    <2>2. SumOf(q, I) = SumOf(l, K) + (IF Len(l) + 1 \in I THEN t.price ELSE 0)
      BY <2>1, SumAppend DEF q
    <2> QED BY <1>1, <2>2 DEF k
  <1>11. s.trades + 1 = Cardinality(I)
    <2>0. k \notin K
      BY <1>3, <1>4
    <2>1. IsFiniteSet(K) /\ k \notin K
      BY <1>1, <2>0, PlacesOf
    <2> QED BY <1>1, <2>1, FS_AddElement
  <1>12. count = Cardinality(Held(q, I)) /\ (only <=> K = {})
    <2>1. Held(q, I) = Held(l, K) \cup {i}
      BY <1>3, <1>6 DEF Held
    <2>2. IsFiniteSet(Held(l, K)) /\ Cardinality(Held(l, K)) \in Nat
          /\ (Cardinality(Held(l, K)) = 0 <=> K = {})
      BY <1>1, PlacesOf
    <2>3. i \in Held(l, K) <=> J # {}
      BY <1>3 DEF Held
    <2>4. CASE J = {}
      <3>1. Cardinality(Held(q, I)) = Cardinality(Held(l, K)) + 1
        BY <2>1, <2>2, <2>3, <2>4, FS_AddElement
      <3> HIDE DEF J
      <3> QED BY <1>1, <1>8, <2>2, <2>4, <3>1
    <2>5. CASE J # {}
      <3>1. Held(q, I) = Held(l, K)
        BY <2>1, <2>3, <2>5
      <3>2. K # {}
        BY <1>5, <2>5
      <3> HIDE DEF J
      <3> QED BY <1>1, <1>8, <2>5, <3>1, <3>2
    <2> QED BY <2>4, <2>5
  <1> DEFINE F == J = {}
  <1>13. first <=> F /\ (K = {} \/ t.time < s.openAt)
    BY <1>8, <1>12
  <1> HIDE DEF only, count, D, first, J
  <1>14. HighIn(h, q, I) /\ LowIn(w, q, I)
    <2>1. CASE K = {}
      <3>1. h = t.price /\ w = t.price
        BY <1>12, <2>1
      <3>2. I = {k}
        BY <2>1
      <3> QED BY <1>3, <3>1, <3>2 DEF HighIn, LowIn
    <2>2. CASE K # {}
      <3>1. PICK x \in K : s.high = l[x].price /\ \A y \in K : l[y].price <= s.high
        BY <1>1, <2>2 DEF HighIn
      <3>2. PICK z \in K : s.low = l[z].price /\ \A y \in K : l[y].price >= s.low
        BY <1>1, <2>2 DEF LowIn
      <3>3. /\ h = (IF t.price > s.high THEN t.price ELSE s.high)
            /\ w = (IF t.price < s.low THEN t.price ELSE s.low)
        BY <1>12, <2>2
      <3> HIDE DEF h, w
      <3>4. HighIn(h, q, I)
        <4>1. s.high \in Nat
          BY <1>4, <3>1
        <4>2. \A y \in I : q[y].price <= h
          BY <1>3, <1>4, <3>1, <3>3, <4>1
        <4>3. h = q[x].price \/ h = q[k].price
          BY <1>3, <1>4, <3>1, <3>3
        <4> QED BY <4>2, <4>3 DEF HighIn
      <3>5. LowIn(w, q, I)
        <4>1. s.low \in Nat
          BY <1>4, <3>2
        <4>2. ASSUME NEW y \in I PROVE q[y].price >= w
          <5>1. w \in Nat /\ w <= t.price /\ w <= s.low
            BY <1>3, <3>3, <4>1
          <5>2. CASE y \in K
            <6>1. q[y] = l[y] /\ l[y].price \in Nat /\ l[y].price >= s.low
              BY <1>4, <3>2, <5>2
            <6> QED BY <4>1, <5>1, <6>1
          <5>3. CASE y = k
            BY <1>3, <5>1, <5>3
          <5> QED BY <5>2, <5>3
        <4>3. w = q[z].price \/ w = q[k].price
          BY <1>3, <1>4, <3>2, <3>3
        <4> QED BY <4>2, <4>3 DEF LowIn
      <3> QED BY <3>4, <3>5
    <2> QED BY <2>1, <2>2
  <1>15. OpenIn(o, a, q, I)
    <2>1. CASE K = {}
      <3>1. J = {}
        BY <1>5, <2>1
      <3>2. first
        BY <1>13, <2>1, <3>1
      <3>3. o = t.price /\ a = t.time /\ I = {k}
        BY <2>1, <3>2
      <3> QED BY <1>3, <3>3 DEF OpenIn
    <2>2. CASE K # {}
      <3>1. PICK f \in K : /\ s.openAt = l[f].time /\ s.open = l[f].price
                           /\ \A y \in K : l[y].time >= s.openAt /\ (l[y].time = s.openAt => f <= y)
        BY <1>1, <2>2 DEF OpenIn
      <3>2. s.openAt \in Nat
        BY <1>4, <3>1
      <3>3. CASE first
        <4>1. o = t.price /\ a = t.time /\ t.time < s.openAt
          BY <1>13, <2>2, <3>3
        <4>2. ASSUME NEW y \in K PROVE q[y].time > t.time
          BY <1>3, <1>4, <3>1, <3>2, <4>1
        <4>3. \A y \in I : q[y].time >= t.time /\ (q[y].time = t.time => k <= y)
          BY <1>3, <1>4, <4>2
        <4> QED BY <1>3, <4>1, <4>3 DEF OpenIn
      <3>4. CASE ~ first
        <4>1. o = s.open /\ a = s.openAt
          BY <3>4
        <4>2. t.time >= s.openAt
          <5>1. CASE J = {}
            BY <1>3, <1>13, <3>2, <3>4, <5>1
          <5>2. CASE J # {}
            <6>1. PICK x \in J : TRUE
              BY <5>2
            <6> QED BY <1>5, <3>1, <6>1
          <5> QED BY <5>1, <5>2
        <4>3. q[f].time = s.openAt /\ q[f].price = s.open /\ f <= k
          BY <1>3, <1>4, <3>1
        <4>4. ASSUME NEW y \in I
              PROVE  q[y].time >= s.openAt /\ (q[y].time = s.openAt => f <= y)
          BY <1>3, <1>4, <3>1, <4>2, <4>3
        <4> QED BY <4>1, <4>3, <4>4 DEF OpenIn
      <3> QED BY <3>3, <3>4
    <2> QED BY <2>1, <2>2
  <1> HIDE DEF h, w, o, a, m, I
  <1>16. /\ r.buckets = D /\ r.volume = SumOf(q, I) /\ r.trades = Cardinality(I)
         /\ r.count = Cardinality(Held(q, I)) /\ r.high = h /\ r.low = w /\ r.open = o
         /\ r.openAt = a /\ r.last = t.price /\ r.newest = m
    BY <1>2, <1>10, <1>11, <1>12, SmFields
  <1>17. r = Sm(r.buckets, r.volume, r.trades, r.count, r.high, r.low, r.open, r.openAt,
                r.last, r.newest)
    BY <1>2, <1>10, <1>11, <1>12, <1>16
  <1>18. I \subseteq 1..Len(q)
    <2>1. \A x \in K : x \in 1..k
      BY <1>3, <1>4
    <2>2. k \in 1..k
      BY <1>3 DEF k
    <2> QED BY <1>3, <2>1, <2>2 DEF I
  <1>19. Holds(r, q, I)
    BY <1>9, <1>14, <1>15, <1>16, <1>17, <1>18 DEF Holds
  <1> QED BY <1>19 DEF r, q, k, I

\* The newest minute is the latest of a trade, and the last price that of the last trade.
LastSeen(s, l) ==
    l # <<>> =>
        /\ s.last = l[Len(l)].price
        /\ \E y \in 1..Len(l) : s.newest = l[y].time
        /\ \A i \in 1..Len(l) : l[i].time <= s.newest

\* The inductive invariant of the summary: it holds some of the trades, the last one
\* among them, and exactly the ones in the window unless a trade came too late for it.
SummaryHas(s, l, old, K) ==
    /\ Holds(s, l, K) /\ (K = {} <=> l = <<>>)
    /\ ~old => K = InWindow(l, s.newest)
SummaryInv(s, l, old) ==
    s.newest \in Nat /\ LastSeen(s, l) /\ \E K : SummaryHas(s, l, old, K)

LEMMA SummaryStarts == SummaryInv(EmptySummary, <<>>, FALSE)
  <1> DEFINE e == EmptySummary
  <1>1. e.newest = 0
    BY DEF EmptySummary
  <1>2. Holds(e, <<>>, {})
    <2>1. <<>> \in Seq(Trades)
      OBVIOUS
    <2> QED BY <2>1, ClearHolds, Zenon
  <1>3. InWindow(<<>>, 0) = {}
    BY DEF InWindow
  <1> HIDE DEF e
  <1>4. SummaryHas(e, <<>>, FALSE, {})
    BY <1>1, <1>2, <1>3 DEF SummaryHas
  <1>5. SummaryInv(e, <<>>, FALSE)
    <2>1. \E K : SummaryHas(e, <<>>, FALSE, K)
      BY <1>4, Zenon
    <2>2. LastSeen(e, <<>>)
      BY DEF LastSeen
    <2>3. e.newest \in Nat
      BY <1>1
    <2> QED BY <2>1, <2>2, <2>3, Zenon DEF SummaryInv
  <1> QED BY <1>5 DEF e

LEMMA SummaryKeeps ==
    ASSUME NEW l \in Seq(Trades), NEW t \in Trades, NEW s, NEW old \in BOOLEAN,
           SummaryInv(s, l, old), NEW late \in BOOLEAN,
           late <=> old \/ \E i \in 1..Len(l) : t.time <= l[i].time - Window
    PROVE  SummaryInv(ApplySummary(s, t), Append(l, t), late)
  <1> DEFINE n == s.newest
             m == t.time
             top == IF l = <<>> \/ m > n THEN m ELSE n
             v == Advance(s, m)
             f == Freed(v, t)
             r == Absorbed(f, t)
             q == Append(l, t)
             k == Len(l) + 1
  <1>1. n \in Nat /\ LastSeen(s, l) /\ m \in Nat /\ top \in Nat /\ Window \in Nat \ {0}
    BY TradeFields, WindowAssumption DEF SummaryInv
  <1>2. PICK K : SummaryHas(s, l, old, K)
    BY DEF SummaryInv
  <1>3. /\ Holds(s, l, K) /\ (K = {} <=> l = <<>>) /\ (~ old => K = InWindow(l, n))
        /\ K \subseteq 1..Len(l)
    BY <1>2 DEF SummaryHas, Holds
  <1>4. \A i \in 1..Len(l) : l[i].time \in Nat /\ l[i].time <= n
    <2>1. \A i \in 1..Len(l) : l[i] \in Trades /\ l # <<>>
      OBVIOUS
    <2> QED BY <1>1, <2>1, TradeFields DEF LastSeen
  <1>5. m <= top /\ \A i \in 1..Len(l) : l[i].time <= top
    BY <1>1, <1>4
  <1>6. Advanced(v, s, l, K, top)
    <2>1. \A i \in 1..Len(l) : l[i].time <= n
      BY <1>4
    <2> HIDE DEF v
    <2>2. top = IF l = <<>> \/ m > n THEN m ELSE n
      OBVIOUS
    <2> HIDE DEF top, m
    <2> QED BY <1>1, <1>3, <2>1, <2>2, AdvanceHolds DEF v
  <1>7. PICK M \in SUBSET K :
           /\ Holds(v, l, M) /\ v.last = s.last /\ v.newest = top
           /\ K = InWindow(l, n) => M = InWindow(l, top)
    BY <1>6 DEF Advanced
  <1> HIDE DEF v, top, n
  <1>8. PICK F \in SUBSET M :
           /\ Holds(f, l, F) /\ f.last = v.last /\ f.newest = v.newest
           /\ \A x \in InSlot(l, F, BucketIndex(t.time)) : l[x].time = t.time
           /\ (\A x \in M : l[x].time - t.time < Window /\ t.time - l[x].time < Window) => F = M
    <2>1. FreeFor(f, v, l, M, t)
      BY <1>7, FreedHolds
    <2> QED BY <2>1 DEF FreeFor
  <1> HIDE DEF f
  <1>9. /\ Holds(r, q, F \cup {k}) /\ r.last = t.price
        /\ r.newest = IF t.time > f.newest THEN t.time ELSE f.newest
    <2>1. f.newest \in Nat
      BY <1>1, <1>7, <1>8
    <2>2. Holds(f, l, F)
      BY <1>8
    <2>3. \A x \in InSlot(l, F, BucketIndex(t.time)) : l[x].time = t.time
      BY <1>8
    <2>4. Holds(Absorbed(f, t), Append(l, t), F \cup {Len(l) + 1})
      BY <2>1, <2>2, <2>3, AbsorbedHolds, Zenon
    <2> QED BY <2>4, AbsorbedFields
  <1>10. r.newest = top
    BY <1>1, <1>5, <1>7, <1>8, <1>9
  <1> HIDE DEF r
  <1>11. q \in Seq(Trades) /\ Len(q) = k /\ k \in Nat /\ q[k] = t /\ k \in 1..k
         /\ (\A i \in 1..Len(l) : q[i] = l[i]) /\ q # <<>>
    <2>1. /\ q \in Seq(Trades) /\ Len(q) = k /\ Len(l) \in Nat /\ q[k] = t
          /\ \A i \in 1..Len(l) : q[i] = l[i]
      BY Logged
    <2>2. k \in Nat /\ k \in 1..k /\ k # 0
      BY <2>1
    <2> HIDE DEF q, k
    <2> QED BY <2>1, <2>2
  <1>12. \A i \in 1..k : i = k \/ i \in 1..Len(l)
    OBVIOUS
  <1> HIDE DEF q, k
  <1>13. LastSeen(r, q)
    <2>1. r.last = q[Len(q)].price
      BY <1>9, <1>11
    <2>2. \E y \in 1..Len(q) : r.newest = q[y].time
      <3>1. CASE l = <<>> \/ m > n
        BY <1>10, <1>11, <3>1 DEF top
      <3>2. CASE ~ (l = <<>> \/ m > n)
        <4>1. PICK y \in 1..Len(l) : s.newest = l[y].time
          BY <1>1, <3>2 DEF LastSeen
        <4>2. y \in 1..k
          BY <1>11 DEF k
        <4>3. top = q[y].time
          BY <1>11, <3>2, <4>1 DEF top, n
        <4> QED BY <1>10, <1>11, <4>2, <4>3
      <3> QED BY <3>1, <3>2
    <2>3. \A i \in 1..Len(q) : q[i].time <= r.newest
      BY <1>5, <1>10, <1>11, <1>12
    <2> QED BY <2>1, <2>2, <2>3 DEF LastSeen
  <1>14. ASSUME ~ late PROVE F \cup {k} = InWindow(q, top)
    <2>1. ~ old /\ \A i \in 1..Len(l) : ~ (m <= l[i].time - Window)
      BY <1>14
    <2>2. \A i \in 1..Len(l) : m > l[i].time - Window
      BY <1>1, <1>4, <2>1
    <2>3. M = InWindow(l, top)
      BY <1>3, <1>7, <2>1
    <2>4. ASSUME NEW x \in M PROVE l[x].time - t.time < Window /\ t.time - l[x].time < Window
      <3>1. x \in 1..Len(l) /\ l[x].time > top - Window
        BY <2>3 DEF InWindow
      <3> QED BY <1>1, <1>4, <1>5, <2>2, <3>1
    <2>5. F = InWindow(l, top)
      BY <1>8, <2>3, <2>4
    <2>6. m > top - Window
      <3>1. CASE l = <<>> \/ m > n
        BY <1>1, <3>1 DEF top
      <3>2. CASE ~ (l = <<>> \/ m > n)
        <4>1. PICK y \in 1..Len(l) : s.newest = l[y].time
          BY <1>1, <3>2 DEF LastSeen
        <4> QED BY <2>2, <3>2, <4>1 DEF top, n
      <3> QED BY <3>1, <3>2
    <2>7. ASSUME NEW i \in 1..k
          PROVE  q[i].time > top - Window <=> i \in F \cup {k}
      <3>1. CASE i = k
        BY <1>11, <2>6, <3>1
      <3>2. CASE i # k
        <4>1. i \in 1..Len(l)
          BY <1>12, <3>2
        <4> QED BY <1>11, <2>5, <3>2, <4>1 DEF InWindow
      <3> QED BY <3>1, <3>2
    <2>8. F \cup {k} \subseteq 1..k
      BY <1>9, <1>11 DEF Holds
    <2> QED BY <1>11, <2>7, <2>8 DEF InWindow
  <1>15. SummaryHas(r, q, late, F \cup {k})
    BY <1>9, <1>10, <1>11, <1>14 DEF SummaryHas
  <1>16. SummaryInv(r, q, late)
    BY <1>1, <1>10, <1>13, <1>15 DEF SummaryInv
  <1>17. ApplySummary(s, t) = r
    BY ApplySummaryIs DEF r, f, v
  <1> QED BY <1>16, <1>17 DEF q

\* The summary with the right places has the reference's figures.
LEMMA SummaryServes ==
    ASSUME log \in Seq(Trades), SummaryInv(summary, log, tooOld)
    PROVE  /\ SummaryExact
           /\ summary.count \in 0..Window /\ summary.volume \in Nat /\ summary.trades \in Nat
  <1>1. PICK K : SummaryHas(summary, log, tooOld, K)
    BY DEF SummaryInv
  <1>2. /\ Holds(summary, log, K) /\ (K = {} <=> log = <<>>) /\ K \subseteq 1..Len(log)
        /\ ~ tooOld => K = InWindow(log, summary.newest)
    BY <1>1 DEF SummaryHas, Holds
  <1>3. /\ summary.volume = SumOf(log, K) /\ summary.trades = Cardinality(K)
        /\ summary.count = Cardinality(Held(log, K))
        /\ K # {} => /\ HighIn(summary.high, log, K) /\ LowIn(summary.low, log, K)
                     /\ OpenIn(summary.open, summary.openAt, log, K)
    BY <1>2 DEF Holds
  <1>4. summary.count \in 0..Window /\ summary.volume \in Nat /\ summary.trades \in Nat
    <2>1. Cardinality(K) \in Nat /\ Cardinality(Held(log, K)) \in 0..Window
      BY <1>2, PlacesOf
    <2>2. SumOf(log, K) \in Nat
      BY SumNat
    <2> QED BY <1>3, <2>1, <2>2
  <1> DEFINE newest == CHOOSE t \in {log[i].time : i \in 1..Len(log)} :
                          \A i \in 1..Len(log) : log[i].time <= t
             I == {i \in 1..Len(log) : log[i].time > newest - Window}
             oldest == CHOOSE t \in {log[i].time : i \in I} : \A i \in I : log[i].time >= t
             E == {i \in I : log[i].time = oldest}
  <1>5. ASSUME log # <<>>, ~ tooOld
        PROVE  /\ summary.volume = SumOf(log, I) /\ summary.trades = Cardinality(I)
               /\ summary.high = HighOf(log, I) /\ summary.low = LowOf(log, I)
               /\ summary.open = log[FirstOf(E)].price
               /\ summary.last = log[Len(log)].price
    <2>1. /\ summary.last = log[Len(log)].price /\ summary.newest \in Nat
          /\ \E y \in 1..Len(log) : summary.newest = log[y].time
          /\ \A i \in 1..Len(log) : log[i].time <= summary.newest
      BY <1>5 DEF SummaryInv, LastSeen
    <2>2. \A i \in 1..Len(log) : log[i].time \in Nat /\ log[i].price \in Nat
      <3>1. \A i \in 1..Len(log) : log[i] \in Trades
        OBVIOUS
      <3> QED BY <3>1, TradeFields
    <2>3. newest = summary.newest
      <3>1. /\ newest \in {log[i].time : i \in 1..Len(log)}
            /\ \A i \in 1..Len(log) : log[i].time <= newest
        BY <2>1
      <3> HIDE DEF newest
      <3>2. newest \in Nat /\ newest <= summary.newest /\ summary.newest <= newest
        BY <2>1, <2>2, <3>1
      <3> QED BY <2>1, <3>2
    <2>4. I = K /\ K # {}
      <3> HIDE DEF newest
      <3> QED BY <1>2, <1>5, <2>3 DEF InWindow
    <2> HIDE DEF I
    <2>5. /\ HighIn(summary.high, log, I) /\ LowIn(summary.low, log, I)
          /\ OpenIn(summary.open, summary.openAt, log, I)
      BY <1>3, <2>4
    <2>6. \A i \in I : i \in 1..Len(log) /\ i \in Int /\ log[i].time \in Nat /\ log[i].price \in Nat
      BY <1>2, <2>2, <2>4
    <2>7. summary.high = HighOf(log, I)
      <3> DEFINE P == {log[i].price : i \in I}
                 c == CHOOSE p \in P : \A i \in I : log[i].price <= p
      <3>1. PICK x \in I : summary.high = log[x].price /\ \A i \in I : log[i].price <= summary.high
        BY <2>5 DEF HighIn
      <3>2. c \in P /\ \A i \in I : log[i].price <= c
        BY <3>1
      <3>3. HighOf(log, I) = c
        BY DEF HighOf
      <3> HIDE DEF c
      <3>4. c \in Nat /\ c <= summary.high /\ summary.high <= c /\ summary.high \in Nat
        BY <2>6, <3>1, <3>2
      <3> QED BY <3>3, <3>4
    <2>8. summary.low = LowOf(log, I)
      <3> DEFINE P == {log[i].price : i \in I}
                 c == CHOOSE p \in P : \A i \in I : log[i].price >= p
      <3>1. PICK x \in I : summary.low = log[x].price /\ \A i \in I : log[i].price >= summary.low
        BY <2>5 DEF LowIn
      <3>2. c \in P /\ \A i \in I : log[i].price >= c
        BY <3>1
      <3>3. LowOf(log, I) = c
        BY DEF LowOf
      <3> HIDE DEF c
      <3>4. c \in Nat /\ c >= summary.low /\ summary.low >= c /\ summary.low \in Nat
        BY <2>6, <3>1, <3>2
      <3> QED BY <3>3, <3>4
    <2>9. summary.open = log[FirstOf(E)].price
      <3>1. PICK f \in I :
               /\ summary.openAt = log[f].time /\ summary.open = log[f].price
               /\ \A k \in I : /\ log[k].time >= summary.openAt
                               /\ log[k].time = summary.openAt => f <= k
        BY <2>5 DEF OpenIn
      <3>2. oldest = log[f].time
        <4>1. oldest \in {log[i].time : i \in I} /\ \A i \in I : log[i].time >= oldest
          BY <3>1
        <4> HIDE DEF oldest
        <4>2. oldest \in Nat /\ oldest <= log[f].time /\ oldest >= log[f].time /\ log[f].time \in Nat
          BY <2>6, <3>1, <4>1
        <4> QED BY <4>2
      <3> HIDE DEF oldest
      <3>3. f \in E /\ \A j \in E : f <= j /\ f \in Int /\ j \in Int
        BY <2>6, <3>1, <3>2
      <3> HIDE DEF E
      <3>4. FirstOf(E) \in E /\ \A j \in E : FirstOf(E) <= j
        BY <3>3 DEF FirstOf
      <3>5. FirstOf(E) = f
        BY <3>3, <3>4
      <3> QED BY <3>1, <3>5
    <2> QED BY <1>3, <2>1, <2>4, <2>7, <2>8, <2>9
  <1>6. SummaryExact
    BY <1>5 DEF SummaryExact
  <1> QED BY <1>4, <1>6

(* ------------------------------ the read models ---------------------------- *)

\* The inductive invariant of what the engine serves.
DataInv ==
    /\ log \in Seq(Trades) /\ tooOld \in BOOLEAN /\ DOMAIN agg = Spans
    /\ TapeInv(tape, log) /\ SummaryInv(summary, log, tooOld)
    /\ \A s \in Spans : CandleInv(agg[s], s, log)

\* What a reset leaves.
NoData ==
    /\ agg = [s \in Spans |-> NewAggregator] /\ summary = EmptySummary
    /\ tape = NewTradeRing /\ log = <<>> /\ tooOld = FALSE

LEMMA DataStarts == NoData => DataInv
  <1> SUFFICES ASSUME NoData PROVE DataInv
    OBVIOUS
  <1>1. log \in Seq(Trades) /\ tooOld \in BOOLEAN /\ DOMAIN agg = Spans
    <2>1. log = <<>> /\ tooOld = FALSE /\ agg = [s \in Spans |-> NewAggregator]
      BY DEF NoData
    <2>2. <<>> \in Seq(Trades)
      OBVIOUS
    <2> HIDE DEF NoData
    <2>3. DOMAIN agg = Spans
      BY <2>1, Zenon
    <2> QED BY <2>1, <2>2, <2>3
  <1>2. TapeInv(tape, log) /\ SummaryInv(summary, log, tooOld)
    BY TapeStarts, SummaryStarts DEF NoData
  <1>3. ASSUME NEW s \in Spans PROVE CandleInv(agg[s], s, log)
    <2>1. agg[s] = NewAggregator /\ log = <<>>
      BY DEF NoData
    <2> QED BY <2>1, CandleStarts
  <1> QED BY <1>1, <1>2, <1>3 DEF DataInv

\* A trade reaches all of them.
LEMMA DataTrade ==
    ASSUME DataInv, epoch \in Nat, ApplyTrade
    PROVE  DataInv'
  <1>1. CASE UNCHANGED dataVars
    BY <1>1 DEF dataVars, DataInv
  <1>2. ASSUME NEW time \in Times, NEW price \in Prices, NEW t,
               t = [id |-> <<epoch, Len(log) + 1>>, time |-> time, price |-> price],
               agg' = [s \in Spans |-> ApplyCandle(agg[s], s, t)],
               summary' = ApplySummary(summary, t), tape' = PushTrade(tape, t),
               log' = Append(log, t),
               tooOld' = (tooOld \/ \E i \in 1..Len(log) : time <= log[i].time - Window)
        PROVE  DataInv'
    <2>1. log \in Seq(Trades) /\ tooOld \in BOOLEAN /\ Len(log) + 1 \in Nat
      BY DEF DataInv
    <2>2. t \in Trades /\ t.time = time
      BY <1>2, <2>1 DEF Trades
    <2>3. log' \in Seq(Trades) /\ tooOld' \in BOOLEAN /\ DOMAIN agg' = Spans
      BY <1>2, <2>1, <2>2, Logged
    <2>4. TapeInv(tape', log')
      BY <1>2, <2>1, <2>2, TapePush DEF DataInv
    <2>5. SummaryInv(summary', log', tooOld')
      <3>1. tooOld' <=> tooOld \/ \E i \in 1..Len(log) : t.time <= log[i].time - Window
        BY <1>2, <2>2
      <3>2. SummaryInv(summary, log, tooOld)
        BY DEF DataInv
      <3>3. SummaryInv(ApplySummary(summary, t), Append(log, t), tooOld')
        BY <2>1, <2>2, <2>3, <3>1, <3>2, SummaryKeeps
      <3> QED BY <1>2, <3>3
    <2>6. ASSUME NEW s \in Spans PROVE CandleInv(agg'[s], s, log')
      <3>1. agg'[s] = ApplyCandle(agg[s], s, t) /\ CandleInv(agg[s], s, log)
        BY <1>2 DEF DataInv
      <3>2. CandleInv(ApplyCandle(agg[s], s, t), s, Append(log, t))
        BY <2>1, <2>2, <3>1, CandleKeeps
      <3> QED BY <1>2, <3>1, <3>2
    <2> QED BY <2>3, <2>4, <2>5, <2>6 DEF DataInv
  <1> QED BY <1>1, <1>2 DEF ApplyTrade

\* Only a trade and a reset change what is served.
LEMMA DataKeeps ==
    ASSUME DataInv, ControlInv, [Next]_vars
    PROVE  DataInv'
  <1>1. epoch \in Nat
    BY DEF ControlInv, ControlTypes
  <1>2. UNCHANGED dataVars => DataInv'
    BY DEF dataVars, DataInv
  <1>3. CASE WarmupEvent \/ ApplyEvent
    BY <1>1, <1>2, <1>3, DataTrade DEF WarmupEvent, ApplyEvent
  <1>4. ASSUME NEW c \in Callers, Reset(c) PROVE DataInv'
    <2>1. NoData'
      BY <1>4 DEF Reset, NoData
    <2>2. NoData' => DataInv'
      BY DataStarts, PTL
    <2> QED BY <2>1, <2>2
  <1>5. CASE \/ StartWarmup \/ GoLive \/ TakeEvent \/ TakeTick \/ Stop
             \/ Generate \/ Emit \/ CloseStream
    BY <1>2, <1>5 DEF StartWarmup, GoLive, TakeEvent, TakeTick, Stop, Generate, Emit, CloseStream
  <1>6. ASSUME NEW c \in Callers, Pause(c) \/ Resume(c) \/ ControlState(c) PROVE DataInv'
    BY <1>2, <1>6 DEF Pause, Resume, ControlState
  <1>7. ASSUME NEW a \in Publishers, ReadStatus(a) \/ SendStatus(a) PROVE DataInv'
    BY <1>2, <1>7 DEF ReadStatus, SendStatus
  <1>8. CASE UNCHANGED vars
    BY <1>2, <1>8 DEF vars
  <1> QED BY <1>3, <1>4, <1>5, <1>6, <1>7, <1>8 DEF Next, Publishers

\* The counters stay within their bounds; an epoch takes a control.
CountInv ==
    /\ epoch \in Nat /\ calls \in 0..MaxControls /\ epoch <= calls
    /\ warm \in 0..Warmup /\ stream \in 0..Buffer
    /\ provider \in [pc : {"wait", "send"}, paused : BOOLEAN, closed : BOOLEAN,
                     left : 0..MaxTrades]

LEMMA CountKeeps ==
    ASSUME CountInv, [Next]_vars
    PROVE  CountInv'
  <1> USE EngineAssumption DEF CountInv
  <1>1. CASE StartWarmup \/ GoLive \/ TakeTick \/ ApplyEvent \/ Stop
    BY <1>1 DEF StartWarmup, GoLive, TakeTick, ApplyEvent, Stop, runVars, feedVars, ctlVars
  <1>2. CASE WarmupEvent
    BY <1>2 DEF WarmupEvent, ctlVars
  <1>3. CASE TakeEvent
    BY <1>3 DEF TakeEvent, ctlVars
  <1>4. CASE Generate
    <2>1. /\ provider' = [provider EXCEPT !.pc = "send", !.left = provider.left - 1]
          /\ provider.left > 0
      BY <1>4 DEF Generate
    <2>2. provider.left - 1 \in 0..MaxTrades
      BY <2>1
    <2>3. provider' \in [pc : {"wait", "send"}, paused : BOOLEAN, closed : BOOLEAN,
                         left : 0..MaxTrades]
      BY <2>1, <2>2
    <2> QED BY <1>4, <2>3 DEF Generate, runVars, ctlVars
  <1>5. CASE Emit
    BY <1>5 DEF Emit, runVars, ctlVars
  <1>6. CASE CloseStream
    BY <1>6 DEF CloseStream, runVars, ctlVars
  <1>7. ASSUME NEW c \in Callers, Pause(c) \/ Resume(c) PROVE CountInv'
    <2>1. /\ \/ provider' = [provider EXCEPT !.paused = TRUE]
             \/ provider' = [provider EXCEPT !.paused = FALSE]
          /\ calls < MaxControls /\ calls' = calls + 1 /\ epoch' = epoch
          /\ warm' = warm /\ stream' = stream
      BY <1>7 DEF Pause, Resume, Call, runVars
    <2>2. provider' \in [pc : {"wait", "send"}, paused : BOOLEAN, closed : BOOLEAN,
                         left : 0..MaxTrades]
      BY <2>1
    <2>3. calls' \in 0..MaxControls /\ epoch' <= calls'
      BY <2>1
    <2> QED BY <2>1, <2>2, <2>3
  <1>8. ASSUME NEW c \in Callers, Reset(c) PROVE CountInv'
    BY <1>8 DEF Reset, Call, runVars
  <1>9. ASSUME NEW c \in Callers, ControlState(c) PROVE CountInv'
    BY <1>9 DEF ControlState, runVars, feedVars
  <1>10. ASSUME NEW a \in Publishers, ReadStatus(a) \/ SendStatus(a) PROVE CountInv'
    BY <1>10 DEF ReadStatus, SendStatus, runVars, feedVars, ctlVars
  <1>11. CASE UNCHANGED vars
    BY <1>11 DEF vars, runVars, feedVars, ctlVars
  <1> QED BY <1>1, <1>2, <1>3, <1>4, <1>5, <1>6, <1>7, <1>8, <1>9, <1>10, <1>11
          DEF Next, Publishers

\* The rings, the caches and the log of trades stay in step, whatever order trades,
\* resets and controls come in.
THEOREM DataInvariant == Spec => [](DataInv /\ CountInv)
  <1>1. Init => DataInv /\ CountInv
    <2> SUFFICES ASSUME Init PROVE DataInv /\ CountInv
      OBVIOUS
    <2>1. NoData
      BY DEF Init, NoData
    <2>2. CountInv
      BY EngineAssumption DEF Init, CountInv
    <2> QED BY <2>1, <2>2, DataStarts
  <1>2. (DataInv /\ CountInv) /\ ControlInv /\ [Next]_vars => (DataInv /\ CountInv)'
    BY DataKeeps, CountKeeps
  <1> QED BY <1>1, <1>2, ControlInvariant, PTL DEF Spec

\* ReadModelsExact holds for every size of the rings and the window, every set of
\* intervals, and any number of trades, resets and controls: candles, 24 h figures and
\* tape are what a recomputation from the trades since the last reset gives.
THEOREM ReadModelsExactProved == Spec => []ReadModelsExact
  <1>1. DataInv /\ CountInv /\ ControlInv => ReadModelsExact
    <2> SUFFICES ASSUME DataInv, CountInv, ControlInv PROVE ReadModelsExact
      OBVIOUS
    <2>1. log \in Seq(Trades) /\ SummaryInv(summary, log, tooOld)
      BY DEF DataInv
    <2>2. /\ SummaryExact /\ summary.count \in 0..Window /\ summary.volume \in Nat
          /\ summary.trades \in Nat
      BY <2>1, SummaryServes
    <2>3. CandlesExact
      <3>1. \A s \in Spans : CandleInv(agg[s], s, log)
        BY DEF DataInv
      <3>2. \A s \in Spans, limit \in 1..Depth + 1 : ServesHistory(agg[s], s, log, limit)
        BY <2>1, <3>1, CandleServes
      <3> QED BY <3>2, Zenon DEF CandlesExact, ServesHistory
    <2>4. TapeExact
      <3>1. TapeInv(tape, log)
        BY DEF DataInv
      <3> QED BY <2>1, <3>1, TapeServes DEF TapeExact
    <2>5. /\ DOMAIN agg = Spans
          /\ \A s \in Spans : agg[s].head \in 0..Depth - 1 /\ agg[s].closedN \in 0..Depth
      BY DEF DataInv, CandleInv
    <2>6. tape.head \in 0..TapeCap - 1 /\ tape.count \in 0..TapeCap
      <3>1. Len(log) \in Nat /\ TapeCap \in Nat
        BY <2>1, EngineAssumption
      <3> QED BY <3>1 DEF DataInv, TapeInv
    <2>7. epoch \in 0..MaxControls
      BY EngineAssumption DEF CountInv
    <2>8. TypeOK
      BY <2>2, <2>5, <2>6, <2>7 DEF TypeOK, CountInv, ControlInv, ControlTypes, DataInv
    <2> QED BY <2>2, <2>3, <2>4, <2>8 DEF ReadModelsExact
  <1> QED BY <1>1, DataInvariant, ControlInvariant, PTL
===============================================================================
