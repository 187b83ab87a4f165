---------------------------- MODULE MCOrderBookSync ----------------------------
(***************************************************************************)
(* Model checking OrderBookSync: loads in flight are interchangeable, and  *)
(* the closed form of _drain is compared with the loop it stands for.      *)
(***************************************************************************)
EXTENDS OrderBookSync, TLC

LoadSymmetry == Permutations(Loads)

\* One round of the loop of _drain as written: a superseded range is skipped, a
\* range past the next id stops the loop, any other is applied.
DrainStep(acc, r) ==
    IF acc.stopped \/ r.last <= acc.applied THEN acc
    ELSE IF r.first > acc.applied + 1 THEN [stopped |-> TRUE, applied |-> acc.applied, view |-> acc.view]
    ELSE [stopped |-> FALSE, applied |-> r.last, view |-> Overlay(acc.view, r.levels)]

\* The loop, from the image over the whole buffer.
DrainLoop(s) ==
    LET after[i \in 0..Len(buffer)] ==
            IF i = 0 THEN [stopped |-> FALSE, applied |-> s.last, view |-> s.levels]
            ELSE DrainStep(after[i - 1], buffer[i])
    IN  after[Len(buffer)]

\* For every buffer the synchronizer can hold and every image, the set of ranges
\* drained, the position reached, the levels and the detection of a hole are
\* those of the loop in _drain.
DrainAgrees ==
    \A s \in EnvImages :
        LET loop == DrainLoop(s) IN
        /\ loop.stopped = (Holes(s) # {})
        /\ loop.applied = IF Drained(s) = {} THEN s.last ELSE buffer[LastOf(Drained(s))].last
        /\ loop.view = DrainedLevels(s)
================================================================================
