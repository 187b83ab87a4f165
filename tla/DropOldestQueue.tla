---------------------------- MODULE DropOldestQueue ----------------------------
(***************************************************************************)
(* What the metrics store promises of its queue (metrics/queue.go): a      *)
(* bounded first-in first-out queue that makes room by giving up its       *)
(* oldest record, never the newest.                                        *)
(***************************************************************************)
EXTENDS Naturals, Sequences

CONSTANTS Records, Capacity

VARIABLE queue

Init == queue = <<>>

Push(r) == queue' = Append(IF Len(queue) = Capacity THEN Tail(queue) ELSE queue, r)

Take(n) == queue' = SubSeq(queue, n + 1, Len(queue))

Next == (\E r \in Records : Push(r)) \/ (\E n \in 1..Len(queue) : Take(n))

Spec == Init /\ [][Next]_queue
================================================================================
