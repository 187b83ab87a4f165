------------------------------ MODULE BookDelivery -----------------------------
(***************************************************************************)
(* How one session hears about one market's order book: the engine that    *)
(* mutates the canonical book and publishes its window                     *)
(* (market/engine.go, market/book.go), the mailbox of the session's bus    *)
(* subscription (market/bus.go), the coalescer that turns windows into     *)
(* contiguous delta ranges (delivery/coalesce.go), and the session code    *)
(* that queues snapshots and deltas for the socket (delivery/session.go).  *)
(*                                                                         *)
(* Three goroutines take turns: the engine loop (Mutate, then Publish      *)
(* after it dropped its lock), the HTTP handlers (Reset, ApplyFaults), and *)
(* the session's delivery loop (the rest, one select case per action).     *)
(*                                                                         *)
(* A book is a function from price to quantity, zero meaning no level; one *)
(* side stands for both, since every rule treats bids and asks alike.      *)
(***************************************************************************)
EXTENDS Integers, Sequences, FiniteSets

CONSTANTS
    Prices,              \* prices of one side; the greatest is the best
    Quantities,          \* quantities, zero included
    Depth,               \* levels in the published window (15 in the code)
    BootEpoch, BootId,   \* stamp of the provider's snapshot (0, 0 or 1, 1)
    MailboxCap,          \* capacity of the bus subscription
    FaultKinds,          \* debug faults in play: "gap", "reverse", "duplicate"
    MaxId, MaxEpoch, MaxQueued   \* bounds of the model

ASSUME BookAssumption ==
    /\ Prices \subseteq Nat
    /\ Quantities \subseteq Nat /\ 0 \in Quantities
    /\ Depth \in Nat \ {0}
    /\ BootEpoch \in Nat /\ BootId \in Nat
    /\ MailboxCap \in Nat \ {0}
    /\ FaultKinds \subseteq {"gap", "reverse", "duplicate"}
    /\ MaxId \in Nat /\ MaxEpoch \in Nat /\ MaxQueued \in Nat

VARIABLES
    engineEpoch,   \* Engine.epoch
    book,          \* the canonical book: epoch, update id, levels
    captured,      \* windows taken under the engine lock, not yet published
    mailbox,       \* Subscription.ch, book windows only
    win,           \* the newest window the coalescer was given
    sent,          \* what the coalescer believes the client holds
    cEpoch, cId, cApplied,   \* Coalescer.epoch, updateID, clientApplied
    dirty,         \* Coalescer.bookDirty
    outbound,      \* Session.outbound and the socket, book frames only
    held,          \* Session.heldDelta, a sequence of at most one frame
    faults,        \* pending FaultConfig entries
    told,          \* history: the book of a client that applied every frame
    truth,         \* history: the engine window that book should equal
    following,     \* history: such a client has a snapshot and no gap since
    based,         \* history: sent is the engine's window at cApplied
    coherent       \* history: every range since its snapshot was so based

engine == <<engineEpoch, book, captured>>
coalescer == <<win, sent, cEpoch, cId, cApplied, dirty>>
client == <<told, truth, following, based, coherent>>
vars == <<engine, mailbox, coalescer, outbound, held, faults, client>>

Levels == [Prices -> Quantities]
Empty == [p \in Prices |-> 0]
Stamped == [epoch : Nat, id : Nat, levels : Levels]
Nothing == [epoch |-> 0, id |-> 0, levels |-> Empty]

\* OrderBook.Install refuses an empty side, and no mutation empties one.
Books == {b \in Levels : \E p \in Prices : b[p] # 0}

\* windowLocked, and the truncation in sendSnapshot: the best Depth levels.
Window(b) ==
    [p \in Prices |->
        IF Cardinality({q \in Prices : q > p /\ b[q] # 0}) < Depth THEN b[p] ELSE 0]

\* Mutant: a level that left the window is not reported as deleted.
DiffNoDeletes(current, before) ==
    [p \in {q \in Prices : current[q] # before[q] /\ current[q] # 0} |-> current[p]]

\* diffLevels: changed and new levels, and zero for the ones that are gone.
Diff(current, before) == [p \in {q \in Prices : current[q] # before[q]} |-> current[p]]

\* LocalOrderBook.applyLevels: absolute quantities, zero deletes.
Overlay(b, d) == [p \in Prices |-> IF p \in DOMAIN d THEN d[p] ELSE b[p]]

\* Frames on the wire.  The fields truth and exact are history, for the client's
\* side: the engine's window at last, and whether the base of a delta was right.
Snapshot(e, i, l) ==
    [kind |-> "snapshot", epoch |-> e, first |-> i, last |-> i, levels |-> l, truth |-> l, exact |-> TRUE]
Delta(e, f, i, d, w, x) ==
    [kind |-> "delta", epoch |-> e, first |-> f, last |-> i, levels |-> d, truth |-> w, exact |-> x]

Larger(i, j) == IF i > j THEN i ELSE j

--------------------------------------------------------------------------------

\* Engine New after warmup, Session.Run with its subscription, NewCoalescer.
Init ==
    /\ engineEpoch = 0 /\ captured = <<>>
    /\ \E b \in Books : book = [epoch |-> BootEpoch, id |-> BootId, levels |-> b]
    /\ mailbox = <<>> /\ outbound = <<>> /\ held = <<>> /\ faults = {}
    /\ win = Nothing /\ sent = Empty
    /\ cEpoch = 0 /\ cId = 0 /\ cApplied = 0 /\ dirty = FALSE
    /\ told = Nothing /\ truth = Nothing /\ following = FALSE /\ based = FALSE /\ coherent = FALSE

--------------------------------------------------------------------------------
(* The engine. *)

\* applyTrade, applyProviderDelta, refreshBook: one mutation under the write
\* lock, one update id, and the window captured for publication.
Mutate ==
    /\ captured = <<>> /\ book.id < MaxId
    /\ \E b \in Books :
        /\ book' = [book EXCEPT !.id = @ + 1, !.levels = b]
        /\ captured' = <<[book' EXCEPT !.levels = Window(b)]>>
    /\ UNCHANGED <<engineEpoch, mailbox, coalescer, outbound, held, faults, client>>

\* Mutant: the mailbox has no limit.
PublishUnbounded ==
    /\ captured # <<>>
    /\ captured' = <<>> /\ mailbox' = Append(mailbox, Head(captured))
    /\ UNCHANGED <<engineEpoch, book, coalescer, outbound, held, faults, client>>

\* Bus.Publish after the lock is gone.  The mailbox also carries candles,
\* trades and statuses, so it may be full however few windows it holds; then
\* the incoming window is the one that is lost.
Publish ==
    /\ captured # <<>>
    /\ captured' = <<>>
    /\ \/ Len(mailbox) < MailboxCap /\ mailbox' = Append(mailbox, Head(captured))
       \/ UNCHANGED mailbox
    /\ UNCHANGED <<engineEpoch, book, coalescer, outbound, held, faults, client>>

\* Mutant: the book is reinstalled under the epoch it already had.
ResetSameEpoch ==
    /\ engineEpoch < MaxEpoch
    /\ engineEpoch' = engineEpoch + 1
    /\ \E b \in Books : book' = [epoch |-> book.epoch, id |-> BootId, levels |-> b]
    /\ UNCHANGED <<captured, mailbox, coalescer, outbound, held, faults, client>>

\* Engine.Reset, on an HTTP goroutine: only a status is published.
Reset ==
    /\ engineEpoch < MaxEpoch
    /\ engineEpoch' = engineEpoch + 1
    /\ \E b \in Books : book' = [epoch |-> engineEpoch', id |-> BootId, levels |-> b]
    /\ UNCHANGED <<captured, mailbox, coalescer, outbound, held, faults, client>>

\* Session.ApplyFaults replaces the whole configuration.
ApplyFaults ==
    /\ \E f \in SUBSET FaultKinds : f # {} /\ faults' = f
    /\ UNCHANGED <<engine, mailbox, coalescer, outbound, held, client>>

--------------------------------------------------------------------------------
(* The delivery loop. *)

\* Room in the modelled queue; Session.outbound itself may be full at any time.
Room == Len(outbound) < MaxQueued

\* Mutant: the image is the coalescer's window instead of the live book.
SnapshotOfWindow(w) ==
    /\ win' = w /\ sent' = w.levels
    /\ cEpoch' = w.epoch /\ cId' = w.id /\ cApplied' = w.id /\ dirty' = FALSE
    /\ outbound' = Append(outbound, Snapshot(w.epoch, w.id, w.levels))
    /\ told' = w /\ truth' = w /\ following' = TRUE
    /\ based' = TRUE /\ coherent' = TRUE

\* sendSnapshot followed by SnapshotSent, with w the window the coalescer has.
\* The image is the live book; the base of the next diff is w.  The result of
\* the queueing is ignored, so the second disjunct differs only for the client.
SendSnapshot(w) ==
    LET live == [book EXCEPT !.levels = Window(@)] IN
    /\ win' = w /\ sent' = w.levels
    /\ cEpoch' = live.epoch /\ cId' = live.id /\ cApplied' = live.id /\ dirty' = FALSE
    /\ based' = (w.levels = live.levels)
    /\ \/ /\ outbound' = Append(outbound, Snapshot(live.epoch, live.id, live.levels))
          /\ told' = live /\ truth' = live /\ following' = TRUE /\ coherent' = TRUE
       \/ /\ following' = FALSE
          /\ UNCHANGED <<outbound, told, truth, coherent>>

\* Mutant: an undelivered window is kept when a newer one arrives.
OnBookWindowKeepsFirst(w) ==
    /\ win' = (IF dirty THEN win ELSE w) /\ cId' = Larger(cId, w.id) /\ dirty' = TRUE
    /\ UNCHANGED <<sent, cEpoch, cApplied, outbound, client>>

\* Mutant: windows are counted instead of taking their ids.
OnBookWindowCounts(w) ==
    /\ win' = w /\ cId' = cId + 1 /\ dirty' = TRUE
    /\ UNCHANGED <<sent, cEpoch, cApplied, outbound, client>>

\* OnBookWindow for the epoch the coalescer already has.
OnBookWindow(w) ==
    /\ win' = w /\ cId' = Larger(cId, w.id) /\ dirty' = TRUE
    /\ UNCHANGED <<sent, cEpoch, cApplied, outbound, client>>

\* handleEvent for a book window.  A window of another epoch sets
\* needsSnapshot, and the snapshot leaves in the same step and clears it.
HandleWindow ==
    /\ mailbox # <<>> /\ Room
    /\ mailbox' = Tail(mailbox)
    /\ IF Head(mailbox).epoch = cEpoch
       THEN OnBookWindow(Head(mailbox))
       ELSE SendSnapshot(Head(mailbox))
    /\ UNCHANGED <<engine, held, faults>>

\* handleSubscribe for the market the session already serves (SetInterval too).
Subscribe ==
    /\ Room
    /\ SendSnapshot(win)
    /\ UNCHANGED <<engine, mailbox, held, faults>>

\* handleSubscribe on return from another market: bindEngine built a new
\* coalescer and a new subscription.
Rebind ==
    /\ Room
    /\ mailbox' = <<>>
    /\ SendSnapshot(Nothing)
    /\ UNCHANGED <<engine, held, faults>>

\* InjectGap and the TakeBookDelta after it, which finds nothing to send.
FlushGap ==
    /\ "gap" \in faults
    /\ faults' = faults \ {"gap"}
    /\ cApplied' = cId /\ dirty' = FALSE
    /\ following' = (following /\ cId = cApplied) /\ based' = (based /\ cId = cApplied)
    /\ UNCHANGED <<engine, mailbox, win, sent, cEpoch, cId, outbound, held, told, truth, coherent>>

\* TakeBookDelta has a range for the client.
HasDelta == dirty /\ cId > cApplied /\ win.levels # sent

\* Mutant: a window that changed nothing still moves the client's position.
FlushIdleAdvances ==
    /\ dirty /\ "gap" \notin faults /\ ~HasDelta
    /\ dirty' = FALSE /\ cApplied' = cId
    /\ UNCHANGED <<engine, mailbox, win, sent, cEpoch, cId, outbound, held, faults, client>>

\* TakeBookDelta with nothing new: the client's position does not move.
FlushIdle ==
    /\ dirty /\ "gap" \notin faults /\ ~HasDelta
    /\ dirty' = FALSE
    /\ UNCHANGED <<engine, mailbox, win, sent, cEpoch, cId, cApplied, outbound, held, faults, client>>

\* The range TakeBookDelta returns, and what it leaves behind.
NextDelta == Delta(cEpoch, cApplied + 1, cId, Diff(win.levels, sent), win.levels, based)
TakeBookDelta ==
    /\ sent' = win.levels /\ cApplied' = cId /\ dirty' = FALSE /\ based' = TRUE
    /\ UNCHANGED <<win, cEpoch, cId>>

\* The client of the history variables applies the range it was sent.
Told ==
    /\ told' = [epoch |-> cEpoch, id |-> cId, levels |-> Overlay(told.levels, NextDelta.levels)]
    /\ truth' = win /\ coherent' = (coherent /\ based)
    /\ UNCHANGED following

\* flushBook without a held or reversed frame.  A delta that cannot be queued
\* within two seconds becomes requestResync: Coalescer.Reset, then a snapshot.
\* A duplicate is queued behind the original, and may itself be lost.
Flush ==
    /\ HasDelta /\ Room /\ "gap" \notin faults /\ "reverse" \notin faults /\ held = <<>>
    /\ \/ /\ TakeBookDelta /\ Told
          /\ \/ outbound' = Append(outbound, NextDelta)
             \/ "duplicate" \in faults /\ outbound' = outbound \o <<NextDelta, NextDelta>>
          /\ faults' = faults \ {"duplicate"}
       \/ SendSnapshot(Nothing) /\ UNCHANGED faults
    /\ UNCHANGED <<engine, mailbox, held>>

\* The reverse fault keeps this frame back; a frame already held is forgotten.
FlushHold ==
    /\ HasDelta /\ "gap" \notin faults /\ "reverse" \in faults
    /\ TakeBookDelta
    /\ held' = <<NextDelta>> /\ faults' = faults \ {"reverse"}
    /\ following' = FALSE
    /\ UNCHANGED <<engine, mailbox, outbound, told, truth, coherent>>

\* The next frame goes first and may be dropped outright; the held one follows.
FlushReversed ==
    /\ HasDelta /\ Room /\ "gap" \notin faults /\ "reverse" \notin faults /\ held # <<>>
    /\ TakeBookDelta
    /\ \E first \in {<<>>, <<NextDelta>>}, second \in {<<>>, held} :
        outbound' = outbound \o first \o second
    /\ held' = <<>> /\ following' = FALSE
    /\ UNCHANGED <<engine, mailbox, faults, told, truth, coherent>>

\* The connection ends and the client comes back: a new Session and coalescer.
Reconnect ==
    /\ mailbox' = <<>> /\ outbound' = <<>> /\ held' = <<>> /\ faults' = {}
    /\ win' = Nothing /\ sent' = Empty
    /\ cEpoch' = 0 /\ cId' = 0 /\ cApplied' = 0 /\ dirty' = FALSE
    /\ following' = FALSE /\ based' = FALSE
    /\ UNCHANGED <<engine, told, truth, coherent>>

\* writeLoop takes the oldest frame and the socket carries it in order.
Write ==
    /\ outbound # <<>>
    /\ outbound' = Tail(outbound)
    /\ UNCHANGED <<engine, mailbox, coalescer, held, faults, client>>

--------------------------------------------------------------------------------

EngineNext == Mutate \/ Publish \/ Reset
DeliveryNext ==
    \/ HandleWindow \/ Subscribe \/ Rebind
    \/ FlushGap \/ FlushIdle \/ Flush \/ FlushHold \/ FlushReversed
Next == EngineNext \/ ApplyFaults \/ DeliveryNext \/ Reconnect \/ Write

Spec == Init /\ [][Next]_vars

--------------------------------------------------------------------------------
(* Properties. *)

\* Shapes of the variables, and the bounds of the queues: the mailbox keeps its
\* capacity and at most one frame is held back (Session.heldDelta).
TypeOK ==
    /\ engineEpoch \in Nat /\ book \in Stamped
    /\ captured \in Seq(Stamped) /\ Len(captured) <= 1
    /\ mailbox \in Seq(Stamped) /\ Len(mailbox) <= MailboxCap
    /\ win \in Stamped /\ sent \in Levels
    /\ cEpoch \in Nat /\ cId \in Nat /\ cApplied \in Nat /\ dirty \in BOOLEAN
    /\ Len(held) <= 1 /\ faults \subseteq FaultKinds
    /\ told \in Stamped /\ truth \in Stamped
    /\ following \in BOOLEAN /\ based \in BOOLEAN /\ coherent \in BOOLEAN

\* The coalescer knows where the client is: after a snapshot, and while no frame
\* was lost or withheld, clientApplied is the update id the client reached, so
\* the next range starts exactly one past it (coalesce.go, TakeBookDelta).
PositionKnown == following => told.epoch = cEpoch /\ told.id = cApplied

\* A range is labelled with the update id its levels belong to: as long as the
\* coalescer has something to send, its window is the engine's window at
\* updateID, whatever stale or late windows went through OnBookWindow.
RangeHonest == cId > cApplied => win.epoch = cEpoch /\ win.id = cId

\* A client that applies every frame has, after each one, exactly the engine's
\* window at the update id it was told, as long as no snapshot gave the coalescer
\* a base that was not the image (coalesce.go, "the client's window stays exactly").
ExactWhenCoherent == following /\ coherent => told = truth

\* What SnapshotSent and the README promise of every snapshot: the client's book
\* equals the engine's window, on subscribe and epoch change too.
ExactAfterSnapshot == following => told = truth

\* Update ids never go back within an epoch of the canonical book: a reset
\* always shows as a new epoch (Engine.Reset, OrderBook.Install).
UpdateIdsNeverRewind == [][book'.epoch = book.epoch => book'.id >= book.id]_book

\* A client that keeps following is never taken back to an older epoch or an
\* older update id of the same epoch, whatever resets, resubscriptions, epoch
\* flips and failed sends happen on the way.
NeverSentBack ==
    [][following /\ following' =>
        \/ told'.epoch > told.epoch
        \/ told'.epoch = told.epoch /\ told'.id >= told.id]_vars

\* The delivery pipeline keeps its types and bounds and knows the client's position.
DeliverySound == TypeOK /\ PositionKnown

\* Nothing goes back: neither the canonical book inside an epoch nor a client that
\* follows it.
NothingGoesBack == UpdateIdsNeverRewind /\ NeverSentBack
================================================================================
