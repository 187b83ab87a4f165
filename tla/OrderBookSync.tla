----------------------------- MODULE OrderBookSync -----------------------------
(***************************************************************************)
(* The app's order book: the snapshot/delta sequencing machine             *)
(* (order_book_synchronizer.dart) inside the bloc that owns it             *)
(* (order_book_bloc.dart), with the repository calls that answer its       *)
(* snapshot requests (caching_order_book_repository.dart).                 *)
(*                                                                         *)
(* Dart runs one handler at a time; what interleaves are the socket's      *)
(* frames, the answers to loads still in flight, and the user.  All of     *)
(* them become events of one queue, the bloc's, which is handled in order. *)
(* As a module of its own the environment may send any range and any       *)
(* image; module BookFeed connects it to the server.                       *)
(***************************************************************************)
EXTENDS Integers, Sequences, FiniteSets

CONSTANTS
    Prices, Quantities,     \* of the levels, as in BookDelivery
    BufferCap,              \* ranges the buffer may hold (1000 in the code)
    MaxAttempts,            \* recoveries before the terminal error (3)
    Loads,                  \* identities of loads in flight: a bound
    MaxInbox,               \* frames and signals arrive below this: a bound
    MaxId, MaxEpoch         \* what the open environment may send: a bound

ASSUME SyncAssumption ==
    /\ Prices \subseteq Nat /\ Quantities \subseteq Nat /\ 0 \in Quantities
    /\ BufferCap \in Nat \ {0} /\ MaxAttempts \in Nat \ {0}
    /\ MaxInbox \in Nat /\ MaxId \in Nat /\ MaxEpoch \in Nat

VARIABLES
    state, epoch, applied, attempts, buffer,   \* the synchronizer
    view,              \* LocalOrderBook
    recoveryPending,   \* OrderBookBloc._recoveryPending
    loads,             \* _loadSnapshot calls in flight
    cache,             \* the cached image, a sequence of at most one
    inbox,             \* events added to the bloc and not yet handled
    goal,              \* history: the engine window of the newest frame applied
    pure               \* history: nothing applied since the image was suspect

sync == <<state, epoch, applied, attempts, buffer>>
vars == <<sync, view, recoveryPending, loads, cache, inbox, goal, pure>>

States == {"initialLoading", "syncing", "live", "recovering", "stale", "error"}
Levels == [Prices -> Quantities]
Empty == [p \in Prices |-> 0]
Changes == UNION {[D -> Quantities] : D \in SUBSET Prices}

\* A frame names a range of update ids; an image has first = last.  The fields
\* truth and exact are history: the engine's window at last, and whether the
\* levels were derived from a base the sender knew to be right.
Frames == [kind : {"snapshot", "delta"}, epoch : Nat, first : Nat, last : Nat,
           levels : Changes, truth : Levels, exact : BOOLEAN]
Images == {f \in Frames : f.kind = "snapshot"}

\* A cached image seeds the book under a cached label; an image off the socket
\* or from REST is fresh.
Event(k, f, c) == [kind |-> k, frame |-> f, cached |-> c]
NoFrame == [kind |-> "snapshot", epoch |-> 0, first |-> 0, last |-> 0,
            levels |-> Empty, truth |-> Empty, exact |-> FALSE]

\* LocalOrderBook.applyLevels.
Overlay(b, d) == [p \in Prices |-> IF p \in DOMAIN d THEN d[p] ELSE b[p]]

--------------------------------------------------------------------------------

\* A bloc that has been constructed; its cache fills with the first image.
Init ==
    /\ state = "initialLoading" /\ epoch = 0 /\ applied = 0 /\ attempts = 0 /\ buffer = <<>>
    /\ view = Empty /\ recoveryPending = FALSE
    /\ loads = [k \in Loads |-> "idle"] /\ cache = <<>> /\ inbox = <<>>
    /\ goal = Empty /\ pure = FALSE

--------------------------------------------------------------------------------
(* Events arrive. *)

\* add(): the listener of the socket, the user, or an answer queues an event.
Queue(e) == inbox' = Append(inbox, e)

\* The bloc listens to the socket from its first OrderBookStarted on.
Bound == state # "initialLoading"

\* _onMessage for a snapshot or a delta of this market.
Receive(f) ==
    /\ Bound /\ Len(inbox) < MaxInbox
    /\ Queue(Event(f.kind, f, FALSE))
    /\ UNCHANGED <<sync, view, recoveryPending, loads, cache, goal, pure>>

\* OrderBookStarted, OrderBookRetryRequested, or the loss of the connection (a
\* goodbye, a fatal error, a failure of the stream).  Started carries the epoch
\* of the last welcome frame.
Signal(k, e) ==
    /\ k # "started" => Bound
    /\ Len(inbox) < MaxInbox
    /\ Queue(Event(k, [NoFrame EXCEPT !.epoch = e], FALSE))
    /\ UNCHANGED <<sync, view, recoveryPending, loads, cache, goal, pure>>

\* _loadSnapshot after its await: the flag is cleared before the event is
\* handled, whichever request this load belonged to.
Answer(k) == loads' = [loads EXCEPT ![k] = "idle"] /\ recoveryPending' = FALSE

\* The server answered with image f; the repository also caches it.
AnswerFresh(k, f) ==
    /\ loads[k] # "idle"
    /\ Answer(k)
    /\ cache' = <<f>>
    /\ Queue(Event("snapshot", f, FALSE))
    /\ UNCHANGED <<sync, view, goal, pure>>

\* A load that is not forced may be answered from the cache: while the entry is
\* younger than its TTL, or when the server cannot be reached.
AnswerCached(k) ==
    /\ loads[k] = "subscribe" /\ cache # <<>>
    /\ Answer(k)
    /\ Queue(Event("snapshot", Head(cache), TRUE))
    /\ UNCHANGED <<sync, view, cache, goal, pure>>

\* OrderBookStreamFailed, handled like a lost connection.
AnswerFailed(k) ==
    /\ loads[k] # "idle"
    /\ Answer(k)
    /\ Queue(Event("lost", NoFrame, FALSE))
    /\ UNCHANGED <<sync, view, cache, goal, pure>>

--------------------------------------------------------------------------------
(* Events are handled.  Each handler takes the head of the queue. *)

Head1 == inbox[1].frame
Handles(k) == inbox # <<>> /\ inbox[1].kind = k /\ inbox' = Tail(inbox)

\* Mutant: the request is described but no load is started.
RequestForgotten(reason) ==
    /\ \E k \in Loads : loads[k] = "idle"
    /\ recoveryPending' = (reason = "recovery" \/ recoveryPending)
    /\ UNCHANGED loads

\* The RequestSnapshot effect: every reason but 'subscribe' forces a refresh
\* and marks a recovery.
Request(reason) ==
    /\ \E k \in Loads : loads[k] = "idle" /\ loads' = [loads EXCEPT ![k] = reason]
    /\ recoveryPending' = (reason = "recovery" \/ recoveryPending)

\* _resetTo and _handleRetry: forget the position, wait for an image.
ResetTo(e) ==
    /\ buffer' = <<>> /\ epoch' = e /\ applied' = 0 /\ attempts' = 0 /\ state' = "syncing"
    /\ Request("recovery")

\* The attempts are counted until they exceed the limit; further ones change
\* nothing, so the count stays there.
OneMore == IF attempts > MaxAttempts THEN attempts ELSE attempts + 1

\* Mutant: the attempts allowed are counted one too many.
BeginRecoveryOneMore(keep) ==
    /\ attempts' = OneMore /\ buffer' = keep
    /\ IF attempts > MaxAttempts
       THEN state' = "error" /\ UNCHANGED <<loads, recoveryPending>>
       ELSE state' = "recovering" /\ Request("recovery")

\* _beginRecovery: a new attempt with only the offending range kept, or the
\* terminal error once the attempts are used up.
BeginRecovery(keep) ==
    /\ attempts' = OneMore /\ buffer' = keep
    /\ IF OneMore > MaxAttempts
       THEN state' = "error" /\ UNCHANGED <<loads, recoveryPending>>
       ELSE state' = "recovering" /\ Request("recovery")

\* _onStarted: a new generation, so the loads in flight will be ignored.  The
\* flag of a recovery that was pending survives.
HandleStarted ==
    /\ Handles("started")
    /\ buffer' = <<>> /\ epoch' = Head1.epoch /\ applied' = 0 /\ attempts' = 0
    /\ state' = "syncing" /\ view' = Empty /\ goal' = Empty /\ pure' = FALSE
    /\ \E k \in Loads : loads' = [j \in Loads |-> IF j = k THEN "subscribe" ELSE "idle"]
    /\ UNCHANGED <<recoveryPending, cache>>

\* _handleRetry.
HandleRetry ==
    /\ Handles("retry")
    /\ ResetTo(epoch)
    /\ UNCHANGED <<view, cache, goal, pure>>

\* _handleConnectionLost: the book and the buffer are kept.
HandleLost ==
    /\ Handles("lost")
    /\ state' = "stale"
    /\ UNCHANGED <<epoch, applied, attempts, buffer, view, recoveryPending, loads, cache, goal, pure>>

\* _onSnapshotReceived drops a cached image that would rewind a live book or
\* answer a recovery, and any image behind a live book.
Unwanted ==
    \/ inbox[1].cached /\ (state = "live" \/ recoveryPending)
    \/ applied > 0 /\ Head1.last <= applied /\ state = "live" /\ ~recoveryPending

DropSnapshot ==
    /\ Handles("snapshot") /\ Unwanted
    /\ UNCHANGED <<sync, view, recoveryPending, loads, cache, goal, pure>>

\* _drain, for a buffer whose ranges end in increasing order (BufferOrdered):
\* Kept are the ranges the image does not supersede, and draining stops before
\* the first of them that leaves a hole.
Kept(s) == {i \in DOMAIN buffer : buffer[i].last > s.last}
Before(s, i) == IF i - 1 \in Kept(s) THEN buffer[i - 1].last ELSE s.last

\* Mutant: a hole in front of a buffered range goes unnoticed.
HolesIgnored(s) == {}

\* The ranges draining would have to jump to.
Holes(s) == {i \in Kept(s) : buffer[i].first > Before(s, i) + 1}

\* Mutant: draining goes on behind a hole.
DrainedAll(s) == Kept(s)

\* The ranges in front of every hole.
Drained(s) == {i \in Kept(s) : \A j \in Holes(s) : i < j}
LastOf(S) == CHOOSE i \in S : \A j \in S : j <= i

\* The image and the ranges drained on top of it.
DrainedLevels(s) ==
    [p \in Prices |->
        LET on == {i \in Drained(s) : p \in DOMAIN buffer[i].levels} IN
        IF on = {} THEN s.levels[p] ELSE buffer[LastOf(on)].levels[p]]

\* _handleSnapshot: install whatever the state was, then drain.
Install(s) ==
    /\ epoch' = s.epoch
    /\ view' = DrainedLevels(s)
    /\ IF Drained(s) = {}
       THEN applied' = s.last /\ goal' = s.truth
       ELSE applied' = buffer[LastOf(Drained(s))].last /\ goal' = buffer[LastOf(Drained(s))].truth
    /\ pure' = (s.exact /\ \A i \in Drained(s) :
                  buffer[i].exact /\ buffer[i].epoch = s.epoch /\ buffer[i].first = Before(s, i) + 1)
    /\ IF Holes(s) # {}
       THEN BeginRecovery(<<>>)
       ELSE /\ state' = "live" /\ attempts' = 0 /\ buffer' = <<>>
            /\ UNCHANGED <<loads, recoveryPending>>

HandleSnapshot ==
    /\ Handles("snapshot") /\ ~Unwanted
    /\ Install(Head1)
    /\ UNCHANGED cache

\* What a range is measured against: the newest thing already known.
Reference == IF buffer = <<>> THEN applied ELSE buffer[Len(buffer)].last
Fits == Head1.epoch = epoch /\ Head1.last > Reference

\* An epoch mismatch resynchronises, in any state.
DeltaOtherEpoch ==
    /\ Handles("delta") /\ Head1.epoch # epoch
    /\ ResetTo(Head1.epoch)
    /\ UNCHANGED <<view, cache, goal, pure>>

\* A duplicate or stale range, and any range in the terminal state.
DeltaIgnored ==
    /\ Handles("delta") /\ Head1.epoch = epoch /\ (Fits => state = "error")
    /\ UNCHANGED <<sync, view, recoveryPending, loads, cache, goal, pure>>

\* A live book applies a range that starts at or before the next id.
DeltaApplied ==
    /\ Handles("delta") /\ Fits /\ state = "live" /\ Head1.first <= applied + 1
    /\ view' = Overlay(view, Head1.levels) /\ applied' = Head1.last
    /\ goal' = Head1.truth /\ pure' = (pure /\ Head1.exact /\ Head1.first = applied + 1)
    /\ UNCHANGED <<state, epoch, attempts, buffer, recoveryPending, loads, cache>>

\* A gap: at the live book, or inside the buffer.  The range is kept.
DeltaGap ==
    /\ Handles("delta") /\ Fits /\ state # "error"
    /\ \/ state = "live" /\ Head1.first > applied + 1
       \/ state # "live" /\ buffer # <<>> /\ Head1.first > Reference + 1
    /\ BeginRecovery(<<Head1>>)
    /\ UNCHANGED <<epoch, applied, view, cache, goal, pure>>

\* Mutant: the buffer takes one range more than its cap.
DeltaBufferedOneMore ==
    /\ Handles("delta") /\ Fits /\ state \notin {"live", "error"}
    /\ buffer # <<>> => Head1.first <= Reference + 1
    /\ IF Len(buffer) <= BufferCap
       THEN buffer' = Append(buffer, Head1) /\ UNCHANGED <<state, attempts, loads, recoveryPending>>
       ELSE BeginRecovery(<<>>)
    /\ UNCHANGED <<epoch, applied, view, cache, goal, pure>>

\* Mutant: a hole between two buffered ranges is not looked for.
DeltaBufferedLoose ==
    /\ Handles("delta") /\ Fits /\ state \notin {"live", "error"}
    /\ IF Len(buffer) < BufferCap
       THEN buffer' = Append(buffer, Head1) /\ UNCHANGED <<state, attempts, loads, recoveryPending>>
       ELSE BeginRecovery(<<>>)
    /\ UNCHANGED <<epoch, applied, view, cache, goal, pure>>

\* Otherwise the range waits in the buffer; overflow starts a recovery.
DeltaBuffered ==
    /\ Handles("delta") /\ Fits /\ state \notin {"live", "error"}
    /\ buffer # <<>> => Head1.first <= Reference + 1
    /\ IF Len(buffer) < BufferCap
       THEN buffer' = Append(buffer, Head1) /\ UNCHANGED <<state, attempts, loads, recoveryPending>>
       ELSE BeginRecovery(<<>>)
    /\ UNCHANGED <<epoch, applied, view, cache, goal, pure>>

HandleEvent ==
    \/ HandleStarted \/ HandleRetry \/ HandleLost
    \/ DropSnapshot \/ HandleSnapshot
    \/ DeltaOtherEpoch \/ DeltaIgnored \/ DeltaApplied \/ DeltaGap \/ DeltaBuffered

--------------------------------------------------------------------------------
(* The open environment: any range and any image within the bounds. *)

EnvImage(e, i, l) ==
    [kind |-> "snapshot", epoch |-> e, first |-> i, last |-> i, levels |-> l, truth |-> l, exact |-> TRUE]
EnvDelta(e, f, i, d) ==
    [kind |-> "delta", epoch |-> e, first |-> f, last |-> i, levels |-> d, truth |-> Overlay(Empty, d), exact |-> TRUE]
EnvImages == {EnvImage(e, i, l) : e \in 0..MaxEpoch, i \in 0..MaxId, l \in Levels}
EnvDeltas == {f \in {EnvDelta(e, f, i, d) : e \in 0..MaxEpoch, f \in 1..MaxId, i \in 1..MaxId, d \in Changes} :
                f.first <= f.last}

EnvReceive == \E f \in EnvImages \cup EnvDeltas : Receive(f)
EnvSignal == \E e \in 0..MaxEpoch, k \in {"started", "retry", "lost"} : Signal(k, e)
EnvFresh(k) == \E f \in EnvImages : AnswerFresh(k, f)
EnvAnswer(k) == EnvFresh(k) \/ AnswerCached(k) \/ AnswerFailed(k)

Next == EnvReceive \/ EnvSignal \/ (\E k \in Loads : EnvAnswer(k)) \/ HandleEvent

Spec == Init /\ [][Next]_vars

\* Handlers run and loads end, as the event loop and the HTTP timeouts ensure.
FairSpec ==
    /\ Spec /\ WF_vars(HandleEvent)
    /\ \A k \in Loads : WF_vars(EnvAnswer(k))

--------------------------------------------------------------------------------
(* Properties. *)

\* Shapes of the variables, and the bound of the buffer (bufferCap).
TypeOK ==
    /\ state \in States /\ epoch \in Nat /\ applied \in Nat /\ attempts \in Nat
    /\ buffer \in Seq(Frames) /\ Len(buffer) <= BufferCap
    /\ view \in Levels /\ recoveryPending \in BOOLEAN
    /\ loads \in [Loads -> {"idle", "subscribe", "recovery"}]
    /\ cache \in Seq(Frames) /\ Len(cache) <= 1
    /\ goal \in Levels /\ pure \in BOOLEAN

\* Buffered ranges end in increasing order and leave no hole between them, so
\* that draining them produces a continuous book (_handleDelta, _drain).
BufferOrdered ==
    \A i \in 2..Len(buffer) :
        buffer[i].last > buffer[i - 1].last /\ buffer[i].first <= buffer[i - 1].last + 1

\* A live book has nothing left in its buffer and a full recovery budget; a
\* recovering one is within the budget, and the terminal state is entered only
\* when it is used up (maxRecoveryAttempts).  A book that is past its budget got
\* there through the terminal state, and asks for nothing until it is reset.
Budget ==
    /\ state = "live" => buffer = <<>> /\ attempts = 0
    /\ state = "recovering" => attempts \in 1..MaxAttempts
    /\ state = "error" => attempts > MaxAttempts
    /\ attempts > MaxAttempts => state \in {"error", "stale"}

\* A book that waits for an image has asked for one: a load is in flight or its
\* answer is queued, so syncing and recovering cannot last for want of a request.
WaitingIsAsked ==
    state \in {"syncing", "recovering"} =>
        \/ \E k \in Loads : loads[k] # "idle"
        \/ \E i \in DOMAIN inbox : inbox[i].kind \in {"snapshot", "lost", "started"}

\* No update is left out: whatever a step advances over, past the image it
\* installs or past the position it had, is covered by ranges the book received,
\* the one just arrived or the ones it drains (_drain, _handleDelta).
NoSkippedUpdate ==
    [][LET base == IF HandleSnapshot THEN Head1.last ELSE applied
           ranges == {Head1} \cup {buffer[i] : i \in DOMAIN buffer}
       IN \A n \in base + 1 .. applied' :
            \E r \in ranges : r.kind = "delta" /\ r.first <= n /\ n <= r.last]_sync

\* Once resubscriptions, retries and epoch changes stop, the book does not wait
\* for ever: it becomes live again, freezes or gives up, again and again.
Settles ==
    <>[][~HandleStarted /\ ~HandleRetry /\ ~DeltaOtherEpoch]_vars
        => []<>(state \notin {"syncing", "recovering"})

\* The bloc's rule for recoveries: a cached image never answers one, so none is
\* installed while a forced load is in flight (order_book_bloc.dart).
RecoveryAnsweredFresh ==
    [][HandleSnapshot /\ inbox[1].cached => \A k \in Loads : loads[k] # "recovery"]_vars

\* A fresh image discards the buffered ranges of another epoch: every range that
\* is drained onto an image belongs to its epoch (_handleConnectionLost).
DrainKeepsEpoch ==
    [][HandleSnapshot => \A i \in Drained(Head1) : buffer[i].epoch = Head1.epoch]_vars

\* The synchronizer keeps its types, its buffer in order and within its cap, and
\* spends its recovery budget as the code says.
SyncSound == TypeOK /\ BufferOrdered /\ Budget
================================================================================
