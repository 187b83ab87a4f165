-------------------------------- MODULE BookFeed -------------------------------
(***************************************************************************)
(* The order book end to end: one session of the server (BookDelivery) and *)
(* one app (OrderBookSync), joined by the socket, which keeps the order of *)
(* the frames, and by the REST endpoint, which does not take part in that  *)
(* order and answers with the whole book instead of the published window   *)
(* (transport/http/handlers.go).                                           *)
(***************************************************************************)
EXTENDS BookDelivery

CONSTANTS BufferCap, MaxAttempts, Loads, MaxInbox

VARIABLES
    state, epoch, applied, attempts, buffer, view, recoveryPending, loads,
    cache, inbox, goal, pure,
    replies      \* for each load, the image the server answered, if it did

App == INSTANCE OrderBookSync

app == <<state, epoch, applied, attempts, buffer, view, recoveryPending, loads,
         cache, inbox, goal, pure>>
feedVars == <<vars, app, replies>>
NoReply == [k \in Loads |-> <<>>]

FeedInit == Init /\ App!Init /\ replies = NoReply

\* The engine and the session take a step that the app does not see.
ServerStep ==
    /\ EngineNext \/ ApplyFaults \/ DeliveryNext
    /\ UNCHANGED <<app, replies>>

\* writeLoop writes the oldest frame; the app's listener queues it.
Frame ==
    /\ Write
    /\ IF App!Bound THEN App!Receive(Head(outbound)) ELSE UNCHANGED app
    /\ UNCHANGED replies

\* The socket drops and comes back: frames under way are gone, the session is
\* new, and the app is told that the connection was lost.
Drop ==
    /\ Reconnect
    /\ IF App!Bound THEN App!Signal("lost", 0) ELSE UNCHANGED app
    /\ UNCHANGED replies

\* The user opens the market or presses retry.
User ==
    /\ \/ App!Signal("started", engineEpoch)
       \/ state = "error" /\ App!Signal("retry", 0)
    /\ UNCHANGED <<vars, replies>>

\* marketHandler.orderBook: the whole book as it is now.
OrderBook(k) ==
    /\ loads[k] # "idle" /\ replies[k] = <<>>
    /\ replies' = [replies EXCEPT ![k] =
         <<[Snapshot(book.epoch, book.id, book.levels)
              EXCEPT !.truth = Window(book.levels), !.exact = (book.levels = Window(book.levels))]>>]
    /\ UNCHANGED <<vars, app>>

\* A load ends in the app.
LoadEnds(k) ==
    /\ \/ replies[k] # <<>> /\ App!AnswerFresh(k, replies[k][1])
       \/ App!AnswerCached(k)
       \/ App!AnswerFailed(k)
    /\ replies' = [replies EXCEPT ![k] = <<>>]
    /\ UNCHANGED vars

\* A handler of the app runs.  A restart abandons the loads in flight.
Handler ==
    /\ App!HandleEvent
    /\ replies' = IF App!HandleStarted THEN NoReply ELSE replies
    /\ UNCHANGED vars

FeedNext ==
    \/ ServerStep \/ Frame \/ Drop \/ User \/ Handler
    \/ \E k \in Loads : OrderBook(k) \/ LoadEnds(k)

FeedSpec == FeedInit /\ [][FeedNext]_feedVars

--------------------------------------------------------------------------------
(* Properties. *)

\* A live book shows exactly the engine's window at the update id it reports,
\* unless one of three things happened since its image: a range computed from a
\* base that was not the snapshot, a range that overlaps what was already
\* applied, or an image deeper than the published window.
LiveExact == state = "live" /\ pure => view = goal

\* The app never reports an update the engine has not made.
NotAhead == epoch = book.epoch => applied <= book.id

\* What the synchronizer says of a buffer kept across a lost connection: a fresh
\* snapshot discards the ranges of another epoch (_handleConnectionLost).
OldEpochDiscarded == App!DrainKeepsEpoch
================================================================================
