------------------------------ MODULE Session ------------------------------
(***************************************************************************)
(* One WebSocket session, from the upgrade to its removal, and the server   *)
(* process that closes it (delivery/session.go, delivery/manager.go,        *)
(* transport/websocket/handler.go, cmd/server/main.go).                     *)
(*                                                                          *)
(* Four goroutines share the session.  The handler goroutine registers it,  *)
(* runs the delivery loop and tears everything down; the reader answers     *)
(* pings and bad frames itself and queues the rest as commands; the writer  *)
(* owns the socket's write side; the main goroutine shuts the server down.  *)
(* Handler and reader number a frame first and queue it second.             *)
(*                                                                          *)
(* Frames keep their number, their sender and the class that decides how a  *)
(* full queue treats them; what book and candle frames say is in            *)
(* BookDelivery and CandleFeed.  The clock is left out: a message may be    *)
(* over the rate limit, and a wait may end, at any time.                    *)
(***************************************************************************)
EXTENDS Integers, Sequences

CONSTANTS
    OutCap,      \* SessionConfig.OutboundCapacity
    CmdCap,      \* capacity of Session.commands (64)
    MaxSeq       \* bound: nobody starts to send once this many frames are numbered,
                 \* but for the successor of a held delta

ASSUME SessionAssumption ==
    OutCap \in Nat \ {0} /\ CmdCap \in Nat \ {0} /\ MaxSeq \in Nat \ {0}

Senders == {"handler", "reader"}

\* The loss of a book delta or a candle close asks for a snapshot; "late" is a
\* delta that a fault held back or repeats, whose loss nobody looks at.
Kinds == {"plain", "delta", "close", "late", "goodbye"}
Frames == [kind : Kinds, seq : Nat, from : Senders]
NoFrame == [kind |-> "plain", seq |-> 0, from |-> "handler"]

\* What handling a command can send, in order: nothing (hello, latency report),
\* one frame (an error, an acknowledgement, health), or what follows a subscribe:
\* the snapshot and then the current candle, summary and status, here one frame.
Scripts == {<<>>, <<"plain">>, <<"plain", "plain">>}

\* What a flush can send: the book delta, then candles and trades.
Flushes == {<<"delta">>, <<"plain">>, <<"delta", "plain">>}

Reasons == {"unknown", "read_timeout", "read_error", "protocol_fatal",
            "PROTOCOL_VERSION", "slow_consumer", "debug_drop",
            "server_shutdown", "unregistered"}

VARIABLES
    handler,    \* where ServeHTTP stands
    ctxDone,    \* the session's context is cancelled
    reason,     \* closeReason
    others,     \* someone other than the reader has called Drop
    ended,      \* the reason recordSessionEnd wrote, "none" before
    todo,       \* frames the delivery loop's handler still has to send
    hand,       \* per sender: the frame numbered and not queued yet
    held,       \* heldDelta: the delta the reverse fault keeps back
    lastSeq,    \* lastSeq
    outbound,   \* the outbound channel
    commands,   \* how many commands wait in the commands channel
    reader,     \* [pc, then]: then is the reason a dropping reader ends with
    writer,     \* [pc, frame]
    conn,       \* the socket
    main,       \* where the server's main goroutine stands
    listed,     \* CloseAll saw the session
    drained     \* CloseAll left its wait because no session was left

endVars == <<ctxDone, reason, others>>
sendVars == <<hand, held, lastSeq>>
ioVars == <<commands, reader, writer, conn>>
mainVars == <<main, listed, drained>>
vars == <<handler, endVars, ended, todo, sendVars, outbound, ioVars, mainVars>>

Registered == handler \notin {"dial", "gone"}
\* Run has stored the cancel function; before that Drop only leaves a reason.
Started == handler \notin {"dial", "registered"}
Idle == handler = "loop" /\ todo = <<>> /\ hand["handler"] = NoFrame

Init ==
    /\ handler = "dial" /\ ctxDone = FALSE /\ reason = "unknown" /\ others = FALSE
    /\ ended = "none" /\ todo = <<>> /\ hand = [g \in Senders |-> NoFrame]
    /\ held = NoFrame /\ lastSeq = 0 /\ outbound = <<>> /\ commands = 0
    /\ reader = [pc |-> "off", then |-> "none"]
    /\ writer = [pc |-> "off", frame |-> NoFrame] /\ conn = "open"
    /\ main = "serve" /\ listed = FALSE /\ drained = FALSE

\* Mutant: a session that has a reason already is not cancelled.
DropOnce(r) ==
    /\ reason' = r
    /\ ctxDone' = (ctxDone \/ (Started /\ reason = "unknown"))

Drop(r) ==
    /\ reason' = r
    /\ ctxDone' = (ctxDone \/ Started)

(* ------------------------- numbering and queueing ------------------------- *)

\* Mutant: the counter is read before the other goroutine has added to it.
NextSeqShared(g, kind) ==
    [kind |-> kind, from |-> g,
     seq |-> IF \E o \in Senders \ {g} : hand[o] # NoFrame THEN lastSeq ELSE lastSeq + 1]

NextSeq(g, kind) == [kind |-> kind, from |-> g, seq |-> lastSeq + 1]

Stamp(g, kind) ==
    /\ hand' = [hand EXCEPT ![g] = NextSeq(g, kind)]
    /\ lastSeq' = lastSeq + 1
    /\ UNCHANGED held

\* The delivery loop numbers the next frame of its handler.
Send ==
    /\ handler = "loop" /\ todo # <<>> /\ hand["handler"] = NoFrame
    /\ Stamp("handler", Head(todo))
    /\ todo' = Tail(todo)
    /\ UNCHANGED <<handler, endVars, ended, outbound, ioVars, mainVars>>

\* The reverse fault keeps the delta back; one that was kept already is forgotten.
HoldDelta ==
    /\ hand["handler"].kind = "delta"
    /\ held' = hand["handler"]
    /\ hand' = [hand EXCEPT !["handler"] = NoFrame]
    /\ UNCHANGED <<handler, endVars, ended, todo, lastSeq, outbound, ioVars, mainVars>>

Late(f) == [kind |-> "late", seq |-> f.seq, from |-> f.from]
Reversing(g) == hand[g].kind = "delta" /\ held # NoFrame

HandOver(g, f) == hand' = [hand EXCEPT ![g] = f]

\* Behind its successor, queued or refused, comes the delta that was kept back.
ReleaseHeld(g) ==
    /\ Reversing(g)
    /\ HandOver(g, Late(held)) /\ held' = NoFrame

\* The duplicate fault queues a delta that went out a second time.
Repeat(g) ==
    /\ hand[g].kind = "delta" /\ ~Reversing(g)
    /\ HandOver(g, Late(hand[g])) /\ UNCHANGED held

Finish(g) ==
    /\ ~Reversing(g)
    /\ HandOver(g, NoFrame) /\ UNCHANGED held

\* enqueue finds room, at once or while a critical frame waits for it.
EnqueueOk(g) ==
    /\ hand[g] # NoFrame
    /\ Len(outbound) < OutCap
    /\ outbound' = Append(outbound, hand[g])
    /\ ReleaseHeld(g) \/ Repeat(g) \/ Finish(g)
    /\ UNCHANGED <<handler, endVars, ended, todo, lastSeq, ioVars, mainVars>>

\* enqueue refuses the frame: at once, or a critical one after two seconds.  A
\* lost delta or candle close makes requestResync send a snapshot, but not the
\* delta that overtakes a held one.
EnqueueFails(g) ==
    /\ hand[g] # NoFrame
    /\ Len(outbound) = OutCap
    /\ todo' = IF hand[g].kind \in {"delta", "close"} /\ ~Reversing(g)
               THEN <<"plain">> \o todo ELSE todo
    /\ ReleaseHeld(g) \/ Finish(g)
    /\ UNCHANGED <<handler, endVars, ended, lastSeq, outbound, ioVars, mainVars>>

(* ----------------------------- delivery loop ------------------------------ *)

Begin(script) ==
    /\ Idle /\ lastSeq < MaxSeq + (IF held # NoFrame THEN 1 ELSE 0)
    /\ todo' = script
    /\ UNCHANGED <<handler, endVars, ended, sendVars, outbound, reader, writer,
                   conn, mainVars>>

HandleCommand ==
    /\ commands > 0
    /\ \E script \in Scripts : Begin(script)
    /\ commands' = commands - 1

\* A bus event that sends at once: a book window after an epoch change, a market
\* status, or a candle close.
HandleEvent ==
    /\ \E kind \in {"plain", "close"} : Begin(<<kind>>)
    /\ UNCHANGED commands

Flush ==
    /\ \E script \in Flushes : Begin(script)
    /\ UNCHANGED commands

\* The health, summary, keepalive and watchdog tickers.
Tick ==
    /\ Begin(<<"plain">>)
    /\ UNCHANGED commands

(* -------------------------------- reader ---------------------------------- *)

readerOnly == <<handler, others, ended, todo, outbound, writer, mainVars>>

ReaderTop ==
    /\ reader.pc = "top"
    /\ reader' = [reader EXCEPT !.pc = IF ctxDone THEN "stopped" ELSE "reading"]
    /\ UNCHANGED <<readerOnly, ctxDone, reason, sendVars, commands, conn>>

\* What the answer to a frame leads to: decoding finds an unknown protocol version
\* fatal and every other fault, like a ping or the rate limit, forgivable.
DecodeErrors == {"none", "PROTOCOL_VERSION"}

\* A message over the limit, a frame that does not decode, or a ping: the reader
\* answers itself.  A fatal frame is answered first and drops the session after.
ReadReply ==
    /\ reader.pc = "reading" /\ conn = "open" /\ lastSeq < MaxSeq
    /\ Stamp("reader", "plain")
    /\ \E then \in DecodeErrors :
          reader' = [pc |-> "sending", then |-> then]
    /\ UNCHANGED <<readerOnly, ctxDone, reason, commands, conn>>

\* A well-formed command goes to the delivery loop, or nowhere when its queue is
\* full; with the context done the reader may also leave here.
ReadCommand ==
    /\ reader.pc = "reading" /\ conn = "open"
    /\ \/ /\ commands < CmdCap
          /\ commands' = commands + 1
          /\ reader' = [reader EXCEPT !.pc = "top"]
       \/ /\ commands = CmdCap /\ ~ctxDone
          /\ reader' = [reader EXCEPT !.pc = "top"]
          /\ UNCHANGED commands
       \/ /\ ctxDone
          /\ reader' = [reader EXCEPT !.pc = "stopped"]
          /\ UNCHANGED commands
    /\ UNCHANGED <<readerOnly, ctxDone, reason, sendVars, conn>>

ReplyDone ==
    /\ reader.pc = "sending" /\ hand["reader"] = NoFrame
    /\ IF reader.then = "none"
       THEN reader' = [reader EXCEPT !.pc = "top"] /\ UNCHANGED reason
       ELSE reader' = [reader EXCEPT !.pc = "dropping"] /\ reason' = "protocol_fatal"
    /\ UNCHANGED <<readerOnly, ctxDone, sendVars, commands, conn>>

\* The read fails: the peer is gone, silent for too long, or the socket was
\* closed under it because the context ended, which is not classified.
ReadFails ==
    /\ reader.pc = "reading"
    /\ reader' = [pc |-> "dropping", then |-> "read_error"]
    /\ IF ctxDone THEN UNCHANGED reason
                  ELSE reason' \in {"read_timeout", "read_error"}
    /\ UNCHANGED <<readerOnly, ctxDone, sendVars, commands, conn>>

\* Mutant: the reader cancels and leaves the reason it classified in place.
DropKeepsReason ==
    /\ reader.pc = "dropping"
    /\ ctxDone' = TRUE
    /\ reader' = [pc |-> "stopped", then |-> "none"]
    /\ UNCHANGED <<readerOnly, reason, sendVars, commands, conn>>

ReaderDrop ==
    /\ reader.pc = "dropping"
    /\ Drop(reader.then)
    /\ reader' = [pc |-> "stopped", then |-> "none"]
    /\ UNCHANGED <<readerOnly, sendVars, commands, conn>>

\* The goroutine ReadMessage starts closes the socket when the context ends.
CloseOnCancel ==
    /\ ctxDone /\ reader.pc = "reading" /\ conn = "open"
    /\ conn' = "closed"
    /\ UNCHANGED <<readerOnly, ctxDone, reason, sendVars, commands, reader>>

(* -------------------------------- writer ---------------------------------- *)

writerOnly == <<handler, ended, todo, sendVars, commands, reader, conn, mainVars>>

WriterTake ==
    /\ writer.pc = "idle" /\ outbound # <<>>
    /\ writer' = [pc |-> "taken", frame |-> Head(outbound)]
    /\ outbound' = Tail(outbound)
    /\ UNCHANGED <<writerOnly, endVars>>

WriterStop ==
    /\ writer.pc = "idle" /\ ctxDone
    /\ writer' = [writer EXCEPT !.pc = "stopped"]
    /\ UNCHANGED <<writerOnly, endVars, outbound>>

\* Mutant: the socket writes without looking at the context.
WriteUnchecked ==
    /\ writer.pc = "taken"
    /\ writer' = [writer EXCEPT !.pc = "writing"]
    /\ UNCHANGED <<writerOnly, endVars, outbound>>

\* Holds and delays pass, and WriteMessage finds the context alive.
WriteBegin ==
    /\ writer.pc = "taken" /\ ~ctxDone
    /\ writer' = [writer EXCEPT !.pc = "writing"]
    /\ UNCHANGED <<writerOnly, endVars, outbound>>

Written ==
    /\ writer.pc = "writing" /\ conn = "open"
    /\ writer' = [pc |-> "idle", frame |-> NoFrame]
    /\ UNCHANGED <<writerOnly, endVars, outbound>>

\* A deadline passes or the socket breaks; a context that ended counts as a
\* slow consumer all the same.
WriteFails ==
    /\ \/ writer.pc = "taken" /\ ctxDone
       \/ writer.pc = "writing"
    /\ Drop("slow_consumer")
    /\ others' = TRUE
    /\ writer' = [pc |-> "stopped", frame |-> NoFrame]
    /\ UNCHANGED <<writerOnly, outbound>>

(* ------------------------ registration and teardown ----------------------- *)

handlerOnly == <<others, todo, commands, mainVars>>

\* ServeHTTP: the upgrade and Manager.Register, until the listener is closed.
Register ==
    /\ handler = "dial"
    /\ handler' = "registered"
    /\ UNCHANGED <<handlerOnly, ctxDone, reason, ended, sendVars, outbound, reader,
                   writer, conn>>

\* Run up to its delivery loop: the cancel function, the subscription, the start
\* record, the welcome frame in the empty queue, the reader and the writer.
Start ==
    /\ handler = "registered"
    /\ handler' = "loop"
    /\ lastSeq' = lastSeq + 1
    /\ outbound' = <<NextSeq("handler", "plain")>>
    /\ reader' = [reader EXCEPT !.pc = "top"]
    /\ writer' = [writer EXCEPT !.pc = "idle"]
    /\ UNCHANGED <<handlerOnly, ctxDone, reason, ended, hand, held, conn>>

LoopExit ==
    /\ Idle /\ ctxDone
    /\ handler' = "ended"
    /\ UNCHANGED <<handlerOnly, ctxDone, reason, ended, sendVars, outbound, reader,
                   writer, conn>>

\* The deferred block: the reason is read once, for the record and the goodbye.
RecordEnd ==
    /\ handler = "ended"
    /\ ended' = reason
    /\ handler' = "bye"
    /\ Stamp("handler", "goodbye")
    /\ UNCHANGED <<handlerOnly, ctxDone, reason, outbound, reader, writer, conn>>

\* conn.Close, Unsubscribe, close(done) and the deferred cancel.
Leave ==
    /\ handler = "bye" /\ hand["handler"] = NoFrame
    /\ conn' = "closed"
    /\ ctxDone' = TRUE
    /\ handler' = "closed"
    /\ UNCHANGED <<handlerOnly, reason, ended, sendVars, outbound, reader, writer>>

\* Mutant: the session is taken off the map before it is torn down.
UnregisterEarly ==
    /\ handler \in {"ended", "closed"}
    /\ handler' = "gone"
    /\ Drop("unregistered")
    /\ UNCHANGED <<handlerOnly, ended, sendVars, outbound, reader, writer, conn>>

Unregister ==
    /\ handler = "closed"
    /\ handler' = "gone"
    /\ Drop("unregistered")
    /\ UNCHANGED <<handlerOnly, ended, sendVars, outbound, reader, writer, conn>>

\* Mutant: the debug endpoint cancels the context without leaving a reason.
DebugCancel ==
    /\ Registered /\ main = "serve" /\ ~others
    /\ others' = TRUE
    /\ ctxDone' = (ctxDone \/ Started)
    /\ UNCHANGED <<handler, reason, ended, todo, sendVars, outbound, ioVars, mainVars>>

\* Manager.Drop, the debug endpoint (bound: before any other Drop but the reader's).
DebugDrop ==
    /\ Registered /\ main = "serve" /\ ~others
    /\ Drop("debug_drop")
    /\ others' = TRUE
    /\ UNCHANGED <<handler, ended, todo, sendVars, outbound, ioVars, mainVars>>

\* The debug endpoint's forced tier takes the way of the client's commands.
InjectCommand ==
    /\ Registered /\ commands < CmdCap
    /\ commands' = commands + 1
    /\ UNCHANGED <<handler, endVars, ended, todo, sendVars, outbound, reader, writer,
                   conn, mainVars>>

(* ------------------------------ main goroutine ----------------------------- *)

mainOnly == <<handler, ended, todo, sendVars, outbound, ioVars>>

\* A signal, or an engine that stopped: CloseAll copies the set of sessions ...
CloseAll ==
    /\ main = "serve"
    /\ main' = "dropping" /\ listed' = Registered
    /\ UNCHANGED <<mainOnly, endVars, drained>>

\* ... drops each of them ...
DropListed ==
    /\ main = "dropping"
    /\ main' = "waiting"
    /\ IF listed THEN Drop("server_shutdown") /\ others' = TRUE
                 ELSE UNCHANGED endVars
    /\ UNCHANGED <<mainOnly, listed, drained>>

\* Mutant: CloseAll waits for the last session however long it takes.
AwaitAll ==
    /\ main = "waiting" /\ ~Registered
    /\ main' = "flushing" /\ drained' = TRUE
    /\ UNCHANGED <<mainOnly, endVars, listed>>

\* ... and waits until no session is registered, or the deadline passes.
Await ==
    /\ main = "waiting"
    /\ main' = "flushing" /\ drained' = ~Registered
    /\ UNCHANGED <<mainOnly, endVars, listed>>

\* server.Shutdown, which knows nothing of upgraded connections, store.Flush and
\* the end of the process.
Exit ==
    /\ main = "flushing"
    /\ main' = "exited"
    /\ UNCHANGED <<mainOnly, endVars, listed, drained>>

\* The listener fails: run returns at once, without CloseAll and without a flush.
ServeFails ==
    /\ main = "serve"
    /\ main' = "exited"
    /\ UNCHANGED <<mainOnly, endVars, listed, drained>>

Delivery == Send \/ HoldDelta \/ HandleCommand \/ HandleEvent \/ Flush \/ Tick
Reading == ReaderTop \/ ReadReply \/ ReadCommand \/ ReplyDone \/ ReadFails
              \/ ReaderDrop \/ CloseOnCancel
Writing == WriterTake \/ WriterStop \/ WriteBegin \/ Written \/ WriteFails
Lifecycle == Register \/ Start \/ LoopExit \/ RecordEnd \/ Leave \/ Unregister
Server == DebugDrop \/ InjectCommand \/ CloseAll \/ DropListed \/ Await \/ Exit
             \/ ServeFails

\* The process's exit ends every goroutine.
Next ==
    /\ main # "exited"
    /\ \/ Delivery \/ Reading \/ Writing \/ Lifecycle \/ Server
       \/ \E g \in Senders : EnqueueOk(g) \/ EnqueueFails(g)

Spec == Init /\ [][Next]_vars

\* Each goroutine goes on, a timer fires, and select takes every ready case in
\* the end; nothing says that a client writes, reads or breaks the connection.
Alive(A) == main # "exited" /\ A
Fairness ==
    /\ WF_vars(Alive(Send \/ HoldDelta \/ EnqueueOk("handler") \/ EnqueueFails("handler")))
    /\ WF_vars(Alive(Start \/ RecordEnd \/ Leave \/ Unregister))
    /\ SF_vars(Alive(LoopExit))
    /\ WF_vars(Alive(ReaderTop \/ ReplyDone \/ ReaderDrop \/ (ctxDone /\ ReadFails)
                       \/ EnqueueOk("reader") \/ EnqueueFails("reader")))
    /\ WF_vars(Alive(Writing))
    /\ WF_vars(Alive(DropListed \/ Await \/ Exit))

FairSpec == Spec /\ Fairness

(* ------------------------------- properties -------------------------------- *)

\* Every variable of the session keeps its type.
TypeOK ==
    /\ handler \in {"dial", "registered", "loop", "ended", "bye", "closed", "gone"}
    /\ ctxDone \in BOOLEAN /\ reason \in Reasons /\ others \in BOOLEAN
    /\ ended \in Reasons \cup {"none"} /\ todo \in Seq(Kinds)
    /\ hand \in [Senders -> Frames] /\ held \in Frames /\ lastSeq \in Nat
    /\ outbound \in Seq(Frames) /\ Len(outbound) <= OutCap /\ commands \in 0..CmdCap
    /\ reader \in [pc : {"off", "top", "reading", "sending", "dropping", "stopped"},
                   then : DecodeErrors \cup {"read_error"}]
    /\ writer \in [pc : {"off", "idle", "taken", "writing", "stopped"}, frame : Frames]
    /\ conn \in {"open", "closed"}
    /\ main \in {"serve", "dropping", "waiting", "flushing", "exited"}
    /\ listed \in BOOLEAN /\ drained \in BOOLEAN

Holding == {g \in Senders : hand[g] # NoFrame}

\* The frames under way: numbered, held back, queued or in the writer's hands.
Under ==
    ({hand[g] : g \in Holding} \cup {outbound[i] : i \in 1..Len(outbound)}
        \cup {writer.frame, held}) \ {NoFrame}

\* A number belongs to one frame, although the delivery loop and the reader number
\* frames at the same time and a held delta keeps its number; the one other frame
\* that may carry it is the copy a fault makes of a delta.
NumbersUnique ==
    \A f, g \in Under :
        f.seq = g.seq => f = g \/ (Late(f) = Late(g) /\ "late" \in {f.kind, g.kind})

\* The frame e may come behind the frame f of the same goroutine.
MayFollow(f, e) == f.seq < e.seq \/ (e.kind = "late" /\ f.kind # "late")

\* Along the pipe from the socket's writer through the queue to the goroutine that
\* numbered it, the frames of one goroutine stay in the order of their numbers, no
\* frame is there twice, and nothing but a late delta comes behind a higher number
\* or behind its own.  Late ones keep the order among themselves.
SenderOrder ==
    LET pipe == <<writer.frame>> \o outbound
        Of(g) == {i \in 1..Len(pipe) : pipe[i] # NoFrame /\ pipe[i].from = g}
    IN  \A g \in Senders :
          /\ \A i, j \in Of(g) : i < j => MayFollow(pipe[i], pipe[j])
          /\ g \in Holding => \A i \in Of(g) : MayFollow(pipe[i], hand[g])

\* The goodbye is queued after the loop saw the cancelled context, and the writer
\* gives up on every frame it takes after that: no client receives a goodbye.
GoodbyeUnheard == writer.frame.kind = "goodbye" => writer.pc # "writing"

\* A session end always names a cause: neither the initial "unknown" nor the
\* "unregistered" that Unregister stores once the row is written.
EndNamesCause == ended \notin {"unknown", "unregistered"}

\* The reader's precise reason, overwritten by its own Drop, is recorded only
\* when someone else had ended the session just before.
PreciseReasonIsLuck ==
    ended \in {"read_timeout", "protocol_fatal"} => others

\* When CloseAll saw the session and left because none was registered, the end
\* of that session was recorded before the metrics flush.
DrainedMeansRecorded ==
    main \in {"flushing", "exited"} /\ drained /\ listed => ended # "none"

\* A session whose context, reader or writer ended is torn down and removed,
\* unless the process exits first.
SessionEnds ==
    (ctxDone \/ reader.pc = "stopped" \/ writer.pc = "stopped")
        ~> (handler = "gone" \/ main = "exited")

\* The server exits after the signal, whatever its sessions do.
ServerExits == (main # "serve") ~> (main = "exited")

\* Frames are numbered once each and leave in the order of their numbers for each
\* goroutine that sends, but for the deltas a fault reverses or repeats, within the
\* queues' capacities.
NumbersHonest == TypeOK /\ NumbersUnique /\ SenderOrder

\* The end of a session that is recorded names a cause, though not always the
\* precise one.
EndExplained == EndNamesCause /\ PreciseReasonIsLuck

\* Teardown makes progress: sessions end and so does the server.
Teardown == SessionEnds /\ ServerExits
=============================================================================
