----------------------------- MODULE SessionProofs -----------------------------
(***************************************************************************)
(* Proofs about Session, for every capacity of the two queues and every    *)
(* bound on the frames.                                                    *)
(***************************************************************************)
EXTENDS Session, SequenceTheorems, TLAPS

\* A reader that is about to drop the session knows with what reason.
ReaderKnows == reader.pc = "dropping" => reader.then # "none"

\* Before Run has stored the cancel function nothing has been cancelled or read.
NothingYet == handler \in {"dial", "registered"} => ~ctxDone /\ reader.pc = "off"

\* The delivery loop ends because the context did.
EndedByContext == handler \in {"ended", "bye", "closed", "gone"} => ctxDone

\* Nothing under way has a number that was not given out yet.
Numbered ==
    /\ \A g \in Senders : hand[g].seq <= lastSeq
    /\ \A i \in 1..Len(outbound) : outbound[i].seq <= lastSeq
    /\ writer.frame.seq <= lastSeq /\ held.seq <= lastSeq

\* A goodbye is numbered only after the context has ended.
GoodbyeLate ==
    /\ \A g \in Senders : hand[g].kind = "goodbye" => ctxDone
    /\ \A i \in 1..Len(outbound) : outbound[i].kind = "goodbye" => ctxDone
    /\ writer.frame.kind = "goodbye" => ctxDone

\* A goroutine holds its own frames, and the handler none before it has started.
OwnHands ==
    /\ \A g \in Senders : hand[g] # NoFrame => hand[g].from = g
    /\ handler \in {"dial", "registered"} => hand["handler"] = NoFrame

\* Only the handler has deltas, and one that is held back is newer than every late
\* one before it; the handler has none in hand meanwhile.
HeldBack ==
    /\ hand["reader"].kind # "delta"
    /\ held # NoFrame =>
          /\ held.kind = "delta" /\ held.from = "handler" /\ hand["handler"].kind # "late"
          /\ \A i \in 1..Len(outbound) :
                outbound[i].from = "handler" => MayFollow(outbound[i], Late(held))
          /\ writer.frame # NoFrame /\ writer.frame.from = "handler" =>
                MayFollow(writer.frame, Late(held))

\* SenderOrder, place by place.
InOrder ==
    /\ \A i, j \in 1..Len(outbound) :
          i < j /\ outbound[i].from = outbound[j].from => MayFollow(outbound[i], outbound[j])
    /\ \A i \in 1..Len(outbound) :
          writer.frame # NoFrame /\ writer.frame.from = outbound[i].from =>
              MayFollow(writer.frame, outbound[i])
    /\ \A g \in Holding :
          /\ \A i \in 1..Len(outbound) : outbound[i].from = g => MayFollow(outbound[i], hand[g])
          /\ writer.frame # NoFrame /\ writer.frame.from = g => MayFollow(writer.frame, hand[g])

\* Whoever ended the context left a reason, and the reader, if it was the only one,
\* left the one of its Drop and stopped.
ReasonKnown ==
    /\ ctxDone => reason # "unknown"
    /\ handler # "gone" => reason # "unregistered"
    /\ ctxDone /\ ~others =>
          reader.pc = "stopped" /\ reason \notin {"read_timeout", "protocol_fatal"}

\* A session that is gone was recorded, and CloseAll's list and its verdict hold.
Recorded ==
    /\ handler \in {"bye", "closed", "gone"} => ended # "none"
    /\ listed => handler # "dial"
    /\ drained => main \in {"flushing", "exited"}
    /\ drained /\ listed => handler = "gone"

--------------------------------------------------------------------------------
(* Types. *)

\* The parts of TypeOK, each for the prover that suits it.
PlaceOK ==
    /\ handler \in {"dial", "registered", "loop", "ended", "bye", "closed", "gone"}
    /\ conn \in {"open", "closed"}
    /\ main \in {"serve", "dropping", "waiting", "flushing", "exited"}
    /\ reason \in Reasons /\ ended \in Reasons \cup {"none"}
    /\ reader \in [pc : {"off", "top", "reading", "sending", "dropping", "stopped"},
                   then : DecodeErrors \cup {"read_error"}]
ToSend == {"plain", "delta", "close"}
QueueOK ==
    /\ todo \in Seq(ToSend) /\ commands \in 0..CmdCap
    /\ hand \in [Senders -> Frames] /\ held \in Frames /\ lastSeq \in Nat
    /\ outbound \in Seq(Frames) /\ Len(outbound) <= OutCap
    /\ writer \in [pc : {"off", "idle", "taken", "writing", "stopped"}, frame : Frames]
FlagsOK ==
    ctxDone \in BOOLEAN /\ others \in BOOLEAN /\ listed \in BOOLEAN /\ drained \in BOOLEAN

LEMMA TypeParts == PlaceOK /\ QueueOK /\ FlagsOK => TypeOK
  <1>1. QueueOK => todo \in Seq(Kinds)
    BY DEF QueueOK, Kinds, ToSend
  <1>2. QED
    BY <1>1, Zenon DEF PlaceOK, QueueOK, FlagsOK, TypeOK

\* Numbering makes a frame that is none of those before.
LEMMA StampedFrame ==
    ASSUME lastSeq \in Nat, NEW g \in Senders, NEW kind \in Kinds
    PROVE  /\ NextSeq(g, kind) \in Frames /\ NextSeq(g, kind) # NoFrame
           /\ NextSeq(g, kind).seq = lastSeq + 1 /\ NextSeq(g, kind).kind = kind
           /\ NextSeq(g, kind).from = g
  BY DEF NextSeq, Frames, NoFrame, Kinds, Senders

LEMMA StampTypes ==
    ASSUME QueueOK, NEW g \in Senders, NEW kind \in Kinds, Stamp(g, kind)
    PROVE  hand' \in [Senders -> Frames] /\ held' \in Frames /\ lastSeq' \in Nat
  <1> DEFINE f == NextSeq(g, kind)
  <1>1. f \in Frames
    BY StampedFrame DEF QueueOK
  <1>2. hand' = [hand EXCEPT ![g] = f] /\ lastSeq' = lastSeq + 1 /\ held' = held
    BY DEF Stamp
  <1> HIDE DEF f
  <1>3. QED
    BY <1>1, <1>2 DEF QueueOK

LEMMA LateFrame ==
    ASSUME NEW f \in Frames
    PROVE  /\ Late(f) \in Frames /\ Late(f).kind = "late" /\ Late(f).seq = f.seq
           /\ Late(f).from = f.from /\ Late(f) # NoFrame /\ Late(Late(f)) = Late(f)
  BY DEF Late, Frames, Kinds, NoFrame

LEMMA AfterTypes ==
    ASSUME QueueOK, NEW g \in Senders, ReleaseHeld(g) \/ Repeat(g) \/ Finish(g)
    PROVE  hand' \in [Senders -> Frames] /\ held' \in Frames
  <1>1. NoFrame \in Frames
    BY DEF NoFrame, Frames, Kinds, Senders
  <1>2. hand[g] \in Frames /\ held \in Frames
    BY DEF QueueOK
  <1>3. Late(hand[g]) \in Frames /\ Late(held) \in Frames
    BY <1>2, LateFrame
  <1>4. QED
    BY <1>1, <1>2, <1>3 DEF QueueOK, ReleaseHeld, Repeat, Finish, HandOver

LEMMA InitType == Init => PlaceOK /\ QueueOK /\ FlagsOK
  <1> USE DEF Init
  <1>1. Init => PlaceOK
    BY DEF PlaceOK, Reasons, DecodeErrors
  <1>2. NoFrame \in Frames
    BY DEF NoFrame, Frames, Kinds, Senders
  <1>3. Init => QueueOK
    BY <1>2, SessionAssumption DEF SessionAssumption, QueueOK
  <1>4. Init => FlagsOK
    BY Zenon DEF FlagsOK
  <1>5. QED
    BY <1>1, <1>3, <1>4

\* Queues, numbers and the frames in them.
LEMMA NextQueue == QueueOK /\ [Next]_vars => QueueOK'
  <1> SUFFICES ASSUME QueueOK, [Next]_vars PROVE QueueOK'
    OBVIOUS
  <1> USE DEF QueueOK, endVars, sendVars, ioVars, mainVars
  <1>0. NoFrame \in Frames
    BY DEF NoFrame, Frames, Kinds, Senders
  <1>1. CASE Send
    <2>1. Head(todo) \in Kinds /\ Tail(todo) \in Seq(ToSend)
      BY <1>1, HeadTailProperties DEF Send, Kinds, ToSend
    <2>2. Stamp("handler", Head(todo))
      BY <1>1 DEF Send
    <2>3. hand' \in [Senders -> Frames] /\ held' \in Frames /\ lastSeq' \in Nat
      BY <2>1, <2>2, StampTypes DEF Senders
    <2>4. QED
      BY <1>1, <2>1, <2>3 DEF Send
  <1>2. CASE HandleCommand \/ HandleEvent \/ Flush \/ Tick
    <2>1. \A s \in Scripts \cup Flushes : s \in Seq(ToSend)
      <3>1. /\ <<>> \in Seq(ToSend) /\ <<"plain">> \in Seq(ToSend)
            /\ <<"plain", "plain">> \in Seq(ToSend)
        BY DEF ToSend
      <3>2. /\ <<"delta">> \in Seq(ToSend)
            /\ <<"delta", "plain">> \in Seq(ToSend)
        BY DEF ToSend
      <3>3. QED
        BY <3>1, <3>2, Zenon DEF Scripts, Flushes
    <2>2. \A k \in {"plain", "close"} : <<k>> \in Seq(ToSend)
      BY DEF ToSend
    <2>3. todo' \in Seq(ToSend)
      BY <1>2, <2>1, <2>2 DEF HandleCommand, HandleEvent, Flush, Tick, Begin
    <2>4. commands' \in 0..CmdCap
      BY <1>2, SessionAssumption DEF SessionAssumption, HandleCommand, HandleEvent, Flush, Tick
    <2>5. UNCHANGED <<hand, held, lastSeq, outbound, writer>>
      BY <1>2 DEF HandleCommand, HandleEvent, Flush, Tick, Begin
    <2>6. QED
      BY <2>3, <2>4, <2>5
  <1>3. CASE ReadReply
    <2>1. Stamp("reader", "plain")
      BY <1>3 DEF ReadReply
    <2>2. hand' \in [Senders -> Frames] /\ held' \in Frames /\ lastSeq' \in Nat
      BY <2>1, StampTypes DEF Senders, Kinds
    <2>3. QED
      BY <1>3, <2>2 DEF ReadReply, readerOnly
  <1>4. CASE ReadCommand
    BY <1>4, SessionAssumption DEF SessionAssumption, ReadCommand, readerOnly
  <1>5. CASE ReaderTop \/ ReplyDone \/ ReadFails \/ ReaderDrop \/ CloseOnCancel
    BY <1>5 DEF ReaderTop, ReplyDone, ReadFails, ReaderDrop, CloseOnCancel, readerOnly
  <1>6. CASE WriterTake
    <2>1. Head(outbound) \in Frames /\ Tail(outbound) \in Seq(Frames) /\ Len(Tail(outbound)) <= OutCap
      BY <1>6, HeadTailProperties, SessionAssumption DEF SessionAssumption, WriterTake
    <2>2. QED
      BY <1>6, <2>1 DEF WriterTake, writerOnly
  <1>7. CASE WriterStop \/ WriteBegin \/ Written \/ WriteFails
    BY <1>0, <1>7 DEF WriterStop, WriteBegin, Written, WriteFails, writerOnly
  <1>8. CASE Start
    <2>1. NextSeq("handler", "plain") \in Frames
      BY StampedFrame DEF Senders, Kinds
    <2>2. QED
      BY <1>8, <2>1, SessionAssumption DEF SessionAssumption, Start, handlerOnly
  <1>9. CASE RecordEnd
    <2>1. Stamp("handler", "goodbye")
      BY <1>9 DEF RecordEnd
    <2>2. hand' \in [Senders -> Frames] /\ held' \in Frames /\ lastSeq' \in Nat
      BY <2>1, StampTypes DEF Senders, Kinds
    <2>3. QED
      BY <1>9, <2>2 DEF RecordEnd, handlerOnly
  <1>10. CASE Register \/ LoopExit \/ Leave \/ Unregister
    BY <1>10 DEF Register, LoopExit, Leave, Unregister, handlerOnly
  <1>11. CASE InjectCommand
    BY <1>11, SessionAssumption DEF SessionAssumption, InjectCommand
  <1>12. CASE DebugDrop \/ CloseAll \/ DropListed \/ Await \/ Exit \/ ServeFails
    BY <1>12 DEF DebugDrop, CloseAll, DropListed, Await, Exit, ServeFails, mainOnly
  <1>13. ASSUME NEW g \in Senders, EnqueueOk(g) PROVE QueueOK'
    <2>1. Append(outbound, hand[g]) \in Seq(Frames) /\ Len(Append(outbound, hand[g])) <= OutCap
      BY <1>13, AppendProperties, SessionAssumption DEF SessionAssumption, EnqueueOk
    <2>2. hand' \in [Senders -> Frames] /\ held' \in Frames
      BY <1>13, AfterTypes DEF EnqueueOk
    <2>3. QED
      BY <1>13, <2>1, <2>2 DEF EnqueueOk
  <1>14. ASSUME NEW g \in Senders, EnqueueFails(g) PROVE QueueOK'
    <2>1. <<"plain">> \o todo \in Seq(ToSend)
      BY DEF ToSend
    <2>2. hand' \in [Senders -> Frames] /\ held' \in Frames
      BY <1>14, AfterTypes DEF EnqueueFails
    <2>3. todo' \in Seq(ToSend)
      BY <1>14, <2>1 DEF EnqueueFails
    <2>4. QED
      BY <1>14, <2>2, <2>3 DEF EnqueueFails
  <1>17. CASE HoldDelta
    BY <1>0, <1>17 DEF HoldDelta, Senders
  <1>15. CASE UNCHANGED vars
    BY <1>15 DEF vars
  <1>16. QED
    BY <1>1, <1>2, <1>3, <1>4, <1>5, <1>6, <1>7, <1>8, <1>9, <1>10, <1>11, <1>12, <1>13, <1>14, <1>15,
       <1>17
    DEF Next, Delivery, Reading, Writing, Lifecycle, Server

--------------------------------------------------------------------------------
(* Who ended the session, and what was recorded of it. *)

ControlInv ==
    /\ PlaceOK /\ FlagsOK /\ ReaderKnows /\ NothingYet /\ EndedByContext
    /\ ReasonKnown /\ Recorded /\ EndExplained

controlVars == <<handler, ctxDone, reason, others, ended, reader, conn, main, listed, drained>>

LEMMA InitControl == Init => ControlInv
  <1>1. Init => PlaceOK /\ FlagsOK
    BY InitType
  <1>2. QED
    BY <1>1 DEF Init, ControlInv, ReaderKnows, NothingYet, EndedByContext, ReasonKnown, Recorded,
                EndExplained, EndNamesCause, PreciseReasonIsLuck

LEMMA NextControl == ControlInv /\ [Next]_vars => ControlInv'
  <1> SUFFICES ASSUME ControlInv, [Next]_vars PROVE ControlInv'
    OBVIOUS
  <1> USE DEF ControlInv, PlaceOK, FlagsOK, ReaderKnows, NothingYet, EndedByContext, ReasonKnown,
              Recorded, EndExplained, EndNamesCause, PreciseReasonIsLuck
  <1>1. CASE UNCHANGED controlVars
    BY <1>1 DEF controlVars
  <1>2. CASE ReaderTop
    BY <1>2 DEF ReaderTop, readerOnly, mainVars
  <1>3. CASE ReadReply
    BY <1>3 DEF ReadReply, readerOnly, mainVars, DecodeErrors
  <1>4. CASE ReadCommand
    BY <1>4 DEF ReadCommand, readerOnly, mainVars
  <1>5. CASE ReplyDone
    BY <1>5 DEF ReplyDone, readerOnly, mainVars, Reasons
  <1>6. CASE ReadFails
    BY <1>6 DEF ReadFails, readerOnly, mainVars, Reasons
  <1>7. CASE ReaderDrop
    BY <1>7 DEF ReaderDrop, Drop, Started, readerOnly, mainVars, Reasons, DecodeErrors
  <1>8. CASE CloseOnCancel
    BY <1>8 DEF CloseOnCancel, readerOnly, mainVars
  <1>9. CASE WriteFails
    BY <1>9 DEF WriteFails, Drop, Started, writerOnly, mainVars, Reasons
  <1>10. CASE Register
    BY <1>10 DEF Register, handlerOnly, mainVars
  <1>11. CASE Start
    BY <1>11 DEF Start, handlerOnly, mainVars
  <1>12. CASE LoopExit
    BY <1>12 DEF LoopExit, Idle, handlerOnly, mainVars
  <1>13. CASE RecordEnd
    BY <1>13 DEF RecordEnd, handlerOnly, mainVars, Reasons
  <1>14. CASE Leave
    BY <1>14 DEF Leave, handlerOnly, mainVars
  <1>15. CASE Unregister
    <2>1. /\ UNCHANGED <<others, ended, reader, conn, main, listed, drained>>
          /\ handler = "closed" /\ handler' = "gone" /\ reason' = "unregistered"
          /\ ctxDone /\ ctxDone'
      BY <1>15 DEF Unregister, Drop, Started, handlerOnly, mainVars
    <2>2. ctxDone' \in BOOLEAN
      BY <1>15, Zenon DEF Unregister, Drop
    <2>3. PlaceOK'
      BY <2>1 DEF Reasons
    <2>4. QED
      BY <2>1, <2>2, <2>3
  <1>16. CASE DebugDrop
    BY <1>16 DEF DebugDrop, Drop, Started, Registered, ioVars, mainVars, Reasons
  <1>17. CASE CloseAll
    <2>1. /\ UNCHANGED <<handler, ctxDone, reason, others, ended, reader, conn, drained>>
          /\ main = "serve" /\ main' = "dropping" /\ listed' = (handler \notin {"dial", "gone"})
      BY <1>17 DEF CloseAll, mainOnly, endVars, ioVars, Registered
    <2>2. listed' \in BOOLEAN
      BY <2>1, Zenon
    <2>3. PlaceOK' /\ ReaderKnows' /\ NothingYet' /\ EndedByContext' /\ ReasonKnown' /\ EndExplained'
      BY <2>1
    <2>4. QED
      BY <2>1, <2>2, <2>3
  <1>18. CASE DropListed
    <2>1. CASE listed
      BY <1>18, <2>1 DEF DropListed, Drop, Started, mainOnly, ioVars, Reasons
    <2>2. CASE ~listed
      BY <1>18, <2>2 DEF DropListed, mainOnly, endVars, ioVars
    <2>3. QED
      BY <2>1, <2>2
  <1>19. CASE Await
    BY <1>19 DEF Await, mainOnly, endVars, ioVars, Registered
  <1>20. CASE Exit \/ ServeFails
    BY <1>20 DEF Exit, ServeFails, mainOnly, endVars, ioVars
  <1>21. (\/ Delivery \/ WriterTake \/ WriterStop \/ WriteBegin \/ Written \/ InjectCommand
          \/ UNCHANGED vars \/ \E g \in Senders : EnqueueOk(g) \/ EnqueueFails(g))
            => UNCHANGED controlVars
    BY DEF controlVars, Delivery, Send, HoldDelta, HandleCommand, HandleEvent, Flush, Tick, Begin, WriterTake,
           WriterStop, WriteBegin, Written, InjectCommand, EnqueueOk, EnqueueFails, vars, endVars,
           sendVars, ioVars, mainVars, writerOnly
  <1>22. QED
    BY <1>1, <1>2, <1>3, <1>4, <1>5, <1>6, <1>7, <1>8, <1>9, <1>10, <1>11, <1>12, <1>13, <1>14,
       <1>15, <1>16, <1>17, <1>18, <1>19, <1>20, <1>21
    DEF Next, Reading, Writing, Lifecycle, Server

--------------------------------------------------------------------------------
(* The frames under way. *)

FrameInv ==
    /\ Numbered /\ GoodbyeLate /\ OwnHands /\ HeldBack /\ InOrder
    /\ NumbersUnique /\ GoodbyeUnheard

LEMMA FrameTypes ==
    ASSUME QueueOK
    PROVE  /\ lastSeq \in Nat /\ writer.frame \in Frames /\ writer.frame.seq \in Nat
           /\ held \in Frames /\ held.seq \in Nat
           /\ \A g \in Senders : hand[g] \in Frames /\ hand[g].seq \in Nat
           /\ \A i \in 1..Len(outbound) : outbound[i] \in Frames /\ outbound[i].seq \in Nat
  <1>1. \A x \in Frames : x.seq \in Nat
    BY DEF Frames
  <1>2. QED
    BY <1>1 DEF QueueOK

\* Frames that were under way before, or one that is new, keep the numbers unique.
LEMMA UniqueStep ==
    ASSUME QueueOK, Numbered, NumbersUnique,
           NEW f \in Frames, f.seq > lastSeq, Under' \subseteq Under \cup {f}
    PROVE  NumbersUnique'
  <1>1. \A x \in Under : x.seq <= lastSeq /\ x.seq \in Nat
    BY FrameTypes DEF Under, Numbered, Holding
  <1>2. f.seq \in Nat /\ lastSeq \in Nat
    BY DEF Frames, QueueOK
  <1>3. \A x \in Under : x.seq # f.seq
    BY <1>1, <1>2
  <1>4. QED
    BY <1>3 DEF NumbersUnique

\* So does the copy of a frame under way.
LEMMA UniqueCopy ==
    ASSUME QueueOK, NumbersUnique, NEW f \in Under, f \in Frames,
           Under' \subseteq Under \cup {Late(f)}
    PROVE  NumbersUnique'
  <1>1. Late(f).kind = "late" /\ Late(f).seq = f.seq /\ Late(Late(f)) = Late(f)
    BY LateFrame
  <1>2. \A x \in Under : x.seq = f.seq => Late(x) = Late(f)
    BY DEF NumbersUnique
  <1>3. QED
    BY <1>1, <1>2 DEF NumbersUnique

\* No frame is new.
LEMMA SameUnique ==
    ASSUME NumbersUnique, Under' \subseteq Under PROVE NumbersUnique'
  BY DEF NumbersUnique

\* A goroutine numbers a frame.
LEMMA StampFrames ==
    ASSUME QueueOK, FrameInv, NEW g \in Senders, NEW kind \in Kinds, Stamp(g, kind),
           kind # "late", g = "reader" => kind # "delta",
           UNCHANGED <<outbound, writer>>, ctxDone => ctxDone',
           kind = "goodbye" => ctxDone', g = "handler" => handler' \notin {"dial", "registered"},
           handler' = "registered" => handler \in {"dial", "registered"}, handler' # "dial" \/ handler = "dial"
    PROVE  FrameInv'
  <1> DEFINE f == NextSeq(g, kind)
  <1>1. /\ f \in Frames /\ f # NoFrame /\ f.seq = lastSeq + 1 /\ f.kind = kind /\ f.from = g
    BY StampedFrame DEF QueueOK
  <1>2. hand' = [hand EXCEPT ![g] = f] /\ lastSeq' = lastSeq + 1 /\ held' = held
    BY DEF Stamp
  <1> HIDE DEF f
  <1>3. hand'[g] = f /\ \A o \in Senders : o # g => hand'[o] = hand[o]
    BY <1>2 DEF QueueOK
  <1>4. Under' \subseteq Under \cup {f}
    BY <1>2, <1>3 DEF Under, Holding
  <1>5. NumbersUnique'
    BY <1>1, <1>4, FrameTypes, UniqueStep DEF FrameInv
  <1>6. \A o \in Holding' : o = g \/ o \in Holding
    BY <1>3 DEF Holding
  <1>7. Numbered'
    BY <1>1, <1>2, <1>3, FrameTypes DEF FrameInv, Numbered
  <1>8. GoodbyeLate'
    BY <1>1, <1>3 DEF FrameInv, GoodbyeLate
  <1>9. OwnHands'
    BY <1>1, <1>3 DEF FrameInv, OwnHands, Senders
  <1>10. HeldBack'
    BY <1>1, <1>2, <1>3 DEF FrameInv, HeldBack, Senders
  <1>11. InOrder'
    <2>1. ASSUME NEW o \in Holding'
          PROVE  /\ \A i \in 1..Len(outbound) : outbound[i].from = o => MayFollow(outbound[i], hand'[o])
                 /\ writer.frame # NoFrame /\ writer.frame.from = o => MayFollow(writer.frame, hand'[o])
      <3>1. CASE o = g
        BY <1>1, <1>3, <3>1, FrameTypes DEF FrameInv, Numbered, MayFollow
      <3>2. CASE o # g
        BY <1>3, <1>6, <3>2 DEF FrameInv, InOrder, Holding
      <3>3. QED
        BY <3>1, <3>2
    <2>2. QED
      BY <2>1 DEF FrameInv, InOrder
  <1>12. QED
    BY <1>5, <1>7, <1>8, <1>9, <1>10, <1>11 DEF FrameInv, GoodbyeUnheard

\* No frame moves, but the writer may be done with its own.
LEMMA QuietFrames ==
    ASSUME QueueOK, FrameInv, UNCHANGED <<hand, held, lastSeq, outbound>>, ctxDone => ctxDone',
           writer'.frame \in {writer.frame, NoFrame}, GoodbyeUnheard',
           handler' \in {"dial", "registered"} => handler \in {"dial", "registered"}
    PROVE  FrameInv'
  <1>0. NoFrame.seq = 0 /\ NoFrame.kind = "plain"
    BY DEF NoFrame
  <1>1. Under' \subseteq Under
    BY DEF Under, Holding
  <1>2. NumbersUnique'
    BY <1>1, SameUnique DEF FrameInv
  <1>3. Numbered' /\ GoodbyeLate'
    BY <1>0, FrameTypes DEF FrameInv, Numbered, GoodbyeLate
  <1>4. OwnHands' /\ InOrder' /\ HeldBack'
    BY DEF FrameInv, OwnHands, InOrder, HeldBack, Holding
  <1>5. QED
    BY <1>2, <1>3, <1>4 DEF FrameInv

\* What a goroutine has in hand once enqueue has returned is nothing, or a late
\* delta that may come behind everything of the pipe.
LEMMA AfterFrames ==
    ASSUME QueueOK, FrameInv, NEW g \in Senders, hand[g] # NoFrame, Len(outbound) \in Nat,
           ReleaseHeld(g) \/ Repeat(g) \/ Finish(g)
    PROVE  /\ \A o \in Senders : o # g => hand'[o] = hand[o]
           /\ held' = NoFrame \/ (held' = held /\ hand'[g] = NoFrame)
           /\ \/ hand'[g] = NoFrame
              \/ /\ g = "handler" /\ held' = NoFrame /\ hand[g].kind = "delta"
                 /\ \E f \in {hand[g], held} : /\ f # NoFrame /\ f.from = g /\ f.kind = "delta"
                                              /\ hand'[g] = Late(f)
                 /\ \A i \in 1..Len(outbound) :
                       outbound[i].from = g => MayFollow(outbound[i], hand'[g])
                 /\ writer.frame # NoFrame /\ writer.frame.from = g => MayFollow(writer.frame, hand'[g])
  <1>1. hand'[g] \in {NoFrame, Late(held), Late(hand[g])} /\ \A o \in Senders : o # g => hand'[o] = hand[o]
    BY DEF QueueOK, ReleaseHeld, Repeat, Finish, HandOver
  <1>2. hand[g].kind = "delta" => g = "handler"
    BY DEF FrameInv, HeldBack, Senders
  <1>3. CASE Finish(g)
    BY <1>1, <1>3 DEF Finish, HandOver, QueueOK
  <1>4. CASE ReleaseHeld(g)
    <2>1. g = "handler" /\ held # NoFrame /\ hand[g].kind = "delta" /\ held' = NoFrame /\ hand'[g] = Late(held)
      BY <1>2, <1>4 DEF ReleaseHeld, Reversing, HandOver, QueueOK
    <2>2. QED
      BY <1>1, <2>1 DEF FrameInv, HeldBack
  <1>5. CASE Repeat(g)
    <2>1. g = "handler" /\ held = NoFrame /\ hand[g].kind = "delta" /\ held' = held /\ hand'[g] = Late(hand[g])
      BY <1>2, <1>5 DEF Repeat, Reversing, HandOver, QueueOK
    <2>2. hand[g].from = g
      BY DEF FrameInv, OwnHands
    <2>3. Late(hand[g]).seq = hand[g].seq
      BY LateFrame, FrameTypes
    <2>4. \A i \in 1..Len(outbound) : outbound[i].from = g => outbound[i].seq < hand[g].seq
      BY <2>1 DEF FrameInv, InOrder, Holding, MayFollow
    <2>5. writer.frame # NoFrame /\ writer.frame.from = g => writer.frame.seq < hand[g].seq
      BY <2>1 DEF FrameInv, InOrder, Holding, MayFollow
    <2>6. QED
      BY <1>1, <2>1, <2>2, <2>3, <2>4, <2>5 DEF MayFollow
  <1>6. QED
    BY <1>3, <1>4, <1>5

\* The hands keep what the invariant says of them, whatever becomes of the frame.
HandsAfter(g) ==
    /\ \A o \in Senders : hand'[o].seq <= lastSeq'
    /\ \A o \in Senders : hand'[o].kind = "goodbye" => ctxDone'
    /\ \A o \in Senders : o # g => hand'[o] = hand[o]
    /\ held'.seq <= lastSeq' /\ held' \in {held, NoFrame}
    /\ OwnHands' /\ hand'["reader"].kind # "delta"
    /\ held' # NoFrame => hand'["handler"].kind # "late"
    /\ {hand'[o] : o \in Holding'} \cup {held'} \subseteq Under \cup {hand'[g], NoFrame}
    /\ hand'[g] = NoFrame \/ \E f \in Under : f \in Frames /\ hand'[g] = Late(f)

LEMMA AfterHands ==
    ASSUME QueueOK, FrameInv, NEW g \in Senders, hand[g] # NoFrame,
           ReleaseHeld(g) \/ Repeat(g) \/ Finish(g), UNCHANGED <<handler, ctxDone, lastSeq>>
    PROVE  HandsAfter(g)
  <1>0. NoFrame.seq = 0 /\ NoFrame.kind = "plain" /\ NoFrame \in Frames
    BY DEF NoFrame, Frames, Kinds, Senders
  <1>1. Len(outbound) \in Nat
    BY DEF QueueOK
  <1>2. /\ \A o \in Senders : o # g => hand'[o] = hand[o]
        /\ held' = NoFrame \/ (held' = held /\ hand'[g] = NoFrame)
        /\ \/ hand'[g] = NoFrame
           \/ /\ g = "handler" /\ held' = NoFrame
              /\ \E f \in {hand[g], held} : /\ f # NoFrame /\ f.from = g /\ f.kind = "delta"
                                           /\ hand'[g] = Late(f)
    BY <1>1, AfterFrames
  <1>3. \A f \in {hand[g], held} : f \in Frames /\ f.seq <= lastSeq /\ (f # NoFrame => f \in Under)
    BY FrameTypes DEF FrameInv, Numbered, Under, Holding
  <1>4. hand'[g] = NoFrame \/ (g = "handler" /\ held' = NoFrame /\ \E f \in {hand[g], held} :
                                   f # NoFrame /\ f.from = g /\ hand'[g] = Late(f))
    BY <1>2
  <1>5. hand'[g].seq <= lastSeq /\ hand'[g].kind \in {"plain", "late"} /\ (hand'[g] # NoFrame => hand'[g].from = g)
    BY <1>0, <1>3, <1>4, LateFrame, FrameTypes
  <1>6. \A o \in Senders : hand'[o].seq <= lastSeq /\ (hand'[o].kind = "goodbye" => ctxDone)
    BY <1>2, <1>5 DEF FrameInv, Numbered, GoodbyeLate
  <1>7. held'.seq <= lastSeq /\ held' \in {held, NoFrame}
    BY <1>0, <1>2, FrameTypes DEF FrameInv, Numbered
  <1>8. OwnHands'
    <2>1. \A o \in Senders : hand'[o] # NoFrame => hand'[o].from = o
      BY <1>2, <1>5 DEF FrameInv, OwnHands
    <2>2. handler \in {"dial", "registered"} => g # "handler"
      BY DEF FrameInv, OwnHands
    <2>3. handler' \in {"dial", "registered"} => hand'["handler"] = NoFrame
      BY <1>2, <2>2 DEF FrameInv, OwnHands, Senders
    <2>4. QED
      BY <2>1, <2>3 DEF OwnHands
  <1>9. hand'["reader"].kind # "delta"
    BY <1>2, <1>5 DEF FrameInv, HeldBack, Senders
  <1>10. held' # NoFrame => hand'["handler"].kind # "late"
    BY <1>0, <1>2 DEF FrameInv, HeldBack, Senders
  <1>11. {hand'[o] : o \in Holding'} \cup {held'} \subseteq Under \cup {hand'[g], NoFrame}
    BY <1>2, <1>7 DEF Under, Holding
  <1>12. hand'[g] = NoFrame \/ \E f \in Under : f \in Frames /\ hand'[g] = Late(f)
    BY <1>3, <1>4
  <1>13. QED
    BY <1>2, <1>6, <1>7, <1>8, <1>9, <1>10, <1>11, <1>12 DEF HandsAfter

\* A frame is queued.
LEMMA EnqueueFrames ==
    ASSUME QueueOK, FrameInv, NEW g \in Senders, EnqueueOk(g)
    PROVE  FrameInv'
  <1> DEFINE f == hand[g]
             n == Len(outbound)
  <1>0. NoFrame.seq = 0 /\ NoFrame.kind = "plain"
    BY DEF NoFrame
  <1>1. /\ f \in Frames /\ f # NoFrame /\ f.from = g /\ f.seq <= lastSeq /\ f.seq \in Nat
        /\ n \in Nat
    BY FrameTypes DEF EnqueueOk, FrameInv, OwnHands, Numbered, QueueOK
  <1>2. /\ ReleaseHeld(g) \/ Repeat(g) \/ Finish(g)
        /\ UNCHANGED <<handler, ctxDone, lastSeq, writer>>
    BY DEF EnqueueOk, QueueOK, endVars, ioVars
  <1>3. /\ Len(outbound') = n + 1 /\ outbound'[n + 1] = f
        /\ \A i \in 1..n : outbound'[i] = outbound[i]
    BY AppendProperties DEF EnqueueOk, QueueOK
  <1>4. HandsAfter(g)
    BY <1>1, <1>2, AfterHands
  <1> USE DEF HandsAfter
  <1>5. /\ \/ hand'[g] = NoFrame
           \/ /\ g = "handler" /\ held' = NoFrame /\ f.kind = "delta" /\ hand'[g].kind = "late"
              /\ \A i \in 1..n : outbound[i].from = g => MayFollow(outbound[i], hand'[g])
              /\ writer.frame # NoFrame /\ writer.frame.from = g => MayFollow(writer.frame, hand'[g])
    <2>1. \A x \in {f, held} : Late(x).kind = "late"
      BY FrameTypes, LateFrame
    <2>2. QED
      BY <1>1, <1>2, <2>1, AfterFrames
  <1>6. f.kind = "goodbye" => ctxDone
    BY DEF FrameInv, GoodbyeLate
  <1>7. \A i \in 1..n : outbound[i].from = g => MayFollow(outbound[i], f)
    BY <1>1 DEF FrameInv, InOrder, Holding
  <1>8. writer.frame # NoFrame /\ writer.frame.from = g => MayFollow(writer.frame, f)
    BY <1>1 DEF FrameInv, InOrder, Holding
  <1>9. f \in Under
    BY <1>1 DEF Under, Holding
  <1>10. held' # NoFrame /\ g = "handler" => f.kind # "late"
    BY <1>4 DEF FrameInv, HeldBack
  <1> HIDE DEF f, n
  <1>11. \A i \in 1..Len(outbound') : i = n + 1 \/ i \in 1..n
    BY <1>1, <1>3
  <1>12. NumbersUnique'
    <2>1. \A i \in 1..Len(outbound') : outbound'[i] = f \/ \E j \in 1..Len(outbound) : outbound'[i] = outbound[j]
      BY <1>3, <1>11 DEF n
    <2>2. \A x \in Under' : x \in Under \/ (x = hand'[g] /\ x # NoFrame)
      BY <1>2, <1>4, <1>9, <2>1 DEF Under
    <2>3. CASE hand'[g] = NoFrame
      BY <2>2, <2>3, SameUnique DEF FrameInv
    <2>4. CASE hand'[g] # NoFrame
      <3>1. PICK x \in Under : x \in Frames /\ hand'[g] = Late(x)
        BY <1>4, <2>4
      <3>2. Under' \subseteq Under \cup {Late(x)}
        BY <2>2, <3>1
      <3>3. QED
        BY <3>1, <3>2, UniqueCopy DEF FrameInv
    <2>5. QED
      BY <2>3, <2>4
  <1>13. Numbered'
    BY <1>1, <1>2, <1>3, <1>4, <1>11, FrameTypes DEF FrameInv, Numbered, n
  <1>14. GoodbyeLate'
    BY <1>2, <1>3, <1>4, <1>6, <1>11 DEF FrameInv, GoodbyeLate, n
  <1>15. HeldBack'
    <2> SUFFICES ASSUME held' # NoFrame
                 PROVE  /\ held'.kind = "delta" /\ held'.from = "handler"
                        /\ \A i \in 1..Len(outbound') :
                              outbound'[i].from = "handler" => MayFollow(outbound'[i], Late(held'))
                        /\ writer'.frame # NoFrame /\ writer'.frame.from = "handler" =>
                              MayFollow(writer'.frame, Late(held'))
      BY <1>4 DEF HeldBack
    <2>1. held' = held /\ held # NoFrame
      BY <1>4
    <2>2. Late(held).kind = "late"
      BY FrameTypes, LateFrame
    <2>3. \A i \in 1..n : outbound[i].from = "handler" => MayFollow(outbound[i], Late(held))
      BY <2>1 DEF FrameInv, HeldBack, n
    <2>4. f.from = "handler" => MayFollow(f, Late(held))
      BY <1>1, <1>10, <2>2 DEF MayFollow
    <2>5. \A i \in 1..Len(outbound') : outbound'[i].from = "handler" => MayFollow(outbound'[i], Late(held))
      BY <1>3, <1>11, <2>3, <2>4
    <2>6. QED
      BY <1>2, <2>1, <2>5 DEF FrameInv, HeldBack
  <1>16. InOrder'
    <2>1. \A i, j \in 1..Len(outbound') :
            i < j /\ outbound'[i].from = outbound'[j].from => MayFollow(outbound'[i], outbound'[j])
      BY <1>1, <1>3, <1>7, <1>11 DEF FrameInv, InOrder, n
    <2>2. \A i \in 1..Len(outbound') :
            writer.frame # NoFrame /\ writer.frame.from = outbound'[i].from =>
                MayFollow(writer.frame, outbound'[i])
      BY <1>1, <1>3, <1>8, <1>11 DEF FrameInv, InOrder, n
    <2>3. ASSUME NEW o \in Holding'
          PROVE  /\ \A i \in 1..Len(outbound') : outbound'[i].from = o => MayFollow(outbound'[i], hand'[o])
                 /\ writer.frame # NoFrame /\ writer.frame.from = o => MayFollow(writer.frame, hand'[o])
      <3>1. CASE o = g
        <4>1. hand'[g] # NoFrame
          BY <3>1 DEF Holding
        <4>2. MayFollow(f, hand'[g])
          BY <1>5, <4>1 DEF MayFollow
        <4>3. QED
          BY <1>3, <1>5, <1>11, <3>1, <4>1, <4>2
      <3>2. CASE o # g
        <4>1. o \in Holding /\ hand'[o] = hand[o]
          BY <1>4, <3>2 DEF Holding
        <4>2. \A i \in 1..n : outbound[i].from = o => MayFollow(outbound[i], hand[o])
          BY <4>1 DEF FrameInv, InOrder, n
        <4>3. QED
          BY <1>1, <1>3, <1>11, <3>2, <4>1, <4>2 DEF FrameInv, InOrder
      <3>3. QED
        BY <3>1, <3>2
    <2>4. QED
      BY <1>2, <2>1, <2>2, <2>3 DEF InOrder
  <1>17. QED
    BY <1>2, <1>4, <1>12, <1>13, <1>14, <1>15, <1>16 DEF FrameInv, GoodbyeUnheard

\* A frame is refused.
LEMMA RefuseFrames ==
    ASSUME QueueOK, FrameInv, NEW g \in Senders, EnqueueFails(g)
    PROVE  FrameInv'
  <1>1. /\ hand[g] # NoFrame
        /\ ReleaseHeld(g) \/ Repeat(g) \/ Finish(g)
        /\ UNCHANGED <<handler, ctxDone, lastSeq, outbound, writer>>
    BY DEF EnqueueFails, endVars, ioVars
  <1>2. HandsAfter(g)
    BY <1>1, AfterHands
  <1> USE DEF HandsAfter
  <1>3. \/ hand'[g] = NoFrame
        \/ /\ \A i \in 1..Len(outbound) : outbound[i].from = g => MayFollow(outbound[i], hand'[g])
           /\ writer.frame # NoFrame /\ writer.frame.from = g => MayFollow(writer.frame, hand'[g])
    <2>1. Len(outbound) \in Nat
      BY DEF QueueOK
    <2>2. QED
      BY <1>1, <2>1, AfterFrames
  <1>4. NumbersUnique'
    <2>1. \A x \in Under' : x \in Under \/ (x = hand'[g] /\ x # NoFrame)
      BY <1>1, <1>2 DEF Under
    <2>2. CASE hand'[g] = NoFrame
      BY <2>1, <2>2, SameUnique DEF FrameInv
    <2>3. CASE hand'[g] # NoFrame
      <3>1. PICK x \in Under : x \in Frames /\ hand'[g] = Late(x)
        BY <1>2, <2>3
      <3>2. Under' \subseteq Under \cup {Late(x)}
        BY <2>1, <3>1
      <3>3. QED
        BY <3>1, <3>2, UniqueCopy DEF FrameInv
    <2>4. QED
      BY <2>2, <2>3
  <1>5. Numbered' /\ GoodbyeLate'
    BY <1>1, <1>2 DEF FrameInv, Numbered, GoodbyeLate
  <1>6. HeldBack'
    BY <1>1, <1>2 DEF FrameInv, HeldBack
  <1>7. InOrder'
    <2>1. \A o \in Holding' : o = g \/ (o \in Holding /\ hand'[o] = hand[o])
      BY <1>2 DEF Holding
    <2>2. g \in Holding' => hand'[g] # NoFrame
      BY DEF Holding
    <2>3. QED
      BY <1>1, <1>3, <2>1, <2>2 DEF FrameInv, InOrder
  <1>8. QED
    BY <1>1, <1>2, <1>4, <1>5, <1>6, <1>7 DEF FrameInv, GoodbyeUnheard

\* The reverse fault keeps a delta back.
LEMMA HoldFrames ==
    ASSUME QueueOK, FrameInv, HoldDelta
    PROVE  FrameInv'
  <1> DEFINE f == hand["handler"]
  <1>0. NoFrame.seq = 0 /\ NoFrame.kind = "plain"
    BY DEF NoFrame
  <1>1. /\ f \in Frames /\ f.kind = "delta" /\ held' = f /\ hand'["handler"] = NoFrame
        /\ hand'["reader"] = hand["reader"]
        /\ UNCHANGED <<handler, ctxDone, lastSeq, outbound, writer>>
    BY DEF HoldDelta, QueueOK, endVars, ioVars, Senders
  <1>2. f # NoFrame /\ "handler" \in Holding /\ f \in Under /\ f.from = "handler"
    BY <1>0, <1>1 DEF Holding, Under, Senders, FrameInv, OwnHands
  <1>3. \A o \in Holding' : o = "reader" /\ o \in Holding /\ hand'[o] = hand[o]
    BY <1>1 DEF Holding, Senders
  <1>4. Late(f).seq = f.seq
    BY <1>1, LateFrame
  <1>5. /\ \A i \in 1..Len(outbound) : outbound[i].from = "handler" => MayFollow(outbound[i], f)
        /\ writer.frame # NoFrame /\ writer.frame.from = "handler" => MayFollow(writer.frame, f)
    BY <1>2 DEF FrameInv, InOrder
  <1>6. f.seq <= lastSeq
    BY DEF FrameInv, Numbered, Senders
  <1> HIDE DEF f
  <1>7. Under' \subseteq Under
    BY <1>1, <1>2, <1>3 DEF Under
  <1>8. NumbersUnique'
    BY <1>7, SameUnique DEF FrameInv
  <1>9. \A o \in Senders : hand'[o] \in {hand[o], NoFrame}
    BY <1>1 DEF Senders
  <1>10. Numbered'
    BY <1>0, <1>1, <1>6, <1>9, FrameTypes DEF FrameInv, Numbered
  <1>11. GoodbyeLate' /\ OwnHands'
    BY <1>0, <1>1, <1>9 DEF FrameInv, GoodbyeLate, OwnHands
  <1>12. HeldBack'
    BY <1>0, <1>1, <1>2, <1>4, <1>5 DEF FrameInv, HeldBack, MayFollow
  <1>13. InOrder'
    BY <1>1, <1>3 DEF FrameInv, InOrder
  <1>14. QED
    BY <1>1, <1>8, <1>10, <1>11, <1>12, <1>13 DEF FrameInv, GoodbyeUnheard

\* The writer takes the head of the queue.
LEMMA TakeFrames ==
    ASSUME QueueOK, FrameInv, WriterTake
    PROVE  FrameInv'
  <1>1. /\ UNCHANGED <<handler, ctxDone, lastSeq, hand, held>>
        /\ writer'.pc = "taken" /\ writer'.frame = outbound[1]
    BY DEF WriterTake, writerOnly, endVars, sendVars, QueueOK
  <1>2. /\ Len(outbound) \in Nat \ {0} /\ Len(outbound') = Len(outbound) - 1
        /\ \A i \in 1..Len(outbound') : outbound'[i] = outbound[i + 1]
    BY HeadTailProperties, EmptySeq DEF WriterTake, QueueOK
  <1>3. \A i \in 1..Len(outbound') : i + 1 \in 1..Len(outbound) /\ 1 < i + 1
    BY <1>2
  <1>4. 1 \in 1..Len(outbound)
    BY <1>2
  <1>5. Under' \subseteq Under
    <2>1. {outbound'[i] : i \in 1..Len(outbound')} \subseteq {outbound[i] : i \in 1..Len(outbound)}
      BY <1>2, <1>3
    <2>2. writer'.frame \in {outbound[i] : i \in 1..Len(outbound)}
      BY <1>1, <1>4
    <2>3. {hand'[g] : g \in Holding'} = {hand[g] : g \in Holding}
      BY <1>1 DEF Holding
    <2>4. QED
      BY <1>1, <2>1, <2>2, <2>3 DEF Under
  <1>6. NumbersUnique'
    BY <1>5, SameUnique DEF FrameInv
  <1>7. Numbered' /\ GoodbyeLate' /\ OwnHands' /\ HeldBack'
    BY <1>1, <1>2, <1>3, <1>4 DEF FrameInv, Numbered, GoodbyeLate, OwnHands, HeldBack
  <1>8. InOrder'
    <2>1. \A i, j \in 1..Len(outbound') :
            i < j /\ outbound'[i].from = outbound'[j].from => MayFollow(outbound'[i], outbound'[j])
      BY <1>2, <1>3 DEF FrameInv, InOrder
    <2>2. \A i \in 1..Len(outbound') :
            outbound[1].from = outbound'[i].from => MayFollow(outbound[1], outbound'[i])
      BY <1>2, <1>3, <1>4 DEF FrameInv, InOrder
    <2>3. QED
      BY <1>1, <1>2, <1>3, <1>4, <2>1, <2>2 DEF FrameInv, InOrder, Holding
  <1>9. QED
    BY <1>1, <1>6, <1>7, <1>8 DEF FrameInv, GoodbyeUnheard

\* The welcome frame is the first in an empty queue.
LEMMA StartFrames ==
    ASSUME QueueOK, FrameInv, Start
    PROVE  FrameInv'
  <1> DEFINE f == NextSeq("handler", "plain")
  <1>1. /\ f \in Frames /\ f # NoFrame /\ f.seq = lastSeq + 1 /\ f.kind = "plain" /\ f.from = "handler"
    BY StampedFrame DEF QueueOK, Senders, Kinds
  <1>2. /\ UNCHANGED <<ctxDone, hand, held>> /\ handler = "registered" /\ handler' = "loop"
        /\ lastSeq' = lastSeq + 1 /\ outbound' = <<f>>
        /\ writer'.pc = "idle" /\ writer'.frame = writer.frame
    BY DEF Start, handlerOnly, QueueOK
  <1> HIDE DEF f
  <1>3. Len(outbound') = 1 /\ outbound'[1] = f /\ \A i \in 1..Len(outbound') : i = 1
    BY <1>2
  <1>4. hand["handler"] = NoFrame
    BY <1>2 DEF FrameInv, OwnHands
  <1>5. Under' \subseteq Under \cup {f}
    BY <1>2, <1>3 DEF Under, Holding
  <1>6. NumbersUnique'
    BY <1>1, <1>5, FrameTypes, UniqueStep DEF FrameInv
  <1>7. Numbered' /\ GoodbyeLate' /\ OwnHands'
    BY <1>1, <1>2, <1>3, FrameTypes DEF FrameInv, Numbered, GoodbyeLate, OwnHands
  <1>8. HeldBack'
    <2>1. Late(held).kind = "late"
      BY FrameTypes, LateFrame
    <2>2. MayFollow(f, Late(held))
      BY <1>1, <2>1 DEF MayFollow
    <2>3. QED
      BY <1>1, <1>2, <1>3, <2>2 DEF FrameInv, HeldBack
  <1>9. InOrder'
    <2>1. MayFollow(writer.frame, f)
      BY <1>1, FrameTypes DEF FrameInv, Numbered, MayFollow
    <2>2. "handler" \notin Holding
      BY <1>4 DEF Holding
    <2>3. QED
      BY <1>1, <1>2, <1>3, <2>1, <2>2 DEF FrameInv, InOrder, Holding
  <1>10. QED
    BY <1>2, <1>6, <1>7, <1>8, <1>9 DEF FrameInv, GoodbyeUnheard

LEMMA InitFrames == Init => FrameInv
  <1> SUFFICES ASSUME Init PROVE FrameInv
    OBVIOUS
  <1>0. NoFrame.seq = 0 /\ NoFrame.kind = "plain"
    BY DEF NoFrame
  <1>1. Under = {}
    BY DEF Init, Under, Holding
  <1>2. NumbersUnique
    BY <1>1 DEF NumbersUnique, Under
  <1>3. Numbered /\ GoodbyeLate /\ OwnHands /\ HeldBack
    BY <1>0 DEF Init, Numbered, GoodbyeLate, OwnHands, HeldBack, Senders
  <1>4. InOrder
    BY DEF Init, InOrder, Holding
  <1>5. GoodbyeUnheard
    BY DEF Init, GoodbyeUnheard
  <1>6. QED
    BY <1>2, <1>3, <1>4, <1>5 DEF FrameInv

LEMMA NextFrames == QueueOK /\ ControlInv /\ FrameInv /\ [Next]_vars => FrameInv'
  <1> SUFFICES ASSUME QueueOK, ControlInv, FrameInv, [Next]_vars PROVE FrameInv'
    OBVIOUS
  <1>0. NoFrame.kind = "plain"
    BY DEF NoFrame
  <1>1. CASE Send
    <2>1. Head(todo) \in ToSend
      BY <1>1, HeadTailProperties DEF Send, QueueOK
    <2>2. /\ Stamp("handler", Head(todo)) /\ handler = "loop"
          /\ UNCHANGED <<outbound, writer, ctxDone, handler>>
      BY <1>1 DEF Send, ioVars, endVars
    <2>3. QED
      BY <2>1, <2>2, StampFrames DEF Senders, Kinds, ToSend
  <1>2. CASE ReadReply
    <2>1. /\ Stamp("reader", "plain")
          /\ UNCHANGED <<outbound, writer, ctxDone, handler>>
      BY <1>2 DEF ReadReply, readerOnly
    <2>2. QED
      BY <2>1, StampFrames DEF Senders, Kinds
  <1>3. CASE RecordEnd
    <2>1. /\ Stamp("handler", "goodbye") /\ handler = "ended" /\ handler' = "bye"
          /\ UNCHANGED <<outbound, writer, ctxDone>>
      BY <1>3 DEF RecordEnd, handlerOnly
    <2>2. ctxDone
      BY <2>1 DEF ControlInv, EndedByContext
    <2>3. QED
      BY <2>1, <2>2, StampFrames DEF Senders, Kinds
  <1>4. CASE Start
    BY <1>4, StartFrames
  <1>5. CASE WriterTake
    BY <1>5, TakeFrames
  <1>6. ASSUME NEW g \in Senders, EnqueueOk(g) \/ EnqueueFails(g) PROVE FrameInv'
    BY <1>6, EnqueueFrames, RefuseFrames
  <1>7. CASE WriteBegin
    <2>1. /\ UNCHANGED <<hand, held, lastSeq, outbound, handler, ctxDone>> /\ ~ctxDone
          /\ writer'.frame = writer.frame
      BY <1>7 DEF WriteBegin, writerOnly, sendVars, endVars, QueueOK
    <2>2. GoodbyeUnheard'
      BY <2>1 DEF FrameInv, GoodbyeLate, GoodbyeUnheard
    <2>3. QED
      BY <2>1, <2>2, QuietFrames
  <1>8. CASE Written \/ WriteFails
    <2>1. /\ UNCHANGED <<hand, held, lastSeq, outbound, handler>> /\ writer'.frame = NoFrame
          /\ ctxDone => ctxDone'
      <3>1. CASE Written
        BY <3>1 DEF Written, writerOnly, sendVars, endVars
      <3>2. CASE WriteFails
        <4>1. UNCHANGED <<hand, held, lastSeq, outbound, handler>> /\ writer'.frame = NoFrame
          BY <3>2 DEF WriteFails, writerOnly, sendVars
        <4>2. ctxDone' = (ctxDone \/ Started)
          BY <3>2, Zenon DEF WriteFails, Drop
        <4>3. QED
          BY <4>1, <4>2
      <3>3. QED
        BY <1>8, <3>1, <3>2
    <2>2. GoodbyeUnheard'
      BY <1>0, <2>1 DEF GoodbyeUnheard
    <2>3. QED
      BY <2>1, <2>2, QuietFrames
  <1>9. CASE WriterStop
    <2>1. /\ UNCHANGED <<hand, held, lastSeq, outbound, handler, ctxDone>>
          /\ writer'.pc = "stopped" /\ writer'.frame = writer.frame
      BY <1>9 DEF WriterStop, writerOnly, sendVars, endVars, QueueOK
    <2>2. QED
      BY <2>1, QuietFrames DEF GoodbyeUnheard
  <1>10. ASSUME UNCHANGED <<hand, held, lastSeq, outbound, writer>>, ctxDone => ctxDone',
                handler' \in {"dial", "registered"} => handler \in {"dial", "registered"}
         PROVE  FrameInv'
    <2>1. GoodbyeUnheard' /\ writer'.frame = writer.frame
      BY <1>10 DEF FrameInv, GoodbyeUnheard
    <2>2. QED
      BY <1>10, <2>1, QuietFrames
  <1>11. CASE HandleCommand \/ HandleEvent \/ Flush \/ Tick
    BY <1>10, <1>11 DEF HandleCommand, HandleEvent, Flush, Tick, Begin, sendVars, endVars
  <1>12. CASE ReaderTop \/ ReadCommand \/ ReplyDone \/ ReadFails \/ ReaderDrop \/ CloseOnCancel
    BY <1>10, <1>12 DEF ReaderTop, ReadCommand, ReplyDone, ReadFails, ReaderDrop, CloseOnCancel,
                        Drop, readerOnly, sendVars
  <1>13. CASE Register \/ LoopExit \/ Leave \/ Unregister
    BY <1>10, <1>13 DEF Register, LoopExit, Leave, Unregister, Drop, handlerOnly, sendVars
  <1>14. CASE DebugDrop \/ InjectCommand \/ CloseAll \/ DropListed \/ Await \/ Exit \/ ServeFails
    BY <1>10, <1>14 DEF DebugDrop, InjectCommand, CloseAll, DropListed, Await, Exit, ServeFails, Drop,
                        mainOnly, sendVars, endVars, ioVars
  <1>15. CASE UNCHANGED vars
    BY <1>10, <1>15 DEF vars, sendVars, endVars, ioVars
  <1>16. CASE HoldDelta
    BY <1>16, HoldFrames
  <1>17. QED
    BY <1>1, <1>2, <1>3, <1>4, <1>5, <1>6, <1>7, <1>8, <1>9, <1>11, <1>12, <1>13, <1>14, <1>15, <1>16
    DEF Next, Delivery, Reading, Writing, Lifecycle, Server

--------------------------------------------------------------------------------
(* Theorems. *)

IInv == QueueOK /\ ControlInv /\ FrameInv

LEMMA Invariance == Spec => []IInv
  <1>1. Init => IInv
    BY InitType, InitControl, InitFrames DEF IInv
  <1>2. IInv /\ [Next]_vars => IInv'
    BY NextQueue, NextControl, NextFrames DEF IInv
  <1>3. QED
    BY <1>1, <1>2, PTL DEF Spec

\* Along the pipe each goroutine's frames are in the order of their numbers.
LEMMA PipeOrdered == QueueOK /\ InOrder => SenderOrder
  <1> SUFFICES ASSUME QueueOK, InOrder PROVE SenderOrder
    OBVIOUS
  <1> DEFINE pipe == <<writer.frame>> \o outbound
  <1>1. /\ Len(pipe) = Len(outbound) + 1 /\ pipe[1] = writer.frame /\ Len(outbound) \in Nat
        /\ \A i \in 2..Len(pipe) : i - 1 \in 1..Len(outbound) /\ pipe[i] = outbound[i - 1]
    <2>1. <<writer.frame>> \in Seq(Frames) /\ Len(<<writer.frame>>) = 1 /\ <<writer.frame>>[1] = writer.frame
      BY DEF QueueOK
    <2>2. outbound \in Seq(Frames) /\ Len(outbound) \in Nat
      BY DEF QueueOK
    <2>3. /\ Len(pipe) = Len(<<writer.frame>>) + Len(outbound)
          /\ \A i \in 1..Len(<<writer.frame>>) + Len(outbound) :
                pipe[i] = IF i <= Len(<<writer.frame>>) THEN <<writer.frame>>[i]
                                                       ELSE outbound[i - Len(<<writer.frame>>)]
      BY <2>1, <2>2, ConcatProperties
    <2>4. QED
      BY <2>1, <2>2, <2>3
  <1> HIDE DEF pipe
  <1>2. \A i, j \in 1..Len(pipe) : i < j /\ pipe[i] # NoFrame /\ pipe[i].from = pipe[j].from
            => MayFollow(pipe[i], pipe[j])
    <2> SUFFICES ASSUME NEW i \in 1..Len(pipe), NEW j \in 1..Len(pipe), i < j, pipe[i] # NoFrame,
                        pipe[i].from = pipe[j].from
                 PROVE  MayFollow(pipe[i], pipe[j])
      OBVIOUS
    <2>1. j \in 2..Len(pipe)
      BY <1>1
    <2>2. CASE i = 1
      BY <1>1, <2>1, <2>2 DEF InOrder
    <2>3. CASE i # 1
      BY <1>1, <2>1, <2>3 DEF InOrder
    <2>4. QED
      BY <2>2, <2>3
  <1>3. \A g \in Holding, i \in 1..Len(pipe) : pipe[i] # NoFrame /\ pipe[i].from = g => MayFollow(pipe[i], hand[g])
    <2> SUFFICES ASSUME NEW g \in Holding, NEW i \in 1..Len(pipe), pipe[i] # NoFrame, pipe[i].from = g
                 PROVE  MayFollow(pipe[i], hand[g])
      OBVIOUS
    <2>1. CASE i = 1
      BY <1>1, <2>1 DEF InOrder
    <2>2. CASE i # 1
      BY <1>1, <2>2 DEF InOrder
    <2>3. QED
      BY <2>1, <2>2
  <1>4. QED
    BY <1>2, <1>3 DEF SenderOrder, pipe

\* Every variable keeps its type and both queues their capacity.
THEOREM SessionTyped == Spec => []TypeOK
  <1>1. IInv => TypeOK
    BY TypeParts DEF IInv, ControlInv
  <1>2. QED
    BY <1>1, Invariance, PTL

\* The delivery loop and the reader never give one number to two frames, and the
\* frames of each reach the socket in the order they were numbered, whatever deltas
\* the faults of flushBook hold back or repeat on the way (nextSeq, enqueue).
THEOREM HonestNumbers == Spec => []NumbersHonest
  <1>1. IInv => NumbersUnique /\ SenderOrder
    BY PipeOrdered DEF IInv, FrameInv
  <1>2. QED
    BY <1>1, SessionTyped, Invariance, PTL DEF NumbersHonest

\* No goodbye is ever written to the socket (Session.Run, writeLoop).
THEOREM NoGoodbye == Spec => []GoodbyeUnheard
  <1>1. IInv => GoodbyeUnheard
    BY DEF IInv, FrameInv
  <1>2. QED
    BY <1>1, Invariance, PTL

\* The recorded end of a session names a cause, and the reader's precise one only
\* when somebody else dropped the session too (Drop, recordSessionEnd).
THEOREM EndsExplained == Spec => []EndExplained
  <1>1. IInv => EndExplained
    BY DEF IInv, ControlInv
  <1>2. QED
    BY <1>1, Invariance, PTL

\* A shutdown that saw its sessions leave has recorded their ends (CloseAll).
THEOREM DrainRecords == Spec => []DrainedMeansRecorded
  <1>1. IInv => DrainedMeansRecorded
    BY DEF IInv, ControlInv, Recorded, DrainedMeansRecorded
  <1>2. QED
    BY <1>1, Invariance, PTL
================================================================================
