------------------------------ MODULE MetricsStore -----------------------------
(***************************************************************************)
(* The telemetry store: producers on the market and delivery loops that    *)
(* must never wait (metrics/recorder.go), the ring that takes their        *)
(* records (metrics/queue.go), the one writer goroutine that batches them  *)
(* into transactions (metrics/writer.go), and the callers of Flush and     *)
(* Close.                                                                  *)
(*                                                                         *)
(* A record is known by the number of its push.  What the tables do with a *)
(* batch is out of scope: a transaction commits as a whole or fails.       *)
(***************************************************************************)
EXTENDS Integers, Sequences, FiniteSets

CONSTANTS
    Producers,     \* goroutines that record
    Flushers,      \* goroutines that call Flush, once each: a bound
    Closer,        \* the goroutine that calls Close
    Capacity,      \* slots of the ring
    BatchSize,     \* records that make a full transaction
    MaxDrain,      \* maxDrainPerBatch
    MaxRecords     \* records offered to the store: a bound

\* Stands for the caller of a drain that the timer started.
None == "none"

ASSUME StoreAssumption ==
    /\ Closer \notin Flushers /\ None \notin Flushers \cup {Closer}
    /\ Capacity \in Nat \ {0} /\ BatchSize \in Nat \ {0}
    /\ MaxDrain \in Nat \ {0}
    /\ MaxRecords \in Nat

VARIABLES
    buf, head, count,   \* recordQueue; zero is an empty slot
    closed, dropped,    \* Store.closed and Store.dropped
    prod,               \* where each producer is in enqueue
    wpc, pending,       \* the writer, and batchWriter.pending
    batch, back,        \* the batch in commit, and where commit returns to
    serving,            \* the caller a drain is for, or "none" for the timer
    written, failure,   \* locals of drain and finish
    degraded,           \* Store.writeErr is set
    stopped, repoOpen,  \* bgCancel was called; the database is open
    call, expired,      \* callers of flush, and the contexts that ran out
    pushed, lost, refused,   \* history: records pushed, pushed out, turned away
    persisted, failed,       \* history: rows in the tables; rows given up
    mark                     \* history: records pushed before each call

ring == <<buf, head, count>>
writer == <<wpc, pending, batch, back, serving, written, failure, degraded, persisted, failed>>
callers == <<closed, stopped, repoOpen, call, expired, mark>>
vars == <<ring, dropped, prod, writer, callers, pushed, lost, refused>>

Callers == Flushers \cup {Closer}
Slots == 0 .. Capacity - 1
Least(i, j) == IF i < j THEN i ELSE j

\* The records in the ring, oldest first.
Contents == [i \in 1..count |-> buf[(head + i - 1) % Capacity]]

\* The records of a sequence.
Rows(s) == {s[i] : i \in DOMAIN s}

--------------------------------------------------------------------------------

\* Open, with the writer started.
Init ==
    /\ buf = [s \in Slots |-> 0] /\ head = 0 /\ count = 0
    /\ closed = FALSE /\ dropped = 0 /\ prod = [p \in Producers |-> "idle"]
    /\ wpc = "pull" /\ pending = <<>> /\ batch = <<>> /\ back = "pull"
    /\ serving = None /\ written = 0 /\ failure = FALSE /\ degraded = FALSE
    /\ stopped = FALSE /\ repoOpen = TRUE
    /\ call = [c \in Callers |-> "idle"] /\ expired = {}
    /\ pushed = 0 /\ lost = {} /\ refused = 0
    /\ persisted = <<>> /\ failed = {} /\ mark = [c \in Callers |-> 0]

--------------------------------------------------------------------------------
(* Producers: enqueue looks at closed, pushes, and counts a loss afterwards. *)

Offered == pushed + refused + Cardinality({p \in Producers : prod[p] = "open"})

\* enqueue up to the push: a closed store turns the record away and counts it.
Enqueue(p) ==
    /\ prod[p] = "idle" /\ Offered < MaxRecords
    /\ IF closed
       THEN dropped' = dropped + 1 /\ refused' = refused + 1 /\ UNCHANGED prod
       ELSE prod' = [prod EXCEPT ![p] = "open"] /\ UNCHANGED <<dropped, refused>>
    /\ UNCHANGED <<ring, writer, callers, pushed, lost>>

\* Mutant: the new record overwrites the oldest slot but the head stays.
PushHeadStays(p) ==
    /\ prod[p] = "open"
    /\ buf' = [buf EXCEPT ![(head + count) % Capacity] = pushed + 1]
    /\ count' = Least(count + 1, Capacity) /\ UNCHANGED head
    /\ lost' = IF count = Capacity THEN lost \cup {buf[head]} ELSE lost
    /\ prod' = [prod EXCEPT ![p] = IF count = Capacity THEN "counting" ELSE "idle"]
    /\ pushed' = pushed + 1
    /\ UNCHANGED <<dropped, writer, callers, refused>>

\* recordQueue.push: a full ring gives up its oldest record.
Push(p) ==
    LET full == count = Capacity
        first == IF full THEN (head + 1) % Capacity ELSE head
        size == IF full THEN count - 1 ELSE count
    IN
    /\ prod[p] = "open"
    /\ buf' = [buf EXCEPT ![(first + size) % Capacity] = pushed + 1]
    /\ head' = first /\ count' = size + 1
    /\ lost' = IF full THEN lost \cup {buf[head]} ELSE lost
    /\ prod' = [prod EXCEPT ![p] = IF full THEN "counting" ELSE "idle"]
    /\ pushed' = pushed + 1
    /\ UNCHANGED <<dropped, writer, callers, refused>>

\* Mutant: two producers read the counter before either adds to it.
NoteDropOnce(p) ==
    /\ prod[p] = "counting"
    /\ prod' = [q \in Producers |-> IF prod[q] = "counting" THEN "idle" ELSE prod[q]]
    /\ dropped' = dropped + 1
    /\ UNCHANGED <<ring, writer, callers, pushed, lost, refused>>

\* noteDrop, after the lock of the ring is gone.
NoteDrop(p) ==
    /\ prod[p] = "counting"
    /\ prod' = [prod EXCEPT ![p] = "idle"]
    /\ dropped' = dropped + 1
    /\ UNCHANGED <<ring, writer, callers, pushed, lost, refused>>

--------------------------------------------------------------------------------
(* The writer goroutine. *)

aside == <<dropped, prod, pushed, lost, refused>>

\* What pull makes of the pending records s.
Pulled(s) == s \o SubSeq(Contents, 1, Least(count, MaxDrain))

\* Mutant: the slots that were read keep their records.
PullRingKeepsSlots ==
    LET n == Least(count, MaxDrain) IN
    head' = (head + n) % Capacity /\ count' = count - n /\ UNCHANGED buf

\* recordQueue.Drain of up to MaxDrain records.
PullRing ==
    LET n == Least(count, MaxDrain) IN
    /\ buf' = [s \in Slots |-> IF (s - head) % Capacity < n THEN 0 ELSE buf[s]]
    /\ head' = (head + n) % Capacity /\ count' = count - n

\* The head of the loop: pull before anything else.
Pull ==
    /\ wpc = "pull"
    /\ PullRing /\ pending' = Pulled(pending) /\ wpc' = "poll"
    /\ UNCHANGED <<batch, back, serving, written, failure, degraded, persisted, failed, callers, aside>>

\* A drain begins, for caller c or for nobody.
StartDrain(c) ==
    /\ wpc' = "drain" /\ serving' = c /\ written' = 0 /\ failure' = FALSE
    /\ UNCHANGED <<pending, batch, back, degraded, persisted, failed>>

\* A flush request is taken: polled for first, and waited for with the rest.
TakeRequest(c) ==
    /\ wpc \in {"poll", "wait"} /\ call[c] = "sending"
    /\ StartDrain(c)
    /\ call' = [call EXCEPT ![c] = "waiting"]
    /\ UNCHANGED <<ring, closed, stopped, repoOpen, expired, mark, aside>>

\* Nobody asked for a flush: a full batch is written, or the writer waits.
PollNone ==
    /\ wpc = "poll" /\ \A c \in Callers : call[c] # "sending"
    /\ IF Len(pending) >= BatchSize
       THEN StartDrain(None)
       ELSE wpc' = "wait" /\ UNCHANGED <<pending, batch, back, serving, written, failure, degraded, persisted, failed>>
    /\ UNCHANGED <<ring, callers, aside>>

\* The flush interval has passed.
FlushTimer ==
    /\ wpc = "wait"
    /\ StartDrain(None)
    /\ UNCHANGED <<ring, callers, aside>>

\* Pruning and checkpoints leave the stream of records alone.
Housekeep ==
    /\ wpc = "wait"
    /\ wpc' = "pull"
    /\ UNCHANGED <<ring, pending, batch, back, serving, written, failure, degraded, persisted, failed, callers, aside>>

\* Mutant: taking a batch empties the whole list.
CommitForgets(s, n, return) ==
    /\ batch' = SubSeq(s, 1, n) /\ pending' = <<>>
    /\ wpc' = "write" /\ back' = return
    /\ UNCHANGED <<serving, failure, degraded, persisted, failed>>

\* commit is entered with the first n records of s; the rest stays pending.
Commit(s, n, return) ==
    /\ batch' = SubSeq(s, 1, n) /\ pending' = SubSeq(s, n + 1, Len(s))
    /\ wpc' = "write" /\ back' = return
    /\ UNCHANGED <<serving, failure, degraded, persisted, failed>>

\* drain: full batches first.
DrainBatch ==
    /\ wpc = "drain" /\ Len(pending) >= BatchSize
    /\ Commit(pending, BatchSize, "drain") /\ written' = written + BatchSize
    /\ UNCHANGED <<ring, callers, aside>>

\* Mutant: a flush does not look at the ring again.
DrainMoreNever ==
    /\ wpc = "drain" /\ Len(pending) < BatchSize
    /\ wpc' = "rest"
    /\ UNCHANGED <<ring, pending, batch, back, serving, written, failure, degraded, persisted, failed, callers, aside>>

\* Then, for a flush, whatever the ring has got since, until it is empty, the
\* caller's context has run out or enough was written.
DrainMore ==
    /\ wpc = "drain" /\ Len(pending) < BatchSize
    /\ IF serving = None
       THEN wpc' = "rest" /\ UNCHANGED <<ring, pending>>
       ELSE /\ PullRing /\ pending' = Pulled(pending)
            /\ wpc' = IF count = 0 \/ serving \in expired \/ written >= MaxDrain THEN "rest" ELSE "drain"
    /\ UNCHANGED <<batch, back, serving, written, failure, degraded, persisted, failed, callers, aside>>

\* Mutant: the timer leaves a short batch for the next one.
DrainRestFullOnly ==
    /\ wpc = "rest"
    /\ IF pending = <<>> \/ serving = None
       THEN wpc' = "answer" /\ UNCHANGED <<pending, batch, back, serving, failure, degraded, persisted, failed>>
       ELSE Commit(pending, Len(pending), "answer")
    /\ UNCHANGED <<ring, written, callers, aside>>

\* What is left is written as one batch, however short or long.
DrainRest ==
    /\ wpc = "rest"
    /\ IF pending = <<>>
       THEN wpc' = "answer" /\ UNCHANGED <<pending, batch, back, serving, failure, degraded, persisted, failed>>
       ELSE Commit(pending, Len(pending), "answer")
    /\ UNCHANGED <<ring, written, callers, aside>>

\* The answer goes into a channel with room for it, the locals of drain are
\* gone, and the loop starts over.
Answer ==
    /\ wpc = "answer" /\ wpc' = "pull"
    /\ serving' = None /\ written' = 0 /\ failure' = FALSE /\ back' = "pull"
    /\ call' = [c \in Callers |->
                  IF c = serving /\ call[c] = "waiting" THEN IF failure THEN "failed" ELSE "done" ELSE call[c]]
    /\ UNCHANGED <<ring, pending, batch, degraded, persisted, failed,
                   closed, stopped, repoOpen, expired, mark, aside>>

\* Mutant: a batch that commits leaves the store degraded.
WriteOkStaysDegraded ==
    /\ wpc \in {"write", "retry"} /\ repoOpen
    /\ persisted' = persisted \o batch /\ wpc' = back /\ batch' = <<>>
    /\ UNCHANGED <<ring, pending, back, serving, written, failure, degraded, failed, callers, aside>>

\* WriteBatch commits, at the first or the second attempt.
WriteOk ==
    /\ wpc \in {"write", "retry"} /\ repoOpen
    /\ persisted' = persisted \o batch /\ degraded' = FALSE /\ wpc' = back /\ batch' = <<>>
    /\ UNCHANGED <<ring, pending, back, serving, written, failure, failed, callers, aside>>

\* Mutant: the failed batch is put behind what is pending.
WriteFailsRequeue ==
    /\ wpc = "write"
    /\ pending' = pending \o batch /\ batch' = <<>> /\ wpc' = back
    /\ UNCHANGED <<ring, back, serving, written, failure, degraded, persisted, failed, callers, aside>>

\* WriteBatch fails for the first time; the retry follows after a pause.
WriteFails ==
    /\ wpc = "write"
    /\ wpc' = "retry"
    /\ UNCHANGED <<ring, pending, batch, back, serving, written, failure, degraded, persisted, failed, callers, aside>>

\* It fails again: the batch is given up, and the final drain with it.
RetryFails ==
    /\ wpc = "retry"
    /\ failed' = failed \cup Rows(batch) /\ degraded' = TRUE /\ failure' = TRUE /\ batch' = <<>>
    /\ wpc' = IF back = "finish" THEN "done" ELSE back
    /\ UNCHANGED <<ring, pending, back, serving, written, persisted, callers, aside>>

\* The context of the loop is cancelled.
Stop ==
    /\ wpc = "wait" /\ stopped
    /\ wpc' = "finish" /\ written' = 0
    /\ UNCHANGED <<ring, pending, batch, back, serving, failure, degraded, persisted, failed, callers, aside>>

\* finish: everything there is, again and again, until nothing is left.
Finish ==
    /\ wpc = "finish" /\ written < MaxDrain
    /\ PullRing
    /\ IF Pulled(pending) = <<>>
       THEN wpc' = "done" /\ UNCHANGED <<pending, batch, back, serving, written, failure, degraded, persisted, failed>>
       ELSE Commit(Pulled(pending), Len(Pulled(pending)), "finish") /\ written' = written + Len(Pulled(pending))
    /\ UNCHANGED <<callers, aside>>

\* The three seconds of finish are over, or it has written enough.
FinishEnds ==
    /\ wpc = "finish" /\ written > 0
    /\ wpc' = "done"
    /\ UNCHANGED <<ring, pending, batch, back, serving, written, failure, degraded, persisted, failed, callers, aside>>

Writer ==
    \/ Pull \/ PollNone \/ FlushTimer \/ Housekeep
    \/ DrainBatch \/ DrainMore \/ DrainRest \/ Answer
    \/ WriteOk \/ WriteFails \/ RetryFails
    \/ Stop \/ Finish \/ FinishEnds
    \/ \E c \in Callers : TakeRequest(c)

--------------------------------------------------------------------------------
(* Callers of Flush and Close. *)

rest == <<ring, writer, aside>>

\* batchWriter.flush: the request is offered to the writer.
Offer(c) ==
    /\ call' = [call EXCEPT ![c] = "sending"]
    /\ mark' = [mark EXCEPT ![c] = pushed]

\* Store.Flush.
Flush(c) ==
    /\ call[c] = "idle"
    /\ Offer(c)
    /\ UNCHANGED <<closed, stopped, repoOpen, expired, rest>>

\* Store.Close: closed for producers first, then the flush.
Close ==
    /\ call[Closer] = "idle"
    /\ closed' = TRUE /\ Offer(Closer)
    /\ UNCHANGED <<stopped, repoOpen, expired, rest>>

\* Close after its flush, whatever the answer: the writer is told to stop.
CloseStop ==
    /\ call[Closer] \in {"ok", "error"} /\ ~stopped
    /\ stopped' = TRUE
    /\ UNCHANGED <<closed, repoOpen, call, expired, mark, rest>>

\* Mutant: Close does not wait for the writer.
CloseRepoAtOnce ==
    /\ stopped /\ repoOpen
    /\ repoOpen' = FALSE
    /\ UNCHANGED <<closed, stopped, call, expired, mark, rest>>

\* Close waits for the writer and closes the database.
CloseRepo ==
    /\ stopped /\ repoOpen /\ wpc = "done"
    /\ repoOpen' = FALSE
    /\ UNCHANGED <<closed, stopped, call, expired, mark, rest>>

Asking == {"sending", "waiting", "failed", "done"}

\* The caller finds the answer of the writer in its channel.
Receive(c) ==
    /\ call[c] \in {"failed", "done"}
    /\ call' = [call EXCEPT ![c] = IF call[c] = "failed" THEN "error" ELSE "ok"]
    /\ UNCHANGED <<closed, stopped, repoOpen, expired, mark, rest>>

\* A context runs out, and its caller may give up, an answer waiting or not.
Expire(c) ==
    /\ call[c] \in Asking /\ c \notin expired
    /\ expired' = expired \cup {c}
    /\ UNCHANGED <<closed, stopped, repoOpen, call, mark, rest>>

GiveUp(c) ==
    /\ call[c] \in Asking /\ c \in expired
    /\ call' = [call EXCEPT ![c] = "error"]
    /\ UNCHANGED <<closed, stopped, repoOpen, expired, mark, rest>>

\* Mutant: a caller whose request nobody will take keeps waiting.
WriterGoneIgnored(c) == FALSE /\ UNCHANGED vars

\* The writer has ended: the caller is told that all is well, even if an answer
\* that says otherwise is ready too.
WriterGone(c) ==
    /\ call[c] \in Asking /\ wpc = "done"
    /\ call' = [call EXCEPT ![c] = "ok"]
    /\ UNCHANGED <<closed, stopped, repoOpen, expired, mark, rest>>

Caller == Close \/ CloseStop \/ CloseRepo
Next ==
    \/ \E p \in Producers : Enqueue(p) \/ Push(p) \/ NoteDrop(p)
    \/ Writer \/ Caller
    \/ \E c \in Flushers : Flush(c)
    \/ \E c \in Callers : Receive(c) \/ Expire(c) \/ GiveUp(c) \/ WriterGone(c)

Spec == Init /\ [][Next]_vars

\* Goroutines that can go on do.  The select of the loop picks at random among
\* what is ready, so the timer and the cancellation cannot be passed over for
\* ever.  No context has to run out.
FairSpec ==
    /\ Spec
    /\ WF_vars(Writer) /\ SF_vars(FlushTimer) /\ SF_vars(Stop)
    /\ WF_vars(CloseStop) /\ WF_vars(CloseRepo)
    /\ \A c \in Callers : WF_vars(Receive(c)) /\ WF_vars(WriterGone(c))

--------------------------------------------------------------------------------
(* Properties. *)

\* Shapes of the variables; the ring never holds more than its capacity and a
\* slot outside it is empty, so no record is kept alive by a slot already read.
TypeOK ==
    /\ buf \in [Slots -> 0..MaxRecords] /\ head \in Slots /\ count \in 0..Capacity
    /\ \A s \in Slots : buf[s] # 0 <=> (s - head) % Capacity < count
    /\ prod \in [Producers -> {"idle", "open", "counting"}]
    /\ wpc \in {"pull", "poll", "wait", "drain", "rest", "write", "retry", "answer", "finish", "done"}
    /\ pending \in Seq(1..MaxRecords) /\ batch \in Seq(1..MaxRecords)
    /\ back \in {"pull", "drain", "answer", "finish"} /\ serving \in Callers \cup {None}
    /\ closed \in BOOLEAN /\ stopped \in BOOLEAN /\ repoOpen \in BOOLEAN
    /\ failure \in BOOLEAN /\ degraded \in BOOLEAN
    /\ call \in [Callers -> {"idle", "ok", "error"} \cup Asking] /\ expired \subseteq Callers

\* What became of a record for good.
Settled(i) == i \in Rows(persisted) \/ i \in failed \/ i \in lost

\* Rows reach the tables in the order they were recorded, each at most once, and
\* what is on its way is newer than what is there: a session's row never follows
\* the samples that refer to it, whatever batch, retry or drain carried them.
OrderKept ==
    LET stream == persisted \o batch \o pending \o Contents
    IN  \A i, j \in DOMAIN stream : i < j => stream[i] < stream[j]

\* Every record pushed is on its way or settled, in one way only.
NothingVanishes ==
    /\ 1..pushed = Rows(persisted) \cup Rows(batch) \cup Rows(pending) \cup Rows(Contents) \cup failed \cup lost
    /\ failed \cap lost = {} /\ (failed \cup lost) \cap Rows(persisted \o batch \o pending \o Contents) = {}

\* Loss is never silent: the counter is the number of records pushed out or
\* turned away, but for the producers that are about to count theirs.
DropsCounted ==
    dropped + Cardinality({p \in Producers : prod[p] = "counting"}) = Cardinality(lost) + refused

\* The store reports itself degraded exactly when its newest batch was given up.
HealthShowsLoss ==
    degraded <=> \E i \in failed : \A j \in Rows(persisted) : j < i

\* After Flush returns without a timeout, to a caller whose request the writer
\* took, every record queued before the call is committed, or counted as a failure
\* or as dropped, as long as one pull can empty the ring (a capacity of at most
\* MaxDrain, as by default).
FlushHonest ==
    [][\A c \in Callers : call[c] \in Asking \ {"sending"} /\ c \notin expired /\ call'[c] \in {"ok", "error"} =>
        \A i \in 1..mark[c] : Settled(i)]_vars

\* The database is closed after the last write, so no batch fails for it.
RepoOutlivesWriter == ~repoOpen => wpc = "done"

\* The ring with its head and its count is a queue that drops its oldest record.
Fifo == INSTANCE DropOldestQueue WITH Records <- 1..MaxRecords, queue <- Contents
RingIsFifo == Fifo!Spec

\* The flush interval bounds how long a record waits: while the store is open,
\* what was recorded gets to the tables or is given up and counted.
RecordsSettle == \A i \in 1..MaxRecords : (pushed >= i) ~> (Settled(i) \/ closed)

\* Close ends and so does every Flush, even if no context ever runs out and the
\* writer ends while callers still offer their requests.
CallersReturn ==
    /\ closed ~> ~repoOpen
    /\ \A c \in Callers : (call[c] # "idle") ~> (call[c] \in {"ok", "error"})

\* What the recorder says of its methods: each is a promise that the record is
\* durable or counted as lost, so the writer leaves none behind.
NothingStranded == wpc = "done" => count = 0

\* Rows are written in order and once, to a database that is still open, and ring,
\* batch and callers stay within their types.
WritesSound == TypeOK /\ OrderKept /\ RepoOutlivesWriter

\* Every record is accounted for, the drop counter tells the truth, and the health
\* of the store shows a batch that was given up.
LossVisible == NothingVanishes /\ DropsCounted /\ HealthShowsLoss
================================================================================
