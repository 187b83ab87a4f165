---------------------------- MODULE MetricsDatabase ----------------------------
(***************************************************************************)
(* The durable half of the telemetry store: the SQLite file, its            *)
(* migrations, the transaction that writes a batch, the retention pass and  *)
(* the reads behind the diagnostics screen (metrics/sqlite/*.go and         *)
(* metrics/query.go), across crashes, power failures and restarts.          *)
(*                                                                          *)
(* Three tables stand for the ten: sessions, whose rows are inserted and    *)
(* later updated; samples, appended and pruned; candle closes, replaced     *)
(* and never pruned.  Every other table is written and pruned like samples. *)
(* The pool has one connection, so a statement or a transaction of the      *)
(* writer is one step; between two of them a reader may come in.            *)
(***************************************************************************)
EXTENDS Integers, SequencesExt

CONSTANTS
    Sessions,       \* sessions that may connect
    Starts,         \* start times of the candles a run of the market closes
    Ms,             \* clock ticks in the millisecond a timestamp is cut to
    KeepSamples,    \* Retention.Latency
    KeepSessions,   \* Retention.Sessions
    PruneBatch,     \* rows one DELETE may take
    QueueCap,       \* QueueCapacity
    MaxRange,       \* maxQueryRange, the longest range a read serves
    MaxSamples,     \* maxLatencySamples, the most rows a latency read returns
    MaxRecords,     \* bound: records produced
    MaxTime,        \* bound: the clock
    MaxFailures,    \* bound: migrations and DELETEs that fail
    MaxCrashes      \* bound: crashes and power failures

Nobody == "nobody"     \* the session of a database from before

ASSUME DatabaseAssumption ==
    /\ Nobody \notin Sessions
    /\ Ms \in Nat \ {0} /\ PruneBatch \in Nat \ {0} /\ QueueCap \in Nat \ {0}
    /\ MaxRange \in Nat \ {0} /\ MaxSamples \in Nat \ {0}
    /\ KeepSamples \in Nat \ {0} /\ KeepSessions \in Nat \ {0}
    /\ {MaxRecords, MaxTime, MaxFailures, MaxCrashes} \subseteq Nat

VARIABLES
    wal,            \* committed states of the file since the last checkpoint
    proc,           \* "down", "migrating" or "up"
    life,           \* each session: "new", "live" or "over"
    closing,        \* candles this run of the market has not closed yet
    queue, batch,   \* records in memory, and the batch in commit
    retried,        \* the batch has failed once
    pass,           \* the table the retention pass is at, "no" for none
    passAt, passOk, \* the pass's now, and whether no table has failed
    read,           \* a summary between its two reads
    now, issued,    \* the clock, and the records produced
    batches,        \* history: batches of several records handed to WriteBatch
    conflict,       \* history: a constraint refused a statement
    failures, crashes

memory == <<queue, batch, retried, pass, passAt, passOk, read>>
vars == <<wal, proc, life, closing, memory, now, issued, batches, conflict, failures, crashes>>

Migrations == 1..2
NoRead == [at |-> 0, counted |-> {}, pruned |-> FALSE]

(* --------------------------------- the file -------------------------------- *)

\* The committed state.  gone holds the numbers of records that are in effect but
\* no longer in a row: pruned, replaced, or an end that found no session.
db == Last(wal)

Empty == [schema |-> 0, recorded |-> {}, gone |-> {},
          sessions |-> [s \in {} |-> 0], samples |-> {}, closes |-> [c \in {} |-> 0]]

\* A file the first version wrote, where samples have a foreign key.
Old == [Empty EXCEPT !.schema = 1, !.recorded = {1},
                     !.sessions = [s \in {Nobody} |-> [start |-> 0, end |-> 0, at |-> 0]],
                     !.samples = {[no |-> 0, session |-> Nobody, at |-> 0]}]

\* A committed transaction that changed something.  The log is kept while the bound
\* leaves a power failure to come.
Commit(d) == wal' = IF d = db THEN wal ELSE IF crashes = MaxCrashes THEN <<d>> ELSE Append(wal, d)

\* encodeTime: fixed-width text with milliseconds, compared as text.
Encode(t) == t \div Ms

\* The numbers of the records that rows hold.
Rows(d) ==
    {d.sessions[s].start : s \in DOMAIN d.sessions} \cup {d.sessions[s].end : s \in DOMAIN d.sessions}
        \cup {r.no : r \in d.samples} \cup {d.closes[c] : c \in DOMAIN d.closes}

Present(d) == Rows(d) \cup d.gone

Init ==
    /\ wal \in {<<Empty>>, <<Old>>}
    /\ proc = "down" /\ life = [s \in Sessions |-> "new"] /\ closing = Starts
    /\ queue = <<>> /\ batch = <<>> /\ retried = FALSE
    /\ pass = "no" /\ passAt = 0 /\ passOk = TRUE /\ read = NoRead
    /\ now = 1 /\ issued = <<>> /\ batches = {} /\ conflict = FALSE
    /\ failures = 0 /\ crashes = 0

(* ------------------------------- opening it -------------------------------- *)

\* Open: the pragmas are set and the migrations read.
Open ==
    /\ proc = "down" /\ proc' = "migrating" /\ closing' = Starts
    /\ UNCHANGED <<wal, life, memory, now, issued, batches, conflict, failures, crashes>>

Pending == {v \in Migrations : v \notin db.recorded}

\* What a script leaves behind; the second rebuilds samples and copies the rows.
Script(v) == [db EXCEPT !.schema = v]

\* Mutant: the version is recorded by a statement of its own.
ApplyMigrationTwoSteps(v) ==
    IF db.schema = v - 1 THEN Commit(Script(v)) ELSE Commit([db EXCEPT !.recorded = @ \cup {v}])

\* applyMigration: the script and its record in one transaction.  A script cannot
\* run over its own tables.
ApplyMigration(v) ==
    /\ db.schema = v - 1
    /\ Commit([Script(v) EXCEPT !.recorded = @ \cup {v}])

\* migrate: pending versions in order, then the store is ready.
Migrate ==
    /\ proc = "migrating"
    /\ IF Pending # {}
       THEN ApplyMigration(Min(Pending)) /\ UNCHANGED proc
       ELSE UNCHANGED wal /\ proc' = "up"
    /\ UNCHANGED <<life, closing, memory, now, issued, batches, conflict, failures, crashes>>

\* A migration fails: Open gives up and closes the file.
MigrateFails ==
    /\ proc = "migrating" /\ Pending # {} /\ failures < MaxFailures
    /\ proc' = "down" /\ failures' = failures + 1
    /\ UNCHANGED <<wal, life, closing, memory, now, issued, batches, conflict, crashes>>

(* -------------------------------- producing -------------------------------- *)

\* Mutant: the queue has no end.
ProduceUnbounded(r) ==
    LET rec == [r EXCEPT !.no = Len(issued) + 1] IN
    /\ proc = "up" /\ Len(issued) < MaxRecords
    /\ issued' = Append(issued, rec) /\ queue' = Append(queue, rec)
    /\ UNCHANGED <<wal, proc, batch, retried, pass, passAt, passOk, read, now, batches, conflict,
                   failures, crashes>>

\* The record is queued; a full queue gives up its oldest.
Produce(r) ==
    LET rec == [r EXCEPT !.no = Len(issued) + 1] IN
    /\ proc = "up" /\ Len(issued) < MaxRecords
    /\ issued' = Append(issued, rec)
    /\ queue' = Append(IF Len(queue) = QueueCap THEN Tail(queue) ELSE queue, rec)
    /\ UNCHANGED <<wal, proc, batch, retried, pass, passAt, passOk, read, now, batches, conflict,
                   failures, crashes>>

Record(kind, who) == [no |-> 0, kind |-> kind, who |-> who, at |-> now]

RecordSessionStart(s) ==
    /\ life[s] = "new" /\ life' = [life EXCEPT ![s] = "live"]
    /\ Produce(Record("start", s)) /\ UNCHANGED closing

RecordLatency(s) == life[s] = "live" /\ Produce(Record("sample", s)) /\ UNCHANGED <<life, closing>>

RecordSessionEnd(s) ==
    /\ life[s] = "live" /\ life' = [life EXCEPT ![s] = "over"]
    /\ Produce(Record("end", s)) /\ UNCHANGED closing

\* A replayed market closes the same candles again after a restart.
RecordCandleClose(c) ==
    /\ c \in closing /\ closing' = closing \ {c}
    /\ Produce(Record("close", c)) /\ UNCHANGED life

(* --------------------------------- writing --------------------------------- *)

Of(b, kind) == {r \in Range(b) : r.kind = kind}

\* Rows with the new ones in place of those they replace.
Over(old, new) == [k \in DOMAIN old \cup DOMAIN new |-> IF k \in DOMAIN new THEN new[k] ELSE old[k]]

\* INSERT of the started sessions; an id that is there refuses the batch.
InsertStarts(d, b) ==
    LET starts == Of(b, "start")
        new == [s \in {r.who : r \in starts} |->
                    [start |-> (CHOOSE r \in starts : r.who = s).no, end |-> 0, at |-> 0]]
    IN  [d EXCEPT !.sessions = Over(@, new)]

\* UPDATE of the ended ones; an end without a row changes nothing.
UpdateEnds(d, b) ==
    LET ends == Of(b, "end")
        ended(s) == CHOOSE r \in ends : r.who = s
    IN  [d EXCEPT
            !.sessions = [s \in DOMAIN d.sessions |->
                IF \E r \in ends : r.who = s
                THEN [d.sessions[s] EXCEPT !.end = ended(s).no, !.at = Encode(ended(s).at)]
                ELSE d.sessions[s]],
            !.gone = @ \cup {r.no : r \in {e \in ends : e.who \notin DOMAIN d.sessions}}]

\* Mutant: the ends of a batch are written before its starts.
WriteSessionsEndsFirst(d, b) == InsertStarts(UpdateEnds(d, b), b)

\* writeSessions: every insert before any update.
WriteSessions(d, b) == UpdateEnds(InsertStarts(d, b), b)

WriteSamples(d, b) ==
    [d EXCEPT !.samples = @ \cup
        {[no |-> r.no, session |-> r.who, at |-> Encode(r.at)] : r \in Of(b, "sample")}]

\* INSERT OR REPLACE.
WriteCandleCloses(d, b) ==
    LET new == [c \in {r.who : r \in Of(b, "close")} |-> Max({r.no : r \in {e \in Of(b, "close") : e.who = c}})]
    IN  [d EXCEPT !.closes = Over(@, new),
                  !.gone = @ \cup {d.closes[c] : c \in DOMAIN d.closes \cap DOMAIN new}]

WriteAll(b) == WriteCandleCloses(WriteSamples(WriteSessions(db, b), b), b)

\* Mutant: a candle that is there refuses the batch.
ConflictsOnClose(b) == \E r \in Of(b, "close") : r.who \in DOMAIN db.closes

\* The constraints of the schema: the primary key of sessions and, before the
\* second migration, the foreign key of samples.
Conflicts(b) ==
    \/ \E r \in Of(b, "start") : r.who \in DOMAIN db.sessions
    \/ db.schema < 2 /\ \E r \in Of(b, "sample") : r.who \notin DOMAIN WriteSessions(db, b).sessions

\* takePending: the writer takes what is queued, in order.
TakePending ==
    /\ proc = "up" /\ batch = <<>> /\ pass = "no" /\ queue # <<>>
    /\ \E n \in 1..Len(queue) :
          /\ batch' = SubSeq(queue, 1, n) /\ queue' = SubSeq(queue, n + 1, Len(queue))
          /\ batches' = batches \cup (IF n > 1 THEN {{r.no : r \in Range(batch')}} ELSE {})
    /\ UNCHANGED <<wal, proc, life, closing, retried, pass, passAt, passOk, read, now, issued, conflict, failures, crashes>>

\* WriteBatch: one transaction for the whole batch.
WriteBatch ==
    /\ proc = "up" /\ batch # <<>> /\ ~Conflicts(batch)
    /\ Commit(WriteAll(batch)) /\ batch' = <<>> /\ retried' = FALSE
    /\ UNCHANGED <<proc, life, closing, queue, pass, passAt, passOk, read, now, issued, batches,
                   conflict, failures, crashes>>

\* Mutant: what was written before the failure stays.
RolledBackPartly == Commit(WriteSessions(db, batch))

\* Rollback.
RolledBack == UNCHANGED wal

\* A statement fails or is refused: roll back, try once more, give the batch up.
WriteFails ==
    /\ proc = "up" /\ batch # <<>>
    /\ conflict' = (conflict \/ Conflicts(batch))
    /\ RolledBack
    /\ retried' = ~retried /\ batch' = IF retried THEN <<>> ELSE batch
    /\ UNCHANGED <<proc, life, closing, queue, pass, passAt, passOk, read, now, issued, batches, failures, crashes>>

(* -------------------------------- retention -------------------------------- *)

\* Mutant: an open session counts as disconnected at time zero.
ExpiredSessionsOpen(t) == {s \in DOMAIN db.sessions : db.sessions[s].at < Encode(t - KeepSessions)}

\* Sessions go by the time they disconnected; an open one never does.
ExpiredSessions(t) ==
    {s \in DOMAIN db.sessions : db.sessions[s].end # 0 /\ db.sessions[s].at < Encode(t - KeepSessions)}

ExpiredSamples(t) == {r \in db.samples : r.at < Encode(t - KeepSamples)}

\* Prune begins, on the writer's goroutine between two batches.
StartPrune ==
    /\ proc = "up" /\ batch = <<>> /\ pass = "no" /\ now > passAt
    /\ pass' = "samples" /\ passAt' = now /\ passOk' = TRUE
    /\ UNCHANGED <<wal, proc, life, closing, queue, batch, retried, read, now, issued, batches, conflict,
                   failures, crashes>>

After(table) == IF table = "samples" THEN "sessions" ELSE "no"

\* Mutant: one DELETE per table.
MoreToPruneNever(deleted) == FALSE

\* pruneTable goes on while a DELETE took as many rows as it may.
MoreToPrune(deleted) == Cardinality(deleted) >= PruneBatch

\* LIMIT without an order: any PruneBatch of them.
Chunks(expired) == {part \in SUBSET expired : Cardinality(part) = Min({PruneBatch, Cardinality(expired)})}

\* One DELETE of pruneTable, committed by itself.
PruneTable ==
    /\ proc = "up"
    /\ \/ /\ pass = "samples"
          /\ \E part \in Chunks(ExpiredSamples(passAt)) :
                /\ Commit([db EXCEPT !.samples = @ \ part, !.gone = @ \cup {r.no : r \in part}])
                /\ pass' = IF MoreToPrune(part) THEN pass ELSE After(pass)
                /\ read' = [read EXCEPT !.pruned = read.at > 0 /\ (@ \/ part # {})]
       \/ /\ pass = "sessions"
          /\ \E part \in Chunks(ExpiredSessions(passAt)) :
                /\ Commit([db EXCEPT
                      !.sessions = [s \in DOMAIN @ \ part |-> @[s]],
                      !.gone = @ \cup UNION {{db.sessions[s].start, db.sessions[s].end} : s \in part}])
                /\ pass' = IF MoreToPrune(part) THEN pass ELSE After(pass)
                /\ UNCHANGED read
    /\ UNCHANGED <<proc, life, closing, queue, batch, retried, passAt, passOk, now, issued, batches, conflict,
                   failures, crashes>>

\* A DELETE fails: the pass goes on with the next table.
PruneFails ==
    /\ proc = "up" /\ pass # "no" /\ failures < MaxFailures
    /\ failures' = failures + 1 /\ pass' = After(pass) /\ passOk' = FALSE
    /\ UNCHANGED <<wal, proc, life, closing, queue, batch, retried, passAt, read, now, issued, batches,
                   conflict, crashes>>

\* Checkpoint: the log is copied into the file and synced.
Checkpoint ==
    /\ proc = "up" /\ batch = <<>> /\ pass = "no" /\ Len(wal) > 1
    /\ wal' = <<db>>
    /\ UNCHANGED <<proc, life, closing, memory, now, issued, batches, conflict, failures, crashes>>

(* --------------------------------- reading --------------------------------- *)

\* Mutant: a window ends before its last millisecond.
InWindowHalfOpen(from, to) == {r \in db.samples : Encode(from) <= r.at /\ r.at < Encode(to)}

\* The rows of a window, both ends included.
InWindow(from, to) == {r \in db.samples : Encode(from) <= r.at /\ r.at <= Encode(to)}

\* ORDER BY server_time ASC, id ASC LIMIT: ids count up in the order of the inserts,
\* which is the order of the records.
Oldest(rows, limit) ==
    {r \in rows : Cardinality({s \in rows : s.at < r.at \/ (s.at = r.at /\ s.no < r.no)}) < limit}

\* LatencySamples: the limit cuts the newest rows of the window off.
LatencySamples(from, to) == Oldest(InWindow(from, to), MaxSamples)

\* Summary counts the rows of a window, without a limit, and lists them with a later
\* statement.
SummaryStats ==
    /\ proc = "up" /\ read = NoRead
    /\ read' = [read EXCEPT !.at = now, !.counted = InWindow(now - KeepSamples, now)]
    /\ UNCHANGED <<wal, proc, life, closing, queue, batch, retried, pass, passAt, passOk, now, issued,
                   batches, conflict, failures, crashes>>

\* Mutant: the list covers the window up to its own now.
SummaryListLater == LatencySamples(now - KeepSamples, now)

SummaryList == LatencySamples(read.at - KeepSamples, read.at)

Summary ==
    /\ proc = "up" /\ read.at > 0
    /\ read' = NoRead
    /\ UNCHANGED <<wal, proc, life, closing, queue, batch, retried, pass, passAt, passOk, now, issued,
                   batches, conflict, failures, crashes>>

\* clampRange: a range that is too long keeps its end.
ClampRange(from, to) == IF to - from > MaxRange THEN to - MaxRange ELSE from

\* Mutant: the rows come oldest first, so the limit cuts the newest ones off.
NewestOldestFirst(rows, limit) == Oldest(rows, limit)

\* ORDER BY at DESC, id DESC LIMIT.
Newest(rows, limit) ==
    {r \in rows : Cardinality({s \in rows : s.at > r.at \/ (s.at = r.at /\ s.no > r.no)}) < limit}

TierTransitions(from, to, limit) == Newest(InWindow(ClampRange(from, to), to), limit)

DeliveryWindows(who, from, to, limit) ==
    Newest({r \in InWindow(ClampRange(from, to), to) : r.session = who}, limit)

\* Mutant: the buckets are counted from the start of the range itself.
BucketUnaligned(r, from, bucket) == from + ((r.at * Ms - from) \div bucket) * bucket

\* bucketLatency: the start of the bucket a stored sample is drawn in.  Buckets are
\* aligned below the range's start, and nothing goes before the first.
BucketOf(r, from, bucket) ==
    LET start == (from \div bucket) * bucket
        offset == IF r.at * Ms < start THEN 0 ELSE r.at * Ms - start
    IN  start + (offset \div bucket) * bucket

\* The buckets a series has, each with its samples.
LatencyBuckets(from, to, bucket) ==
    LET lo == ClampRange(from, to)
        rows == {r \in LatencySamples(lo, to) : to > lo}
    IN  [b \in {BucketOf(r, lo, bucket) : r \in rows} |->
            {r \in rows : BucketOf(r, lo, bucket) = b}]

(* ------------------------- time, crashes and restarts ---------------------- *)

Tick ==
    /\ now < MaxTime /\ now' = now + 1
    /\ UNCHANGED <<wal, proc, life, closing, memory, issued, batches, conflict, failures, crashes>>

\* Everything in memory goes, and the sessions with it.
Dies ==
    /\ proc' = "down" /\ queue' = <<>> /\ batch' = <<>> /\ retried' = FALSE
    /\ pass' = "no" /\ passOk' = TRUE /\ read' = NoRead
    /\ life' = [s \in Sessions |-> IF life[s] = "live" THEN "over" ELSE life[s]]
    /\ crashes < MaxCrashes /\ crashes' = crashes + 1
    /\ UNCHANGED <<passAt, closing, now, issued, batches, conflict, failures>>

\* The process is killed, or stops after its last drain: a transaction under way is
\* rolled back on the next open.
Crash == proc # "down" /\ Dies /\ UNCHANGED wal

\* The machine stops: with synchronous=NORMAL the log may lose its last transactions.
PowerLoss == proc # "down" /\ Dies /\ \E n \in 1..Len(wal) : wal' = <<wal[n]>>

Next ==
    \/ Open \/ Migrate \/ MigrateFails
    \/ \E s \in Sessions : RecordSessionStart(s) \/ RecordLatency(s) \/ RecordSessionEnd(s)
    \/ \E c \in Starts : RecordCandleClose(c)
    \/ TakePending \/ WriteBatch \/ WriteFails
    \/ StartPrune \/ PruneTable \/ PruneFails \/ Checkpoint
    \/ SummaryStats \/ Summary
    \/ Tick \/ Crash \/ PowerLoss

Spec == Init /\ [][Next]_vars

(* ------------------------------- properties -------------------------------- *)

\* Every variable keeps its type, and what waits in memory is bounded.
TypeOK ==
    /\ \A i \in DOMAIN wal :
          /\ wal[i].schema \in 0..2 /\ wal[i].recorded \subseteq Migrations
          /\ DOMAIN wal[i].sessions \subseteq Sessions \cup {Nobody}
          /\ DOMAIN wal[i].closes \subseteq Starts /\ wal[i].gone \subseteq 0..MaxRecords
    /\ proc \in {"down", "migrating", "up"} /\ life \in [Sessions -> {"new", "live", "over"}]
    /\ Range(queue) \cup Range(batch) \subseteq Range(issued) /\ Len(queue) <= QueueCap
    /\ pass \in {"no", "samples", "sessions"} /\ passAt \in 0..now
    /\ {retried, passOk, conflict, read.pruned} \subseteq BOOLEAN

\* A batch is in the file as a whole or not at all, whatever failed in it, whether it
\* was tried once or twice, and wherever a crash or a power failure cut the log.
AllOrNothing == \A b \in batches : Present(db) \cap b \in {{}, b}

\* A session that has ended reads as open only while its end is not in the file: an
\* end that was written never misses the row it closes, even when both are in one
\* batch.
OpenMeansUnwritten ==
    \A i \in DOMAIN issued :
        issued[i].kind = "end" /\ i \in Present(db) /\ issued[i].who \in DOMAIN db.sessions
            => db.sessions[issued[i].who].end = i

\* Whatever a crash or a failed migration left, the next migration can run, and the
\* store serves nobody before all of them have.
Openable ==
    /\ Pending # {} => db.schema = Min(Pending) - 1
    /\ proc = "up" => db.schema = 2

\* No constraint ever refuses a batch, so one record cannot take unrelated ones down
\* with it: not a sample whose session row was dropped, and not a candle closed again
\* by a replayed market.
ConflictFree == ~conflict

\* The limit cut row r off what a latency read returned.
CutOff(returned, r) == Cardinality(returned) = MaxSamples /\ \A s \in returned : s.no < r.no

\* A window returns every stored sample whose instant is in it, up to its last
\* millisecond, and nothing beyond it that is a millisecond away.  It leaves a sample
\* out only behind as many older ones as the limit allows.
WindowExact ==
    proc = "up" => \A r \in db.samples : r.no > 0 => \A from, to \in 1..now :
        LET at == issued[r.no].at
            rows == LatencySamples(from, to)
        IN  /\ from <= at /\ at <= to => r \in rows \/ CutOff(rows, r)
            /\ r \in rows => from - Ms < at /\ at < to + Ms

\* The samples a summary lists, whenever its second read comes, include those it
\* counted, though time passes and batches commit in between, unless the retention
\* pass took some or the limit cut them off behind older ones.
SummaryCovers ==
    read.at > 0 /\ ~read.pruned =>
        \A r \in read.counted : r \in SummaryList \/ CutOff(SummaryList, r)

\* Rows leave the file only by age: an open session and a candle close never do, and a
\* migration keeps what it finds.  Only a power failure may take newer rows back.
RowsOnlyExpire ==
    [][crashes' = crashes =>
          /\ \A s \in DOMAIN db.sessions \ DOMAIN db'.sessions :
                db.sessions[s].end # 0 /\ db.sessions[s].at < Encode(now - KeepSessions)
          /\ \A r \in db.samples \ db'.samples : r.at < Encode(now - KeepSamples)
          /\ DOMAIN db.closes \subseteq DOMAIN db'.closes]_vars

\* A retention pass in which no table failed leaves no expired row, however many
\* statements that takes.
CleanPass ==
    [][pass # "no" /\ pass' = "no" /\ passOk' /\ crashes' = crashes =>
          (ExpiredSamples(passAt) = {})' /\ (ExpiredSessions(passAt) = {})']_vars

\* What the file holds after failures and crashes is a sequence of whole batches,
\* with ended sessions closed, and no batch was refused for one of its records.
Durable == TypeOK /\ AllOrNothing /\ OpenMeansUnwritten /\ ConflictFree

\* A page up to now lists the newest rows of its range, of one session or of all: a row it
\* leaves out is older than every row it lists, also among rows of one millisecond,
\* and it leaves rows out only when it is full.
PageNewest ==
    proc = "up" => \A r, s \in db.samples : r.no < s.no =>
        \A from \in 1..now, limit \in 1..2 :
            LET all == InWindow(ClampRange(from, now), now)
                page == TierTransitions(from, now, limit)
                own == DeliveryWindows(s.session, from, now, limit)
            IN  /\ r \in page /\ s \in all => s \in page
                /\ r \in own /\ s \in all => s \in own
                /\ r \in all \ page => Cardinality(page) = limit

\* With the finest bucket, a millisecond, every sample of a series up to now is drawn
\* in the bucket of its stored instant, and buckets of two series do not straddle.
BucketsPartition ==
    proc = "up" /\ db.samples # {} =>
        \A from \in 1..now :
            LET series == LatencyBuckets(from, now, Ms)
            IN  \A b \in DOMAIN series : \A r \in series[b] :
                    b % Ms = 0 /\ b <= r.at * Ms /\ r.at * Ms < b + Ms

\* Queries return what is stored: windows are exact to the millisecond and a summary
\* lists what it counted, both up to the limit, pages hold the newest rows and a series
\* draws each sample it read in one bucket.
ReadsExact == WindowExact /\ SummaryCovers /\ PageNewest /\ BucketsPartition

\* Retention deletes every expired row and nothing else.
RetentionExact == RowsOnlyExpire /\ CleanPass
=============================================================================
