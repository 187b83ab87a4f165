------------------------- MODULE MetricsDatabaseProofs -------------------------
(***************************************************************************)
(* Proofs about MetricsDatabase, for every set of sessions and candles,    *)
(* every retention, queue capacity, chunk size and time resolution, and    *)
(* any number of records, failures, crashes and power failures.            *)
(***************************************************************************)
EXTENDS MetricsDatabase, SequenceTheorems, FiniteSetTheorems, WellFoundedInduction, TLAPS

--------------------------------------------------------------------------------
(* The inductive invariant.  Everything in the file goes back to a record that *)
(* was issued, and everything in memory is newer than everything in the file.  *)

Who == Sessions \cup {Nobody}
Row == [start : Nat, end : Nat, at : Int]
Sample == [no : Nat, session : Who, at : Int]
Databases ==
    [schema : 0..2, recorded : SUBSET Migrations, gone : SUBSET Nat,
     sessions : UNION {[D -> Row] : D \in SUBSET Who},
     samples : SUBSET Sample, closes : UNION {[D -> Nat] : D \in SUBSET Starts}]
Records ==
    [no : Nat, kind : {"start", "sample", "end", "close"}, who : Sessions \cup Starts, at : Nat]

\* The schema is what the recorded migrations make it.
Versioned(d) ==
    \/ d.schema = 0 /\ d.recorded = {}
    \/ d.schema = 1 /\ d.recorded = {1}
    \/ d.schema = 2 /\ d.recorded = {1, 2}

\* A number of a record of this kind that concerns k.
Cites(iss, n, kind, k) == n \in 1..Len(iss) /\ iss[n].kind = kind /\ iss[n].who = k

\* Each row goes back to the record that made it.
RowsTrue(d, iss) ==
    /\ \A s \in DOMAIN d.sessions :
          /\ IF s = Nobody THEN d.sessions[s].start = 0 ELSE Cites(iss, d.sessions[s].start, "start", s)
          /\ d.sessions[s].end # 0 => Cites(iss, d.sessions[s].end, "end", s)
    /\ \A r \in d.samples :
          IF r.no = 0 THEN r.session = Nobody /\ r.at = 0
          ELSE Cites(iss, r.no, "sample", r.session) /\ r.at = Encode(iss[r.no].at)
    /\ \A c \in DOMAIN d.closes : Cites(iss, d.closes[c], "close", c)
    /\ d.gone \subseteq 0..Len(iss)

\* An end in the file has closed its row, if the row is there.
EndsTrue(d, iss) ==
    \A n \in 1..Len(iss) :
        iss[n].kind = "end" /\ n \in Present(d) /\ iss[n].who \in DOMAIN d.sessions
            => d.sessions[iss[n].who].end = n

\* A batch is in the file or not.
Whole(d, bs) == \A b \in bs : Present(d) \cap b = {} \/ b \subseteq Present(d)

\* The file after any number of transactions.
FileTrue(d, iss) ==
    Versioned(d) /\ RowsTrue(d, iss) /\ EndsTrue(d, iss)
Files(iss, bs) == {d \in Databases : FileTrue(d, iss) /\ Whole(d, bs)}

\* The records: numbered, in the order of time, one start and one end of a session.
Lawful(iss) ==
    /\ iss \in Seq(Records)
    /\ \A i \in 1..Len(iss) :
          iss[i].no = i /\ (IF iss[i].kind = "close" THEN iss[i].who \in Starts ELSE iss[i].who \in Sessions)
    /\ \A i, j \in 1..Len(iss) :
          /\ i <= j => iss[i].at <= iss[j].at
          /\ iss[i].who = iss[j].who =>
                /\ iss[i].kind = "start" /\ iss[j].kind = "start" => i = j
                /\ iss[i].kind = "end" /\ iss[j].kind = "end" => i = j
                /\ iss[i].kind = "start" /\ iss[j].kind = "end" => i < j
IssuedInv ==
    /\ Lawful(issued) /\ Len(issued) <= MaxRecords
    /\ \A i \in 1..Len(issued) : issued[i].at <= now
LifeInv ==
    /\ life \in [Sessions -> {"new", "live", "over"}]
    /\ \A s \in Sessions, i \in 1..Len(issued) : issued[i].who = s =>
          /\ life[s] = "new" => issued[i].kind \notin {"start", "end"}
          /\ life[s] = "live" => issued[i].kind # "end"

\* The sequences of issued records in their order.
Ordered(iss) ==
    {s \in Seq(Records) :
        /\ \A i \in 1..Len(s) : s[i].no \in 1..Len(iss) /\ s[i] = iss[s[i].no]
        /\ \A i, j \in 1..Len(s) : i < j => s[i].no < s[j].no}
Numbers(s) == {s[i].no : i \in 1..Len(s)}

\* What waits in memory.
QueueInv ==
    /\ queue \in Ordered(issued) /\ batch \in Ordered(issued) /\ Len(queue) <= QueueCap
    /\ proc # "up" => queue = <<>> /\ batch = <<>>
    /\ \A m \in Numbers(batch), n \in Numbers(queue) : m < n

\* It is newer than the file.
NewerInv ==
    \A i \in 1..Len(wal) : \A m \in Present(wal[i]), n \in Numbers(batch) \cup Numbers(queue) : m < n

\* A candle that waits in memory is not closed again.
ClosesInv ==
    \A m \in Numbers(batch) \cup Numbers(queue) : issued[m].kind = "close" =>
        /\ issued[m].who \notin closing
        /\ \A n \in Numbers(batch) \cup Numbers(queue) :
              issued[n].kind = "close" /\ issued[n].who = issued[m].who => m = n

\* A batch is the one in commit, or no part of it waits.
BatchesInv ==
    \A b \in batches :
        /\ b \subseteq 1..Len(issued) /\ b \cap Numbers(queue) = {}
        /\ b = Numbers(batch) \/ b \cap Numbers(batch) = {}

WalInv == wal \in Seq(Files(issued, batches)) /\ wal # <<>>
ProcInv ==
    /\ proc \in {"down", "migrating", "up"}
    /\ proc = "up" => db.schema = 2
    /\ closing \subseteq Starts

PassInv ==
    /\ pass \in {"no", "samples", "sessions"} /\ passAt \in Nat /\ now \in Nat /\ passAt <= now
    /\ pass # "no" => batch = <<>> /\ proc = "up"
FlagInv == retried \in BOOLEAN /\ passOk \in BOOLEAN /\ conflict = FALSE

IInv ==
    /\ IssuedInv /\ LifeInv /\ QueueInv /\ NewerInv /\ ClosesInv /\ BatchesInv
    /\ WalInv /\ ProcInv /\ PassInv /\ FlagInv

--------------------------------------------------------------------------------
(* The file. *)

LEMMA FileFields ==
    ASSUME NEW d \in Databases
    PROVE  /\ d.schema \in 0..2 /\ d.recorded \subseteq Migrations /\ d.gone \subseteq Nat
           /\ DOMAIN d.sessions \subseteq Who /\ DOMAIN d.closes \subseteq Starts
           /\ d.sessions \in [DOMAIN d.sessions -> Row] /\ d.closes \in [DOMAIN d.closes -> Nat]
           /\ d.samples \subseteq Sample
  BY DEF Databases

\* A file from its parts.
LEMMA FileMade ==
    ASSUME NEW d \in Databases, NEW D, NEW C, NEW f \in [D -> Row], D \subseteq Who,
           NEW g \in [C -> Nat], C \subseteq Starts, NEW S, S \subseteq Sample, NEW G, G \subseteq Nat
    PROVE  /\ [d EXCEPT !.sessions = f] \in Databases
           /\ [d EXCEPT !.samples = S] \in Databases
           /\ [d EXCEPT !.sessions = f, !.gone = G] \in Databases
           /\ [d EXCEPT !.samples = S, !.gone = G] \in Databases
           /\ [d EXCEPT !.closes = g, !.gone = G] \in Databases
  <1>1. f \in UNION {[E -> Row] : E \in SUBSET Who}
    BY DEF Databases
  <1>2. g \in UNION {[E -> Nat] : E \in SUBSET Starts}
    OBVIOUS
  <1>3. QED
    BY <1>1, <1>2 DEF Databases

LEMMA InPresent ==
    ASSUME NEW d, NEW n
    PROVE  n \in Present(d) <=>
              \/ \E s \in DOMAIN d.sessions : n = d.sessions[s].start \/ n = d.sessions[s].end
              \/ \E r \in d.samples : n = r.no
              \/ \E c \in DOMAIN d.closes : n = d.closes[c]
              \/ n \in d.gone
  BY DEF Present, Rows

LEMMA RecordFields ==
    ASSUME NEW iss, Lawful(iss), NEW i \in 1..Len(iss)
    PROVE  /\ Len(iss) \in Nat /\ i \in Nat /\ i > 0
           /\ iss[i] \in Records /\ iss[i].no = i /\ iss[i].at \in Nat
           /\ iss[i].kind = "close" => iss[i].who \in Starts
           /\ iss[i].kind # "close" => iss[i].who \in Sessions /\ iss[i].who \in Who /\ iss[i].who # Nobody
  <1>1. iss[i] \in Records /\ iss[i].no = i /\ Len(iss) \in Nat
    BY DEF Lawful
  <1>2. iss[i].kind # "close" => iss[i].who \in Sessions
    BY DEF Lawful
  <1>3. QED
    BY <1>1, <1>2, DatabaseAssumption DEF Lawful, Records, DatabaseAssumption, Who

LEMMA EncodeInt ==
    ASSUME NEW t \in Int PROVE Encode(t) \in Int
  BY DatabaseAssumption DEF DatabaseAssumption, Encode

--------------------------------------------------------------------------------
(* Writing a batch, one statement after the other. *)

\* A batch of issued records, newer than what a file holds, with at most one close of
\* a candle.
Issued(b, iss) == \A r \in Range(b) : r.no \in 1..Len(iss) /\ r = iss[r.no]
Newer(d, b) == \A r \in Range(b), m \in Present(d) : m < r.no
ClosesOnce(b) == \A q, r \in Of(b, "close") : q.who = r.who => q = r
NumbersOf(b, kind) == {r.no : r \in Of(b, kind)}

\* What a statement adds to the records in effect; zero is no record.
Adds(d, e, N) == \A n : n # 0 => (n \in Present(e) <=> n \in Present(d) \/ n \in N)

LEMMA BatchFields ==
    ASSUME NEW iss, Lawful(iss), NEW b, Issued(b, iss), NEW kind, NEW r \in Of(b, kind)
    PROVE  /\ r \in Range(b) /\ r.kind = kind /\ r.no \in 1..Len(iss) /\ r = iss[r.no]
           /\ r.no \in Nat /\ r.no > 0 /\ r.at \in Nat /\ Cites(iss, r.no, kind, r.who)
           /\ kind = "close" => r.who \in Starts
           /\ kind # "close" => r.who \in Sessions /\ r.who \in Who /\ r.who # Nobody
  <1>1. r \in Range(b) /\ r.kind = kind /\ r.no \in 1..Len(iss) /\ r = iss[r.no]
    BY DEF Of, Issued
  <1>2. QED
    BY <1>1, RecordFields DEF Cites

\* No start is written twice, so the primary key refuses nothing.
LEMMA StartIsNew ==
    ASSUME NEW iss, Lawful(iss), NEW d \in Databases, FileTrue(d, iss), NEW b, Issued(b, iss), Newer(d, b),
           NEW r \in Of(b, "start")
    PROVE  r.who \notin DOMAIN d.sessions
  <1> SUFFICES ASSUME r.who \in DOMAIN d.sessions PROVE FALSE
    OBVIOUS
  <1>1. r \in Range(b) /\ r.who # Nobody /\ Cites(iss, r.no, "start", r.who) /\ r.no \in Nat
    BY BatchFields
  <1>2. Cites(iss, d.sessions[r.who].start, "start", r.who)
    BY <1>1 DEF FileTrue, RowsTrue
  <1>3. d.sessions[r.who].start = r.no
    BY <1>1, <1>2 DEF Cites, Lawful
  <1>4. r.no \in Present(d)
    BY <1>3, InPresent
  <1>5. QED
    BY <1>1, <1>4 DEF Newer

\* writeSessions inserts the started sessions.
LEMMA StartsWritten ==
    ASSUME NEW iss, Lawful(iss), NEW d \in Databases, FileTrue(d, iss), NEW b, Issued(b, iss), Newer(d, b)
    PROVE  /\ InsertStarts(d, b) \in Databases /\ FileTrue(InsertStarts(d, b), iss)
           /\ Adds(d, InsertStarts(d, b), NumbersOf(b, "start"))
           /\ InsertStarts(d, b).schema = d.schema
  <1> DEFINE S == Of(b, "start")
             W == {r.who : r \in S}
             the(s) == CHOOSE r \in S : r.who = s
             new == [s \in W |-> [start |-> the(s).no, end |-> 0, at |-> 0]]
             f == Over(d.sessions, new)
             e == InsertStarts(d, b)
  <1>0. /\ DOMAIN d.sessions \subseteq Who /\ d.sessions \in [DOMAIN d.sessions -> Row]
        /\ Versioned(d) /\ RowsTrue(d, iss) /\ EndsTrue(d, iss)
    BY FileFields DEF FileTrue
  <1>1. \A r \in S : /\ r.kind = "start" /\ r.no \in 1..Len(iss) /\ r = iss[r.no]
                     /\ r.who \in Who /\ r.who # Nobody /\ r.no \in Nat /\ r.no > 0
                     /\ Cites(iss, r.no, "start", r.who) /\ r.who \notin DOMAIN d.sessions
                     /\ \A m \in Present(d) : m < r.no
    BY BatchFields, StartIsNew DEF Newer
  <1>2. \A s \in W : the(s) \in S /\ the(s).who = s
    OBVIOUS
  <1>3. \A r \in S : the(r.who) = r
    <2> SUFFICES ASSUME NEW r \in S PROVE the(r.who) = r
      OBVIOUS
    <2>1. the(r.who) \in S /\ the(r.who).who = r.who
      OBVIOUS
    <2> HIDE DEF S, the
    <2>2. the(r.who).no = r.no
      BY <1>1, <2>1 DEF Lawful
    <2>3. QED
      BY <1>1, <2>1, <2>2
  <1>4. /\ e.sessions = f /\ e.samples = d.samples /\ e.closes = d.closes /\ e.gone = d.gone
        /\ e.schema = d.schema /\ e.recorded = d.recorded
    BY DEF InsertStarts, Databases
  <1> HIDE DEF S, the, e
  <1>5. DOMAIN f = DOMAIN d.sessions \cup W /\ DOMAIN new = W
    BY DEF Over
  <1>6. ASSUME NEW s \in W
        PROVE  /\ s \notin DOMAIN d.sessions /\ s \in Who /\ s # Nobody
               /\ f[s] = [start |-> the(s).no, end |-> 0, at |-> 0]
    <2>1. the(s) \in S /\ the(s).who = s
      BY <1>2
    <2>2. s \in Who /\ s # Nobody /\ s \notin DOMAIN d.sessions
      BY <1>1, <2>1
    <2>3. f[s] = new[s]
      BY <1>5 DEF Over
    <2>4. QED
      BY <2>2, <2>3
  <1>7. ASSUME NEW s \in DOMAIN d.sessions PROVE f[s] = d.sessions[s] /\ s \notin W
    BY <1>5, <1>6 DEF Over
  <1>8. e \in Databases
    <2>1. ASSUME NEW s \in W PROVE f[s] \in Row
      <3>1. the(s).no \in Nat
        BY <1>1, <1>2
      <3>2. f[s] = [start |-> the(s).no, end |-> 0, at |-> 0]
        BY <1>6
      <3> HIDE DEF f, new, W
      <3>3. QED
        BY <3>1, <3>2 DEF Row
    <2>2. f \in [DOMAIN d.sessions \cup W -> Row]
      <3>1. \A s \in DOMAIN d.sessions : f[s] \in Row
        BY <1>0, <1>7
      <3>2. f = [k \in DOMAIN f |-> f[k]]
        BY DEF Over
      <3> HIDE DEF f, new, W
      <3>3. QED
        BY <1>5, <2>1, <3>1, <3>2
    <2>3. DOMAIN d.sessions \cup W \subseteq Who
      BY <1>0, <1>6
    <2> HIDE DEF f, new, W
    <2>4. [d EXCEPT !.sessions = f] \in Databases
      BY <2>2, <2>3, FileMade, FileFields
    <2>5. e = [d EXCEPT !.sessions = f]
      BY DEF e, f, new, W, S, the, InsertStarts
    <2>6. QED
      BY <2>4, <2>5
  <1> HIDE DEF f, new, W
  <1>9. \A r \in S : r.who \in W
    BY DEF W
  <1>10. Present(d) \subseteq Present(e)
    <2> SUFFICES ASSUME NEW n \in Present(d) PROVE n \in Present(e)
      OBVIOUS
    <2>1. CASE \E s \in DOMAIN d.sessions : n = d.sessions[s].start \/ n = d.sessions[s].end
      <3>1. PICK s \in DOMAIN d.sessions : n = d.sessions[s].start \/ n = d.sessions[s].end
        BY <2>1
      <3>2. s \in DOMAIN e.sessions /\ e.sessions[s] = d.sessions[s]
        BY <1>4, <1>5, <1>7
      <3>3. QED
        BY <3>1, <3>2, InPresent
    <2>2. CASE \/ \E r \in d.samples : n = r.no
               \/ \E c \in DOMAIN d.closes : n = d.closes[c]
               \/ n \in d.gone
      BY <1>4, <2>2, InPresent
    <2>3. QED
      BY <2>1, <2>2, InPresent
  <1>11. NumbersOf(b, "start") \subseteq Present(e)
    <2> SUFFICES ASSUME NEW r \in S PROVE r.no \in Present(e)
      BY DEF NumbersOf, S
    <2>1. r.who \in DOMAIN e.sessions /\ e.sessions[r.who].start = r.no
      BY <1>3, <1>4, <1>5, <1>6, <1>9
    <2>2. QED
      BY <2>1, InPresent
  <1>12. Present(e) \subseteq Present(d) \cup NumbersOf(b, "start") \cup {0}
    <2> SUFFICES ASSUME NEW n \in Present(e) PROVE n \in Present(d) \cup NumbersOf(b, "start") \cup {0}
      OBVIOUS
    <2>1. CASE \E s \in DOMAIN e.sessions : n = e.sessions[s].start \/ n = e.sessions[s].end
      <3>1. PICK s \in DOMAIN e.sessions : n = e.sessions[s].start \/ n = e.sessions[s].end
        BY <2>1
      <3>2. CASE s \in W
        <4>1. e.sessions[s] = [start |-> the(s).no, end |-> 0, at |-> 0]
          BY <1>4, <1>6, <3>2
        <4>2. the(s).no \in NumbersOf(b, "start")
          BY <1>2, <3>2 DEF NumbersOf, S
        <4>3. QED
          BY <3>1, <4>1, <4>2
      <3>3. CASE s \in DOMAIN d.sessions
        BY <1>4, <1>7, <3>1, <3>3, InPresent
      <3>4. QED
        BY <1>4, <1>5, <3>2, <3>3
    <2>2. CASE \/ \E r \in e.samples : n = r.no
               \/ \E c \in DOMAIN e.closes : n = e.closes[c]
               \/ n \in e.gone
      BY <1>4, <2>2, InPresent
    <2>3. QED
      BY <2>1, <2>2, InPresent
  <1>13. RowsTrue(e, iss)
    <2>1. ASSUME NEW s \in DOMAIN e.sessions
          PROVE  /\ IF s = Nobody THEN e.sessions[s].start = 0 ELSE Cites(iss, e.sessions[s].start, "start", s)
                 /\ e.sessions[s].end # 0 => Cites(iss, e.sessions[s].end, "end", s)
      <3>1. CASE s \in W
        <4>1. s # Nobody /\ e.sessions[s] = [start |-> the(s).no, end |-> 0, at |-> 0]
          BY <1>4, <1>6, <3>1
        <4>2. Cites(iss, the(s).no, "start", s)
          BY <1>1, <1>2, <3>1
        <4>3. QED
          BY <4>1, <4>2
      <3>2. CASE s \in DOMAIN d.sessions
        BY <1>0, <1>4, <1>7, <3>2 DEF RowsTrue
      <3>3. QED
        BY <1>4, <1>5, <3>1, <3>2
    <2>2. QED
      BY <1>0, <1>4, <2>1 DEF RowsTrue
  <1>14. EndsTrue(e, iss)
    <2> SUFFICES ASSUME NEW n \in 1..Len(iss), iss[n].kind = "end", n \in Present(e),
                        iss[n].who \in DOMAIN e.sessions
                 PROVE  e.sessions[iss[n].who].end = n
      BY DEF EndsTrue
    <2>1. n # 0 /\ n \in Nat
      BY RecordFields
    <2>2. n \notin NumbersOf(b, "start")
      BY <1>1 DEF NumbersOf, S, Cites
    <2>3. n \in Present(d)
      BY <1>12, <2>1, <2>2
    <2>4. ASSUME iss[n].who \in W PROVE FALSE
      <3>1. the(iss[n].who) \in S /\ the(iss[n].who).who = iss[n].who
        BY <1>2, <2>4
      <3> DEFINE r == the(iss[n].who)
      <3>2. Cites(iss, r.no, "start", iss[n].who) /\ r.no \in Nat
        BY <1>1, <3>1
      <3>3. r.no < n
        BY <3>2 DEF Cites, Lawful
      <3>4. n < r.no
        BY <1>1, <2>3, <3>1
      <3>5. QED
        BY <2>1, <3>2, <3>3, <3>4
    <2>5. iss[n].who \in DOMAIN d.sessions
      BY <1>4, <1>5, <2>4
    <2>6. QED
      BY <1>0, <1>4, <1>7, <2>3, <2>5 DEF EndsTrue
  <1>15. FileTrue(e, iss)
    BY <1>0, <1>4, <1>13, <1>14 DEF FileTrue, Versioned
  <1>16. Adds(d, e, NumbersOf(b, "start"))
    BY <1>10, <1>11, <1>12 DEF Adds
  <1>17. QED
    BY <1>4, <1>8, <1>15, <1>16 DEF e

\* writeSessions then closes the rows of the ended ones.
LEMMA EndsWritten ==
    ASSUME NEW iss, Lawful(iss), NEW d \in Databases, FileTrue(d, iss), NEW b, Issued(b, iss)
    PROVE  /\ UpdateEnds(d, b) \in Databases /\ FileTrue(UpdateEnds(d, b), iss)
           /\ Adds(d, UpdateEnds(d, b), NumbersOf(b, "end"))
           /\ UpdateEnds(d, b).schema = d.schema
  <1> DEFINE S == Of(b, "end")
             ended(s) == CHOOSE r \in S : r.who = s
             f == [s \in DOMAIN d.sessions |->
                     IF \E r \in S : r.who = s
                     THEN [d.sessions[s] EXCEPT !.end = ended(s).no, !.at = Encode(ended(s).at)]
                     ELSE d.sessions[s]]
             L == {r.no : r \in {q \in S : q.who \notin DOMAIN d.sessions}}
             G == d.gone \cup L
             e == UpdateEnds(d, b)
  <1>0. /\ DOMAIN d.sessions \subseteq Who /\ d.sessions \in [DOMAIN d.sessions -> Row]
        /\ Versioned(d) /\ RowsTrue(d, iss) /\ EndsTrue(d, iss) /\ d.gone \subseteq Nat
    BY FileFields DEF FileTrue
  <1>1. \A r \in S : /\ r.kind = "end" /\ r.no \in 1..Len(iss) /\ r = iss[r.no]
                     /\ r.who \in Who /\ r.who # Nobody /\ r.no \in Nat /\ r.no > 0 /\ Encode(r.at) \in Int
                     /\ Cites(iss, r.no, "end", r.who)
    BY BatchFields, EncodeInt
  <1>2. \A n, k : \A r \in S : r.who = k /\ Cites(iss, n, "end", k) => n = r.no
    BY <1>1 DEF Cites, Lawful
  <1>3. \A r \in S : ended(r.who) = r
    <2> SUFFICES ASSUME NEW r \in S PROVE ended(r.who) = r
      OBVIOUS
    <2>1. ended(r.who) \in S /\ ended(r.who).who = r.who
      OBVIOUS
    <2> HIDE DEF S, ended
    <2>2. ended(r.who).no = r.no
      BY <1>1, <1>2, <2>1
    <2>3. QED
      BY <1>1, <2>1, <2>2
  <1>4. /\ e.sessions = f /\ e.samples = d.samples /\ e.closes = d.closes /\ e.gone = G
        /\ e.schema = d.schema /\ e.recorded = d.recorded
    BY DEF UpdateEnds, Databases
  <1>5. e = [d EXCEPT !.sessions = f, !.gone = G]
    BY DEF UpdateEnds, Databases
  <1> HIDE DEF S, ended, e
  <1>6. DOMAIN f = DOMAIN d.sessions
    OBVIOUS
  <1>7. ASSUME NEW r \in S, r.who \in DOMAIN d.sessions
        PROVE  /\ f[r.who] \in Row /\ f[r.who].start = d.sessions[r.who].start
               /\ f[r.who].end = r.no /\ f[r.who].at = Encode(r.at)
    <2>1. ended(r.who) = r
      BY <1>3
    <2>2. d.sessions[r.who] \in Row
      BY <1>0, <1>7
    <2>3. f[r.who] = [d.sessions[r.who] EXCEPT !.end = r.no, !.at = Encode(r.at)]
      BY <1>7, <2>1
    <2> HIDE DEF f
    <2>4. QED
      BY <1>1, <2>2, <2>3 DEF Row
  <1>8. ASSUME NEW s \in DOMAIN d.sessions, ~\E r \in S : r.who = s
        PROVE  f[s] = d.sessions[s]
    BY <1>8
  <1>9. L = {r.no : r \in {q \in S : q.who \notin DOMAIN d.sessions}} /\ G = d.gone \cup L
    OBVIOUS
  <1>10. f = [s \in DOMAIN f |-> f[s]]
    OBVIOUS
  <1> HIDE DEF f, G, L
  <1>11. e \in Databases
    <2>1. ASSUME NEW s \in DOMAIN d.sessions PROVE f[s] \in Row
      <3>1. CASE \E r \in S : r.who = s
        BY <1>7, <3>1
      <3>2. CASE ~\E r \in S : r.who = s
        BY <1>0, <1>8, <3>2
      <3>3. QED
        BY <3>1, <3>2
    <2>2. f \in [DOMAIN d.sessions -> Row]
      BY <1>6, <1>10, <2>1
    <2>3. G \subseteq Nat
      BY <1>0, <1>1, <1>9
    <2>4. [d EXCEPT !.sessions = f, !.gone = G] \in Databases
      BY <1>0, <2>2, <2>3, FileMade, FileFields
    <2>5. QED
      BY <1>5, <2>4
  <1>12. ASSUME NEW n \in Present(d), n # 0 PROVE n \in Present(e)
    <2>1. CASE \E s \in DOMAIN d.sessions : n = d.sessions[s].start \/ n = d.sessions[s].end
      <3>1. PICK s \in DOMAIN d.sessions : n = d.sessions[s].start \/ n = d.sessions[s].end
        BY <2>1
      <3>2. CASE \E r \in S : r.who = s
        <4>1. PICK r \in S : r.who = s
          BY <3>2
        <4>2. s \in DOMAIN e.sessions /\ e.sessions[s].start = d.sessions[s].start /\ e.sessions[s].end = r.no
          BY <1>4, <1>6, <1>7, <4>1
        <4>3. n = d.sessions[s].start \/ n = r.no
          <5>1. d.sessions[s].end # 0 => Cites(iss, d.sessions[s].end, "end", s)
            BY <1>0 DEF RowsTrue
          <5>2. QED
            BY <1>2, <1>12, <3>1, <4>1, <5>1
        <4>4. QED
          BY <4>2, <4>3, InPresent
      <3>3. CASE ~\E r \in S : r.who = s
        <4>1. s \in DOMAIN e.sessions /\ e.sessions[s] = d.sessions[s]
          BY <1>4, <1>6, <1>8, <3>3
        <4>2. QED
          BY <3>1, <4>1, InPresent
      <3>4. QED
        BY <3>2, <3>3
    <2>2. CASE \/ \E r \in d.samples : n = r.no
               \/ \E c \in DOMAIN d.closes : n = d.closes[c]
               \/ n \in d.gone
      BY <1>4, <1>9, <2>2, InPresent
    <2>3. QED
      BY <2>1, <2>2, InPresent
  <1>13. ASSUME NEW r \in S PROVE r.no \in Present(e)
    <2>1. CASE r.who \in DOMAIN d.sessions
      <3>1. r.who \in DOMAIN e.sessions /\ e.sessions[r.who].end = r.no
        BY <1>4, <1>6, <1>7, <2>1
      <3>2. QED
        BY <3>1, InPresent
    <2>2. CASE r.who \notin DOMAIN d.sessions
      <3>1. r.no \in e.gone
        BY <1>4, <1>9, <2>2
      <3>2. QED
        BY <3>1, InPresent
    <2>3. QED
      BY <2>1, <2>2
  <1>14. ASSUME NEW n \in Present(e) PROVE n \in Present(d) \/ \E r \in S : n = r.no
    <2>1. CASE \E s \in DOMAIN e.sessions : n = e.sessions[s].start \/ n = e.sessions[s].end
      <3>1. PICK s \in DOMAIN e.sessions : n = e.sessions[s].start \/ n = e.sessions[s].end
        BY <2>1
      <3>2. s \in DOMAIN d.sessions
        BY <1>4, <1>6
      <3>3. CASE \E r \in S : r.who = s
        <4>1. PICK r \in S : r.who = s
          BY <3>3
        <4>2. n = d.sessions[s].start \/ n = r.no
          BY <1>4, <1>7, <3>1, <3>2, <4>1
        <4>3. QED
          BY <3>2, <4>2, InPresent
      <3>4. CASE ~\E r \in S : r.who = s
        <4>1. e.sessions[s] = d.sessions[s]
          BY <1>4, <1>8, <3>2, <3>4
        <4>2. QED
          BY <3>1, <3>2, <4>1, InPresent
      <3>5. QED
        BY <3>3, <3>4
    <2>2. CASE \/ \E r \in e.samples : n = r.no
               \/ \E c \in DOMAIN e.closes : n = e.closes[c]
               \/ n \in e.gone
      BY <1>4, <1>9, <2>2, InPresent
    <2>3. QED
      BY <2>1, <2>2, InPresent
  <1>15. Adds(d, e, NumbersOf(b, "end"))
    BY <1>12, <1>13, <1>14 DEF Adds, NumbersOf, S
  <1>16. RowsTrue(e, iss)
    <2>1. ASSUME NEW s \in DOMAIN e.sessions
          PROVE  /\ IF s = Nobody THEN e.sessions[s].start = 0 ELSE Cites(iss, e.sessions[s].start, "start", s)
                 /\ e.sessions[s].end # 0 => Cites(iss, e.sessions[s].end, "end", s)
      <3>1. s \in DOMAIN d.sessions
        BY <1>4, <1>6
      <3>2. CASE \E r \in S : r.who = s
        <4>1. PICK r \in S : r.who = s
          BY <3>2
        <4>2. e.sessions[s].start = d.sessions[s].start /\ e.sessions[s].end = r.no
          BY <1>4, <1>7, <3>1, <4>1
        <4>3. QED
          BY <1>0, <1>1, <3>1, <4>1, <4>2 DEF RowsTrue
      <3>3. CASE ~\E r \in S : r.who = s
        <4>1. e.sessions[s] = d.sessions[s]
          BY <1>4, <1>8, <3>1, <3>3
        <4>2. QED
          BY <1>0, <3>1, <4>1 DEF RowsTrue
      <3>4. QED
        BY <3>2, <3>3
    <2>2. e.gone \subseteq 0..Len(iss)
      BY <1>0, <1>1, <1>4, <1>9 DEF RowsTrue, Lawful
    <2>3. QED
      BY <1>0, <1>4, <2>1, <2>2 DEF RowsTrue
  <1>17. EndsTrue(e, iss)
    <2> SUFFICES ASSUME NEW n \in 1..Len(iss), iss[n].kind = "end", n \in Present(e),
                        iss[n].who \in DOMAIN e.sessions
                 PROVE  e.sessions[iss[n].who].end = n
      BY DEF EndsTrue
    <2>1. iss[n].who \in DOMAIN d.sessions /\ Cites(iss, n, "end", iss[n].who)
      BY <1>4, <1>6 DEF Cites
    <2>2. CASE \E r \in S : r.who = iss[n].who
      <3>1. PICK r \in S : r.who = iss[n].who
        BY <2>2
      <3>2. n = r.no
        BY <1>2, <2>1, <3>1
      <3>3. QED
        BY <1>4, <1>7, <2>1, <3>1, <3>2
    <2>3. CASE ~\E r \in S : r.who = iss[n].who
      <3>1. n \in Present(d)
        BY <1>1, <1>14, <2>3
      <3>2. e.sessions[iss[n].who] = d.sessions[iss[n].who]
        BY <1>4, <1>8, <2>1, <2>3
      <3>3. QED
        BY <1>0, <2>1, <3>1, <3>2 DEF EndsTrue
    <2>4. QED
      BY <2>2, <2>3
  <1>18. FileTrue(e, iss)
    BY <1>0, <1>4, <1>16, <1>17 DEF FileTrue, Versioned
  <1>19. QED
    BY <1>4, <1>11, <1>15, <1>18 DEF e

LEMMA SamplesWritten ==
    ASSUME NEW iss, Lawful(iss), NEW d \in Databases, FileTrue(d, iss), NEW b, Issued(b, iss)
    PROVE  /\ WriteSamples(d, b) \in Databases /\ FileTrue(WriteSamples(d, b), iss)
           /\ Adds(d, WriteSamples(d, b), NumbersOf(b, "sample"))
           /\ WriteSamples(d, b).schema = d.schema
  <1> DEFINE S == Of(b, "sample")
             T == {[no |-> r.no, session |-> r.who, at |-> Encode(r.at)] : r \in S}
             U == d.samples \cup T
             e == WriteSamples(d, b)
  <1>0. /\ d.samples \subseteq Sample /\ Versioned(d) /\ RowsTrue(d, iss) /\ EndsTrue(d, iss)
    BY FileFields DEF FileTrue
  <1>1. \A r \in S : /\ r.kind = "sample" /\ r.no \in 1..Len(iss) /\ r = iss[r.no]
                     /\ r.who \in Who /\ r.no \in Nat /\ r.no > 0 /\ Encode(r.at) \in Int
                     /\ Cites(iss, r.no, "sample", r.who)
    <2> TAKE r \in S
    <2>1. /\ r.kind = "sample" /\ r.no \in 1..Len(iss) /\ r = iss[r.no] /\ r.at \in Nat
          /\ r.who \in Who /\ r.no \in Nat /\ r.no > 0 /\ Cites(iss, r.no, "sample", r.who)
      BY BatchFields
    <2>2. Encode(r.at) \in Int
      BY <2>1, EncodeInt
    <2>3. QED
      BY <2>1, <2>2
  <1>2. /\ e.sessions = d.sessions /\ e.samples = U /\ e.closes = d.closes /\ e.gone = d.gone
        /\ e.schema = d.schema /\ e.recorded = d.recorded
    BY DEF WriteSamples, Databases
  <1>3. e = [d EXCEPT !.samples = U]
    BY DEF WriteSamples, Databases
  <1> HIDE DEF S, e
  <1>4. ASSUME NEW t \in T
        PROVE  \E r \in S : /\ t.no = r.no /\ t.session = r.who /\ t.at = Encode(r.at)
                            /\ t \in Sample
    BY <1>1 DEF Sample
  <1>5. ASSUME NEW r \in S PROVE \E t \in T : t.no = r.no
    <2>1. [no |-> r.no, session |-> r.who, at |-> Encode(r.at)] \in T
      OBVIOUS
    <2>2. [no |-> r.no, session |-> r.who, at |-> Encode(r.at)].no = r.no
      OBVIOUS
    <2> HIDE DEF T
    <2>3. QED
      BY <2>1, <2>2
  <1> HIDE DEF T
  <1>6. e \in Databases
    <2>1. U \subseteq Sample
      BY <1>0, <1>4
    <2> HIDE DEF U
    <2>2. [d EXCEPT !.samples = U] \in Databases
      BY <2>1, FileMade, FileFields
    <2>3. QED
      BY <1>3, <2>2
  <1>7. Adds(d, e, NumbersOf(b, "sample"))
    <2>1. ASSUME NEW n \in Present(d) PROVE n \in Present(e)
      BY <1>2, <2>1, InPresent
    <2>2. ASSUME NEW r \in S PROVE r.no \in Present(e)
      BY <1>2, <1>5, <2>2, InPresent
    <2>3. ASSUME NEW n \in Present(e) PROVE n \in Present(d) \/ \E r \in S : n = r.no
      BY <1>2, <1>4, <2>3, InPresent
    <2>4. QED
      BY <2>1, <2>2, <2>3 DEF Adds, NumbersOf, S
  <1>8. RowsTrue(e, iss)
    <2>1. ASSUME NEW t \in e.samples
          PROVE  IF t.no = 0 THEN t.session = Nobody /\ t.at = 0
                 ELSE Cites(iss, t.no, "sample", t.session) /\ t.at = Encode(iss[t.no].at)
      <3>1. CASE t \in d.samples
        BY <1>0, <3>1 DEF RowsTrue
      <3>2. CASE t \in T
        <4>1. PICK r \in S : t.no = r.no /\ t.session = r.who /\ t.at = Encode(r.at)
          BY <1>4, <3>2
        <4>2. QED
          BY <1>1, <4>1
      <3>3. QED
        BY <1>2, <3>1, <3>2
    <2>2. QED
      BY <1>0, <1>2, <2>1 DEF RowsTrue
  <1>9. EndsTrue(e, iss)
    <2> SUFFICES ASSUME NEW n \in 1..Len(iss), iss[n].kind = "end", n \in Present(e),
                        iss[n].who \in DOMAIN e.sessions
                 PROVE  e.sessions[iss[n].who].end = n
      BY DEF EndsTrue
    <2>1. n \notin NumbersOf(b, "sample")
      BY <1>1 DEF NumbersOf, S
    <2>2. n \in Present(d)
      BY <1>7, <2>1, RecordFields DEF Adds
    <2>3. QED
      BY <1>0, <1>2, <2>2 DEF EndsTrue
  <1>10. FileTrue(e, iss)
    BY <1>0, <1>2, <1>8, <1>9 DEF FileTrue, Versioned
  <1>11. QED
    BY <1>2, <1>6, <1>7, <1>10 DEF e

\* A replaced close stays in effect, and no close of the batch is lost.
LEMMA ClosesWritten ==
    ASSUME NEW iss, Lawful(iss), NEW d \in Databases, FileTrue(d, iss), NEW b, Issued(b, iss), ClosesOnce(b)
    PROVE  /\ WriteCandleCloses(d, b) \in Databases /\ FileTrue(WriteCandleCloses(d, b), iss)
           /\ Adds(d, WriteCandleCloses(d, b), NumbersOf(b, "close"))
           /\ WriteCandleCloses(d, b).schema = d.schema
  <1> DEFINE S == Of(b, "close")
             W == {r.who : r \in S}
             new == [c \in W |-> Max({r.no : r \in {q \in S : q.who = c}})]
             g == Over(d.closes, new)
             L == {d.closes[c] : c \in DOMAIN d.closes \cap DOMAIN new}
             G == d.gone \cup L
             e == WriteCandleCloses(d, b)
  <1>0. /\ DOMAIN d.closes \subseteq Starts /\ d.closes \in [DOMAIN d.closes -> Nat]
        /\ Versioned(d) /\ RowsTrue(d, iss) /\ EndsTrue(d, iss) /\ d.gone \subseteq Nat
    BY FileFields DEF FileTrue
  <1>1. \A r \in S : /\ r.kind = "close" /\ r.no \in 1..Len(iss) /\ r = iss[r.no]
                     /\ r.who \in Starts /\ r.no \in Nat /\ r.no > 0
                     /\ Cites(iss, r.no, "close", r.who)
    BY BatchFields
  <1>2. \A q, r \in S : q.who = r.who => q = r
    BY DEF ClosesOnce
  <1>3. /\ e.sessions = d.sessions /\ e.samples = d.samples /\ e.closes = g /\ e.gone = G
        /\ e.schema = d.schema /\ e.recorded = d.recorded
    BY DEF WriteCandleCloses, Databases
  <1>4. e = [d EXCEPT !.closes = g, !.gone = G]
    BY DEF WriteCandleCloses, Databases
  <1> HIDE DEF S, e
  <1>5. DOMAIN g = DOMAIN d.closes \cup W /\ DOMAIN new = W /\ g = [c \in DOMAIN g |-> g[c]]
    BY DEF Over
  <1>6. ASSUME NEW r \in S PROVE r.who \in W /\ g[r.who] = r.no
    <2>1. {q \in S : q.who = r.who} = {r}
      BY <1>2
    <2>2. {q.no : q \in {p \in S : p.who = r.who}} = {r.no}
      BY <2>1
    <2>3. Max({r.no}) = r.no
      BY <1>1 DEF Max
    <2>4. new[r.who] = r.no /\ r.who \in W
      BY <2>2, <2>3
    <2> HIDE DEF new
    <2>5. QED
      BY <1>5, <2>4 DEF Over
  <1>7. ASSUME NEW c \in W PROVE \E r \in S : r.who = c
    OBVIOUS
  <1>8. ASSUME NEW c \in DOMAIN d.closes, c \notin W PROVE g[c] = d.closes[c]
    BY <1>5, <1>8 DEF Over
  <1>9. L = {d.closes[c] : c \in DOMAIN d.closes \cap W}
    BY <1>5
  <1> HIDE DEF new, g, W, L
  <1>10. e \in Databases
    <2>1. ASSUME NEW c \in DOMAIN g PROVE g[c] \in Nat /\ c \in Starts
      <3>1. CASE c \in W
        BY <1>1, <1>6, <1>7, <3>1
      <3>2. CASE c \notin W
        BY <1>0, <1>5, <1>8, <3>2
      <3>3. QED
        BY <3>1, <3>2
    <2>2. g \in [DOMAIN g -> Nat]
      BY <1>5, <2>1
    <2>3. G \subseteq Nat
      BY <1>0, <1>9
    <2> HIDE DEF G
    <2>4. [d EXCEPT !.closes = g, !.gone = G] \in Databases
      BY <2>1, <2>2, <2>3, FileMade, FileFields
    <2>5. QED
      BY <1>4, <2>4
  <1>11. ASSUME NEW n \in Present(d) PROVE n \in Present(e)
    <2>1. CASE \E c \in DOMAIN d.closes : n = d.closes[c]
      <3>1. PICK c \in DOMAIN d.closes : n = d.closes[c]
        BY <2>1
      <3>2. CASE c \in W
        <4>1. n \in e.gone
          BY <1>3, <1>9, <3>1, <3>2
        <4>2. QED
          BY <4>1, InPresent
      <3>3. CASE c \notin W
        <4>1. c \in DOMAIN e.closes /\ n = e.closes[c]
          BY <1>3, <1>5, <1>8, <3>1, <3>3
        <4>2. QED
          BY <4>1, InPresent
      <3>4. QED
        BY <3>2, <3>3
    <2>2. CASE \/ \E s \in DOMAIN d.sessions : n = d.sessions[s].start \/ n = d.sessions[s].end
               \/ \E r \in d.samples : n = r.no
               \/ n \in d.gone
      BY <1>3, <2>2, InPresent
    <2>3. QED
      BY <1>11, <2>1, <2>2, InPresent
  <1>12. ASSUME NEW r \in S PROVE r.no \in Present(e)
    <2>1. r.who \in DOMAIN e.closes /\ r.no = e.closes[r.who]
      BY <1>3, <1>5, <1>6
    <2>2. QED
      BY <2>1, InPresent
  <1>13. ASSUME NEW n \in Present(e) PROVE n \in Present(d) \/ \E r \in S : n = r.no
    <2>1. CASE \E c \in DOMAIN e.closes : n = e.closes[c]
      <3>1. PICK c \in DOMAIN e.closes : n = e.closes[c]
        BY <2>1
      <3>2. CASE c \in W
        BY <1>3, <1>6, <1>7, <3>1, <3>2
      <3>3. CASE c \notin W
        <4>1. c \in DOMAIN d.closes /\ n = d.closes[c]
          BY <1>3, <1>5, <1>8, <3>1, <3>3
        <4>2. QED
          BY <4>1, InPresent
      <3>4. QED
        BY <3>2, <3>3
    <2>2. CASE n \in e.gone
      <3>1. n \in d.gone \/ \E c \in DOMAIN d.closes : n = d.closes[c]
        BY <1>3, <1>9, <2>2
      <3>2. QED
        BY <3>1, InPresent
    <2>3. CASE \/ \E s \in DOMAIN e.sessions : n = e.sessions[s].start \/ n = e.sessions[s].end
               \/ \E r \in e.samples : n = r.no
      BY <1>3, <2>3, InPresent
    <2>4. QED
      BY <1>13, <2>1, <2>2, <2>3, InPresent
  <1>14. Adds(d, e, NumbersOf(b, "close"))
    BY <1>11, <1>12, <1>13 DEF Adds, NumbersOf, S
  <1>15. RowsTrue(e, iss)
    <2>1. ASSUME NEW c \in DOMAIN e.closes PROVE Cites(iss, e.closes[c], "close", c)
      <3>1. CASE c \in W
        BY <1>1, <1>3, <1>6, <1>7, <3>1
      <3>2. CASE c \notin W
        BY <1>0, <1>3, <1>5, <1>8, <3>2 DEF RowsTrue
      <3>3. QED
        BY <3>1, <3>2
    <2>2. e.gone \subseteq 0..Len(iss)
      BY <1>0, <1>3, <1>9 DEF RowsTrue, Cites, Lawful
    <2>3. QED
      BY <1>0, <1>3, <2>1, <2>2 DEF RowsTrue
  <1>16. EndsTrue(e, iss)
    <2> SUFFICES ASSUME NEW n \in 1..Len(iss), iss[n].kind = "end", n \in Present(e),
                        iss[n].who \in DOMAIN e.sessions
                 PROVE  e.sessions[iss[n].who].end = n
      BY DEF EndsTrue
    <2>1. n \in Present(d)
      BY <1>1, <1>13
    <2>2. QED
      BY <1>0, <1>3, <2>1 DEF EndsTrue
  <1>17. FileTrue(e, iss)
    BY <1>0, <1>3, <1>15, <1>16 DEF FileTrue, Versioned
  <1>18. QED
    BY <1>3, <1>10, <1>14, <1>17 DEF e

Written(d, b) == WriteCandleCloses(WriteSamples(UpdateEnds(InsertStarts(d, b), b), b), b)

\* The whole transaction: every record of the batch takes effect, and nothing else.
LEMMA BatchWritten ==
    ASSUME NEW iss, Lawful(iss), NEW d \in Databases, FileTrue(d, iss), NEW b, Issued(b, iss), Newer(d, b),
           ClosesOnce(b)
    PROVE  /\ Written(d, b) \in Databases /\ FileTrue(Written(d, b), iss)
           /\ Adds(d, Written(d, b), {r.no : r \in Range(b)})
           /\ Written(d, b).schema = d.schema
  <1> DEFINE e1 == InsertStarts(d, b)
             e2 == UpdateEnds(e1, b)
             e3 == WriteSamples(e2, b)
             e4 == WriteCandleCloses(e3, b)
             N == {r.no : r \in Range(b)}
  <1>1. e1 \in Databases /\ FileTrue(e1, iss) /\ Adds(d, e1, NumbersOf(b, "start")) /\ e1.schema = d.schema
    BY StartsWritten
  <1> HIDE DEF e1
  <1>2. e2 \in Databases /\ FileTrue(e2, iss) /\ Adds(e1, e2, NumbersOf(b, "end")) /\ e2.schema = d.schema
    BY <1>1, EndsWritten
  <1> HIDE DEF e2
  <1>3. e3 \in Databases /\ FileTrue(e3, iss) /\ Adds(e2, e3, NumbersOf(b, "sample")) /\ e3.schema = d.schema
    BY <1>2, SamplesWritten
  <1> HIDE DEF e3
  <1>4. e4 \in Databases /\ FileTrue(e4, iss) /\ Adds(e3, e4, NumbersOf(b, "close")) /\ e4.schema = d.schema
    BY <1>3, ClosesWritten
  <1> HIDE DEF e4
  <1>5. \A n : n \in N <=> \/ n \in NumbersOf(b, "start") \/ n \in NumbersOf(b, "end")
                           \/ n \in NumbersOf(b, "sample") \/ n \in NumbersOf(b, "close")
    <2>1. ASSUME NEW r \in Range(b) PROVE r.kind \in {"start", "sample", "end", "close"}
      BY <2>1, RecordFields DEF Issued, Records
    <2>2. QED
      BY <2>1 DEF NumbersOf, Of
  <1> HIDE DEF N
  <1>6. Adds(d, e4, N)
    BY <1>1, <1>2, <1>3, <1>4, <1>5 DEF Adds
  <1>7. e4 = Written(d, b)
    BY DEF e1, e2, e3, e4, Written
  <1>8. QED
    BY <1>4, <1>6, <1>7 DEF N

--------------------------------------------------------------------------------
(* What holds of the file while nothing is written. *)

LEMMA PresentBelow ==
    ASSUME NEW iss, Lawful(iss), NEW d \in Databases, FileTrue(d, iss), NEW n \in Present(d)
    PROVE  n \in Nat /\ n <= Len(iss)
  <1>0. Len(iss) \in Nat
    BY DEF Lawful
  <1>1. CASE \E s \in DOMAIN d.sessions : n = d.sessions[s].start \/ n = d.sessions[s].end
    <2>1. PICK s \in DOMAIN d.sessions : n = d.sessions[s].start \/ n = d.sessions[s].end
      BY <1>1
    <2>2. n = 0 \/ n \in 1..Len(iss)
      BY <2>1 DEF FileTrue, RowsTrue, Cites
    <2>3. QED
      BY <1>0, <2>2
  <1>2. CASE \E r \in d.samples : n = r.no
    <2>1. n = 0 \/ n \in 1..Len(iss)
      BY <1>2 DEF FileTrue, RowsTrue, Cites
    <2>2. QED
      BY <1>0, <2>1
  <1>3. CASE \E c \in DOMAIN d.closes : n = d.closes[c]
    <2>1. n \in 1..Len(iss)
      BY <1>3 DEF FileTrue, RowsTrue, Cites
    <2>2. QED
      BY <1>0, <2>1
  <1>4. CASE n \in d.gone
    BY <1>0, <1>4 DEF FileTrue, RowsTrue
  <1>5. QED
    BY <1>1, <1>2, <1>3, <1>4, InPresent

\* Records that come later leave the file as true as it was.
LEMMA FileLasts ==
    ASSUME NEW iss, Lawful(iss), NEW r, Lawful(Append(iss, r)),
           NEW d \in Databases, FileTrue(d, iss)
    PROVE  FileTrue(d, Append(iss, r))
  <1> DEFINE new == Append(iss, r)
  <1>1. /\ iss \in Seq(Records) /\ Len(iss) \in Nat /\ new \in Seq(Records)
    BY DEF Lawful
  <1>2. Len(new) = Len(iss) + 1 /\ \A n \in 1..Len(iss) : new[n] = iss[n]
    BY <1>1
  <1> HIDE DEF new
  <1>3. \A n, kind, k : Cites(iss, n, kind, k) => Cites(new, n, kind, k)
    BY <1>1, <1>2 DEF Cites
  <1>4. RowsTrue(d, new)
    <2>1. RowsTrue(d, iss)
      BY DEF FileTrue
    <2>2. ASSUME NEW s \in DOMAIN d.sessions
          PROVE  /\ IF s = Nobody THEN d.sessions[s].start = 0 ELSE Cites(new, d.sessions[s].start, "start", s)
                 /\ d.sessions[s].end # 0 => Cites(new, d.sessions[s].end, "end", s)
      BY <1>3, <2>1 DEF RowsTrue
    <2>3. ASSUME NEW t \in d.samples
          PROVE  IF t.no = 0 THEN t.session = Nobody /\ t.at = 0
                 ELSE Cites(new, t.no, "sample", t.session) /\ t.at = Encode(new[t.no].at)
      <3>1. IF t.no = 0 THEN t.session = Nobody /\ t.at = 0
                 ELSE Cites(iss, t.no, "sample", t.session) /\ t.at = Encode(iss[t.no].at)
        BY <2>1 DEF RowsTrue
      <3>2. QED
        BY <1>2, <1>3, <3>1 DEF Cites
    <2>4. \A c \in DOMAIN d.closes : Cites(new, d.closes[c], "close", c)
      BY <1>3, <2>1 DEF RowsTrue
    <2>5. d.gone \subseteq 0..Len(new)
      BY <1>1, <1>2, <2>1 DEF RowsTrue
    <2>6. QED
      BY <2>2, <2>3, <2>4, <2>5 DEF RowsTrue
  <1>5. EndsTrue(d, new)
    <2> SUFFICES ASSUME NEW n \in 1..Len(new), new[n].kind = "end", n \in Present(d),
                        new[n].who \in DOMAIN d.sessions
                 PROVE  d.sessions[new[n].who].end = n
      BY DEF EndsTrue
    <2>1. n \in 1..Len(iss)
      BY <1>1, <1>2, PresentBelow
    <2>2. QED
      BY <1>2, <2>1 DEF FileTrue, EndsTrue
  <1>6. QED
    BY <1>4, <1>5 DEF FileTrue, new

\* Moving rows aside keeps every record in effect.
LEMMA SamplesPruned ==
    ASSUME NEW iss, Lawful(iss), NEW d \in Databases, FileTrue(d, iss), NEW part, part \subseteq d.samples,
           NEW e, e = [d EXCEPT !.samples = @ \ part, !.gone = @ \cup {r.no : r \in part}]
    PROVE  e \in Databases /\ FileTrue(e, iss) /\ Present(e) = Present(d) /\ e.schema = d.schema
  <1> DEFINE S == d.samples \ part
             L == {r.no : r \in part}
             G == d.gone \cup L
  <1>1. /\ e.sessions = d.sessions /\ e.samples = S /\ e.closes = d.closes /\ e.gone = G
        /\ e.schema = d.schema /\ e.recorded = d.recorded
    BY DEF Databases
  <1>2. d.samples \subseteq Sample /\ d.gone \subseteq Nat
    BY FileFields
  <1>3. \A r \in part : r \in d.samples /\ r.no \in Nat
    BY <1>2 DEF Sample
  <1>4. G \subseteq Nat /\ S \subseteq Sample
    BY <1>2, <1>3
  <1>5. e = [d EXCEPT !.samples = S, !.gone = G]
    BY DEF Databases
  <1>6. \A n : n \in L <=> \E r \in part : n = r.no
    OBVIOUS
  <1> HIDE DEF L
  <1>7. e \in Databases
    <2> HIDE DEF S, G
    <2>1. [d EXCEPT !.samples = S, !.gone = G] \in Databases
      BY <1>4, FileMade, FileFields
    <2>2. QED
      BY <1>5, <2>1
  <1>8. Present(e) = Present(d)
    <2>1. ASSUME NEW n PROVE n \in Present(e) <=> n \in Present(d)
      <3>1. (\E r \in e.samples : n = r.no) \/ n \in e.gone <=> (\E r \in d.samples : n = r.no) \/ n \in d.gone
        BY <1>1, <1>3, <1>6
      <3>2. n \in Present(e) <=>
              \/ \E s \in DOMAIN e.sessions : n = e.sessions[s].start \/ n = e.sessions[s].end
              \/ \E r \in e.samples : n = r.no
              \/ \E c \in DOMAIN e.closes : n = e.closes[c]
              \/ n \in e.gone
        BY InPresent
      <3>3. n \in Present(d) <=>
              \/ \E s \in DOMAIN d.sessions : n = d.sessions[s].start \/ n = d.sessions[s].end
              \/ \E r \in d.samples : n = r.no
              \/ \E c \in DOMAIN d.closes : n = d.closes[c]
              \/ n \in d.gone
        BY InPresent
      <3>4. e.sessions = d.sessions /\ e.closes = d.closes
        BY <1>1
      <3>5. QED
        BY <3>1, <3>2, <3>3, <3>4
    <2>2. QED
      BY <2>1
  <1>9. RowsTrue(d, iss) /\ EndsTrue(d, iss) /\ Versioned(d) /\ Len(iss) \in Nat
    BY DEF FileTrue, Lawful
  <1>10. RowsTrue(e, iss)
    <2>1. e.gone \subseteq 0..Len(iss)
      <3>1. \A n \in L : n \in 0..Len(iss)
        BY <1>3, <1>6, <1>9 DEF RowsTrue, Cites
      <3>2. QED
        BY <1>1, <1>9, <3>1 DEF RowsTrue
    <2>2. QED
      BY <1>1, <1>9, <2>1 DEF RowsTrue
  <1>11. EndsTrue(e, iss)
    BY <1>1, <1>8, <1>9 DEF EndsTrue
  <1>12. QED
    BY <1>1, <1>7, <1>8, <1>9, <1>10, <1>11 DEF FileTrue, Versioned

LEMMA SessionsPruned ==
    ASSUME NEW iss, Lawful(iss), NEW d \in Databases, FileTrue(d, iss), NEW part, part \subseteq DOMAIN d.sessions,
           NEW e, e = [d EXCEPT !.sessions = [s \in DOMAIN @ \ part |-> @[s]],
                                !.gone = @ \cup UNION {{d.sessions[s].start, d.sessions[s].end} : s \in part}]
    PROVE  e \in Databases /\ FileTrue(e, iss) /\ Present(e) = Present(d) /\ e.schema = d.schema
  <1> DEFINE D == DOMAIN d.sessions \ part
             f == [s \in D |-> d.sessions[s]]
             L == UNION {{d.sessions[s].start, d.sessions[s].end} : s \in part}
             G == d.gone \cup L
  <1>1. /\ e.sessions = f /\ e.samples = d.samples /\ e.closes = d.closes /\ e.gone = G
        /\ e.schema = d.schema /\ e.recorded = d.recorded
    BY DEF Databases
  <1>2. DOMAIN d.sessions \subseteq Who /\ d.sessions \in [DOMAIN d.sessions -> Row] /\ d.gone \subseteq Nat
    BY FileFields
  <1>3. \A n : n \in L <=> \E s \in part : n = d.sessions[s].start \/ n = d.sessions[s].end
    OBVIOUS
  <1>4. \A s \in part : d.sessions[s].start \in Nat /\ d.sessions[s].end \in Nat
    BY <1>2 DEF Row
  <1>5. f \in [D -> Row] /\ D \subseteq Who
    BY <1>2
  <1>6. e = [d EXCEPT !.sessions = f, !.gone = G]
    BY DEF Databases
  <1>7. DOMAIN f = D /\ \A s \in D : f[s] = d.sessions[s]
    OBVIOUS
  <1> HIDE DEF L, f
  <1>8. e \in Databases
    <2>1. G \subseteq Nat
      BY <1>2, <1>3, <1>4
    <2> HIDE DEF D, G
    <2>2. [d EXCEPT !.sessions = f, !.gone = G] \in Databases
      BY <1>5, <2>1, FileMade, FileFields
    <2>3. QED
      BY <1>6, <2>2
  <1>9. Present(e) = Present(d)
    <2>1. ASSUME NEW n PROVE n \in Present(e) <=> n \in Present(d)
      <3>1. ASSUME NEW s \in part PROVE s \in DOMAIN d.sessions
        OBVIOUS
      <3>2. (\E s \in DOMAIN e.sessions : n = e.sessions[s].start \/ n = e.sessions[s].end) \/ n \in e.gone
               <=> (\E s \in DOMAIN d.sessions : n = d.sessions[s].start \/ n = d.sessions[s].end) \/ n \in d.gone
        <4> DEFINE Names(x, s) == n = x.sessions[s].start \/ n = x.sessions[s].end
        <4>1. \A s \in D : s \in DOMAIN e.sessions /\ e.sessions[s] = d.sessions[s]
          BY <1>1, <1>7
        <4>2. \A s : s \in DOMAIN e.sessions <=> s \in DOMAIN d.sessions /\ s \notin part
          BY <1>1, <1>7
        <4>3. n \in e.gone <=> n \in d.gone \/ \E s \in part : Names(d, s)
          BY <1>1, <1>3
        <4>4. \A s \in DOMAIN e.sessions : Names(e, s) <=> Names(d, s)
          BY <4>1, <4>2
        <4> HIDE DEF Names
        <4>5. (\E s \in DOMAIN e.sessions : Names(e, s)) \/ n \in e.gone
                 <=> (\E s \in DOMAIN d.sessions : Names(d, s)) \/ n \in d.gone
          BY <3>1, <4>2, <4>3, <4>4
        <4>6. QED
          BY <4>5 DEF Names
      <3>3. n \in Present(e) <=>
              \/ \E s \in DOMAIN e.sessions : n = e.sessions[s].start \/ n = e.sessions[s].end
              \/ \E r \in e.samples : n = r.no
              \/ \E c \in DOMAIN e.closes : n = e.closes[c]
              \/ n \in e.gone
        BY InPresent
      <3>4. n \in Present(d) <=>
              \/ \E s \in DOMAIN d.sessions : n = d.sessions[s].start \/ n = d.sessions[s].end
              \/ \E r \in d.samples : n = r.no
              \/ \E c \in DOMAIN d.closes : n = d.closes[c]
              \/ n \in d.gone
        BY InPresent
      <3>5. e.samples = d.samples /\ e.closes = d.closes
        BY <1>1
      <3>6. QED
        BY <3>2, <3>3, <3>4, <3>5
    <2>2. QED
      BY <2>1
  <1>10. RowsTrue(d, iss) /\ EndsTrue(d, iss) /\ Versioned(d) /\ Len(iss) \in Nat
    BY DEF FileTrue, Lawful
  <1>11. RowsTrue(e, iss)
    <2>1. e.gone \subseteq 0..Len(iss)
      <3>1. \A n \in L : n \in 0..Len(iss)
        <4>1. ASSUME NEW s \in part
              PROVE  d.sessions[s].start \in 0..Len(iss) /\ d.sessions[s].end \in 0..Len(iss)
          BY <1>10 DEF RowsTrue, Cites
        <4>2. QED
          BY <1>3, <4>1
      <3>2. QED
        BY <1>1, <1>10, <3>1 DEF RowsTrue
    <2>2. ASSUME NEW s \in DOMAIN e.sessions
          PROVE  /\ IF s = Nobody THEN e.sessions[s].start = 0 ELSE Cites(iss, e.sessions[s].start, "start", s)
                 /\ e.sessions[s].end # 0 => Cites(iss, e.sessions[s].end, "end", s)
      <3>1. s \in DOMAIN d.sessions /\ e.sessions[s] = d.sessions[s]
        BY <1>1, <1>7
      <3>2. QED
        BY <1>10, <3>1 DEF RowsTrue
    <2>3. QED
      BY <1>1, <1>10, <2>1, <2>2 DEF RowsTrue
  <1>12. EndsTrue(e, iss)
    <2> SUFFICES ASSUME NEW n \in 1..Len(iss), iss[n].kind = "end", n \in Present(e),
                        iss[n].who \in DOMAIN e.sessions
                 PROVE  e.sessions[iss[n].who].end = n
      BY DEF EndsTrue
    <2>1. n \in Present(d) /\ iss[n].who \in DOMAIN d.sessions /\ e.sessions[iss[n].who] = d.sessions[iss[n].who]
      BY <1>1, <1>7, <1>9
    <2>2. QED
      BY <1>10, <2>1 DEF EndsTrue
  <1>13. QED
    BY <1>1, <1>8, <1>9, <1>10, <1>11, <1>12 DEF FileTrue, Versioned

--------------------------------------------------------------------------------
(* What waits in memory. *)

LEMMA OrderedEmpty ==
    ASSUME NEW iss
    PROVE  <<>> \in Ordered(iss) /\ Numbers(<<>>) = {}
  BY DEF Ordered, Numbers

LEMMA OrderedTail ==
    ASSUME NEW iss, NEW s \in Ordered(iss), s # <<>>
    PROVE  Tail(s) \in Ordered(iss) /\ Numbers(Tail(s)) \subseteq Numbers(s) /\ Len(Tail(s)) = Len(s) - 1
  <1>1. /\ s \in Seq(Records) /\ Len(s) \in Nat /\ Len(s) > 0
        /\ \A i \in 1..Len(s) : s[i].no \in 1..Len(iss) /\ s[i] = iss[s[i].no]
        /\ \A i, j \in 1..Len(s) : i < j => s[i].no < s[j].no
    BY DEF Ordered
  <1> DEFINE t == Tail(s)
  <1>2. t \in Seq(Records) /\ Len(t) = Len(s) - 1 /\ \A i \in 1..Len(t) : t[i] = s[i + 1] /\ i + 1 \in 1..Len(s)
    BY <1>1
  <1> HIDE DEF t
  <1>3. \A i, j \in 1..Len(t) : i < j => t[i].no < t[j].no
    <2> SUFFICES ASSUME NEW i \in 1..Len(t), NEW j \in 1..Len(t), i < j PROVE t[i].no < t[j].no
      OBVIOUS
    <2>1. i + 1 < j + 1
      BY <1>1, <1>2
    <2>2. QED
      BY <1>1, <1>2, <2>1
  <1>4. \A i \in 1..Len(t) : t[i].no \in 1..Len(iss) /\ t[i] = iss[t[i].no]
    BY <1>1, <1>2
  <1>5. t \in Ordered(iss)
    BY <1>2, <1>3, <1>4 DEF Ordered
  <1>6. Numbers(t) \subseteq Numbers(s)
    BY <1>2 DEF Numbers
  <1>7. QED
    BY <1>2, <1>5, <1>6 DEF t

LEMMA OrderedAppend ==
    ASSUME NEW iss, Lawful(iss), NEW r \in Records, r.no = Len(iss) + 1, NEW s \in Ordered(iss)
    PROVE  /\ s \in Ordered(Append(iss, r)) /\ Append(s, r) \in Ordered(Append(iss, r))
           /\ Numbers(Append(s, r)) = Numbers(s) \cup {Len(iss) + 1}
           /\ Len(Append(s, r)) = Len(s) + 1
  <1> DEFINE new == Append(iss, r)
             t == Append(s, r)
  <1>0. iss \in Seq(Records) /\ Len(iss) \in Nat
    BY DEF Lawful
  <1>1. /\ s \in Seq(Records) /\ Len(s) \in Nat
        /\ \A i \in 1..Len(s) : s[i].no \in 1..Len(iss) /\ s[i] = iss[s[i].no]
        /\ \A i, j \in 1..Len(s) : i < j => s[i].no < s[j].no
    BY DEF Ordered
  <1>2. Len(new) = Len(iss) + 1 /\ new[Len(iss) + 1] = r /\ \A n \in 1..Len(iss) : new[n] = iss[n]
    BY <1>0
  <1>3. /\ t \in Seq(Records) /\ Len(t) = Len(s) + 1 /\ t[Len(s) + 1] = r
        /\ \A i \in 1..Len(s) : t[i] = s[i]
    BY <1>1
  <1> HIDE DEF new, t
  <1>4. \A i \in 1..Len(s) : s[i].no \in 1..Len(new) /\ s[i] = new[s[i].no]
    BY <1>0, <1>1, <1>2
  <1>5. s \in Ordered(new)
    BY <1>1, <1>4 DEF Ordered
  <1>6. \A i \in 1..Len(t) : i \in 1..Len(s) \/ i = Len(s) + 1
    BY <1>1, <1>3
  <1>7. \A i \in 1..Len(t) : t[i].no \in 1..Len(new) /\ t[i] = new[t[i].no]
    BY <1>0, <1>2, <1>3, <1>4, <1>6
  <1>8. \A i, j \in 1..Len(t) : i < j => t[i].no < t[j].no
    <2> SUFFICES ASSUME NEW i \in 1..Len(t), NEW j \in 1..Len(t), i < j PROVE t[i].no < t[j].no
      OBVIOUS
    <2>1. i \in 1..Len(s) /\ t[i] = s[i]
      BY <1>1, <1>3
    <2>2. CASE j \in 1..Len(s)
      BY <1>1, <1>3, <2>1, <2>2
    <2>3. CASE j = Len(s) + 1
      <3>1. s[i].no \in 1..Len(iss)
        BY <1>1, <2>1
      <3>2. QED
        BY <1>0, <1>3, <2>1, <2>3, <3>1
    <2>4. QED
      BY <1>6, <2>2, <2>3
  <1>9. t \in Ordered(new)
    BY <1>3, <1>7, <1>8 DEF Ordered
  <1>10. Numbers(t) = Numbers(s) \cup {Len(iss) + 1}
    <2>1. ASSUME NEW n PROVE n \in Numbers(t) <=> n \in Numbers(s) \/ n = Len(iss) + 1
      <3>1. n \in Numbers(t) <=> \E i \in 1..Len(t) : n = t[i].no
        BY DEF Numbers
      <3>2. n \in Numbers(s) <=> \E i \in 1..Len(s) : n = s[i].no
        BY DEF Numbers
      <3>3. Len(s) + 1 \in 1..Len(t) /\ \A i \in 1..Len(s) : i \in 1..Len(t)
        BY <1>1, <1>3
      <3>4. QED
        BY <1>3, <1>6, <3>1, <3>2, <3>3
    <2>2. QED
      BY <2>1
  <1>11. QED
    BY <1>3, <1>5, <1>9, <1>10 DEF new, t

Taken(s, n) == SubSeq(s, 1, n)
Kept(s, n) == SubSeq(s, n + 1, Len(s))

LEMMA OrderedSplit ==
    ASSUME NEW iss, NEW s \in Ordered(iss), NEW n \in 1..Len(s)
    PROVE  /\ Taken(s, n) \in Ordered(iss) /\ Kept(s, n) \in Ordered(iss)
           /\ Numbers(Taken(s, n)) \subseteq Numbers(s) /\ Numbers(Kept(s, n)) \subseteq Numbers(s)
           /\ \A p \in Numbers(Taken(s, n)), q \in Numbers(Kept(s, n)) : p < q
           /\ Len(Kept(s, n)) <= Len(s)
  <1> DEFINE front == Taken(s, n)
             rest == Kept(s, n)
  <1>1. /\ s \in Seq(Records) /\ Len(s) \in Nat /\ n \in Nat /\ n <= Len(s) /\ 1 <= n
        /\ \A i \in 1..Len(s) : s[i].no \in 1..Len(iss) /\ s[i] = iss[s[i].no]
        /\ \A i, j \in 1..Len(s) : i < j => s[i].no < s[j].no
    BY DEF Ordered
  <1>2. front \in Seq(Records) /\ Len(front) = n /\ \A i \in 1..Len(front) : front[i] = s[i] /\ i \in 1..Len(s)
    BY <1>1 DEF Taken
  <1>3. /\ rest \in Seq(Records) /\ Len(rest) = Len(s) - n
        /\ \A i \in 1..Len(rest) : rest[i] = s[n + i] /\ n + i \in 1..Len(s)
    <2>1. Len(rest) = Len(s) - n /\ \A i \in 1..Len(rest) : rest[i] = s[n + i] /\ n + i \in 1..Len(s)
      BY <1>1 DEF Kept
    <2>2. rest \in Seq(Records)
      <3>1. rest = [i \in 1..(Len(s) - n) |-> s[n + i]]
        BY <1>1 DEF Kept
      <3>2. \A i \in 1..(Len(s) - n) : s[n + i] \in Records
        BY <1>1
      <3>3. QED
        BY <1>1, <3>1, <3>2
    <2>3. QED
      BY <2>1, <2>2
  <1> HIDE DEF front, rest
  <1>4. \A i, j \in 1..Len(front) : i < j => front[i].no < front[j].no
    BY <1>1, <1>2
  <1>5. \A i \in 1..Len(front) : front[i].no \in 1..Len(iss) /\ front[i] = iss[front[i].no]
    BY <1>1, <1>2
  <1>6. \A i, j \in 1..Len(rest) : i < j => rest[i].no < rest[j].no
    <2> SUFFICES ASSUME NEW i \in 1..Len(rest), NEW j \in 1..Len(rest), i < j PROVE rest[i].no < rest[j].no
      OBVIOUS
    <2>1. n + i < n + j
      BY <1>1, <1>3
    <2>2. QED
      BY <1>1, <1>3, <2>1
  <1>7. \A i \in 1..Len(rest) : rest[i].no \in 1..Len(iss) /\ rest[i] = iss[rest[i].no]
    BY <1>1, <1>3
  <1>8. front \in Ordered(iss) /\ rest \in Ordered(iss)
    BY <1>2, <1>3, <1>4, <1>5, <1>6, <1>7 DEF Ordered
  <1>9. Numbers(front) \subseteq Numbers(s) /\ Numbers(rest) \subseteq Numbers(s)
    <2>1. ASSUME NEW p \in Numbers(front) PROVE p \in Numbers(s)
      <3>1. PICK i \in 1..Len(front) : p = front[i].no
        BY DEF Numbers
      <3>2. p = s[i].no /\ i \in 1..Len(s)
        BY <1>2, <3>1
      <3>3. QED
        BY <3>2 DEF Numbers
    <2>2. ASSUME NEW q \in Numbers(rest) PROVE q \in Numbers(s)
      <3>1. PICK j \in 1..Len(rest) : q = rest[j].no
        BY DEF Numbers
      <3>2. q = s[n + j].no /\ n + j \in 1..Len(s)
        BY <1>3, <3>1
      <3>3. QED
        BY <3>2 DEF Numbers
    <2>3. QED
      BY <2>1, <2>2
  <1>10. ASSUME NEW p \in Numbers(front), NEW q \in Numbers(rest) PROVE p < q
    <2>1. PICK i \in 1..Len(front) : p = front[i].no
      BY DEF Numbers
    <2>2. PICK j \in 1..Len(rest) : q = rest[j].no
      BY DEF Numbers
    <2>3. i < n + j
      BY <1>1, <1>2, <1>3
    <2>4. p = s[i].no /\ q = s[n + j].no /\ i \in 1..Len(s) /\ n + j \in 1..Len(s)
      BY <1>2, <1>3, <2>1, <2>2
    <2>5. QED
      BY <1>1, <2>3, <2>4
  <1>11. Len(rest) <= Len(s)
    BY <1>1, <1>3
  <1>12. \A p \in Numbers(front), q \in Numbers(rest) : p < q
    BY <1>10
  <1>13. QED
    BY <1>8, <1>9, <1>11, <1>12 DEF front, rest

LEMMA OrderedBatch ==
    ASSUME NEW iss, NEW s \in Ordered(iss)
    PROVE  Issued(s, iss) /\ Numbers(s) = {r.no : r \in Range(s)} /\ Numbers(s) \subseteq 1..Len(iss)
  <1>1. s \in Seq(Records) /\ \A i \in 1..Len(s) : s[i].no \in 1..Len(iss) /\ s[i] = iss[s[i].no]
    BY DEF Ordered
  <1>2. DOMAIN s = 1..Len(s)
    BY <1>1
  <1>3. QED
    BY <1>1, <1>2 DEF Issued, Numbers, Range

--------------------------------------------------------------------------------
(* The log. *)

LEMMA DbIn ==
    ASSUME NEW F, wal \in Seq(F), wal # <<>>
    PROVE  db \in F /\ db = wal[Len(wal)] /\ Len(wal) \in 1..Len(wal)
  BY DEF db, Last

\* A transaction that commits becomes the state of the file.
LEMMA Committed ==
    ASSUME NEW F, wal \in Seq(F), wal # <<>>, NEW d \in F, Commit(d)
    PROVE  /\ wal' \in Seq(F) /\ wal' # <<>> /\ db' = d
           /\ \A i \in 1..Len(wal') : wal'[i] = d \/ \E j \in 1..Len(wal) : wal'[i] = wal[j]
  <1>1. CASE d = db
    BY <1>1 DEF Commit, db, Last
  <1>2. CASE d # db /\ crashes = MaxCrashes
    <2>1. wal' = <<d>>
      BY <1>2 DEF Commit
    <2>2. QED
      BY <2>1 DEF db, Last
  <1>3. CASE d # db /\ crashes # MaxCrashes
    <2>1. wal' = Append(wal, d)
      BY <1>3 DEF Commit
    <2>2. wal' \in Seq(F) /\ Len(wal') = Len(wal) + 1 /\ wal'[Len(wal) + 1] = d /\ Len(wal) \in Nat
      BY <2>1
    <2>3. \A i \in 1..Len(wal') : i = Len(wal) + 1 \/ (i \in 1..Len(wal) /\ wal'[i] = wal[i])
      BY <2>1, <2>2
    <2>4. QED
      BY <2>2, <2>3 DEF db, Last
  <1>4. QED
    BY <1>1, <1>2, <1>3

LEMMA LogMoves ==
    ASSUME NEW F, NEW G, NEW s \in Seq(F), \A i \in 1..Len(s) : s[i] \in G
    PROVE  s \in Seq(G)
  OBVIOUS

LEMMA FileParts ==
    ASSUME NEW iss, NEW bs, NEW d \in Files(iss, bs)
    PROVE  d \in Databases /\ FileTrue(d, iss) /\ Whole(d, bs)
  BY DEF Files

LEMMA LogParts ==
    ASSUME WalInv
    PROVE  /\ db \in Files(issued, batches) /\ db \in Databases /\ FileTrue(db, issued) /\ Whole(db, batches)
           /\ Len(wal) \in 1..Len(wal) /\ db = wal[Len(wal)]
           /\ \A i \in 1..Len(wal) : wal[i] \in Databases /\ FileTrue(wal[i], issued) /\ Whole(wal[i], batches)
  <1>1. db \in Files(issued, batches) /\ Len(wal) \in 1..Len(wal) /\ db = wal[Len(wal)]
    BY DbIn DEF WalInv
  <1>2. \A i \in 1..Len(wal) : wal[i] \in Files(issued, batches)
    BY DEF WalInv
  <1>3. QED
    BY <1>1, <1>2, FileParts

--------------------------------------------------------------------------------
(* The records. *)

LEMMA LawfulAppend ==
    ASSUME NEW iss, Lawful(iss), NEW r \in Records, r.no = Len(iss) + 1,
           IF r.kind = "close" THEN r.who \in Starts ELSE r.who \in Sessions,
           \A i \in 1..Len(iss) :
              /\ iss[i].at <= r.at
              /\ iss[i].who = r.who =>
                    /\ r.kind = "start" => iss[i].kind \notin {"start", "end"}
                    /\ r.kind = "end" => iss[i].kind # "end"
    PROVE  Lawful(Append(iss, r))
  <1> DEFINE new == Append(iss, r)
  <1>1. iss \in Seq(Records) /\ Len(iss) \in Nat
    BY DEF Lawful
  <1>2. /\ new \in Seq(Records) /\ Len(new) = Len(iss) + 1 /\ new[Len(iss) + 1] = r
        /\ \A n \in 1..Len(iss) : new[n] = iss[n]
    BY <1>1
  <1> HIDE DEF new
  <1>3. \A i \in 1..Len(new) : i \in 1..Len(iss) \/ i = Len(iss) + 1
    BY <1>1, <1>2
  <1>4. r.at \in Nat
    BY DEF Records
  <1>5. \A i \in 1..Len(new) :
          new[i].no = i /\ (IF new[i].kind = "close" THEN new[i].who \in Starts ELSE new[i].who \in Sessions)
    BY <1>2, <1>3 DEF Lawful
  <1>6. ASSUME NEW i \in 1..Len(new), NEW j \in 1..Len(new)
        PROVE  /\ i <= j => new[i].at <= new[j].at
               /\ new[i].who = new[j].who =>
                     /\ new[i].kind = "start" /\ new[j].kind = "start" => i = j
                     /\ new[i].kind = "end" /\ new[j].kind = "end" => i = j
                     /\ new[i].kind = "start" /\ new[j].kind = "end" => i < j
    <2>1. CASE i \in 1..Len(iss) /\ j \in 1..Len(iss)
      BY <1>2, <2>1 DEF Lawful
    <2>2. CASE i \in 1..Len(iss) /\ j = Len(iss) + 1
      <3>1. i < j /\ new[i] = iss[i] /\ new[j] = r
        BY <1>1, <1>2, <2>2
      <3>2. QED
        BY <2>2, <3>1
    <2>3. CASE i = Len(iss) + 1 /\ j \in 1..Len(iss)
      <3>1. j < i /\ new[j] = iss[j] /\ new[i] = r
        BY <1>1, <1>2, <2>3
      <3>2. ~(i <= j)
        BY <1>1, <2>3
      <3>3. QED
        BY <2>3, <3>1, <3>2
    <2>4. CASE i = Len(iss) + 1 /\ j = Len(iss) + 1
      <3>1. new[i] = r /\ new[j] = r /\ i = j
        BY <1>2, <2>4
      <3>2. QED
        BY <1>4, <3>1
    <2>5. QED
      BY <1>3, <2>1, <2>2, <2>3, <2>4
  <1>7. QED
    BY <1>2, <1>5, <1>6 DEF Lawful, new

\* A record is produced: it is numbered next, and waits.
LEMMA Produced ==
    ASSUME IInv, NEW rec \in Records, rec.no = Len(issued) + 1, rec.at = now, Lawful(Append(issued, rec)),
           issued' = Append(issued, rec), Len(issued) < MaxRecords, proc = "up",
           queue' = Append(IF Len(queue) = QueueCap THEN Tail(queue) ELSE queue, rec),
           IF rec.kind = "close" THEN rec.who \in closing /\ closing' = closing \ {rec.who}
           ELSE closing' = closing,
           UNCHANGED <<wal, proc, batch, retried, pass, passAt, passOk, now, batches, conflict>>
    PROVE  /\ IssuedInv' /\ QueueInv' /\ NewerInv' /\ ClosesInv' /\ BatchesInv'
           /\ WalInv' /\ ProcInv' /\ PassInv' /\ FlagInv'
  <1> DEFINE q == IF Len(queue) = QueueCap THEN Tail(queue) ELSE queue
             N == Len(issued) + 1
  <1>0. /\ Lawful(issued) /\ issued \in Seq(Records) /\ Len(issued) \in Nat /\ Len(issued') = N
        /\ issued'[N] = rec /\ \A i \in 1..Len(issued) : issued'[i] = issued[i]
    <2>1. Lawful(issued) /\ issued \in Seq(Records) /\ Len(issued) \in Nat
      BY DEF IInv, IssuedInv, Lawful
    <2>2. QED
      BY <2>1
  <1>1. \A i \in 1..Len(issued') : i \in 1..Len(issued) \/ i = N
    BY <1>0
  <1>2. /\ q \in Ordered(issued) /\ Numbers(q) \subseteq Numbers(queue) /\ Len(q) + 1 <= QueueCap
    <2>0. queue \in Ordered(issued) /\ Len(queue) <= QueueCap /\ Len(queue) \in Nat /\ QueueCap \in Nat \ {0}
      BY DatabaseAssumption DEF IInv, QueueInv, Ordered, DatabaseAssumption
    <2>1. CASE Len(queue) = QueueCap
      <3> DEFINE t == Tail(queue)
      <3>1. queue # <<>> /\ q = t
        BY <2>0, <2>1
      <3>2. t \in Ordered(issued) /\ Numbers(t) \subseteq Numbers(queue) /\ Len(t) = Len(queue) - 1
        BY <2>0, <3>1, OrderedTail
      <3> HIDE DEF q, t
      <3>3. QED
        BY <2>0, <3>1, <3>2
    <2>2. CASE Len(queue) # QueueCap
      BY <2>0, <2>2
    <2>3. QED
      BY <2>1, <2>2
  <1>3. queue' = Append(q, rec)
    OBVIOUS
  <1> HIDE DEF q
  <1>4. /\ queue' \in Ordered(issued') /\ Numbers(queue') = Numbers(q) \cup {N} /\ Len(queue') <= QueueCap
        /\ batch' \in Ordered(issued') /\ Numbers(batch') = Numbers(batch)
    <2>1. /\ Append(q, rec) \in Ordered(Append(issued, rec)) /\ Numbers(Append(q, rec)) = Numbers(q) \cup {N}
          /\ Len(Append(q, rec)) = Len(q) + 1
      BY <1>0, <1>2, OrderedAppend
    <2>2. batch \in Ordered(Append(issued, rec))
      BY <1>0, OrderedAppend DEF IInv, QueueInv
    <2>3. QED
      BY <1>2, <1>3, <2>1, <2>2
  <1>5. Numbers(batch) \subseteq 1..Len(issued) /\ Numbers(queue) \subseteq 1..Len(issued)
    BY OrderedBatch DEF IInv, QueueInv
  <1>6. IssuedInv'
    <2>1. Len(issued') <= MaxRecords
      BY <1>0, DatabaseAssumption DEF DatabaseAssumption
    <2>2. \A i \in 1..Len(issued') : issued'[i].at <= now'
      BY <1>0, <1>1 DEF IInv, IssuedInv, PassInv
    <2>3. QED
      BY <2>1, <2>2 DEF IssuedInv
  <1>7. QueueInv'
    <2>1. \A m \in Numbers(batch'), n \in Numbers(queue') : m < n
      BY <1>0, <1>2, <1>4, <1>5 DEF IInv, QueueInv
    <2>2. QED
      BY <1>4, <2>1 DEF QueueInv
  <1>8. NewerInv'
    <2> SUFFICES ASSUME NEW i \in 1..Len(wal), NEW m \in Present(wal[i]), NEW n \in Numbers(batch') \cup Numbers(queue')
                 PROVE  m < n
      BY DEF NewerInv
    <2>1. CASE n \in Numbers(batch) \cup Numbers(queue)
      BY <2>1 DEF IInv, NewerInv
    <2>2. CASE n = N
      <3>1. m \in Nat /\ m <= Len(issued)
        BY <1>0, LogParts, PresentBelow DEF IInv
      <3>2. QED
        BY <1>0, <2>2, <3>1
    <2>3. QED
      BY <1>2, <1>4, <2>1, <2>2
  <1>9. ClosesInv'
    <2> DEFINE M == Numbers(batch) \cup Numbers(q)
    <2>1. \A m \in Numbers(batch') \cup Numbers(queue') : m \in M \/ m = N
      BY <1>4
    <2>2. \A m \in M : m \in 1..Len(issued) /\ issued'[m] = issued[m] /\ m \in Numbers(batch) \cup Numbers(queue)
      BY <1>0, <1>2, <1>5
    <2>3. ASSUME NEW m \in M, issued[m].kind = "close"
          PROVE  /\ issued[m].who \notin closing
                 /\ \A n \in M : issued[n].kind = "close" /\ issued[n].who = issued[m].who => m = n
      BY <2>2, <2>3 DEF IInv, ClosesInv
    <2>4. closing' \subseteq closing
      OBVIOUS
    <2> HIDE DEF M
    <2>5. ASSUME NEW m \in Numbers(batch') \cup Numbers(queue'), issued'[m].kind = "close"
          PROVE  issued'[m].who \notin closing'
      <3>1. CASE m \in M
        BY <2>2, <2>3, <2>4, <2>5, <3>1
      <3>2. CASE m = N
        BY <1>0, <2>5, <3>2
      <3>3. QED
        BY <2>1, <3>1, <3>2
    <2>6. ASSUME NEW m \in Numbers(batch') \cup Numbers(queue'), NEW n \in Numbers(batch') \cup Numbers(queue'),
                 issued'[m].kind = "close", issued'[n].kind = "close", issued'[n].who = issued'[m].who
          PROVE  m = n
      <3>1. CASE m \in M /\ n \in M
        BY <2>2, <2>3, <2>6, <3>1
      <3>2. CASE m \in M /\ n = N
        BY <1>0, <2>2, <2>3, <2>6, <3>2
      <3>3. CASE m = N /\ n \in M
        BY <1>0, <2>2, <2>3, <2>6, <3>3
      <3>4. CASE m = N /\ n = N
        BY <3>4
      <3>5. QED
        BY <2>1, <3>1, <3>2, <3>3, <3>4
    <2>7. QED
      BY <2>5, <2>6 DEF ClosesInv
  <1>10. BatchesInv'
    <2> SUFFICES ASSUME NEW b \in batches
                 PROVE  /\ b \subseteq 1..Len(issued') /\ b \cap Numbers(queue') = {}
                        /\ b = Numbers(batch') \/ b \cap Numbers(batch') = {}
      BY DEF BatchesInv
    <2>1. b \subseteq 1..Len(issued) /\ b \cap Numbers(queue) = {} /\ (b = Numbers(batch) \/ b \cap Numbers(batch) = {})
      BY DEF IInv, BatchesInv
    <2>2. N \notin b /\ b \subseteq 1..Len(issued')
      BY <1>0, <2>1
    <2>3. QED
      BY <1>2, <1>4, <2>1, <2>2
  <1>11. WalInv'
    <2>1. \A i \in 1..Len(wal) : wal[i] \in Files(issued', batches)
      BY <1>0, LogParts, FileLasts DEF IInv, Files
    <2>2. wal \in Seq(Files(issued, batches)) /\ wal # <<>>
      BY DEF IInv, WalInv
    <2>3. wal \in Seq(Files(issued', batches))
      BY <2>1, <2>2, LogMoves
    <2>4. QED
      BY <2>2, <2>3 DEF WalInv
  <1>12. ProcInv'
    BY DEF IInv, ProcInv, db
  <1>13. PassInv'
    BY DEF IInv, PassInv
  <1>14. FlagInv'
    BY DEF IInv, FlagInv
  <1>15. QED
    BY <1>6, <1>7, <1>8, <1>9, <1>10, <1>11, <1>12, <1>13, <1>14

LEMMA RecordStep ==
    ASSUME IInv, NEW kind, NEW who, Produce(Record(kind, who)),
           \/ kind \in {"start", "sample", "end"} /\ who \in Sessions /\ closing' = closing
           \/ kind = "close" /\ who \in closing /\ closing' = closing \ {who},
           kind = "start" => life[who] = "new" /\ life' = [life EXCEPT ![who] = "live"],
           kind = "end" => life[who] = "live" /\ life' = [life EXCEPT ![who] = "over"],
           kind = "sample" => life[who] = "live" /\ life' = life,
           kind = "close" => life' = life
    PROVE  IInv'
  <1> DEFINE rec == [Record(kind, who) EXCEPT !.no = Len(issued) + 1]
  <1>0. /\ Lawful(issued) /\ Len(issued) \in Nat /\ now \in Nat /\ closing \subseteq Starts
        /\ life \in [Sessions -> {"new", "live", "over"}]
        /\ \A i \in 1..Len(issued) : issued[i].at <= now
    BY DEF IInv, IssuedInv, Lawful, PassInv, ProcInv, LifeInv
  <1>1. rec = [no |-> Len(issued) + 1, kind |-> kind, who |-> who, at |-> now]
    BY DEF Record
  <1>2. /\ proc = "up" /\ Len(issued) < MaxRecords /\ issued' = Append(issued, rec)
        /\ queue' = Append(IF Len(queue) = QueueCap THEN Tail(queue) ELSE queue, rec)
        /\ UNCHANGED <<wal, proc, batch, retried, pass, passAt, passOk, now, batches, conflict>>
    BY DEF Produce
  <1> HIDE DEF rec
  <1>3. rec \in Records /\ rec.no = Len(issued) + 1 /\ rec.kind = kind /\ rec.who = who /\ rec.at = now
    BY <1>0, <1>1 DEF Records
  <1>4. kind # "close" => who \in Sessions
    OBVIOUS
  <1>5. ASSUME NEW i \in 1..Len(issued), issued[i].who = who
        PROVE  /\ kind = "start" => issued[i].kind \notin {"start", "end"}
               /\ kind = "end" => issued[i].kind # "end"
    BY <1>4, <1>5 DEF IInv, LifeInv
  <1>6. Lawful(Append(issued, rec))
    BY <1>0, <1>3, <1>4, <1>5, LawfulAppend
  <1>7. /\ IssuedInv' /\ QueueInv' /\ NewerInv' /\ ClosesInv' /\ BatchesInv'
        /\ WalInv' /\ ProcInv' /\ PassInv' /\ FlagInv'
    BY <1>2, <1>3, <1>6, Produced
  <1>8. LifeInv'
    <2>1. life' \in [Sessions -> {"new", "live", "over"}]
      BY <1>0, <1>4, <1>3
    <2>2. /\ Len(issued') = Len(issued) + 1 /\ issued'[Len(issued) + 1] = rec
          /\ \A i \in 1..Len(issued) : issued'[i] = issued[i]
      BY <1>0, <1>2 DEF Lawful
    <2>3. \A i \in 1..Len(issued') : i \in 1..Len(issued) \/ i = Len(issued) + 1
      BY <1>0, <2>2
    <2>4. ASSUME NEW s \in Sessions, NEW i \in 1..Len(issued'), issued'[i].who = s
          PROVE  /\ life'[s] = "new" => issued'[i].kind \notin {"start", "end"}
                 /\ life'[s] = "live" => issued'[i].kind # "end"
      <3>1. CASE i \in 1..Len(issued)
        <4>1. issued[i].who = s /\ issued'[i] = issued[i]
          BY <2>2, <2>4, <3>1
        <4>2. /\ life[s] = "new" => issued[i].kind \notin {"start", "end"}
              /\ life[s] = "live" => issued[i].kind # "end"
          BY <3>1, <4>1 DEF IInv, LifeInv
        <4>3. \/ life'[s] = life[s]
              \/ life[s] = "new" /\ life'[s] = "live"
              \/ life[s] = "live" /\ life'[s] = "over"
          BY <1>0, <1>4
        <4>4. QED
          BY <4>1, <4>2, <4>3
      <3>2. CASE i = Len(issued) + 1
        <4>1. issued'[i].kind = kind /\ s = who
          BY <1>3, <2>2, <2>4, <3>2
        <4>2. /\ kind = "start" => life'[s] = "live"
              /\ kind = "end" => life'[s] = "over"
          BY <1>0, <4>1
        <4>3. QED
          BY <4>1, <4>2
      <3>3. QED
        BY <2>3, <3>1, <3>2
    <2>5. QED
      BY <2>1, <2>4 DEF LifeInv
  <1>9. QED
    BY <1>7, <1>8 DEF IInv

LEMMA ProduceStep ==
    ASSUME IInv,
           \/ \E s \in Sessions : RecordSessionStart(s) \/ RecordLatency(s) \/ RecordSessionEnd(s)
           \/ \E c \in Starts : RecordCandleClose(c)
    PROVE  IInv'
  <1>1. ASSUME NEW s \in Sessions, RecordSessionStart(s) PROVE IInv'
    BY <1>1, RecordStep DEF RecordSessionStart
  <1>2. ASSUME NEW s \in Sessions, RecordLatency(s) PROVE IInv'
    BY <1>2, RecordStep DEF RecordLatency
  <1>3. ASSUME NEW s \in Sessions, RecordSessionEnd(s) PROVE IInv'
    BY <1>3, RecordStep DEF RecordSessionEnd
  <1>4. ASSUME NEW c \in Starts, RecordCandleClose(c) PROVE IInv'
    BY <1>4, RecordStep DEF RecordCandleClose
  <1>5. QED
    BY <1>1, <1>2, <1>3, <1>4

--------------------------------------------------------------------------------
(* The writer. *)

LEMMA TakeStep ==
    ASSUME IInv, TakePending
    PROVE  IInv'
  <1>1. PICK n \in 1..Len(queue) :
          /\ batch' = SubSeq(queue, 1, n) /\ queue' = SubSeq(queue, n + 1, Len(queue))
          /\ batches' = batches \cup (IF n > 1 THEN {{r.no : r \in Range(batch')}} ELSE {})
    BY DEF TakePending
  <1>2. /\ proc = "up" /\ batch = <<>> /\ pass = "no"
        /\ UNCHANGED <<wal, proc, life, closing, retried, pass, passAt, passOk, now, issued, conflict>>
    BY DEF TakePending
  <1>3. queue \in Ordered(issued) /\ Len(queue) <= QueueCap /\ Lawful(issued)
    BY DEF IInv, QueueInv, IssuedInv
  <1>4. /\ batch' \in Ordered(issued) /\ queue' \in Ordered(issued)
        /\ Numbers(batch') \subseteq Numbers(queue) /\ Numbers(queue') \subseteq Numbers(queue)
        /\ \A p \in Numbers(batch'), q \in Numbers(queue') : p < q
        /\ Len(queue') <= Len(queue)
    <2>1. batch' = Taken(queue, n) /\ queue' = Kept(queue, n)
      BY <1>1 DEF Taken, Kept
    <2>2. QED
      BY <1>3, <2>1, OrderedSplit
  <1>5. Numbers(batch') = {r.no : r \in Range(batch')} /\ Numbers(batch') \subseteq 1..Len(issued)
    BY <1>4, OrderedBatch
  <1>6. \A b \in batches' : b \in batches \/ b = Numbers(batch')
    <2> DEFINE N == {r.no : r \in Range(batch')}
    <2>1. batches' = batches \cup (IF n > 1 THEN {N} ELSE {})
      BY <1>1
    <2>2. N = Numbers(batch')
      BY <1>5
    <2> HIDE DEF N
    <2>3. QED
      BY <2>1, <2>2
  <1>7. IssuedInv' /\ LifeInv' /\ ProcInv' /\ FlagInv'
    BY <1>2 DEF IInv, IssuedInv, LifeInv, ProcInv, FlagInv, db
  <1>8. QueueInv'
    <2>1. Len(queue') <= QueueCap
      <3>1. Len(queue) \in Nat /\ Len(queue') \in Nat /\ QueueCap \in Nat
        BY <1>3, <1>4, DatabaseAssumption DEF Ordered, DatabaseAssumption
      <3>2. QED
        BY <1>3, <1>4, <3>1
    <2>2. QED
      BY <1>2, <1>4, <2>1 DEF QueueInv
  <1>9. \A m \in Numbers(batch') \cup Numbers(queue') : m \in Numbers(batch) \cup Numbers(queue)
    BY <1>4
  <1>10. NewerInv'
    BY <1>2, <1>9 DEF IInv, NewerInv
  <1>11. ClosesInv'
    <2>1. \A m \in Numbers(batch) \cup Numbers(queue) : issued[m].kind = "close" =>
            /\ issued[m].who \notin closing
            /\ \A k \in Numbers(batch) \cup Numbers(queue) :
                  issued[k].kind = "close" /\ issued[k].who = issued[m].who => m = k
      BY DEF IInv, ClosesInv
    <2>2. QED
      BY <1>2, <1>9, <2>1 DEF ClosesInv
  <1>12. \A m \in Numbers(batch') : m \notin Numbers(queue')
    <2>1. \A m \in Numbers(batch') : m \in Nat
      BY <1>5
    <2>2. QED
      BY <1>4, <2>1
  <1>13. BatchesInv'
    <2> SUFFICES ASSUME NEW b \in batches'
                 PROVE  /\ b \subseteq 1..Len(issued) /\ b \cap Numbers(queue') = {}
                        /\ b = Numbers(batch') \/ b \cap Numbers(batch') = {}
      BY <1>2 DEF BatchesInv
    <2>1. CASE b \in batches
      <3>1. b \subseteq 1..Len(issued) /\ b \cap Numbers(queue) = {}
        BY <2>1 DEF IInv, BatchesInv
      <3>2. QED
        BY <1>4, <3>1
    <2>2. CASE b = Numbers(batch')
      BY <1>5, <1>12, <2>2
    <2>3. QED
      BY <1>6, <2>1, <2>2
  <1>14. WalInv'
    <2>1. wal \in Seq(Files(issued, batches)) /\ wal # <<>>
      BY DEF IInv, WalInv
    <2>2. ASSUME NEW i \in 1..Len(wal) PROVE wal[i] \in Files(issued, batches')
      <3>1. wal[i] \in Databases /\ FileTrue(wal[i], issued) /\ Whole(wal[i], batches)
        BY LogParts DEF IInv
      <3>2. ASSUME NEW m \in Present(wal[i]) PROVE m \notin Numbers(batch')
        <4>1. m \in Nat
          BY <1>3, <3>1, PresentBelow
        <4>2. \A k \in Numbers(batch') : m < k
          BY <1>9 DEF IInv, NewerInv
        <4>3. QED
          BY <4>1, <4>2
      <3>3. Whole(wal[i], batches')
        BY <1>6, <3>1, <3>2 DEF Whole
      <3>4. QED
        BY <3>1, <3>3 DEF Files
    <2>3. wal \in Seq(Files(issued, batches'))
      BY <2>1, <2>2, LogMoves
    <2>4. QED
      BY <1>2, <2>1, <2>3 DEF WalInv
  <1>15. PassInv'
    BY <1>2 DEF IInv, PassInv
  <1>16. QED
    BY <1>7, <1>8, <1>10, <1>11, <1>13, <1>14, <1>15 DEF IInv

\* The batch in commit is one the transaction can write.
LEMMA BatchIsFresh ==
    ASSUME IInv
    PROVE  /\ Lawful(issued) /\ db \in Databases /\ FileTrue(db, issued)
           /\ Issued(batch, issued) /\ Newer(db, batch) /\ ClosesOnce(batch)
           /\ Numbers(batch) = {r.no : r \in Range(batch)} /\ Numbers(batch) \subseteq 1..Len(issued)
  <1>1. Lawful(issued) /\ batch \in Ordered(issued)
    BY DEF IInv, IssuedInv, QueueInv
  <1>2. Issued(batch, issued) /\ Numbers(batch) = {r.no : r \in Range(batch)} /\ Numbers(batch) \subseteq 1..Len(issued)
    BY <1>1, OrderedBatch
  <1>3. /\ db \in Databases /\ FileTrue(db, issued) /\ Len(wal) \in 1..Len(wal) /\ db = wal[Len(wal)]
    BY LogParts DEF IInv
  <1>4. \A r \in Range(batch) : r.no \in Numbers(batch)
    BY <1>2
  <1>5. Newer(db, batch)
    BY <1>3, <1>4 DEF IInv, NewerInv, Newer
  <1>6. ClosesOnce(batch)
    <2> SUFFICES ASSUME NEW q \in Of(batch, "close"), NEW r \in Of(batch, "close"), q.who = r.who PROVE q = r
      BY DEF ClosesOnce
    <2>1. /\ q \in Range(batch) /\ q.kind = "close" /\ q = issued[q.no]
          /\ r \in Range(batch) /\ r.kind = "close" /\ r = issued[r.no]
      BY <1>2 DEF Of, Issued
    <2>2. q.no = r.no
      BY <1>4, <2>1 DEF IInv, ClosesInv
    <2>3. QED
      BY <2>1, <2>2
  <1>7. QED
    BY <1>1, <1>2, <1>3, <1>5, <1>6

\* No constraint refuses it.
LEMMA NoConflict ==
    ASSUME IInv, proc = "up"
    PROVE  ~Conflicts(batch)
  <1>1. db.schema = 2
    BY DEF IInv, ProcInv
  <1>2. \A r \in Of(batch, "start") : r.who \notin DOMAIN db.sessions
    BY BatchIsFresh, StartIsNew
  <1>3. ~(db.schema < 2)
    BY <1>1
  <1>4. QED
    BY <1>2, <1>3 DEF Conflicts

LEMMA WriteStep ==
    ASSUME IInv, WriteBatch
    PROVE  IInv' /\ db' = Written(db, batch)
  <1> DEFINE e == Written(db, batch)
             N == Numbers(batch)
  <1>1. /\ proc = "up" /\ batch # <<>> /\ batch' = <<>> /\ retried' = FALSE /\ Commit(e)
        /\ UNCHANGED <<proc, life, closing, queue, pass, passAt, passOk, now, issued, batches, conflict>>
    BY DEF WriteBatch, WriteAll, WriteSessions, Written
  <1>2. /\ Lawful(issued) /\ db \in Databases /\ FileTrue(db, issued)
        /\ N = {r.no : r \in Range(batch)} /\ N \subseteq 1..Len(issued)
    BY BatchIsFresh
  <1>3. e \in Databases /\ FileTrue(e, issued) /\ Adds(db, e, N) /\ e.schema = db.schema
    <2>1. e \in Databases /\ FileTrue(e, issued) /\ Adds(db, e, {r.no : r \in Range(batch)}) /\ e.schema = db.schema
      BY BatchIsFresh, BatchWritten
    <2> HIDE DEF e
    <2>2. QED
      BY <1>2, <2>1
  <1> HIDE DEF e, N
  <1>4. Whole(db, batches) /\ db = wal[Len(wal)] /\ Len(wal) \in 1..Len(wal)
    BY LogParts DEF IInv
  <1>5. Whole(e, batches)
    <2> SUFFICES ASSUME NEW b \in batches PROVE Present(e) \cap b = {} \/ b \subseteq Present(e)
      BY DEF Whole
    <2>1. \A n \in b : n # 0
      BY DEF IInv, BatchesInv
    <2>2. \A n \in b : n \in Present(e) <=> n \in Present(db) \/ n \in N
      BY <1>3, <2>1 DEF Adds
    <2>3. b = N \/ b \cap N = {}
      BY DEF IInv, BatchesInv, N
    <2>4. Present(db) \cap b = {} \/ b \subseteq Present(db)
      BY <1>4 DEF Whole
    <2>5. QED
      BY <2>2, <2>3, <2>4
  <1>6. wal \in Seq(Files(issued, batches)) /\ wal # <<>> /\ e \in Files(issued, batches)
    BY <1>3, <1>5 DEF IInv, WalInv, Files
  <1>7. /\ wal' \in Seq(Files(issued, batches)) /\ wal' # <<>> /\ db' = e
        /\ \A i \in 1..Len(wal') : wal'[i] = e \/ \E j \in 1..Len(wal) : wal'[i] = wal[j]
    BY <1>1, <1>6, Committed
  <1>8. Numbers(batch') = {} /\ batch' \in Ordered(issued)
    BY <1>1, OrderedEmpty
  <1>9. QueueInv'
    BY <1>1, <1>8 DEF IInv, QueueInv
  <1>10. NewerInv'
    <2>1. ASSUME NEW m \in Present(e), NEW n \in Numbers(queue) PROVE m < n
      <3>1. n \in Nat /\ n > 0
        BY OrderedBatch DEF IInv, QueueInv
      <3>2. m = 0 \/ m \in Present(db) \/ m \in N
        BY <1>3 DEF Adds
      <3>3. CASE m = 0
        BY <3>1, <3>3
      <3>4. CASE m \in Present(db)
        BY <1>4, <3>4 DEF IInv, NewerInv
      <3>5. CASE m \in N
        BY <3>5 DEF IInv, QueueInv, N
      <3>6. QED
        BY <3>2, <3>3, <3>4, <3>5
    <2>2. ASSUME NEW j \in 1..Len(wal), NEW m \in Present(wal[j]), NEW n \in Numbers(queue) PROVE m < n
      BY DEF IInv, NewerInv
    <2>3. QED
      BY <1>1, <1>7, <1>8, <2>1, <2>2 DEF NewerInv
  <1>11. IssuedInv' /\ LifeInv' /\ ClosesInv' /\ BatchesInv'
    <2>1. IssuedInv' /\ LifeInv'
      BY <1>1 DEF IInv, IssuedInv, LifeInv
    <2>2. ClosesInv'
      <3>1. \A m \in Numbers(batch') \cup Numbers(queue') : m \in Numbers(batch) \cup Numbers(queue)
        BY <1>1, <1>8
      <3>2. \A m \in Numbers(batch) \cup Numbers(queue) : issued[m].kind = "close" =>
              /\ issued[m].who \notin closing
              /\ \A k \in Numbers(batch) \cup Numbers(queue) :
                    issued[k].kind = "close" /\ issued[k].who = issued[m].who => m = k
        BY DEF IInv, ClosesInv
      <3>3. QED
        BY <1>1, <3>1, <3>2 DEF ClosesInv
    <2>3. BatchesInv'
      BY <1>1, <1>8 DEF IInv, BatchesInv
    <2>4. QED
      BY <2>1, <2>2, <2>3
  <1>12. WalInv' /\ ProcInv'
    BY <1>1, <1>3, <1>7 DEF IInv, WalInv, ProcInv
  <1>13. PassInv'
    BY <1>1 DEF IInv, PassInv
  <1>14. FlagInv'
    BY <1>1 DEF IInv, FlagInv
  <1>15. IInv'
    BY <1>9, <1>10, <1>11, <1>12, <1>13, <1>14 DEF IInv
  <1>16. QED
    BY <1>7, <1>15 DEF e

\* A batch that is dropped leaves less in memory.
LEMMA WriteFailsStep ==
    ASSUME IInv, WriteFails
    PROVE  IInv'
  <1>1. /\ proc = "up" /\ retried' = ~retried /\ batch' = (IF retried THEN <<>> ELSE batch)
        /\ conflict' = (conflict \/ Conflicts(batch))
        /\ UNCHANGED <<wal, proc, life, closing, queue, pass, passAt, passOk, now, issued, batches>>
    BY DEF WriteFails, RolledBack
  <1>2. batch' \in Ordered(issued) /\ (Numbers(batch') = Numbers(batch) \/ Numbers(batch') = {})
    BY <1>1, OrderedEmpty DEF IInv, QueueInv
  <1>3. \A m \in Numbers(batch') : m \in Numbers(batch)
    BY <1>2
  <1>4. FlagInv'
    BY <1>1, NoConflict DEF IInv, FlagInv
  <1>5. QueueInv'
    BY <1>1, <1>2, <1>3 DEF IInv, QueueInv
  <1>6. NewerInv'
    BY <1>1, <1>3 DEF IInv, NewerInv
  <1>7. ClosesInv'
    <2>1. \A m \in Numbers(batch) \cup Numbers(queue) : issued[m].kind = "close" =>
            /\ issued[m].who \notin closing
            /\ \A k \in Numbers(batch) \cup Numbers(queue) :
                  issued[k].kind = "close" /\ issued[k].who = issued[m].who => m = k
      BY DEF IInv, ClosesInv
    <2>2. QED
      BY <1>1, <1>3, <2>1 DEF ClosesInv
  <1>8. BatchesInv'
    BY <1>1, <1>2 DEF IInv, BatchesInv
  <1>9. IssuedInv' /\ LifeInv' /\ WalInv' /\ ProcInv'
    BY <1>1 DEF IInv, IssuedInv, LifeInv, WalInv, ProcInv, db
  <1>10. PassInv'
    BY <1>1 DEF IInv, PassInv
  <1>11. QED
    BY <1>4, <1>5, <1>6, <1>7, <1>8, <1>9, <1>10 DEF IInv

--------------------------------------------------------------------------------
(* Steps that keep the records in effect. *)

\* A transaction that only moves rows, or the schema.
LEMMA FileStep ==
    ASSUME IInv, NEW d \in Databases, FileTrue(d, issued), Present(d) = Present(db), d.schema >= db.schema, Commit(d),
           UNCHANGED <<proc, life, closing, queue, batch, now, issued, batches>>
    PROVE  /\ IssuedInv' /\ LifeInv' /\ QueueInv' /\ NewerInv' /\ ClosesInv' /\ BatchesInv'
           /\ WalInv' /\ ProcInv' /\ db' = d
  <1>1. /\ db \in Databases /\ Whole(db, batches) /\ Len(wal) \in 1..Len(wal) /\ db = wal[Len(wal)]
    BY LogParts DEF IInv
  <1>2. d \in Files(issued, batches) /\ wal \in Seq(Files(issued, batches)) /\ wal # <<>>
    BY <1>1 DEF IInv, WalInv, Files, Whole
  <1>3. /\ wal' \in Seq(Files(issued, batches)) /\ wal' # <<>> /\ db' = d
        /\ \A i \in 1..Len(wal') : wal'[i] = d \/ \E j \in 1..Len(wal) : wal'[i] = wal[j]
    BY <1>2, Committed
  <1>4. IssuedInv' /\ LifeInv' /\ QueueInv' /\ ClosesInv' /\ BatchesInv' /\ WalInv'
    <2>1. IssuedInv' /\ LifeInv' /\ QueueInv'
      BY DEF IInv, IssuedInv, LifeInv, QueueInv
    <2>2. ClosesInv' /\ BatchesInv'
      BY DEF IInv, ClosesInv, BatchesInv
    <2>3. WalInv'
      BY <1>3 DEF WalInv
    <2>4. QED
      BY <2>1, <2>2, <2>3
  <1>5. NewerInv'
    <2>1. \A i \in 1..Len(wal') : \E j \in 1..Len(wal) : Present(wal'[i]) = Present(wal[j])
      BY <1>1, <1>3
    <2>2. QED
      BY <2>1 DEF IInv, NewerInv
  <1>6. ProcInv'
    <2>1. proc = "up" => d.schema = 2
      BY <1>1, FileFields DEF IInv, ProcInv
    <2>2. QED
      BY <1>3, <2>1 DEF IInv, ProcInv
  <1>7. QED
    BY <1>3, <1>4, <1>5, <1>6

\* The next migration is the one the schema waits for.
LEMMA NextMigration ==
    ASSUME IInv
    PROVE  /\ Pending # {} => /\ Min(Pending) \in Migrations /\ db.schema = Min(Pending) - 1
                              /\ db.recorded = 1..(Min(Pending) - 1)
           /\ Pending = {} => db.schema = 2
  <1>1. db \in Databases /\ Versioned(db)
    BY LogParts DEF IInv, FileTrue
  <1>2. CASE db.schema = 0 /\ db.recorded = {}
    <2>1. Pending = {1, 2}
      BY <1>2 DEF Pending, Migrations
    <2>2. Min({1, 2}) = 1
      BY DEF Min
    <2>3. QED
      BY <1>2, <2>1, <2>2 DEF Migrations
  <1>3. CASE db.schema = 1 /\ db.recorded = {1}
    <2>1. Pending = {2}
      BY <1>3 DEF Pending, Migrations
    <2>2. Min({2}) = 2
      BY DEF Min
    <2>3. QED
      BY <1>3, <2>1, <2>2 DEF Migrations
  <1>4. CASE db.schema = 2 /\ db.recorded = {1, 2}
    <2>1. Pending = {}
      BY <1>4 DEF Pending, Migrations
    <2>2. QED
      BY <1>4, <2>1
  <1>5. QED
    BY <1>1, <1>2, <1>3, <1>4 DEF Versioned

MigratedTo(d, v) == [[d EXCEPT !.schema = v] EXCEPT !.recorded = @ \cup {v}]

LEMMA Migrated ==
    ASSUME NEW iss, NEW d \in Databases, FileTrue(d, iss), NEW v \in Migrations, d.schema = v - 1,
           d.recorded = 1..(v - 1), NEW e, e = MigratedTo(d, v)
    PROVE  /\ e \in Databases /\ FileTrue(e, iss) /\ Present(e) = Present(d) /\ e.schema >= d.schema
           /\ e.sessions = d.sessions /\ e.samples = d.samples /\ e.closes = d.closes
  <1>1. /\ e.sessions = d.sessions /\ e.samples = d.samples /\ e.closes = d.closes /\ e.gone = d.gone
        /\ e.schema = v /\ e.recorded = d.recorded \cup {v}
    BY DEF Databases, MigratedTo
  <1>2. e \in Databases
    <2> DEFINE R == d.recorded \cup {v}
    <2>1. R \in SUBSET Migrations /\ v \in 0..2
      BY FileFields DEF Migrations
    <2>2. e = [d EXCEPT !.schema = v, !.recorded = R]
      BY DEF Databases, MigratedTo
    <2> HIDE DEF R
    <2>3. QED
      BY <2>1, <2>2 DEF Databases
  <1>3. Present(e) = Present(d)
    BY <1>1 DEF Present, Rows
  <1>4. Versioned(e) /\ e.schema >= d.schema
    <2>1. CASE v = 1
      BY <1>1, <2>1 DEF Versioned
    <2>2. CASE v = 2
      BY <1>1, <2>2 DEF Versioned
    <2>3. QED
      BY <2>1, <2>2 DEF Migrations
  <1>5. RowsTrue(e, iss)
    BY <1>1 DEF FileTrue, RowsTrue
  <1>6. EndsTrue(e, iss)
    BY <1>1, <1>3 DEF FileTrue, EndsTrue
  <1>7. QED
    BY <1>1, <1>2, <1>3, <1>4, <1>5, <1>6 DEF FileTrue

\* The rows stay what they are.
SameRows == db'.sessions = db.sessions /\ db'.samples = db.samples /\ db'.closes = db.closes

LEMMA MigrateStep ==
    ASSUME IInv, Migrate
    PROVE  IInv' /\ SameRows
  <1>1. /\ proc = "migrating"
        /\ UNCHANGED <<life, closing, queue, batch, retried, pass, passAt, passOk, now, issued, batches, conflict>>
    BY DEF Migrate, memory
  <1>2. PassInv' /\ FlagInv'
    <2>1. PassInv'
      <3>1. pass = "no"
        BY <1>1 DEF IInv, PassInv
      <3>2. QED
        BY <1>1, <3>1 DEF IInv, PassInv
    <2>2. FlagInv'
      BY <1>1 DEF IInv, FlagInv
    <2>3. QED
      BY <2>1, <2>2
  <1>3. CASE Pending # {}
    <2> DEFINE v == Min(Pending)
               e == [Script(v) EXCEPT !.recorded = @ \cup {v}]
    <2>1. Commit(e) /\ UNCHANGED proc
      BY <1>3 DEF Migrate, ApplyMigration
    <2>2. v \in Migrations /\ db.schema = v - 1 /\ db.recorded = 1..(v - 1)
      BY <1>3, NextMigration
    <2> HIDE DEF v
    <2>3. db \in Databases /\ FileTrue(db, issued)
      BY LogParts DEF IInv
    <2>4. e = MigratedTo(db, v)
      BY DEF Script, MigratedTo
    <2> HIDE DEF e
    <2>5. /\ e \in Databases /\ FileTrue(e, issued) /\ Present(e) = Present(db) /\ e.schema >= db.schema
          /\ e.sessions = db.sessions /\ e.samples = db.samples /\ e.closes = db.closes
      BY <2>2, <2>3, <2>4, Migrated
    <2>6. /\ IssuedInv' /\ LifeInv' /\ QueueInv' /\ NewerInv' /\ ClosesInv' /\ BatchesInv'
          /\ WalInv' /\ ProcInv' /\ db' = e
      BY <1>1, <2>1, <2>5, FileStep
    <2>7. QED
      BY <1>2, <2>5, <2>6 DEF IInv, SameRows
  <1>4. CASE Pending = {}
    <2>1. UNCHANGED wal /\ proc' = "up" /\ db.schema = 2
      BY <1>4, NextMigration DEF Migrate
    <2>2. db' = db
      BY <2>1 DEF db
    <2>3. IssuedInv' /\ LifeInv' /\ NewerInv' /\ ClosesInv'
      <3>1. IssuedInv' /\ LifeInv'
        BY <1>1 DEF IInv, IssuedInv, LifeInv
      <3>2. NewerInv' /\ ClosesInv'
        BY <1>1, <2>1 DEF IInv, NewerInv, ClosesInv
      <3>3. QED
        BY <3>1, <3>2
    <2>4. QueueInv' /\ BatchesInv' /\ WalInv' /\ ProcInv'
      <3>1. QueueInv' /\ BatchesInv'
        BY <1>1, <2>1 DEF IInv, QueueInv, BatchesInv
      <3>2. WalInv' /\ ProcInv'
        BY <1>1, <2>1, <2>2 DEF IInv, WalInv, ProcInv
      <3>3. QED
        BY <3>1, <3>2
    <2>5. QED
      BY <1>2, <2>2, <2>3, <2>4 DEF IInv, SameRows
  <1>5. QED
    BY <1>3, <1>4

LEMMA PruneStep ==
    ASSUME IInv, PruneTable
    PROVE  IInv'
  <1>1. /\ proc = "up" /\ pass \in {"samples", "sessions"}
        /\ UNCHANGED <<proc, life, closing, queue, batch, retried, passAt, passOk, now, issued, batches, conflict>>
    BY DEF PruneTable
  <1>2. Lawful(issued) /\ db \in Databases /\ FileTrue(db, issued) /\ db.schema \in 0..2
    BY BatchIsFresh, FileFields
  <1>3. pass' \in {"no", "samples", "sessions"}
    BY DEF PruneTable, After
  <1>4. PassInv' /\ FlagInv'
    <2>1. PassInv'
      BY <1>1, <1>3 DEF IInv, PassInv
    <2>2. FlagInv'
      BY <1>1 DEF IInv, FlagInv
    <2>3. QED
      BY <2>1, <2>2
  <1>5. CASE pass = "samples"
    <2>1. PICK part \in Chunks(ExpiredSamples(passAt)) :
            Commit([db EXCEPT !.samples = @ \ part, !.gone = @ \cup {r.no : r \in part}])
      BY <1>5 DEF PruneTable
    <2> DEFINE e == [db EXCEPT !.samples = @ \ part, !.gone = @ \cup {r.no : r \in part}]
    <2>2. part \subseteq db.samples
      BY DEF Chunks, ExpiredSamples
    <2>3. e \in Databases /\ FileTrue(e, issued) /\ Present(e) = Present(db) /\ e.schema = db.schema
      BY <1>2, <2>2, SamplesPruned
    <2>4. Commit(e)
      BY <2>1
    <2> HIDE DEF e
    <2>5. e.schema >= db.schema
      BY <1>2, <2>3
    <2>6. /\ IssuedInv' /\ LifeInv' /\ QueueInv' /\ NewerInv' /\ ClosesInv' /\ BatchesInv'
          /\ WalInv' /\ ProcInv'
      BY <1>1, <2>3, <2>4, <2>5, FileStep
    <2>7. QED
      BY <1>4, <2>6 DEF IInv
  <1>6. CASE pass = "sessions"
    <2>1. PICK part \in Chunks(ExpiredSessions(passAt)) :
            Commit([db EXCEPT !.sessions = [s \in DOMAIN @ \ part |-> @[s]],
                              !.gone = @ \cup UNION {{db.sessions[s].start, db.sessions[s].end} : s \in part}])
      BY <1>6 DEF PruneTable
    <2> DEFINE e == [db EXCEPT !.sessions = [s \in DOMAIN @ \ part |-> @[s]],
                               !.gone = @ \cup UNION {{db.sessions[s].start, db.sessions[s].end} : s \in part}]
    <2>2. part \subseteq DOMAIN db.sessions
      BY DEF Chunks, ExpiredSessions
    <2>3. e \in Databases /\ FileTrue(e, issued) /\ Present(e) = Present(db) /\ e.schema = db.schema
      BY <1>2, <2>2, SessionsPruned
    <2>4. Commit(e)
      BY <2>1
    <2> HIDE DEF e
    <2>5. e.schema >= db.schema
      BY <1>2, <2>3
    <2>6. /\ IssuedInv' /\ LifeInv' /\ QueueInv' /\ NewerInv' /\ ClosesInv' /\ BatchesInv'
          /\ WalInv' /\ ProcInv'
      BY <1>1, <2>3, <2>4, <2>5, FileStep
    <2>7. QED
      BY <1>4, <2>6 DEF IInv
  <1>7. QED
    BY <1>1, <1>5, <1>6

--------------------------------------------------------------------------------
(* Steps that leave the records alone. *)

LEMMA QuietStep ==
    ASSUME IInv,
           \/ StartPrune \/ PruneFails \/ SummaryStats \/ Summary \/ Tick \/ UNCHANGED vars
    PROVE  IInv' /\ UNCHANGED wal
  <1>1. UNCHANGED <<wal, proc, life, closing, queue, batch, retried, issued, batches, conflict>>
    BY DEF StartPrune, PruneFails, SummaryStats, Summary, Tick, vars, memory
  <1>2. now' \in Nat /\ now <= now'
    <2>1. now \in Nat
      BY DEF IInv, PassInv
    <2>2. now' = now \/ now' = now + 1
      BY DEF StartPrune, PruneFails, SummaryStats, Summary, Tick, vars, memory
    <2>3. QED
      BY <2>1, <2>2
  <1>3. PassInv'
    <2>1. CASE StartPrune
      BY <1>1, <2>1 DEF IInv, PassInv, StartPrune
    <2>2. CASE PruneFails
      BY <1>1, <2>2 DEF IInv, PassInv, PruneFails, After
    <2>3. CASE ~StartPrune /\ ~PruneFails
      <3>1. UNCHANGED <<pass, passAt>>
        BY <2>3 DEF SummaryStats, Summary, Tick, vars, memory
      <3>2. QED
        BY <1>1, <1>2, <3>1 DEF IInv, PassInv
    <2>4. QED
      BY <2>1, <2>2, <2>3
  <1>4. FlagInv'
    <2>1. passOk' \in BOOLEAN
      BY DEF StartPrune, PruneFails, SummaryStats, Summary, Tick, vars, memory, IInv, FlagInv
    <2>2. QED
      BY <1>1, <2>1 DEF IInv, FlagInv
  <1>5. IssuedInv'
    <2>1. Lawful(issued) /\ Len(issued) <= MaxRecords /\ now \in Nat
      BY DEF IInv, IssuedInv, PassInv
    <2>2. \A i \in 1..Len(issued) : issued[i].at <= now'
      <3>1. ASSUME NEW i \in 1..Len(issued) PROVE issued[i].at \in Nat /\ issued[i].at <= now
        BY <2>1, RecordFields DEF IInv, IssuedInv
      <3>2. QED
        BY <1>2, <2>1, <3>1
    <2>3. QED
      BY <1>1, <2>1, <2>2 DEF IssuedInv
  <1>6. LifeInv' /\ QueueInv'
    BY <1>1 DEF IInv, LifeInv, QueueInv
  <1>7. NewerInv' /\ ClosesInv' /\ BatchesInv'
    BY <1>1 DEF IInv, NewerInv, ClosesInv, BatchesInv
  <1>8. WalInv' /\ ProcInv'
    BY <1>1 DEF IInv, WalInv, ProcInv, db
  <1>9. QED
    BY <1>1, <1>3, <1>4, <1>5, <1>6, <1>7, <1>8 DEF IInv

\* Opening, a failed migration and a checkpoint.
LEMMA OpenStep ==
    ASSUME IInv, Open \/ MigrateFails
    PROVE  IInv' /\ UNCHANGED wal
  <1>1. /\ proc # "up" /\ proc' \in {"down", "migrating"} /\ (closing' = closing \/ closing' = Starts)
        /\ UNCHANGED <<wal, life, queue, batch, retried, pass, passAt, passOk, now, issued, batches, conflict>>
    BY DEF Open, MigrateFails, memory
  <1>2. queue = <<>> /\ batch = <<>> /\ pass = "no"
    BY <1>1 DEF IInv, QueueInv, PassInv
  <1>3. IssuedInv' /\ LifeInv' /\ QueueInv'
    BY <1>1, <1>2 DEF IInv, IssuedInv, LifeInv, QueueInv
  <1>4. NewerInv' /\ BatchesInv'
    BY <1>1 DEF IInv, NewerInv, BatchesInv
  <1>5. ClosesInv'
    <2>1. Numbers(queue') = {} /\ Numbers(batch') = {}
      BY <1>1, <1>2, OrderedEmpty
    <2>2. QED
      BY <2>1 DEF ClosesInv
  <1>6. WalInv' /\ ProcInv'
    BY <1>1 DEF IInv, WalInv, ProcInv
  <1>7. PassInv'
    BY <1>1, <1>2 DEF IInv, PassInv
  <1>8. FlagInv'
    BY <1>1 DEF IInv, FlagInv
  <1>9. QED
    BY <1>1, <1>3, <1>4, <1>5, <1>6, <1>7, <1>8 DEF IInv

\* The log gets shorter: a checkpoint, a crash or a power failure.
LEMMA ShorterLog ==
    ASSUME IInv, NEW n \in 1..Len(wal), wal' = <<wal[n]>>, UNCHANGED <<issued, batches>>
    PROVE  WalInv' /\ db' = wal[n] /\ Len(wal') = 1 /\ wal'[1] = wal[n]
  <1>1. wal[n] \in Files(issued, batches)
    BY DEF IInv, WalInv
  <1>2. QED
    BY <1>1 DEF WalInv, db, Last

LEMMA CheckpointStep ==
    ASSUME IInv, Checkpoint
    PROVE  IInv' /\ db' = db
  <1>1. /\ wal' = <<db>>
        /\ UNCHANGED <<proc, life, closing, queue, batch, retried, pass, passAt, passOk, now, issued, batches, conflict>>
    BY DEF Checkpoint, memory
  <1>2. Len(wal) \in 1..Len(wal) /\ db = wal[Len(wal)]
    BY LogParts DEF IInv
  <1>3. wal' = <<wal[Len(wal)]>>
    BY <1>1, <1>2
  <1>4. WalInv' /\ db' = db /\ Len(wal') = 1 /\ wal'[1] = wal[Len(wal)]
    BY <1>1, <1>2, <1>3, ShorterLog
  <1>5. NewerInv'
    <2>1. \A i \in 1..Len(wal') : wal'[i] = wal[Len(wal)]
      BY <1>4
    <2>2. QED
      BY <1>1, <1>2, <2>1 DEF IInv, NewerInv
  <1>6. IssuedInv' /\ LifeInv' /\ QueueInv'
    BY <1>1 DEF IInv, IssuedInv, LifeInv, QueueInv
  <1>7. ClosesInv' /\ BatchesInv'
    BY <1>1 DEF IInv, ClosesInv, BatchesInv
  <1>8. ProcInv'
    BY <1>1, <1>4 DEF IInv, ProcInv
  <1>9. PassInv'
    BY <1>1 DEF IInv, PassInv
  <1>10. FlagInv'
    BY <1>1 DEF IInv, FlagInv
  <1>11. QED
    BY <1>4, <1>5, <1>6, <1>7, <1>8, <1>9, <1>10 DEF IInv

LEMMA CrashStep ==
    ASSUME IInv, Crash \/ PowerLoss
    PROVE  IInv'
  <1>1. /\ proc' = "down" /\ queue' = <<>> /\ batch' = <<>> /\ retried' = FALSE /\ pass' = "no" /\ passOk' = TRUE
        /\ life' = [s \in Sessions |-> IF life[s] = "live" THEN "over" ELSE life[s]]
        /\ UNCHANGED <<passAt, closing, now, issued, batches, conflict>>
    BY DEF Crash, PowerLoss, Dies
  <1>2. WalInv'
    <2>1. CASE UNCHANGED wal
      BY <1>1, <2>1 DEF IInv, WalInv
    <2>2. CASE \E n \in 1..Len(wal) : wal' = <<wal[n]>>
      BY <1>1, <2>2, ShorterLog
    <2>3. QED
      BY <2>1, <2>2 DEF Crash, PowerLoss
  <1>3. Numbers(queue') = {} /\ Numbers(batch') = {} /\ queue' \in Ordered(issued) /\ batch' \in Ordered(issued)
    BY <1>1, OrderedEmpty
  <1>4. QueueInv'
    <2>1. Len(queue') <= QueueCap
      BY <1>1, DatabaseAssumption DEF DatabaseAssumption
    <2>2. QED
      BY <1>1, <1>3, <2>1 DEF QueueInv
  <1>5. NewerInv' /\ ClosesInv'
    BY <1>3 DEF NewerInv, ClosesInv
  <1>6. BatchesInv'
    BY <1>1, <1>3 DEF IInv, BatchesInv
  <1>7. LifeInv'
    BY <1>1 DEF IInv, LifeInv
  <1>8. IssuedInv'
    BY <1>1 DEF IInv, IssuedInv
  <1>9. ProcInv'
    BY <1>1 DEF IInv, ProcInv
  <1>10. PassInv'
    BY <1>1 DEF IInv, PassInv
  <1>11. FlagInv'
    BY <1>1 DEF IInv, FlagInv
  <1>12. QED
    BY <1>2, <1>4, <1>5, <1>6, <1>7, <1>8, <1>9, <1>10, <1>11 DEF IInv

--------------------------------------------------------------------------------
(* The invariant. *)

Rewritten(d, v, R, f, S) == [d EXCEPT !.schema = v, !.recorded = R, !.sessions = f, !.samples = S]

LEMMA FileRewritten ==
    ASSUME NEW d \in Databases, NEW v \in 0..2, NEW R \in SUBSET Migrations,
           NEW f \in UNION {[D -> Row] : D \in SUBSET Who}, NEW S \in SUBSET Sample
    PROVE  Rewritten(d, v, R, f, S) \in Databases
  BY DEF Databases, Rewritten

LEMMA FirstFiles ==
    ASSUME NEW d \in {Empty, Old}
    PROVE  d \in Files(<<>>, {})
  <1>1. Empty \in Databases /\ Old \in Databases
    <2> DEFINE none == [s \in {} |-> 0]
               f == [s \in {Nobody} |-> [start |-> 0, end |-> 0, at |-> 0]]
               r == [no |-> 0, session |-> Nobody, at |-> 0]
    <2>1. none \in [{} -> Row] /\ none \in [{} -> Nat] /\ {} \in SUBSET Who /\ {} \in SUBSET Starts
      OBVIOUS
    <2>2. f \in [{Nobody} -> Row] /\ {Nobody} \in SUBSET Who
      BY DEF Row, Who
    <2>3. r \in Sample
      BY DEF Sample, Who
    <2>4. none \in UNION {[D -> Row] : D \in SUBSET Who} /\ none \in UNION {[D -> Nat] : D \in SUBSET Starts}
      BY <2>1
    <2>5. f \in UNION {[D -> Row] : D \in SUBSET Who}
      BY <2>2
    <2>6. Empty = [schema |-> 0, recorded |-> {}, gone |-> {}, sessions |-> none, samples |-> {}, closes |-> none]
      BY DEF Empty
    <2>7. Old = [Empty EXCEPT !.schema = 1, !.recorded = {1}, !.sessions = f, !.samples = {r}]
      BY DEF Old
    <2> HIDE DEF none, f, r
    <2>8. Empty \in Databases
      BY <2>4, <2>6 DEF Databases
    <2>9. Old \in Databases
      <3> DEFINE R == {1}
                 S == {r}
      <3>1. R \in SUBSET Migrations /\ S \in SUBSET Sample
        BY <2>3 DEF Migrations
      <3>2. Old = Rewritten(Empty, 1, R, f, S)
        BY <2>7 DEF Rewritten
      <3> HIDE DEF R, S
      <3>3. QED
        BY <2>5, <2>8, <3>1, <3>2, FileRewritten
    <2>10. QED
      BY <2>8, <2>9
  <1>2. RowsTrue(Empty, <<>>) /\ RowsTrue(Old, <<>>)
    BY DEF RowsTrue, Empty, Old, Cites
  <1>3. Versioned(Empty) /\ Versioned(Old)
    BY DEF Versioned, Empty, Old
  <1>4. EndsTrue(d, <<>>) /\ Whole(d, {})
    BY DEF EndsTrue, Whole
  <1>5. QED
    BY <1>1, <1>2, <1>3, <1>4 DEF Files, FileTrue

LEMMA InitInv == Init => IInv
  <1> SUFFICES ASSUME Init PROVE IInv
    OBVIOUS
  <1>1. /\ proc = "down" /\ life = [s \in Sessions |-> "new"] /\ closing = Starts
        /\ queue = <<>> /\ batch = <<>> /\ retried = FALSE /\ pass = "no" /\ passAt = 0 /\ passOk = TRUE
        /\ now = 1 /\ issued = <<>> /\ batches = {} /\ conflict = FALSE
    BY DEF Init
  <1>2. WalInv
    <2>1. PICK d \in {Empty, Old} : wal = <<d>>
      BY DEF Init
    <2>2. d \in Files(issued, batches)
      BY <1>1, FirstFiles
    <2>3. QED
      BY <2>1, <2>2 DEF WalInv
  <1>3. Numbers(queue) = {} /\ Numbers(batch) = {} /\ queue \in Ordered(issued) /\ batch \in Ordered(issued)
    BY <1>1, OrderedEmpty
  <1>4. QueueInv
    <2>1. Len(queue) <= QueueCap
      BY <1>1, DatabaseAssumption DEF DatabaseAssumption
    <2>2. QED
      BY <1>1, <1>3, <2>1 DEF QueueInv
  <1>5. NewerInv /\ ClosesInv
    BY <1>3 DEF NewerInv, ClosesInv
  <1>6. IssuedInv
    <2>1. Lawful(<<>>)
      BY DEF Lawful
    <2>2. Len(issued) <= MaxRecords
      BY <1>1, DatabaseAssumption DEF DatabaseAssumption
    <2>3. QED
      BY <1>1, <2>1, <2>2 DEF IssuedInv
  <1>7. LifeInv /\ BatchesInv
    BY <1>1 DEF LifeInv, BatchesInv
  <1>8. ProcInv /\ PassInv
    BY <1>1 DEF ProcInv, PassInv
  <1>9. FlagInv
    BY <1>1 DEF FlagInv
  <1>10. QED
    BY <1>2, <1>4, <1>5, <1>6, <1>7, <1>8, <1>9 DEF IInv

LEMMA StepInv == IInv /\ [Next]_vars => IInv'
  <1> SUFFICES ASSUME IInv, [Next]_vars PROVE IInv'
    OBVIOUS
  <1>1. CASE Open \/ MigrateFails
    BY <1>1, OpenStep
  <1>2. CASE Migrate
    BY <1>2, MigrateStep
  <1>3. CASE \/ \E s \in Sessions : RecordSessionStart(s) \/ RecordLatency(s) \/ RecordSessionEnd(s)
             \/ \E c \in Starts : RecordCandleClose(c)
    BY <1>3, ProduceStep
  <1>4. CASE TakePending
    BY <1>4, TakeStep
  <1>5. CASE WriteBatch
    BY <1>5, WriteStep
  <1>6. CASE WriteFails
    BY <1>6, WriteFailsStep
  <1>7. CASE PruneTable
    BY <1>7, PruneStep
  <1>8. CASE StartPrune \/ PruneFails \/ SummaryStats \/ Summary \/ Tick \/ UNCHANGED vars
    BY <1>8, QuietStep
  <1>9. CASE Checkpoint
    BY <1>9, CheckpointStep
  <1>10. CASE Crash \/ PowerLoss
    BY <1>10, CrashStep
  <1>11. QED
    BY <1>1, <1>2, <1>3, <1>4, <1>5, <1>6, <1>7, <1>8, <1>9, <1>10 DEF Next

\* Whatever a crash, a power failure or a failed migration left, the next migration can
\* run, and the store serves nobody before all of them have (migrate.go).
THEOREM AlwaysOpenable == Spec => []Openable
  <1>1. IInv => Openable
    BY NextMigration DEF IInv, ProcInv, Openable
  <1>2. QED
    BY <1>1, InitInv, StepInv, PTL DEF Spec

--------------------------------------------------------------------------------
(* What a step does to the rows. *)

LEMMA EncodeMonotone ==
    ASSUME NEW a \in Int, NEW b \in Int, a <= b
    PROVE  Encode(a) <= Encode(b) /\ Encode(a) \in Int /\ Encode(b) \in Int
  BY DatabaseAssumption DEF DatabaseAssumption, Encode

\* A batch takes no row away.
LEMMA WrittenKeeps ==
    ASSUME NEW iss, Lawful(iss), NEW d \in Databases, FileTrue(d, iss), NEW b, Issued(b, iss), Newer(d, b),
           ClosesOnce(b)
    PROVE  /\ d.samples \subseteq Written(d, b).samples
           /\ DOMAIN d.sessions \subseteq DOMAIN Written(d, b).sessions
           /\ DOMAIN d.closes \subseteq DOMAIN Written(d, b).closes
  <1> DEFINE e1 == InsertStarts(d, b)
             e2 == UpdateEnds(e1, b)
             e3 == WriteSamples(e2, b)
             e4 == WriteCandleCloses(e3, b)
  <1>1. /\ e1 \in Databases /\ FileTrue(e1, iss)
        /\ e1.samples = d.samples /\ e1.closes = d.closes /\ DOMAIN d.sessions \subseteq DOMAIN e1.sessions
    <2>1. e1 \in Databases /\ FileTrue(e1, iss)
      BY StartsWritten
    <2>2. e1.samples = d.samples /\ e1.closes = d.closes /\ DOMAIN d.sessions \subseteq DOMAIN e1.sessions
      BY DEF InsertStarts, Databases, Over
    <2>3. QED
      BY <2>1, <2>2
  <1> HIDE DEF e1
  <1>2. /\ e2 \in Databases /\ FileTrue(e2, iss)
        /\ e2.samples = d.samples /\ e2.closes = d.closes /\ DOMAIN d.sessions \subseteq DOMAIN e2.sessions
    <2>1. e2 \in Databases /\ FileTrue(e2, iss)
      BY <1>1, EndsWritten
    <2>2. e2.samples = e1.samples /\ e2.closes = e1.closes /\ DOMAIN e2.sessions = DOMAIN e1.sessions
      BY <1>1 DEF UpdateEnds, Databases
    <2> HIDE DEF e2
    <2>3. QED
      BY <1>1, <2>1, <2>2
  <1> HIDE DEF e2
  <1>3. /\ e3 \in Databases /\ FileTrue(e3, iss)
        /\ d.samples \subseteq e3.samples /\ e3.closes = d.closes /\ DOMAIN d.sessions \subseteq DOMAIN e3.sessions
    <2>1. e3 \in Databases /\ FileTrue(e3, iss)
      BY <1>2, SamplesWritten
    <2>2. e2.samples \subseteq e3.samples /\ e3.closes = e2.closes /\ e3.sessions = e2.sessions
      BY <1>2 DEF WriteSamples, Databases
    <2> HIDE DEF e3
    <2>3. QED
      BY <1>2, <2>1, <2>2
  <1> HIDE DEF e3
  <1>4. e4.samples = e3.samples /\ e4.sessions = e3.sessions /\ DOMAIN e3.closes \subseteq DOMAIN e4.closes
    BY <1>3 DEF WriteCandleCloses, Databases, Over
  <1>5. e4 = Written(d, b)
    BY DEF e1, e2, e3, Written
  <1> HIDE DEF e4
  <1>6. QED
    BY <1>3, <1>4, <1>5

RowsKept ==
    /\ db.samples \subseteq db'.samples
    /\ DOMAIN db.sessions \subseteq DOMAIN db'.sessions
    /\ DOMAIN db.closes \subseteq DOMAIN db'.closes

\* Rows leave the file in a retention pass, or with a crash.
LEMMA RowsStep ==
    ASSUME IInv, [Next]_vars
    PROVE  RowsKept \/ PruneTable \/ Crash \/ PowerLoss
  <1>1. CASE db' = db
    BY <1>1 DEF RowsKept
  <1>2. UNCHANGED wal => db' = db
    BY DEF db
  <1>3. CASE Open \/ MigrateFails
    BY <1>1, <1>2, <1>3, OpenStep
  <1>4. CASE Migrate
    BY <1>4, MigrateStep DEF SameRows, RowsKept
  <1>5. CASE \/ \E s \in Sessions : RecordSessionStart(s) \/ RecordLatency(s) \/ RecordSessionEnd(s)
             \/ \E c \in Starts : RecordCandleClose(c)
    BY <1>1, <1>2, <1>5
       DEF RecordSessionStart, RecordLatency, RecordSessionEnd, RecordCandleClose, Produce
  <1>6. CASE TakePending \/ WriteFails
    BY <1>1, <1>2, <1>6 DEF TakePending, WriteFails, RolledBack
  <1>7. CASE WriteBatch
    <2>1. db' = Written(db, batch)
      BY <1>7, WriteStep
    <2>2. QED
      BY <2>1, BatchIsFresh, WrittenKeeps DEF RowsKept
  <1>8. CASE StartPrune \/ PruneFails \/ SummaryStats \/ Summary \/ Tick \/ UNCHANGED vars
    BY <1>1, <1>2, <1>8, QuietStep
  <1>9. CASE Checkpoint
    BY <1>1, <1>9, CheckpointStep
  <1>10. QED
    BY <1>3, <1>4, <1>5, <1>6, <1>7, <1>8, <1>9 DEF Next

\* One DELETE: which rows it may take, and what it leaves.
LEMMA PruneRows ==
    ASSUME IInv, PruneTable
    PROVE  \/ /\ pass = "samples"
              /\ \E part \in Chunks(ExpiredSamples(passAt)) :
                    /\ db'.samples = db.samples \ part
                    /\ pass' = IF MoreToPrune(part) THEN pass ELSE After(pass)
                    /\ read' = [read EXCEPT !.pruned = read.at > 0 /\ (@ \/ part # {})]
              /\ db'.sessions = db.sessions /\ db'.closes = db.closes
           \/ /\ pass = "sessions"
              /\ \E part \in Chunks(ExpiredSessions(passAt)) :
                    /\ db'.sessions = [s \in DOMAIN db.sessions \ part |-> db.sessions[s]]
                    /\ pass' = IF MoreToPrune(part) THEN pass ELSE After(pass)
              /\ db'.samples = db.samples /\ db'.closes = db.closes
              /\ UNCHANGED read
  <1>1. wal \in Seq(Databases) /\ wal # <<>>
    BY DEF IInv, WalInv, Files
  <1>2. db \in Databases /\ Lawful(issued) /\ FileTrue(db, issued)
    BY BatchIsFresh
  <1>3. CASE pass = "samples"
    <2>1. PICK part \in Chunks(ExpiredSamples(passAt)) :
            /\ Commit([db EXCEPT !.samples = @ \ part, !.gone = @ \cup {r.no : r \in part}])
            /\ pass' = (IF MoreToPrune(part) THEN pass ELSE After(pass))
            /\ read' = [read EXCEPT !.pruned = read.at > 0 /\ (@ \/ part # {})]
      BY <1>3 DEF PruneTable
    <2> DEFINE e == [db EXCEPT !.samples = @ \ part, !.gone = @ \cup {r.no : r \in part}]
    <2>2. part \subseteq db.samples
      BY DEF Chunks, ExpiredSamples
    <2>3. e \in Databases
      BY <1>2, <2>2, SamplesPruned
    <2>4. e.samples = db.samples \ part /\ e.sessions = db.sessions /\ e.closes = db.closes
      BY <1>2 DEF Databases
    <2>5. Commit(e)
      BY <2>1
    <2> HIDE DEF e
    <2>6. db' = e
      BY <1>1, <2>3, <2>5, Committed
    <2>7. db'.samples = db.samples \ part /\ db'.sessions = db.sessions /\ db'.closes = db.closes
      BY <2>4, <2>6
    <2>8. QED
      BY <1>3, <2>1, <2>7
  <1>4. CASE pass = "sessions"
    <2>1. PICK part \in Chunks(ExpiredSessions(passAt)) :
            /\ Commit([db EXCEPT !.sessions = [s \in DOMAIN @ \ part |-> @[s]],
                                 !.gone = @ \cup UNION {{db.sessions[s].start, db.sessions[s].end} : s \in part}])
            /\ pass' = (IF MoreToPrune(part) THEN pass ELSE After(pass))
            /\ UNCHANGED read
      BY <1>4 DEF PruneTable
    <2> DEFINE e == [db EXCEPT !.sessions = [s \in DOMAIN @ \ part |-> @[s]],
                               !.gone = @ \cup UNION {{db.sessions[s].start, db.sessions[s].end} : s \in part}]
    <2>2. part \subseteq DOMAIN db.sessions
      BY DEF Chunks, ExpiredSessions
    <2>3. e \in Databases
      BY <1>2, <2>2, SessionsPruned
    <2>4. /\ e.sessions = [s \in DOMAIN db.sessions \ part |-> db.sessions[s]]
          /\ e.samples = db.samples /\ e.closes = db.closes
      BY <1>2 DEF Databases
    <2>5. Commit(e)
      BY <2>1
    <2> HIDE DEF e
    <2>6. db' = e
      BY <1>1, <2>3, <2>5, Committed
    <2>7. /\ db'.sessions = [s \in DOMAIN db.sessions \ part |-> db.sessions[s]]
          /\ db'.samples = db.samples /\ db'.closes = db.closes
      BY <2>4, <2>6
    <2>8. QED
      BY <1>4, <2>1, <2>7
  <1>5. QED
    BY <1>3, <1>4 DEF PruneTable

--------------------------------------------------------------------------------
(* A summary between its two reads. *)

Reads == [at : Nat, counted : SUBSET Sample, pruned : BOOLEAN]

\* What it counted is still in the file, in its window, unless the pass came through.
CountedKept == read.at > 0 /\ ~read.pruned => read.counted \subseteq InWindow(read.at - KeepSamples, read.at)

ReadInv == read \in Reads /\ CountedKept /\ crashes \in Nat

LEMMA ReadStep == IInv /\ ReadInv /\ [Next]_vars => ReadInv'
  <1> SUFFICES ASSUME IInv, ReadInv, [Next]_vars PROVE ReadInv'
    OBVIOUS
  <1> DEFINE Listed == InWindow(read.at - KeepSamples, read.at)
  <1>1. crashes' \in Nat
    <2>1. crashes' = crashes \/ crashes' = crashes + 1
      BY DEF Next, vars, memory, Open, Migrate, MigrateFails, RecordSessionStart, RecordLatency, RecordSessionEnd,
             RecordCandleClose, Produce, TakePending, WriteBatch, WriteFails, StartPrune, PruneTable, PruneFails,
             Checkpoint, SummaryStats, Summary, Tick, Crash, PowerLoss, Dies
    <2>2. QED
      BY <2>1 DEF ReadInv
  <1>2. db \in Databases /\ db.samples \subseteq Sample
    BY BatchIsFresh, FileFields
  <1>3. NoRead \in Reads /\ NoRead.at = 0
    BY DEF NoRead, Reads
  <1>4. CASE Crash \/ PowerLoss
    <2>1. read' = NoRead
      BY <1>4 DEF Crash, PowerLoss, Dies
    <2>2. QED
      BY <1>1, <1>3, <2>1 DEF ReadInv, CountedKept
  <1>5. CASE Summary
    <2>1. read' = NoRead
      BY <1>5 DEF Summary
    <2>2. QED
      BY <1>1, <1>3, <2>1 DEF ReadInv, CountedKept
  <1>6. CASE SummaryStats
    <2> DEFINE C == InWindow(now - KeepSamples, now)
    <2>1. read = NoRead /\ read' = [read EXCEPT !.at = now, !.counted = C] /\ UNCHANGED wal
      BY <1>6 DEF SummaryStats
    <2>2. C \subseteq Sample /\ now \in Nat
      BY <1>2 DEF InWindow, IInv, PassInv
    <2> HIDE DEF C
    <2>3. read' \in Reads /\ read'.at = now /\ read'.counted = C
      BY <2>1, <2>2 DEF ReadInv, Reads
    <2>4. db' = db
      BY <2>1 DEF db
    <2>5. CountedKept'
      <3>1. Listed' = C
        BY <2>3, <2>4 DEF InWindow, C
      <3>2. QED
        BY <2>3, <3>1 DEF CountedKept
    <2>6. QED
      BY <1>1, <2>3, <2>5 DEF ReadInv
  <1>7. CASE PruneTable
    <2>1. CASE pass = "samples"
      <3>1. PICK part \in Chunks(ExpiredSamples(passAt)) :
              /\ db'.samples = db.samples \ part
              /\ read' = [read EXCEPT !.pruned = read.at > 0 /\ (@ \/ part # {})]
        BY <1>7, <2>1, PruneRows
      <3>2. read' \in Reads /\ read'.at = read.at /\ read'.counted = read.counted
        BY <3>1 DEF ReadInv, Reads
      <3>3. read'.pruned = (read.at > 0 /\ (read.pruned \/ part # {}))
        BY <3>1 DEF ReadInv, Reads
      <3>4. ASSUME read'.at > 0, ~read'.pruned PROVE read'.counted \subseteq Listed'
        <4>1. ~read.pruned /\ part = {} /\ read.at > 0
          BY <3>2, <3>3, <3>4
        <4>2. db'.samples = db.samples
          BY <3>1, <4>1
        <4>3. Listed' = Listed
          BY <3>2, <4>2 DEF InWindow
        <4>4. QED
          BY <3>2, <4>1, <4>3 DEF ReadInv, CountedKept
      <3>5. QED
        BY <1>1, <3>2, <3>4 DEF ReadInv, CountedKept
    <2>2. CASE pass = "sessions"
      <3>1. db'.samples = db.samples /\ UNCHANGED read
        BY <1>7, <2>2, PruneRows
      <3>2. Listed' = Listed
        BY <3>1 DEF InWindow
      <3>3. QED
        BY <1>1, <3>1, <3>2 DEF ReadInv, CountedKept
    <2>3. QED
      BY <1>7, <2>1, <2>2 DEF PruneTable
  <1>8. CASE UNCHANGED read /\ RowsKept
    <2>1. Listed \subseteq Listed'
      BY <1>8 DEF RowsKept, InWindow
    <2>2. QED
      BY <1>1, <1>8, <2>1 DEF ReadInv, CountedKept
  <1>9. Summary \/ SummaryStats \/ PruneTable \/ Crash \/ PowerLoss \/ UNCHANGED read
    BY DEF Next, vars, memory, Open, Migrate, MigrateFails, RecordSessionStart, RecordLatency, RecordSessionEnd,
           RecordCandleClose, Produce, TakePending, WriteBatch, WriteFails, StartPrune, PruneFails, Checkpoint, Tick
  <1>10. QED
    BY <1>4, <1>5, <1>6, <1>7, <1>8, <1>9, RowsStep

LEMMA InitRead == Init => ReadInv
  <1>1. Init => read = NoRead /\ crashes = 0
    BY DEF Init
  <1>2. NoRead \in Reads /\ ~(NoRead.at > 0)
    BY DEF Reads, NoRead
  <1>3. QED
    BY <1>1, <1>2 DEF ReadInv, CountedKept

--------------------------------------------------------------------------------
(* The theorems about the file. *)

LEMMA TypeHolds == IInv /\ ReadInv => TypeOK
  <1> SUFFICES ASSUME IInv, ReadInv PROVE TypeOK
    OBVIOUS
  <1>1. ASSUME NEW i \in DOMAIN wal
        PROVE  /\ wal[i].schema \in 0..2 /\ wal[i].recorded \subseteq Migrations
               /\ DOMAIN wal[i].sessions \subseteq Sessions \cup {Nobody}
               /\ DOMAIN wal[i].closes \subseteq Starts /\ wal[i].gone \subseteq 0..MaxRecords
    <2>1. i \in 1..Len(wal)
      BY DEF IInv, WalInv
    <2>2. wal[i] \in Databases /\ FileTrue(wal[i], issued)
      BY <2>1, LogParts DEF IInv
    <2>3. wal[i].gone \subseteq 0..Len(issued) /\ Len(issued) \in Nat /\ Len(issued) <= MaxRecords /\ MaxRecords \in Nat
      BY <2>2, DatabaseAssumption DEF FileTrue, RowsTrue, IInv, IssuedInv, Lawful, DatabaseAssumption
    <2>4. QED
      BY <2>2, <2>3, FileFields DEF Who
  <1>2. Range(queue) \cup Range(batch) \subseteq Range(issued) /\ Len(queue) <= QueueCap
    <2>1. Issued(queue, issued) /\ Issued(batch, issued) /\ Len(queue) <= QueueCap
      BY OrderedBatch DEF IInv, QueueInv
    <2>2. DOMAIN issued = 1..Len(issued)
      BY DEF IInv, IssuedInv, Lawful
    <2>3. \A r \in Range(queue) \cup Range(batch) : \E n \in DOMAIN issued : r = issued[n]
      BY <2>1, <2>2 DEF Issued
    <2>4. QED
      BY <2>1, <2>3 DEF Range
  <1>3. pass \in {"no", "samples", "sessions"} /\ passAt \in 0..now
    BY DEF IInv, PassInv
  <1>4. {retried, passOk, conflict, read.pruned} \subseteq BOOLEAN
    BY DEF IInv, FlagInv, ReadInv, Reads
  <1>5. proc \in {"down", "migrating", "up"} /\ life \in [Sessions -> {"new", "live", "over"}]
    BY DEF IInv, ProcInv, LifeInv
  <1>6. QED
    BY <1>1, <1>2, <1>3, <1>4, <1>5 DEF TypeOK

\* What the file holds after any failures, crashes and power failures is a sequence of
\* whole batches, with ended sessions closed, and no constraint refused a batch
\* (sqlite/repository.go: one transaction per batch, inserts before updates).
THEOREM FileIsDurable == Spec => []Durable
  <1>1. IInv /\ ReadInv => Durable
    <2> SUFFICES ASSUME IInv, ReadInv PROVE Durable
      OBVIOUS
    <2>1. AllOrNothing
      <3>1. Whole(db, batches)
        BY LogParts DEF IInv
      <3>2. QED
        BY <3>1 DEF AllOrNothing, Whole
    <2>2. OpenMeansUnwritten
      <3>1. EndsTrue(db, issued) /\ DOMAIN issued = 1..Len(issued)
        BY LogParts DEF IInv, IssuedInv, Lawful, FileTrue
      <3>2. QED
        BY <3>1 DEF EndsTrue, OpenMeansUnwritten
    <2>3. ConflictFree
      BY DEF IInv, FlagInv, ConflictFree
    <2>4. QED
      BY <2>1, <2>2, <2>3, TypeHolds DEF Durable
  <1>2. QED
    BY <1>1, InitInv, StepInv, InitRead, ReadStep, PTL DEF Spec

--------------------------------------------------------------------------------
(* Retention. *)

LEMMA UpToFinite ==
    ASSUME NEW n \in Nat PROVE IsFiniteSet(0..n)
  <1>1. n \in Int /\ 0 \in Int
    OBVIOUS
  <1>2. QED
    BY <1>1, FS_Interval

LEMMA ImageFinite ==
    ASSUME NEW n \in Nat, NEW F, DOMAIN F = 0..n, F = [k \in 0..n |-> F[k]],
           NEW S, \A x \in S : \E k \in 0..n : x = F[k]
    PROVE  IsFiniteSet(S)
  <1> DEFINE T == {F[k] : k \in 0..n}
  <1>1. F \in Surjection(0..n, T)
    <2>1. \A k \in 0..n : F[k] \in T
      OBVIOUS
    <2>2. \A x \in T : \E k \in 0..n : F[k] = x
      OBVIOUS
    <2> HIDE DEF T
    <2>3. F \in [0..n -> T]
      BY <2>1
    <2>4. QED
      BY <2>2, <2>3 DEF Surjection
  <1>2. IsFiniteSet(0..n)
    BY UpToFinite
  <1>3. S \in SUBSET T
    <2>1. \A x \in S : x \in T
      OBVIOUS
    <2> HIDE DEF T
    <2>2. QED
      BY <2>1
  <1> HIDE DEF T
  <1>4. IsFiniteSet(T)
    BY <1>1, <1>2, FS_Surjection
  <1>5. QED
    BY <1>3, <1>4, FS_Subset

\* The file is finite: each row has a record of its own.
LEMMA FiniteFile ==
    ASSUME NEW iss, Lawful(iss), NEW d \in Databases, FileTrue(d, iss)
    PROVE  IsFiniteSet(d.samples) /\ IsFiniteSet(DOMAIN d.sessions)
  <1>1. Len(iss) \in Nat /\ RowsTrue(d, iss) /\ d.samples \subseteq Sample
    BY FileFields DEF Lawful, FileTrue
  <1> DEFINE F == [n \in 0..Len(iss) |->
                     IF n = 0 THEN [no |-> 0, session |-> Nobody, at |-> 0]
                     ELSE [no |-> n, session |-> iss[n].who, at |-> Encode(iss[n].at)]]
             G == [n \in 0..Len(iss) |-> IF n = 0 THEN Nobody ELSE iss[n].who]
  <1>2. ASSUME NEW r \in d.samples PROVE \E k \in 0..Len(iss) : r = F[k]
    <2>1. r = [no |-> r.no, session |-> r.session, at |-> r.at]
      BY <1>1 DEF Sample
    <2>2. CASE r.no = 0
      <3>1. r = F[0] /\ 0 \in 0..Len(iss)
        BY <1>1, <2>1, <2>2 DEF RowsTrue
      <3>2. QED
        BY <3>1
    <2>3. CASE r.no # 0
      <3>1. r.no \in 1..Len(iss) /\ r.session = iss[r.no].who /\ r.at = Encode(iss[r.no].at)
        BY <1>1, <2>3 DEF RowsTrue, Cites
      <3>2. r.no \in 0..Len(iss) /\ r.no # 0
        BY <2>3, <3>1
      <3>3. F[r.no] = [no |-> r.no, session |-> iss[r.no].who, at |-> Encode(iss[r.no].at)]
        BY <3>2
      <3> HIDE DEF F
      <3>4. QED
        BY <2>1, <3>1, <3>2, <3>3
    <2>4. QED
      BY <2>2, <2>3
  <1>3. ASSUME NEW s \in DOMAIN d.sessions PROVE \E k \in 0..Len(iss) : s = G[k]
    <2>1. CASE s = Nobody
      <3>1. s = G[0] /\ 0 \in 0..Len(iss)
        BY <1>1, <2>1
      <3>2. QED
        BY <3>1
    <2>2. CASE s # Nobody
      <3>1. d.sessions[s].start \in 1..Len(iss) /\ iss[d.sessions[s].start].who = s
        BY <1>1, <2>2 DEF RowsTrue, Cites
      <3>2. G[d.sessions[s].start] = s /\ d.sessions[s].start \in 0..Len(iss)
        BY <3>1
      <3>3. QED
        BY <3>2
    <2>3. QED
      BY <2>1, <2>2
  <1>4. DOMAIN F = 0..Len(iss) /\ F = [k \in 0..Len(iss) |-> F[k]]
    OBVIOUS
  <1>5. DOMAIN G = 0..Len(iss) /\ G = [k \in 0..Len(iss) |-> G[k]]
    OBVIOUS
  <1> HIDE DEF F, G
  <1>6. QED
    BY <1>1, <1>2, <1>3, <1>4, <1>5, ImageFinite

\* A DELETE that took fewer rows than it may has taken them all.
LEMMA LastChunk ==
    ASSUME NEW E, IsFiniteSet(E), NEW part \in Chunks(E), ~MoreToPrune(part)
    PROVE  part = E
  <1>1. /\ part \in SUBSET E /\ Cardinality(part) = Min({PruneBatch, Cardinality(E)})
        /\ ~(Cardinality(part) >= PruneBatch)
    BY DEF Chunks, MoreToPrune
  <1>2. Cardinality(E) \in Nat /\ PruneBatch \in Nat
    BY FS_CardinalityType, DatabaseAssumption DEF DatabaseAssumption
  <1>3. Min({PruneBatch, Cardinality(E)}) \in {PruneBatch, Cardinality(E)}
    <2> DEFINE n == Cardinality(E)
    <2> HIDE DEF n
    <2>1. \E x \in {PruneBatch, n} : \A y \in {PruneBatch, n} : x <= y
      BY <1>2 DEF n
    <2>2. Min({PruneBatch, n}) \in {PruneBatch, n}
      BY <2>1 DEF Min
    <2>3. QED
      BY <2>2 DEF n
  <1>4. Cardinality(part) = Cardinality(E)
    BY <1>1, <1>2, <1>3
  <1>5. QED
    BY <1>1, <1>4, FS_Subset

\* Samples have no expired row left when the pass comes to the sessions.
CleanInv == passOk /\ pass = "sessions" => ExpiredSamples(passAt) = {}

LEMMA ExpiredFinite ==
    ASSUME IInv, NEW t
    PROVE  IsFiniteSet(ExpiredSamples(t)) /\ IsFiniteSet(ExpiredSessions(t))
  <1>1. IsFiniteSet(db.samples) /\ IsFiniteSet(DOMAIN db.sessions)
    BY BatchIsFresh, FiniteFile
  <1>2. ExpiredSamples(t) \in SUBSET db.samples /\ ExpiredSessions(t) \in SUBSET DOMAIN db.sessions
    BY DEF ExpiredSamples, ExpiredSessions
  <1>3. QED
    BY <1>1, <1>2, FS_Subset

LEMMA SamplesClean ==
    ASSUME NEW part \in Chunks(ExpiredSamples(passAt)), part = ExpiredSamples(passAt),
           db'.samples = db.samples \ part, UNCHANGED passAt
    PROVE  ExpiredSamples(passAt)' = {}
  BY DEF ExpiredSamples

LEMMA SessionsClean ==
    ASSUME NEW part \in Chunks(ExpiredSessions(passAt)), part = ExpiredSessions(passAt),
           db'.sessions = [s \in DOMAIN db.sessions \ part |-> db.sessions[s]], UNCHANGED passAt
    PROVE  ExpiredSessions(passAt)' = {}
  <1> SUFFICES ASSUME NEW s \in DOMAIN db'.sessions,
                      db'.sessions[s].end # 0, db'.sessions[s].at < Encode(passAt - KeepSessions)
               PROVE  FALSE
    BY DEF ExpiredSessions
  <1>1. s \in DOMAIN db.sessions /\ s \notin part /\ db'.sessions[s] = db.sessions[s]
    OBVIOUS
  <1>2. s \in ExpiredSessions(passAt)
    BY <1>1 DEF ExpiredSessions
  <1>3. QED
    BY <1>1, <1>2

\* While a pass is under way nothing else writes.
LEMMA PassStep ==
    ASSUME IInv, [Next]_vars, pass # "no"
    PROVE  \/ PruneTable \/ PruneFails \/ Crash \/ PowerLoss
           \/ db' = db /\ UNCHANGED <<pass, passAt, passOk>>
  <1>1. proc = "up" /\ batch = <<>>
    BY DEF IInv, PassInv
  <1>2. UNCHANGED wal => db' = db
    BY DEF db
  <1>3. CASE UNCHANGED <<wal, pass, passAt, passOk>>
    BY <1>2, <1>3
  <1>4. CASE \/ Open \/ Migrate \/ MigrateFails \/ TakePending \/ WriteBatch \/ WriteFails \/ StartPrune \/ Checkpoint
    BY <1>1, <1>4 DEF Open, Migrate, MigrateFails, TakePending, WriteBatch, WriteFails, StartPrune, Checkpoint
  <1>5. CASE \/ \E s \in Sessions : RecordSessionStart(s) \/ RecordLatency(s) \/ RecordSessionEnd(s)
             \/ \E c \in Starts : RecordCandleClose(c)
    BY <1>3, <1>5 DEF RecordSessionStart, RecordLatency, RecordSessionEnd, RecordCandleClose, Produce
  <1>6. CASE SummaryStats \/ Summary \/ Tick \/ UNCHANGED vars
    BY <1>3, <1>6 DEF SummaryStats, Summary, Tick, vars, memory
  <1>7. QED
    BY <1>4, <1>5, <1>6 DEF Next

\* The sessions come after the samples only.
LEMMA PassGoesOn ==
    ASSUME IInv, [Next]_vars
    PROVE  pass' = "sessions" => pass # "no"
  <1>1. CASE PruneTable \/ PruneFails
    BY <1>1 DEF PruneTable, PruneFails
  <1>2. CASE StartPrune
    BY <1>2 DEF StartPrune
  <1>3. CASE Crash \/ PowerLoss
    BY <1>3 DEF Crash, PowerLoss, Dies
  <1>4. CASE ~(PruneTable \/ PruneFails \/ StartPrune \/ Crash \/ PowerLoss)
    <2>1. pass' = pass
      BY <1>4 DEF Next, vars, memory, Open, Migrate, MigrateFails, RecordSessionStart, RecordLatency,
             RecordSessionEnd, RecordCandleClose, Produce, TakePending, WriteBatch, WriteFails, Checkpoint,
             SummaryStats, Summary, Tick
    <2>2. QED
      BY <2>1
  <1>5. QED
    BY <1>1, <1>2, <1>3, <1>4

LEMMA CleanStep == IInv /\ CleanInv /\ [Next]_vars => CleanInv'
  <1> SUFFICES ASSUME IInv, CleanInv, [Next]_vars, passOk', pass' = "sessions"
               PROVE  ExpiredSamples(passAt)' = {}
    BY DEF CleanInv
  <1>1. pass # "no"
    BY PassGoesOn
  <1>2. CASE PruneTable
    <2>1. UNCHANGED <<passAt, passOk>>
      BY <1>2 DEF PruneTable
    <2>2. CASE pass = "samples"
      <3>1. PICK part \in Chunks(ExpiredSamples(passAt)) :
              /\ db'.samples = db.samples \ part
              /\ pass' = (IF MoreToPrune(part) THEN pass ELSE After(pass))
        BY <1>2, <2>2, PruneRows
      <3>2. ~MoreToPrune(part)
        BY <2>2, <3>1
      <3>3. part = ExpiredSamples(passAt)
        BY <3>2, ExpiredFinite, LastChunk
      <3>4. QED
        BY <2>1, <3>1, <3>3, SamplesClean
    <2>3. CASE pass = "sessions"
      <3>1. db'.samples = db.samples
        BY <1>2, <2>3, PruneRows
      <3>2. ExpiredSamples(passAt) = {}
        BY <2>1, <2>3 DEF CleanInv
      <3>3. QED
        BY <2>1, <3>1, <3>2 DEF ExpiredSamples
    <2>4. QED
      BY <1>2, <2>2, <2>3 DEF PruneTable
  <1>3. CASE PruneFails
    BY <1>3 DEF PruneFails
  <1>4. CASE Crash \/ PowerLoss
    BY <1>4 DEF Crash, PowerLoss, Dies
  <1>5. CASE db' = db /\ UNCHANGED <<pass, passAt, passOk>>
    BY <1>5 DEF CleanInv, ExpiredSamples
  <1>6. QED
    BY <1>1, <1>2, <1>3, <1>4, <1>5, PassStep

\* The rows a step takes away have expired.
LEMMA ExpireStep ==
    ASSUME IInv, ReadInv, [Next]_vars, crashes' = crashes
    PROVE  /\ \A s \in DOMAIN db.sessions \ DOMAIN db'.sessions :
                 db.sessions[s].end # 0 /\ db.sessions[s].at < Encode(now - KeepSessions)
           /\ \A r \in db.samples \ db'.samples : r.at < Encode(now - KeepSamples)
           /\ DOMAIN db.closes \subseteq DOMAIN db'.closes
  <1>1. CASE RowsKept
    BY <1>1 DEF RowsKept
  <1>2. ~(Crash \/ PowerLoss)
    BY DEF Crash, PowerLoss, Dies, ReadInv
  <1>3. CASE PruneTable
    <2>1. /\ passAt \in Int /\ now \in Int /\ passAt <= now /\ KeepSamples \in Int /\ KeepSessions \in Int
          /\ db \in Databases
      BY DatabaseAssumption, BatchIsFresh DEF IInv, PassInv, DatabaseAssumption
    <2>2. /\ Encode(passAt - KeepSamples) <= Encode(now - KeepSamples)
          /\ Encode(passAt - KeepSessions) <= Encode(now - KeepSessions)
          /\ Encode(passAt - KeepSamples) \in Int /\ Encode(now - KeepSamples) \in Int
          /\ Encode(passAt - KeepSessions) \in Int /\ Encode(now - KeepSessions) \in Int
      <3>1. /\ passAt - KeepSamples \in Int /\ now - KeepSamples \in Int /\ passAt - KeepSamples <= now - KeepSamples
            /\ passAt - KeepSessions \in Int /\ now - KeepSessions \in Int
            /\ passAt - KeepSessions <= now - KeepSessions
        BY <2>1
      <3>2. QED
        BY <3>1, EncodeMonotone
    <2>3. /\ \A r \in db.samples : r.at \in Int
          /\ \A s \in DOMAIN db.sessions : db.sessions[s].at \in Int
      <3>1. db.samples \subseteq Sample /\ db.sessions \in [DOMAIN db.sessions -> Row]
        BY <2>1, FileFields
      <3>2. QED
        BY <3>1 DEF Sample, Row
    <2>4. CASE pass = "samples"
      <3>1. PICK part \in Chunks(ExpiredSamples(passAt)) : db'.samples = db.samples \ part
        BY <1>3, <2>4, PruneRows
      <3>2. db'.sessions = db.sessions /\ db'.closes = db.closes
        BY <1>3, <2>4, PruneRows
      <3>3. \A r \in part : r \in db.samples /\ r.at < Encode(passAt - KeepSamples)
        BY DEF Chunks, ExpiredSamples
      <3>4. \A r \in db.samples \ db'.samples : r.at < Encode(now - KeepSamples)
        BY <2>2, <2>3, <3>1, <3>3
      <3>5. QED
        BY <3>2, <3>4
    <2>5. CASE pass = "sessions"
      <3>1. PICK part \in Chunks(ExpiredSessions(passAt)) :
              db'.sessions = [s \in DOMAIN db.sessions \ part |-> db.sessions[s]]
        BY <1>3, <2>5, PruneRows
      <3>2. db'.samples = db.samples /\ db'.closes = db.closes
        BY <1>3, <2>5, PruneRows
      <3>3. \A s \in part : /\ s \in DOMAIN db.sessions /\ db.sessions[s].end # 0
                            /\ db.sessions[s].at < Encode(passAt - KeepSessions)
        BY DEF Chunks, ExpiredSessions
      <3>4. \A s \in DOMAIN db.sessions \ DOMAIN db'.sessions : s \in part
        BY <3>1
      <3>5. \A s \in part : db.sessions[s].end # 0 /\ db.sessions[s].at < Encode(now - KeepSessions)
        BY <2>2, <2>3, <3>3
      <3>6. QED
        BY <3>2, <3>4, <3>5
    <2>6. QED
      BY <1>3, <2>4, <2>5 DEF PruneTable
  <1>4. QED
    BY <1>1, <1>2, <1>3, RowsStep

\* A pass that ends without a failure has left no expired row.
LEMMA PassEnds ==
    ASSUME IInv, ReadInv, CleanInv, [Next]_vars, pass # "no", pass' = "no", passOk', crashes' = crashes
    PROVE  (ExpiredSamples(passAt) = {})' /\ (ExpiredSessions(passAt) = {})'
  <1>1. ~(Crash \/ PowerLoss)
    BY DEF Crash, PowerLoss, Dies, ReadInv
  <1>2. PruneTable /\ pass = "sessions"
    <2>1. ~PruneFails
      BY DEF PruneFails
    <2>2. PruneTable
      BY <1>1, <2>1, PassStep
    <2>3. pass # "samples"
      <3>1. ASSUME pass = "samples" PROVE FALSE
        BY <2>2, <3>1 DEF PruneTable, After
      <3>2. QED
        BY <3>1
    <2>4. QED
      BY <2>2, <2>3 DEF PruneTable
  <1>3. UNCHANGED <<passAt, passOk>>
    BY <1>2 DEF PruneTable
  <1>4. PICK part \in Chunks(ExpiredSessions(passAt)) :
          /\ db'.sessions = [s \in DOMAIN db.sessions \ part |-> db.sessions[s]]
          /\ pass' = (IF MoreToPrune(part) THEN pass ELSE After(pass))
    BY <1>2, PruneRows
  <1>5. ~MoreToPrune(part)
    BY <1>2, <1>4
  <1>6. part = ExpiredSessions(passAt)
    BY <1>5, ExpiredFinite, LastChunk
  <1>7. ExpiredSessions(passAt)' = {}
    BY <1>3, <1>4, <1>6, SessionsClean
  <1>8. db'.samples = db.samples
    BY <1>2, PruneRows
  <1>9. ExpiredSamples(passAt) = {}
    BY <1>2, <1>3 DEF CleanInv
  <1>10. ExpiredSamples(passAt)' = {}
    BY <1>3, <1>8, <1>9 DEF ExpiredSamples
  <1>11. QED
    BY <1>7, <1>10

\* Retention deletes every expired row and nothing else: an open session, a candle close
\* and a young row never leave the file but by a power failure, and a pass in which no
\* DELETE failed goes on until no expired row is left (sqlite/prune.go).
THEOREM RetentionIsExact == Spec => RetentionExact
  <1>1. Init => CleanInv
    BY DEF Init, CleanInv
  <1>2. Spec => [](IInv /\ ReadInv /\ CleanInv)
    BY <1>1, InitInv, StepInv, InitRead, ReadStep, CleanStep, PTL DEF Spec
  <1>3. IInv /\ ReadInv /\ CleanInv /\ [Next]_vars =>
          [crashes' = crashes =>
             /\ \A s \in DOMAIN db.sessions \ DOMAIN db'.sessions :
                   db.sessions[s].end # 0 /\ db.sessions[s].at < Encode(now - KeepSessions)
             /\ \A r \in db.samples \ db'.samples : r.at < Encode(now - KeepSamples)
             /\ DOMAIN db.closes \subseteq DOMAIN db'.closes]_vars
    BY ExpireStep
  <1>4. IInv /\ ReadInv /\ CleanInv /\ [Next]_vars =>
          [pass # "no" /\ pass' = "no" /\ passOk' /\ crashes' = crashes =>
             (ExpiredSamples(passAt) = {})' /\ (ExpiredSessions(passAt) = {})']_vars
    BY PassEnds
  <1>5. Spec => RowsOnlyExpire
    BY <1>2, <1>3, PTL DEF Spec, RowsOnlyExpire
  <1>6. Spec => CleanPass
    BY <1>2, <1>4, PTL DEF Spec, CleanPass
  <1>7. QED
    BY <1>5, <1>6 DEF RetentionExact

--------------------------------------------------------------------------------
(* Reads. *)

\* A timestamp cut to the millisecond.
LEMMA EncodeCuts ==
    ASSUME NEW t \in Int
    PROVE  Encode(t) \in Int /\ Encode(t) * Ms \in Int /\ Encode(t) * Ms <= t /\ t < Encode(t) * Ms + Ms
  BY DatabaseAssumption DEF DatabaseAssumption, Encode

LEMMA ScaleMonotone ==
    ASSUME NEW a \in Int, NEW b \in Int
    PROVE  /\ a * Ms \in Int /\ b * Ms \in Int /\ (a - b) * Ms = a * Ms - b * Ms
           /\ a <= b => a * Ms <= b * Ms
  BY DatabaseAssumption DEF DatabaseAssumption

LEMMA ScaleCuts ==
    ASSUME NEW k \in Int
    PROVE  (k * Ms) \div Ms = k /\ (k * Ms) % Ms = 0
  BY DatabaseAssumption DEF DatabaseAssumption

LEMMA EncodeReflects ==
    ASSUME NEW a \in Int, NEW b \in Int, Encode(a) <= Encode(b)
    PROVE  a - Ms < b
  <1> DEFINE x == Encode(a) * Ms
             y == Encode(b) * Ms
  <1>1. x \in Int /\ y \in Int /\ a < x + Ms /\ y <= b
    BY EncodeCuts
  <1>2. x <= y
    BY EncodeCuts, ScaleMonotone
  <1>3. Ms \in Int
    BY DatabaseAssumption DEF DatabaseAssumption
  <1> HIDE DEF x, y
  <1>4. QED
    BY <1>1, <1>2, <1>3

\* Where a sample comes from.
LEMMA SampleFrom ==
    ASSUME IInv, NEW r \in db.samples
    PROVE  /\ r.no \in Nat /\ r.at \in Int
           /\ r.no = 0 => r.at = 0
           /\ r.no > 0 => r.no \in 1..Len(issued) /\ issued[r.no].at \in Nat /\ r.at = Encode(issued[r.no].at)
           /\ \A s \in db.samples : s.no = r.no => s = r
  <1>1. db \in Databases /\ Lawful(issued) /\ RowsTrue(db, issued) /\ db.samples \subseteq Sample
    BY BatchIsFresh, FileFields DEF FileTrue
  <1>2. ASSUME NEW q \in db.samples
        PROVE  /\ q.no \in Nat /\ q.at \in Int /\ q = [no |-> q.no, session |-> q.session, at |-> q.at]
               /\ q.no = 0 => q.session = Nobody /\ q.at = 0
               /\ q.no > 0 => /\ q.no \in 1..Len(issued) /\ issued[q.no].at \in Nat
                              /\ q.session = issued[q.no].who /\ q.at = Encode(issued[q.no].at)
    <2>1. q.no \in Nat /\ q.at \in Int /\ q = [no |-> q.no, session |-> q.session, at |-> q.at]
      BY <1>1 DEF Sample
    <2>2. IF q.no = 0 THEN q.session = Nobody /\ q.at = 0
          ELSE Cites(issued, q.no, "sample", q.session) /\ q.at = Encode(issued[q.no].at)
      BY <1>1 DEF RowsTrue
    <2>3. q.no > 0 => /\ q.no \in 1..Len(issued) /\ q.session = issued[q.no].who
                      /\ q.at = Encode(issued[q.no].at)
      BY <2>1, <2>2 DEF Cites
    <2>4. q.no > 0 => issued[q.no].at \in Nat
      BY <1>1, <2>3, RecordFields
    <2>5. QED
      BY <2>1, <2>2, <2>3, <2>4
  <1>3. ASSUME NEW s \in db.samples, s.no = r.no PROVE s = r
    <2>1. s.session = r.session /\ s.at = r.at
      <3>1. CASE r.no = 0
        BY <1>2, <1>3, <3>1
      <3>2. CASE r.no > 0
        BY <1>2, <1>3, <3>2
      <3>3. QED
        BY <1>2, <3>1, <3>2
    <2>2. QED
      BY <1>2, <1>3, <2>1
  <1>4. QED
    BY <1>2, <1>3

LEMMA BucketsHold == IInv => BucketsPartition
  <1> SUFFICES ASSUME IInv, NEW from \in 1..now,
                      NEW b \in DOMAIN LatencyBuckets(from, now, Ms),
                      NEW r \in LatencyBuckets(from, now, Ms)[b]
               PROVE  b % Ms = 0 /\ b <= r.at * Ms /\ r.at * Ms < b + Ms
    BY DEF BucketsPartition
  <1> DEFINE lo == ClampRange(from, now)
  <1>1. r \in LatencySamples(lo, now) /\ BucketOf(r, lo, Ms) = b
    BY DEF LatencyBuckets
  <1>2. lo \in Int /\ Ms \in Int /\ Ms > 0
    BY DatabaseAssumption DEF ClampRange, DatabaseAssumption, IInv, PassInv
  <1> HIDE DEF lo
  <1>3. r \in db.samples /\ Encode(lo) <= r.at
    BY <1>1 DEF LatencySamples, Oldest, InWindow
  <1>4. r.at \in Int /\ Encode(lo) \in Int
    BY <1>2, <1>3, SampleFrom, EncodeInt
  <1> DEFINE a == r.at
             e == Encode(lo)
  <1>5. e = lo \div Ms /\ a \in Int /\ e \in Int /\ e <= a
    BY <1>3, <1>4 DEF Encode
  <1>6. BucketOf(r, lo, Ms) =
          e * Ms + ((IF a * Ms < e * Ms THEN 0 ELSE a * Ms - e * Ms) \div Ms) * Ms
    BY <1>5 DEF BucketOf
  <1> HIDE DEF a, e
  <1>7. a * Ms \in Int /\ e * Ms \in Int /\ e * Ms <= a * Ms /\ (a - e) * Ms = a * Ms - e * Ms
    BY <1>5, ScaleMonotone
  <1>8. (IF a * Ms < e * Ms THEN 0 ELSE a * Ms - e * Ms) = (a - e) * Ms
    BY <1>7
  <1>9. ((a - e) * Ms) \div Ms = a - e
    BY <1>5, ScaleCuts
  <1>10. b = e * Ms + (a - e) * Ms
    BY <1>1, <1>6, <1>8, <1>9
  <1>11. b = a * Ms
    BY <1>7, <1>10
  <1>12. b % Ms = 0
    BY <1>5, <1>11, ScaleCuts
  <1>13. QED
    BY <1>2, <1>7, <1>11, <1>12 DEF a

\* Rows in the order of their time are rows in the order of their numbers.
LEMMA RowOrder ==
    ASSUME IInv, NEW r \in db.samples, NEW s \in db.samples
    PROVE  (s.at > r.at \/ (s.at = r.at /\ s.no > r.no)) <=> s.no > r.no
  <1>1. r.no \in Nat /\ s.no \in Nat /\ r.at \in Int /\ s.at \in Int
    BY SampleFrom
  <1>2. ASSUME NEW p \in db.samples, NEW q \in db.samples, p.no < q.no PROVE p.at <= q.at
    <2>0. p.no \in Nat /\ q.no \in Nat /\ q.no > 0
      BY <1>2, SampleFrom
    <2>1. q.no \in 1..Len(issued) /\ issued[q.no].at \in Nat /\ q.at = Encode(issued[q.no].at)
      BY <2>0, SampleFrom
    <2>2. CASE p.no = 0
      <3>1. p.at = 0
        BY <2>2, SampleFrom
      <3>2. Encode(0) = 0
        BY DatabaseAssumption DEF Encode, DatabaseAssumption
      <3>3. ASSUME NEW t \in Nat PROVE Encode(0) <= Encode(t)
        BY EncodeMonotone
      <3>4. Encode(0) <= Encode(issued[q.no].at)
        BY <2>1, <3>3
      <3>5. QED
        BY <2>1, <3>1, <3>2, <3>4
    <2>3. CASE p.no > 0
      <3>1. p.no \in 1..Len(issued) /\ issued[p.no].at \in Nat /\ p.at = Encode(issued[p.no].at)
        BY <2>3, SampleFrom
      <3>2. issued[p.no].at <= issued[q.no].at
        BY <1>2, <2>0, <2>1, <3>1 DEF IInv, IssuedInv, Lawful
      <3>3. ASSUME NEW t \in Nat, NEW u \in Nat, t <= u PROVE Encode(t) <= Encode(u)
        BY <3>3, EncodeMonotone
      <3>4. Encode(issued[p.no].at) <= Encode(issued[q.no].at)
        BY <2>1, <3>1, <3>2, <3>3
      <3>5. QED
        BY <2>1, <3>1, <3>4
    <2>4. QED
      BY <2>0, <2>2, <2>3
  <1>3. CASE s.no > r.no
    <2>1. r.at <= s.at
      BY <1>1, <1>2, <1>3
    <2>2. QED
      BY <1>1, <1>3, <2>1
  <1>4. CASE s.no < r.no
    <2>1. s.at <= r.at
      BY <1>2, <1>4
    <2>2. QED
      BY <1>1, <1>4, <2>1
  <1>5. CASE s.no = r.no
    <2>1. s = r
      BY <1>5, SampleFrom
    <2>2. QED
      BY <1>1, <2>1
  <1>6. QED
    BY <1>1, <1>3, <1>4, <1>5

LEMMA LeastOfNats ==
    ASSUME NEW T, T \subseteq Nat, T # {}
    PROVE  \E x \in T : \A y \in T : x <= y
  <1> DEFINE R == OpToRel(<, Nat)
  <1>1. IsWellFoundedOn(R, Nat)
    BY NatLessThanWellFounded, Zenon
  <1>2. \A x, y \in Nat : <<x, y>> \in R <=> x < y
    BY DEF OpToRel
  <1> HIDE DEF R
  <1>3. PICK x \in T : \A y \in T : ~ (<<y, x>> \in R)
    BY <1>1, WFMin
  <1>4. \A y \in T : y \in Nat /\ x \in Nat /\ ~ (y < x)
    BY <1>2, <1>3
  <1>5. \A y \in T : x <= y
    BY <1>4
  <1>6. QED
    BY <1>5

\* The rows that come before a row in a page.
Above(rows, r) == {s \in rows : s.at > r.at \/ (s.at = r.at /\ s.no > r.no)}

LEMMA AboveIs ==
    ASSUME IInv, NEW rows, rows \subseteq db.samples, NEW r \in rows
    PROVE  /\ IsFiniteSet(rows) /\ IsFiniteSet(Above(rows, r)) /\ Cardinality(Above(rows, r)) \in Nat
           /\ \A s : s \in Above(rows, r) <=> s \in rows /\ s.no > r.no
  <1>1. IsFiniteSet(db.samples)
    BY BatchIsFresh, FiniteFile
  <1>2. IsFiniteSet(rows)
    BY <1>1, FS_Subset
  <1>3. Above(rows, r) \in SUBSET rows
    BY DEF Above
  <1>4. IsFiniteSet(Above(rows, r)) /\ Cardinality(Above(rows, r)) \in Nat
    BY <1>2, <1>3, FS_Subset, FS_CardinalityType
  <1>5. \A s : s \in Above(rows, r) <=> s \in rows /\ s.no > r.no
    BY RowOrder DEF Above
  <1>6. QED
    BY <1>2, <1>4, <1>5

LEMMA NewestIs ==
    ASSUME NEW rows, NEW limit, NEW r
    PROVE  r \in Newest(rows, limit) <=> r \in rows /\ Cardinality(Above(rows, r)) < limit
  BY DEF Newest, Above

\* A row newer than one that is listed is listed.
LEMMA NewerListed ==
    ASSUME IInv, NEW rows, rows \subseteq db.samples, NEW limit \in Nat,
           NEW r \in Newest(rows, limit), NEW s \in rows, r.no < s.no
    PROVE  s \in Newest(rows, limit)
  <1>1. r \in rows /\ Cardinality(Above(rows, r)) < limit
    BY NewestIs
  <1>2. r.no \in Nat /\ s.no \in Nat /\ \A x \in rows : x.no \in Nat
    BY <1>1, SampleFrom
  <1>3. \A x \in Above(rows, s) : x \in Above(rows, r)
    BY <1>1, <1>2, AboveIs
  <1>4. Above(rows, s) \in SUBSET Above(rows, r)
    BY <1>3
  <1>5. Cardinality(Above(rows, s)) <= Cardinality(Above(rows, r))
    BY <1>1, <1>4, AboveIs, FS_Subset
  <1>6. /\ Cardinality(Above(rows, s)) \in Nat /\ Cardinality(Above(rows, r)) \in Nat
    BY <1>1, AboveIs
  <1>7. Cardinality(Above(rows, s)) < limit
    BY <1>1, <1>5, <1>6
  <1>8. QED
    BY <1>7, NewestIs

\* A set of rows has a newest one.
LEMMA NewestRow ==
    ASSUME IInv, NEW rows, rows \subseteq db.samples, rows # {}
    PROVE  \E m \in rows : \A x \in rows : x # m => x.no < m.no
  <1>1. Len(issued) \in Nat
    BY DEF IInv, IssuedInv, Lawful
  <1>2. \A x \in rows : x.no \in Nat /\ x.no <= Len(issued)
    <2>1. ASSUME NEW x \in rows PROVE x.no \in Nat /\ x.no <= Len(issued)
      <3>1. x.no \in Nat /\ (x.no > 0 => x.no \in 1..Len(issued))
        BY SampleFrom
      <3>2. QED
        BY <1>1, <3>1
    <2>2. QED
      BY <2>1
  <1> DEFINE N == {Len(issued) - x.no : x \in rows}
  <1>3. N \subseteq Nat
    BY <1>1, <1>2
  <1>4. N # {}
    OBVIOUS
  <1>5. PICK k \in N : \A n \in N : k <= n
    <2> HIDE DEF N
    <2>1. QED
      BY <1>3, <1>4, LeastOfNats
  <1>6. PICK m \in rows : k = Len(issued) - m.no
    OBVIOUS
  <1>7. ASSUME NEW x \in rows, x # m PROVE x.no < m.no
    <2>1. Len(issued) - m.no <= Len(issued) - x.no
      BY <1>5, <1>6
    <2>2. x.no <= m.no
      BY <1>1, <1>2, <2>1
    <2>3. x.no # m.no
      BY <1>7, SampleFrom
    <2>4. QED
      BY <1>2, <2>2, <2>3
  <1>8. QED
    BY <1>7

\* A page that leaves a row out is full.
LEMMA PageFull ==
    ASSUME IInv, NEW rows, rows \subseteq db.samples, NEW limit \in 1..2,
           NEW r \in rows, r \notin Newest(rows, limit)
    PROVE  Cardinality(Newest(rows, limit)) = limit
  <1> DEFINE page == Newest(rows, limit)
  <1>1. ~(Cardinality(Above(rows, r)) < limit)
    BY NewestIs
  <1>2. \A x \in rows : /\ IsFiniteSet(Above(rows, x)) /\ Cardinality(Above(rows, x)) \in Nat /\ x.no \in Nat
                        /\ \A s : s \in Above(rows, x) <=> s \in rows /\ s.no > x.no
    <2>1. \A x \in rows : x.no \in Nat
      BY SampleFrom
    <2>2. QED
      BY <2>1, AboveIs
  <1>3. PICK m \in rows : \A x \in rows : x # m => x.no < m.no
    BY NewestRow
  <1>4. Above(rows, m) = {} /\ Cardinality(Above(rows, m)) = 0
    <2>1. Above(rows, m) = {}
      BY <1>2, <1>3
    <2>2. QED
      BY <2>1, FS_EmptySet
  <1>5. \A x \in rows : x # m => m \in Above(rows, x)
    BY <1>2, <1>3
  <1>6. CASE limit = 1
    <2>1. m \in page
      BY <1>4, <1>6, NewestIs
    <2>2. ASSUME NEW x \in page, x # m PROVE FALSE
      <3>1. x \in rows /\ Cardinality(Above(rows, x)) < 1
        BY <1>6, NewestIs
      <3>2. Cardinality(Above(rows, x)) = 0
        BY <1>2, <3>1
      <3>3. Above(rows, x) = {}
        BY <1>2, <3>1, <3>2, FS_EmptySet
      <3>4. QED
        BY <1>5, <2>2, <3>1, <3>3
    <2>3. page = {m}
      BY <2>1, <2>2
    <2>4. QED
      BY <1>6, <2>3, FS_Singleton
  <1>7. CASE limit = 2
    <2> DEFINE rest == rows \ {m}
    <2>1. r # m
      BY <1>1, <1>4, <1>7
    <2>2. rest \subseteq db.samples /\ rest # {}
      BY <2>1
    <2>3. PICK k \in rest : \A x \in rest : x # k => x.no < k.no
      <3> HIDE DEF rest
      <3>1. QED
        BY <2>2, NewestRow
    <2>4. k \in rows /\ k # m /\ \A x \in rows : x # m /\ x # k => x.no < k.no
      BY <2>3
    <2>5. Above(rows, k) = {m}
      BY <1>2, <1>3, <2>4
    <2>6. Cardinality(Above(rows, k)) = 1
      BY <2>5, FS_Singleton
    <2>7. m \in page /\ k \in page
      <3>1. m \in page
        BY <1>4, <1>7, NewestIs
      <3>2. k \in page
        BY <1>7, <2>4, <2>6, NewestIs
      <3>3. QED
        BY <3>1, <3>2
    <2>8. IsFiniteSet({k, m}) /\ Cardinality({k, m}) = 2
      <3>1. IsFiniteSet({k}) /\ Cardinality({k}) = 1
        BY FS_Singleton
      <3>2. IsFiniteSet({k} \cup {m}) /\ Cardinality({k} \cup {m}) = 1 + 1
        BY <2>4, <3>1, FS_AddElement
      <3>3. {k, m} = {k} \cup {m}
        OBVIOUS
      <3>4. QED
        BY <3>2, <3>3
    <2>9. ASSUME NEW x \in page, x # m, x # k PROVE FALSE
      <3>1. x \in rows /\ Cardinality(Above(rows, x)) < 2
        BY <1>7, NewestIs
      <3>2. k \in Above(rows, x) /\ m \in Above(rows, x)
        BY <1>2, <1>5, <2>4, <2>9, <3>1
      <3>3. {k, m} \in SUBSET Above(rows, x)
        BY <3>2
      <3>4. Cardinality({k, m}) <= Cardinality(Above(rows, x))
        BY <1>2, <3>1, <3>3, FS_Subset
      <3>5. QED
        BY <1>2, <2>8, <3>1, <3>4
    <2>10. page = {k, m}
      BY <2>7, <2>9
    <2>11. QED
      BY <1>7, <2>8, <2>10
  <1>8. QED
    BY <1>6, <1>7

\* Induction, for a set of numbers.
LEMMA Induct ==
    ASSUME NEW T, 0 \in T, \A n \in Nat : n \in T => n + 1 \in T
    PROVE  Nat \subseteq T
  <1> SUFFICES ASSUME Nat \ T # {} PROVE FALSE
    OBVIOUS
  <1>1. PICK x \in Nat \ T : \A y \in Nat \ T : x <= y
    BY LeastOfNats
  <1>2. x # 0 /\ x - 1 \in Nat /\ x - 1 \in T
    BY <1>1
  <1>3. QED
    BY <1>1, <1>2

\* The rows that come before a row in a latency read.
Below(rows, r) == {s \in rows : s.at < r.at \/ (s.at = r.at /\ s.no < r.no)}

LEMMA BelowIs ==
    ASSUME IInv, NEW rows, rows \subseteq db.samples
    PROVE  /\ IsFiniteSet(rows) /\ Cardinality(rows) \in Nat
           /\ \A r \in rows : r.no \in Nat
           /\ \A r, s \in rows : r.no = s.no => r = s
           /\ \A r \in rows : /\ IsFiniteSet(Below(rows, r)) /\ Cardinality(Below(rows, r)) \in Nat
                              /\ \A s : s \in Below(rows, r) <=> s \in rows /\ s.no < r.no
  <1>1. IsFiniteSet(rows) /\ Cardinality(rows) \in Nat
    <2>1. IsFiniteSet(db.samples)
      BY BatchIsFresh, FiniteFile
    <2>2. QED
      BY <2>1, FS_Subset, FS_CardinalityType
  <1>2. (\A r \in rows : r.no \in Nat) /\ \A r, s \in rows : r.no = s.no => r = s
    BY SampleFrom
  <1>3. ASSUME NEW r \in rows
        PROVE  /\ IsFiniteSet(Below(rows, r)) /\ Cardinality(Below(rows, r)) \in Nat
               /\ \A s : s \in Below(rows, r) <=> s \in rows /\ s.no < r.no
    <2>1. Below(rows, r) \in SUBSET rows
      BY DEF Below
    <2>2. IsFiniteSet(Below(rows, r)) /\ Cardinality(Below(rows, r)) \in Nat
      BY <1>1, <2>1, FS_Subset, FS_CardinalityType
    <2>3. ASSUME NEW s \in rows
          PROVE  (s.at < r.at \/ (s.at = r.at /\ s.no < r.no)) <=> s.no < r.no
      <3>1. (r.at > s.at \/ (r.at = s.at /\ r.no > s.no)) <=> r.no > s.no
        BY RowOrder
      <3>2. r.at \in Int /\ s.at \in Int /\ r.no \in Nat /\ s.no \in Nat
        BY SampleFrom
      <3>3. QED
        BY <3>1, <3>2
    <2>4. QED
      BY <2>2, <2>3 DEF Below
  <1>4. QED
    BY <1>1, <1>2, <1>3

\* A set of rows has an oldest one.
LEMMA OldestRow ==
    ASSUME IInv, NEW rows, rows \subseteq db.samples, rows # {}
    PROVE  \E m \in rows : \A x \in rows : x # m => m.no < x.no
  <1>1. (\A x \in rows : x.no \in Nat) /\ \A r, s \in rows : r.no = s.no => r = s
    BY BelowIs
  <1> DEFINE N == {x.no : x \in rows}
  <1>2. N \subseteq Nat /\ N # {}
    BY <1>1
  <1>3. PICK k \in N : \A n \in N : k <= n
    <2> HIDE DEF N
    <2>1. QED
      BY <1>2, LeastOfNats
  <1>4. PICK m \in rows : k = m.no
    OBVIOUS
  <1>5. ASSUME NEW x \in rows, x # m PROVE m.no < x.no
    <2>1. m.no <= x.no /\ m.no # x.no
      BY <1>1, <1>3, <1>4, <1>5
    <2>2. QED
      BY <1>1, <2>1
  <1>6. QED
    BY <1>5

\* A latency read returns as many rows as its limit, as long as there are that many.
LEMMA OldestCount ==
    ASSUME IInv, NEW rows, rows \subseteq db.samples, NEW limit \in Nat, limit <= Cardinality(rows)
    PROVE  Cardinality(Oldest(rows, limit)) = limit
  <1> DEFINE P(l) == Oldest(rows, l)
             T == {l \in Nat : l <= Cardinality(rows) => Cardinality(P(l)) = l}
  <1>1. /\ IsFiniteSet(rows) /\ Cardinality(rows) \in Nat /\ \A r \in rows : r.no \in Nat
        /\ \A r \in rows : /\ IsFiniteSet(Below(rows, r)) /\ Cardinality(Below(rows, r)) \in Nat
                           /\ \A s : s \in Below(rows, r) <=> s \in rows /\ s.no < r.no
    BY BelowIs
  <1>2. \A l, r : r \in P(l) <=> r \in rows /\ Cardinality(Below(rows, r)) < l
    BY DEF Oldest, Below
  <1> HIDE DEF P
  <1>3. 0 \in T
    <2>1. P(0) = {}
      BY <1>1, <1>2
    <2>2. QED
      BY <2>1, FS_EmptySet
  <1>4. ASSUME NEW l \in Nat, l \in T PROVE l + 1 \in T
    <2> SUFFICES ASSUME l + 1 <= Cardinality(rows) PROVE Cardinality(P(l + 1)) = l + 1
      OBVIOUS
    <2>1. Cardinality(P(l)) = l
      BY <1>1, <1>4
    <2>2. P(l) \in SUBSET rows /\ IsFiniteSet(P(l))
      BY <1>1, <1>2, FS_Subset
    <2>3. rows \ P(l) # {}
      <3>1. P(l) # rows
        BY <1>1, <2>1
      <3>2. QED
        BY <2>2, <3>1
    <2> DEFINE rest == rows \ P(l)
    <2>4. PICK m \in rest : \A x \in rest : x # m => m.no < x.no
      <3>1. rest \subseteq db.samples /\ rest # {}
        BY <2>3
      <3> HIDE DEF rest
      <3>2. QED
        BY <3>1, OldestRow
    <2>5. m \in rows /\ m \notin P(l) /\ m.no \in Nat /\ ~(Cardinality(Below(rows, m)) < l)
      BY <1>1, <1>2, <2>4
    <2>6. ASSUME NEW x \in P(l) PROVE x.no < m.no
      <3>1. x \in rows /\ x.no \in Nat /\ x # m /\ Cardinality(Below(rows, x)) < l
        BY <1>1, <1>2, <2>5
      <3>2. ASSUME m.no <= x.no PROVE FALSE
        <4>1. \A y \in Below(rows, m) : y \in Below(rows, x)
          BY <1>1, <2>5, <3>1, <3>2
        <4>2. Below(rows, m) \in SUBSET Below(rows, x)
          BY <4>1
        <4>3. Cardinality(Below(rows, m)) <= Cardinality(Below(rows, x))
          BY <1>1, <3>1, <4>2, FS_Subset
        <4>4. Cardinality(Below(rows, m)) \in Nat /\ Cardinality(Below(rows, x)) \in Nat
          BY <1>1, <2>5, <3>1
        <4>5. QED
          BY <2>5, <3>1, <4>3, <4>4
      <3>3. QED
        BY <2>5, <3>1, <3>2
    <2>7. Below(rows, m) = P(l)
      <3>1. ASSUME NEW x \in Below(rows, m) PROVE x \in P(l)
        <4>1. x \in rows /\ x.no < m.no /\ x.no \in Nat
          BY <1>1, <2>5
        <4>2. x \in rest => x = m \/ m.no < x.no
          BY <2>4
        <4>3. QED
          BY <2>5, <4>1, <4>2
      <3>2. \A x \in P(l) : x \in Below(rows, m)
        BY <1>1, <1>2, <2>5, <2>6
      <3>3. QED
        BY <3>1, <3>2
    <2>8. m \in P(l + 1)
      BY <1>2, <2>1, <2>5, <2>7
    <2>9. ASSUME NEW x \in P(l + 1), x \notin P(l), x # m PROVE FALSE
      <3>1. x \in rows /\ Cardinality(Below(rows, x)) < l + 1 /\ m.no < x.no /\ x.no \in Nat
        BY <1>1, <1>2, <2>4, <2>9
      <3>2. \A y \in P(l) \cup {m} : y \in Below(rows, x)
        <4>1. ASSUME NEW y \in P(l) PROVE y \in rows /\ y.no < x.no
          <5>1. y \in rows /\ y.no \in Nat /\ y.no < m.no
            BY <1>1, <1>2, <2>6
          <5>2. QED
            BY <2>5, <3>1, <5>1
        <4>2. QED
          BY <1>1, <2>5, <3>1, <4>1
      <3>3. P(l) \cup {m} \in SUBSET Below(rows, x)
        BY <3>2
      <3>4. Cardinality(P(l) \cup {m}) <= Cardinality(Below(rows, x))
        BY <1>1, <3>1, <3>3, FS_Subset
      <3>5. Cardinality(P(l) \cup {m}) = l + 1
        BY <2>1, <2>2, <2>5, FS_AddElement
      <3>6. QED
        BY <1>1, <3>1, <3>4, <3>5
    <2>10. \A x \in P(l) : x \in P(l + 1)
      BY <1>1, <1>2
    <2>11. P(l + 1) = P(l) \cup {m}
      BY <2>8, <2>9, <2>10
    <2>12. QED
      BY <2>1, <2>2, <2>5, <2>11, FS_AddElement
  <1>5. Nat \subseteq T
    <2> HIDE DEF T
    <2>1. QED
      BY <1>3, <1>4, Induct
  <1>6. limit \in T
    BY <1>5
  <1>7. QED
    BY <1>6 DEF P

\* A row of the window is returned or cut off by the limit.
LEMMA ReturnedOrCut ==
    ASSUME IInv, NEW from, NEW to, NEW r
    PROVE  /\ r \in LatencySamples(from, to) => r \in InWindow(from, to)
           /\ r \in InWindow(from, to) => r \in LatencySamples(from, to) \/ CutOff(LatencySamples(from, to), r)
  <1> DEFINE rows == InWindow(from, to)
  <1>1. rows \subseteq db.samples /\ LatencySamples(from, to) = Oldest(rows, MaxSamples) /\ MaxSamples \in Nat
    BY DatabaseAssumption DEF InWindow, LatencySamples, DatabaseAssumption
  <1> HIDE DEF rows
  <1>2. \A x : x \in Oldest(rows, MaxSamples) <=> x \in rows /\ Cardinality(Below(rows, x)) < MaxSamples
    BY DEF Oldest, Below
  <1>3. /\ IsFiniteSet(rows) /\ Cardinality(rows) \in Nat /\ \A x \in rows : x.no \in Nat
        /\ \A x \in rows : /\ IsFiniteSet(Below(rows, x)) /\ Cardinality(Below(rows, x)) \in Nat
                           /\ \A s : s \in Below(rows, x) <=> s \in rows /\ s.no < x.no
    BY <1>1, BelowIs
  <1>4. ASSUME r \in rows, r \notin Oldest(rows, MaxSamples)
        PROVE  CutOff(Oldest(rows, MaxSamples), r)
    <2>1. ~(Cardinality(Below(rows, r)) < MaxSamples)
      BY <1>2, <1>4
    <2>2. Below(rows, r) \in SUBSET rows
      BY DEF Below
    <2>3. Cardinality(Below(rows, r)) <= Cardinality(rows)
      BY <1>3, <2>2, FS_Subset
    <2>4. MaxSamples <= Cardinality(rows)
      BY <1>1, <1>3, <1>4, <2>1, <2>3
    <2>5. Cardinality(Oldest(rows, MaxSamples)) = MaxSamples
      BY <1>1, <2>4, OldestCount
    <2>6. ASSUME NEW s \in Oldest(rows, MaxSamples) PROVE s.no < r.no
      <3>1. s \in rows /\ Cardinality(Below(rows, s)) < MaxSamples
        BY <1>2
      <3>2. ASSUME r.no <= s.no PROVE FALSE
        <4>1. \A y \in Below(rows, r) : y \in Below(rows, s)
          BY <1>3, <1>4, <3>1, <3>2
        <4>2. Below(rows, r) \in SUBSET Below(rows, s)
          BY <4>1
        <4>3. Cardinality(Below(rows, r)) <= Cardinality(Below(rows, s))
          BY <1>3, <3>1, <4>2, FS_Subset
        <4>4. QED
          BY <1>1, <1>3, <1>4, <2>1, <3>1, <4>3
      <3>3. QED
        BY <1>3, <1>4, <3>1, <3>2
    <2>7. QED
      BY <2>5, <2>6 DEF CutOff
  <1>5. QED
    BY <1>1, <1>2, <1>4 DEF rows

LEMMA WindowsHold == IInv => WindowExact
  <1> SUFFICES ASSUME IInv, NEW r \in db.samples, r.no > 0, NEW from \in 1..now, NEW to \in 1..now
               PROVE  LET rows == LatencySamples(from, to)
                      IN  /\ from <= issued[r.no].at /\ issued[r.no].at <= to => r \in rows \/ CutOff(rows, r)
                          /\ r \in rows => from - Ms < issued[r.no].at /\ issued[r.no].at < to + Ms
    BY DEF WindowExact
  <1> DEFINE at == issued[r.no].at
  <1>1. at \in Int /\ r.at = Encode(at) /\ from \in Int /\ to \in Int /\ Ms \in Int
    BY SampleFrom, DatabaseAssumption DEF IInv, PassInv, DatabaseAssumption
  <1> HIDE DEF at
  <1>2. r \in InWindow(from, to) <=> Encode(from) <= Encode(at) /\ Encode(at) <= Encode(to)
    BY <1>1 DEF InWindow
  <1>3. from <= at /\ at <= to => Encode(from) <= Encode(at) /\ Encode(at) <= Encode(to)
    BY <1>1, EncodeMonotone
  <1>4. Encode(from) <= Encode(at) => from - Ms < at
    BY <1>1, EncodeReflects
  <1>5. Encode(at) <= Encode(to) => at - Ms < to
    BY <1>1, EncodeReflects
  <1>6. Encode(at) <= Encode(to) => at < to + Ms
    BY <1>1, <1>5
  <1>7. /\ r \in LatencySamples(from, to) => r \in InWindow(from, to)
        /\ r \in InWindow(from, to) => r \in LatencySamples(from, to) \/ CutOff(LatencySamples(from, to), r)
    BY ReturnedOrCut
  <1>8. QED
    BY <1>2, <1>3, <1>4, <1>6, <1>7 DEF at

LEMMA PagesHold == IInv => PageNewest
  <1> SUFFICES ASSUME IInv, NEW r \in db.samples, NEW s \in db.samples, r.no < s.no,
                      NEW from \in 1..now, NEW limit \in 1..2
               PROVE  LET all == InWindow(ClampRange(from, now), now)
                          page == TierTransitions(from, now, limit)
                          own == DeliveryWindows(s.session, from, now, limit)
                      IN  /\ r \in page /\ s \in all => s \in page
                          /\ r \in own /\ s \in all => s \in own
                          /\ r \in all \ page => Cardinality(page) = limit
    BY DEF PageNewest
  <1> DEFINE all == InWindow(ClampRange(from, now), now)
             ours == {x \in all : x.session = s.session}
             page == TierTransitions(from, now, limit)
             own == DeliveryWindows(s.session, from, now, limit)
  <1>1. page = Newest(all, limit) /\ own = Newest(ours, limit)
    BY DEF TierTransitions, DeliveryWindows
  <1>2. all \subseteq db.samples /\ ours \subseteq db.samples /\ limit \in Nat
    BY DEF InWindow
  <1>3. s \in all => s \in ours
    OBVIOUS
  <1> HIDE DEF all, ours, page, own
  <1>4. r \in page /\ s \in all => s \in page
    BY <1>1, <1>2, NewerListed
  <1>5. r \in own /\ s \in all => s \in own
    BY <1>1, <1>2, <1>3, NewerListed
  <1>6. r \in all \ page => Cardinality(page) = limit
    BY <1>1, <1>2, PageFull
  <1>7. QED
    BY <1>4, <1>5, <1>6 DEF all, page, own

LEMMA SummariesHold == IInv /\ ReadInv => SummaryCovers
  <1> SUFFICES ASSUME IInv, ReadInv, read.at > 0, ~read.pruned, NEW r \in read.counted
               PROVE  r \in SummaryList \/ CutOff(SummaryList, r)
    BY DEF SummaryCovers
  <1>1. r \in InWindow(read.at - KeepSamples, read.at)
    BY DEF ReadInv, CountedKept
  <1>2. QED
    BY <1>1, ReturnedOrCut DEF SummaryList

\* Queries return what is stored: a window is exact to the millisecond its timestamps are
\* cut to and a summary lists what it counted though batches commit in between, and when
\* the limit of a latency query leaves a row out, as many rows as the limit are returned
\* and all of them are older; a page holds the newest rows and a series draws each
\* sample in its own bucket (metrics/query.go, sqlite/queries.go).
THEOREM ReadsAreExact == Spec => []ReadsExact
  <1>1. IInv /\ ReadInv => ReadsExact
    BY WindowsHold, SummariesHold, PagesHold, BucketsHold DEF ReadsExact
  <1>2. QED
    BY <1>1, InitInv, StepInv, InitRead, ReadStep, PTL DEF Spec
================================================================================
