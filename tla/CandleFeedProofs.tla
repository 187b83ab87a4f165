-------------------------- MODULE CandleFeedProofs --------------------------
(***************************************************************************)
(* Proofs about CandleFeed, for every capacity of the mailbox and of the    *)
(* outbound queue and every number of trades and of history loads.          *)
(***************************************************************************)
EXTENDS CandleFeed, FiniteSetTheorems, SequenceTheorems, TLAPS

\* The closes and changes on their way from the engine to the app.
OnWay == Elems(pubs) \cup Elems(mailbox) \cup Elems(outbound)

\* The buckets the chart shows as closed.
Shown == {<<c.iv, c.start>> : c \in {c \in Elems(chart) : c.closed}}

\* A close d that follows a candle of a later bucket is one that was missed.
Fine(c, d, M) == d.closed /\ c.iv = d.iv /\ c.start > d.start => <<d.iv, d.start>> \in M

\* Of two changes of an interval the first is the older.
Rise(c, d) == ~c.closed /\ ~d.closed /\ c.iv = d.iv => c.seq < d.seq
Ahead(c, d, M) == Fine(c, d, M) /\ Rise(c, d)

InOrder(s, M) == \A i, j \in 1..Len(s) : i < j => Fine(s[i], s[j], M)
InTurn(s, M) == \A i, j \in 1..Len(s) : i < j => Ahead(s[i], s[j], M)

\* One interval, one candle per bucket, ascending.
Ascending(s) ==
    \A i, j \in 1..Len(s) : i < j => s[i].iv = s[j].iv /\ s[i].start < s[j].start

\* The candle is one of the engine's, and not newer than what the engine has.
Bounded(x) ==
    \/ ~x.closed /\ x.start = active[x.iv].start /\ x.seq <= active[x.iv].seq
    \/ \E d \in Elems(ended[x.iv]) : x.start = d.start /\ x.seq <= d.seq

\* Outside the chart a closed candle is exactly what the engine closed.
Final(x) == x.closed => x \in Elems(ended[x.iv])

\* The aggregators: one active candle with the last trade in it, and the closed
\* ones before it, the first bucket among them.
EngineInv ==
    \A iv \in Intervals :
        /\ active[iv].iv = iv /\ ~active[iv].closed /\ active[iv].seq = n
        /\ active[iv].start = BucketStart(iv, now)
        /\ Ascending(ended[iv])
        /\ \E d \in {active[iv]} \cup Elems(ended[iv]) : d.start = 0
        /\ \A d \in Elems(ended[iv]) :
              d.iv = iv /\ d.closed /\ d.start < active[iv].start /\ d.seq <= n

\* Nothing on its way is newer than the engine, and a close is the engine's.
FlowKnown == \A x \in OnWay : Bounded(x) /\ Final(x) /\ x.seq >= 1

\* A change still to be published is the engine's newest.
PubsNewest == \A x \in Elems(pubs) : x.closed \/ x = active[x.iv]

\* The coalescer holds changes only, each under its own interval.
HeldKnown ==
    \A iv \in Intervals :
        /\ Bounded(pending[iv]) /\ ~pending[iv].closed
        /\ pending[iv] # None => pending[iv].iv = iv /\ pending[iv].seq >= 1

ChartKnown == \A x \in Elems(chart) : Bounded(x)

\* The order of the queues p, mb and ob and the coalescer's candles h.
Order(p, mb, ob, h, M) ==
    /\ InOrder(ob, M) /\ InTurn(mb, M) /\ InTurn(p, M)
    /\ \A c \in Elems(ob), d \in Elems(mb) \cup Elems(p) : Fine(c, d, M)
    /\ \A iv \in Intervals, d \in Elems(mb) \cup Elems(p) : Ahead(h[iv], d, M)
    /\ \A c \in Elems(mb), d \in Elems(p) : Ahead(c, d, M)
FlowOrder == Order(pubs, mailbox, outbound, pending, missed)

\* A bucket that has ended is missed, shown as closed, or on its way.
Settled ==
    \A iv \in Intervals : \A d \in Elems(ended[iv]) :
        <<iv, d.start>> \in missed \cup Shown \/ d \in OnWay

\* A page, under way or on the device, holds candles the engine had.
PageOK(iv, p) ==
    /\ Ascending(p)
    /\ \A x \in Elems(p) : x.iv = iv /\ Bounded(x) /\ Final(x)
PagesKnown ==
    /\ \A a \in asks : PageOK(a.iv, a.page)
    /\ \A iv \in Intervals : PageOK(iv, cache[iv])

\* Unless an interval is behind, its active candle is on its way, held or shown.
Current ==
    \A iv \in Intervals \ behind :
        \/ active[iv] \in OnWay
        \/ pending[iv] = active[iv]
        \/ chart # <<>> /\ Last(chart) = active[iv]

\* Loads are numbered once, and the guard stands for the load of what is shown.
AsksKnown ==
    /\ \A a \in asks : a.id <= asked
    /\ \A a, b \in asks : a.id = b.id => a = b
    /\ guard.id <= asked
    /\ guard.id # 0 => guard.iv = selected
    /\ \A a \in asks : a.id = guard.id => a.iv = guard.iv

\* Somebody still has to tell the session the selected interval, or it knows it and
\* the next session will be told.
Follows ==
    ~skipped =>
        \/ WillSubscribe
        \/ /\ spec = selected
           /\ \/ told # <<>> /\ Last(told) = selected
              \/ told = <<>> /\ (online => interval = selected)

(* The parts of TypeOK, each for the prover that suits it. *)

EngineType ==
    /\ now \in Nat /\ n \in 1..MaxTrades
    /\ active \in [Intervals -> Candles] /\ ended \in [Intervals -> Seq(Candles)]
FlowType ==
    /\ pubs \in Seq(Candles) /\ mailbox \in Seq(Candles) /\ Len(mailbox) <= Cap
    /\ interval \in Intervals /\ online \in BOOLEAN /\ pending \in [Intervals -> Candles]
    /\ outbound \in Seq(Candles) /\ Len(outbound) <= OutCap
Asks == [id : 1..MaxAsks, iv : Intervals, sub : BOOLEAN, page : Seq(Candles),
         net : BOOLEAN]
AppType ==
    /\ selected \in Intervals /\ chart \in Seq(Candles) /\ asks \subseteq Asks
    /\ guard \in [id : 0..MaxAsks, iv : Intervals \cup {"none"}] /\ asked \in 0..MaxAsks
    /\ cache \in [Intervals -> Seq(Candles)] /\ spec \in Intervals
    /\ told \in Seq(Intervals)
MarksType == missed \subseteq Intervals \X Nat /\ behind \subseteq Intervals

\* What the aggregators kept since the last reset.
HistoryOK ==
    /\ history \in [Intervals -> Seq(Candles)] /\ fresh \in BOOLEAN
    /\ \A iv \in Intervals :
          Ascending(history[iv]) /\ Elems(history[iv]) \subseteq Elems(ended[iv])

\* The engine, the candles on their way, and the buckets they account for.
EngineOK == EngineType /\ EngineInv
FlowOK == FlowType /\ MarksType /\ FlowKnown /\ PubsNewest /\ HeldKnown /\ FlowOrder
ChartOK ==
    /\ ChartKnown /\ ChartOrdered /\ WrongCloseExplained /\ Settled
AppOK == AppType /\ PagesKnown /\ AsksKnown /\ Follows

\* The inductive invariant.
IInv ==
    /\ EngineOK /\ HistoryOK /\ FlowOK /\ AppOK /\ ChartOK /\ Current /\ skipped \in BOOLEAN

\* TypeOK follows from the parts.
LEMMA TypeParts ==
    EngineType /\ HistoryOK /\ FlowType /\ AppType /\ MarksType /\ skipped \in BOOLEAN
        => TypeOK
  BY Zenon DEF TypeOK, EngineType, HistoryOK, FlowType, AppType, MarksType, Asks

--------------------------------------------------------------------------------
(* The elements of a sequence. *)

LEMMA ElemsIn ==
    ASSUME NEW S, NEW s \in Seq(S), NEW x \in Elems(s)
    PROVE  x \in S
  BY DEF Elems

LEMMA ElemsAt ==
    ASSUME NEW S, NEW s \in Seq(S), NEW i \in 1..Len(s)
    PROVE  s[i] \in Elems(s) /\ s[i] \in S
  BY DEF Elems

LEMMA ElemsEmpty == Elems(<<>>) = {}
  BY DEF Elems

LEMMA ElemsAppend ==
    ASSUME NEW S, NEW s \in Seq(S), NEW x \in S
    PROVE  Append(s, x) \in Seq(S) /\ Elems(Append(s, x)) = Elems(s) \cup {x}
  <1>1. /\ Append(s, x) \in Seq(S) /\ Len(Append(s, x)) = Len(s) + 1
        /\ \A i \in 1..Len(s) : Append(s, x)[i] = s[i]
        /\ Append(s, x)[Len(s) + 1] = x
    OBVIOUS
  <1>2. Len(s) \in Nat
    OBVIOUS
  <1>3. QED
    BY <1>1, <1>2 DEF Elems

LEMMA ElemsTail ==
    ASSUME NEW S, NEW s \in Seq(S), s # <<>>
    PROVE  /\ Tail(s) \in Seq(S) /\ Head(s) \in S
           /\ Elems(s) = {Head(s)} \cup Elems(Tail(s))
           /\ Len(Tail(s)) = Len(s) - 1
           /\ Head(s) = s[1] /\ \A i \in 1..Len(Tail(s)) : Tail(s)[i] = s[i + 1]
  <1>1. /\ Tail(s) \in Seq(S) /\ Head(s) \in S /\ Len(Tail(s)) = Len(s) - 1
        /\ Head(s) = s[1] /\ \A i \in 1..Len(Tail(s)) : Tail(s)[i] = s[i + 1]
        /\ Len(s) \in Nat \ {0}
    OBVIOUS
  <1>2. ASSUME NEW x \in Elems(s)
        PROVE  x \in {Head(s)} \cup Elems(Tail(s))
    <2>1. PICK i \in 1..Len(s) : x = s[i]
      BY DEF Elems
    <2>2. CASE i = 1
      BY <1>1, <2>1, <2>2
    <2>3. CASE i # 1
      <3>1. i - 1 \in 1..Len(Tail(s)) /\ x = Tail(s)[i - 1]
        BY <1>1, <2>1, <2>3
      <3>2. QED
        BY <3>1 DEF Elems
    <2>4. QED
      BY <2>2, <2>3
  <1>3. ASSUME NEW x \in {Head(s)} \cup Elems(Tail(s))
        PROVE  x \in Elems(s)
    BY <1>1 DEF Elems
  <1>4. QED
    BY <1>1, <1>2, <1>3

LEMMA ElemsLast ==
    ASSUME NEW S, NEW s \in Seq(S), s # <<>>
    PROVE  Last(s) \in Elems(s) /\ Len(s) \in Nat \ {0}
  BY DEF Elems, Last

\* In an ascending sequence a bucket has one candle.
LEMMA AscendingOne ==
    ASSUME NEW s \in Seq(Candles), Ascending(s),
           NEW x \in Elems(s), NEW y \in Elems(s), x.start = y.start
    PROVE  x = y
  <1>1. PICK i \in 1..Len(s), j \in 1..Len(s) : x = s[i] /\ y = s[j]
    BY DEF Elems
  <1>2. s[i] \in Candles /\ s[j] \in Candles
    OBVIOUS
  <1>3. s[i].start \in Nat /\ s[j].start \in Nat
    BY <1>2 DEF Candles
  <1>4. ~(i < j) /\ ~(j < i)
    BY <1>1, <1>3 DEF Ascending
  <1>5. QED
    BY <1>1, <1>4

\* The latest candle of an ascending sequence is its last.
LEMMA AscendingAppend ==
    ASSUME NEW s \in Seq(Candles), Ascending(s), NEW x \in Candles,
           \A d \in Elems(s) : d.iv = x.iv /\ d.start < x.start
    PROVE  Ascending(Append(s, x))
  <1>1. /\ Len(Append(s, x)) = Len(s) + 1 /\ Len(s) \in Nat
        /\ (\A i \in 1..Len(s) : Append(s, x)[i] = s[i] /\ s[i] \in Elems(s))
        /\ Append(s, x)[Len(s) + 1] = x
    BY DEF Elems
  <1> SUFFICES ASSUME NEW i \in 1..Len(s) + 1, NEW j \in 1..Len(s) + 1, i < j
               PROVE  /\ Append(s, x)[i].iv = Append(s, x)[j].iv
                      /\ Append(s, x)[i].start < Append(s, x)[j].start
    BY <1>1 DEF Ascending
  <1>2. i \in 1..Len(s)
    BY <1>1
  <1>3. CASE j \in 1..Len(s)
    BY <1>1, <1>2, <1>3 DEF Ascending
  <1>4. CASE j = Len(s) + 1
    BY <1>1, <1>2, <1>4
  <1>5. QED
    BY <1>1, <1>3, <1>4

LEMMA AscendingLast ==
    ASSUME NEW s \in Seq(Candles), Ascending(s), NEW y \in Elems(s)
    PROVE  /\ y.start <= Last(s).start
           /\ y.start = Last(s).start => y = Last(s)
           /\ y.iv = Last(s).iv
  <1>1. PICK i \in 1..Len(s) : y = s[i]
    BY DEF Elems
  <1>2. Len(s) \in Nat /\ Len(s) \in 1..Len(s)
    BY <1>1
  <1>3. s[i] \in Candles /\ s[Len(s)] \in Candles
    BY <1>2
  <1>4. s[i].start \in Nat /\ s[Len(s)].start \in Nat
    BY <1>3 DEF Candles
  <1>5. i = Len(s) \/ i < Len(s)
    BY <1>2
  <1>6. QED
    BY <1>1, <1>2, <1>4, <1>5 DEF Ascending, Last

--------------------------------------------------------------------------------
(* The i-th smallest of a finite set of numbers. *)

Rank(S, t) == Cardinality({u \in S : u < t})

LEMMA RankType ==
    ASSUME NEW S \in SUBSET Int, IsFiniteSet(S), NEW t \in S
    PROVE  Rank(S, t) \in 0..(Cardinality(S) - 1)
  <1>1. {u \in S : u < t} \in SUBSET S /\ t \notin {u \in S : u < t}
    OBVIOUS
  <1>2. /\ IsFiniteSet({u \in S : u < t})
        /\ Cardinality({u \in S : u < t}) <= Cardinality(S)
        /\ Cardinality(S) = Cardinality({u \in S : u < t}) => S = {u \in S : u < t}
    BY <1>1, FS_Subset
  <1>3. Cardinality({u \in S : u < t}) \in Nat /\ Cardinality(S) \in Nat
    BY <1>2, FS_CardinalityType
  <1>4. QED
    BY <1>1, <1>2, <1>3 DEF Rank

LEMMA RankOrder ==
    ASSUME NEW S \in SUBSET Int, IsFiniteSet(S), NEW t \in S, NEW v \in S, t < v
    PROVE  Rank(S, t) < Rank(S, v)
  <1> DEFINE A == {u \in S : u < t}  B == {u \in S : u < v}
  <1>0. \A u \in S : u \in Int
    OBVIOUS
  <1>a. \A u \in A : u \in B
    BY <1>0
  <1>b. t \in B /\ t \notin A
    BY <1>0
  <1>1. B \in SUBSET S /\ A \in SUBSET B /\ t \in B /\ t \notin A
    BY <1>a, <1>b
  <1>2. IsFiniteSet(B)
    BY <1>1, FS_Subset
  <1>3. IsFiniteSet(A) /\ Cardinality(A) <= Cardinality(B)
        /\ (Cardinality(B) = Cardinality(A) => B = A)
    BY <1>1, <1>2, FS_Subset
  <1>4. Cardinality(A) \in Nat /\ Cardinality(B) \in Nat
    BY <1>2, <1>3, FS_CardinalityType
  <1>5. Cardinality(A) < Cardinality(B)
    BY <1>1, <1>3, <1>4
  <1>6. QED
    BY <1>5 DEF Rank

\* There is an i-th smallest number for every i up to the size of the set, the
\* i-th is smaller than the next, and every number has its place.
LEMMA NthFacts ==
    ASSUME NEW S \in SUBSET Int, IsFiniteSet(S)
    PROVE  /\ Cardinality(S) \in Nat
           /\ \A i \in 1..Cardinality(S) : Nth(S, i) \in S /\ Rank(S, Nth(S, i)) = i - 1
           /\ \A i, j \in 1..Cardinality(S) : i < j => Nth(S, i) < Nth(S, j)
           /\ \A t \in S : Rank(S, t) + 1 \in 1..Cardinality(S) /\ t = Nth(S, Rank(S, t) + 1)
  <1> DEFINE R == 0..(Cardinality(S) - 1)
             f == [t \in S |-> Rank(S, t)]
  <1>1. Cardinality(S) \in Nat
    BY FS_CardinalityType
  <1>2. f \in [S -> R]
    BY RankType
  <1>3. ASSUME NEW t \in S, NEW v \in S, f[t] = f[v]
        PROVE  t = v
    <2>1. Rank(S, t) = Rank(S, v) /\ Rank(S, t) \in Int
      BY <1>3, RankType
    <2>2. ~(t < v) /\ ~(v < t)
      BY <2>1, RankOrder
    <2>3. QED
      BY <2>2
  <1>4. f \in Injection(S, R)
    BY <1>2, <1>3 DEF Injection, IsInjective
  <1>5. IsFiniteSet(R) /\ Cardinality(R) = Cardinality(S)
    BY <1>1, FS_Interval
  <1>6. f \in Surjection(S, R)
    BY <1>4, <1>5, FS_Injection
  <1>7. ASSUME NEW i \in 1..Cardinality(S)
        PROVE  Nth(S, i) \in S /\ Rank(S, Nth(S, i)) = i - 1
    <2>1. i - 1 \in R
      BY <1>1
    <2>2. PICK t \in S : f[t] = i - 1
      BY <1>6, <2>1 DEF Surjection
    <2>3. \E u \in S : Cardinality({w \in S : w < u}) = i - 1
      BY <2>2 DEF Rank
    <2>4. QED
      BY <2>3 DEF Nth, Rank
  <1>8. ASSUME NEW i \in 1..Cardinality(S), NEW j \in 1..Cardinality(S), i < j
        PROVE  Nth(S, i) < Nth(S, j)
    <2>1. /\ Nth(S, i) \in S /\ Rank(S, Nth(S, i)) = i - 1
          /\ Nth(S, j) \in S /\ Rank(S, Nth(S, j)) = j - 1
      BY <1>7
    <2>2. Nth(S, i) # Nth(S, j)
      BY <1>8, <2>1
    <2>3. ASSUME Nth(S, j) < Nth(S, i) PROVE FALSE
      <3>1. Rank(S, Nth(S, j)) < Rank(S, Nth(S, i))
        BY <2>1, <2>3, RankOrder
      <3>2. QED
        BY <1>1, <1>8, <2>1, <3>1
    <2>4. Nth(S, i) \in Int /\ Nth(S, j) \in Int
      BY <2>1
    <2>5. QED
      BY <2>2, <2>3, <2>4
  <1>9. ASSUME NEW t \in S
        PROVE  Rank(S, t) + 1 \in 1..Cardinality(S) /\ t = Nth(S, Rank(S, t) + 1)
    <2>1. Rank(S, t) \in R
      BY RankType
    <2>2. Rank(S, t) + 1 \in 1..Cardinality(S)
      BY <1>1, <2>1
    <2>3. Nth(S, Rank(S, t) + 1) \in S
          /\ Rank(S, Nth(S, Rank(S, t) + 1)) = Rank(S, t)
      BY <1>7, <2>1, <2>2
    <2>4. QED
      BY <1>3, <2>2, <2>3
  <1>10. QED
    BY <1>1, <1>7, <1>8, <1>9

--------------------------------------------------------------------------------
(* The series the app merges into, and the merges. *)

LEMMA IntervalCard ==
    ASSUME NEW L \in Nat
    PROVE  IsFiniteSet(1..L) /\ Cardinality(1..L) = L
  <1>1. IsFiniteSet(1..L) /\ Cardinality(1..L) = IF 1 > L THEN 0 ELSE L - 1 + 1
    BY FS_Interval
  <1>2. QED
    BY <1>1

LEMMA NthInterval ==
    ASSUME NEW L \in Nat, NEW i \in 1..L
    PROVE  Nth(1..L, i) = i
  <1>1. {u \in 1..L : u < i} = 1..(i - 1) /\ i - 1 \in Nat
    OBVIOUS
  <1>2. Rank(1..L, i) = i - 1
    BY <1>1, IntervalCard DEF Rank
  <1>3. 1..L \in SUBSET Int /\ IsFiniteSet(1..L)
    BY IntervalCard
  <1>4. i = Nth(1..L, Rank(1..L, i) + 1)
    BY <1>3, NthFacts
  <1>5. QED
    BY <1>2, <1>4

\* The elements of s at the positions in I, in order.
Listed(s, I) == [i \in 1..Cardinality(I) |-> s[Nth(I, i)]]

LEMMA ListedNone ==
    ASSUME NEW s PROVE Listed(s, {}) = <<>>
  <1>1. Cardinality({}) = 0
    BY FS_EmptySet
  <1>2. Listed(s, {}) = [i \in 1..0 |-> s[Nth({}, i)]]
    BY <1>1 DEF Listed
  <1>3. QED
    BY <1>2

LEMMA ListedAll ==
    ASSUME NEW S, NEW s \in Seq(S) PROVE Listed(s, 1..Len(s)) = s
  <1>1. Len(s) \in Nat /\ s = [i \in 1..Len(s) |-> s[i]]
    OBVIOUS
  <1>2. Cardinality(1..Len(s)) = Len(s)
    BY <1>1, IntervalCard
  <1>3. Listed(s, 1..Len(s)) = [i \in 1..Len(s) |-> s[Nth(1..Len(s), i)]]
    BY <1>2 DEF Listed
  <1>4. \A i \in 1..Len(s) : Nth(1..Len(s), i) = i
    BY <1>1, NthInterval
  <1>5. Listed(s, 1..Len(s)) = [i \in 1..Len(s) |-> s[i]]
    BY <1>3, <1>4
  <1>6. QED
    BY <1>1, <1>5

\* The chart has one interval, so cutting it down to an interval keeps all or
\* nothing of it.
LEMMA SeriesForFacts ==
    ASSUME chart \in Seq(Candles), Ascending(chart), NEW iv
    PROVE  /\ SeriesFor(iv) = chart \/ SeriesFor(iv) = <<>>
           /\ SeriesFor(iv) \in Seq(Candles) /\ Ascending(SeriesFor(iv))
           /\ Elems(SeriesFor(iv)) = {x \in Elems(chart) : x.iv = iv}
  <1> DEFINE kept == {i \in 1..Len(chart) : chart[i].iv = iv}
  <1>1. Len(chart) \in Nat
    OBVIOUS
  <1>2. SeriesFor(iv) = Listed(chart, kept)
    BY DEF SeriesFor, Listed
  <1>3. \A i, j \in 1..Len(chart) : chart[i].iv = chart[j].iv
    <2>1. \A i, j \in 1..Len(chart) : i < j \/ j < i \/ i = j
      BY <1>1
    <2>2. QED
      BY <2>1 DEF Ascending
  <1>4. CASE kept = {}
    <2>1. SeriesFor(iv) = <<>>
      BY <1>2, <1>4, ListedNone
    <2>2. \A x \in Elems(chart) : x.iv # iv
      BY <1>4 DEF Elems
    <2>3. Ascending(<<>>) /\ <<>> \in Seq(Candles)
      BY DEF Ascending
    <2>4. QED
      BY <2>1, <2>2, <2>3, ElemsEmpty
  <1>5. CASE kept # {}
    <2>1. kept = 1..Len(chart)
      BY <1>3, <1>5
    <2>2. SeriesFor(iv) = chart
      BY <1>2, <2>1, ListedAll
    <2>3. \A x \in Elems(chart) : x.iv = iv
      BY <2>1 DEF Elems
    <2>4. QED
      BY <2>2, <2>3
  <1>6. QED
    BY <1>4, <1>5

LEMMA SealedCandle ==
    ASSUME NEW x \in Candles
    PROVE  /\ Sealed(x) \in Candles /\ Sealed(x).closed /\ Sealed(x).iv = x.iv
           /\ Sealed(x).start = x.start /\ Sealed(x).seq = x.seq
           /\ x.closed => Sealed(x) = x
  BY DEF Candles, Sealed

\* The arrival of a later candle closes x.
Finalised(x, L, y) ==
    /\ ~x.closed /\ y = Sealed(x)
    /\ \E c \in L : L = {c} /\ c.start > x.start

\* What both merges make of the series s and the candles P that arrive, of which
\* those in L close the last of s.
Updates(s, P, L, m) ==
    /\ m \in Seq(Candles) /\ m # <<>> /\ Ascending(m)
    /\ \A y \in Elems(m) :
          y \in Elems(s) \/ y \in P \/ \E x \in Elems(s) : Finalised(x, L, y)
    /\ \A x \in Elems(s), y \in Elems(m) :
          Same(x, y) => y = x \/ Finalised(x, L, y) \/ (y \in P /\ Replaces(y, x))
    /\ \A x \in Elems(s) : \E y \in Elems(m) : Same(x, y)
    /\ \A c \in P : c.closed =>
          \/ \E y \in Elems(m) : Same(y, c) /\ y.closed
          \/ s # <<>> /\ \A x \in Elems(s) : c.start < x.start
    /\ \A c \in P : (\A x \in Elems(s) : x.start <= c.start) =>
          \E y \in Elems(m) : Same(y, c) /\ (y = c \/ (y \in Elems(s) /\ ~Replaces(c, y)))

LEMMA MergeFirst ==
    ASSUME NEW c \in Candles PROVE Updates(<<>>, {c}, {c}, <<c>>)
  <1>1. <<c>> \in Seq(Candles) /\ Len(<<c>>) = 1 /\ <<c>>[1] = c /\ <<c>> # <<>>
    OBVIOUS
  <1>2. Elems(<<c>>) = {c}
    BY <1>1 DEF Elems
  <1>3. Ascending(<<c>>)
    BY <1>1 DEF Ascending
  <1>4. QED
    BY <1>1, <1>2, <1>3, ElemsEmpty DEF Updates, Same

LEMMA SealLast ==
    ASSUME NEW s \in Seq(Candles), s # <<>>,
           NEW t, t = [s EXCEPT ![Len(s)] = Sealed(@)]
    PROVE  /\ t \in Seq(Candles) /\ Len(t) = Len(s) /\ t[Len(s)] = Sealed(s[Len(s)])
           /\ \A i \in 1..Len(s) : i # Len(s) => t[i] = s[i]
  <1>1. Len(s) \in 1..Len(s) /\ s[Len(s)] \in Candles
    OBVIOUS
  <1>2. Sealed(s[Len(s)]) \in Candles
    BY <1>1, SealedCandle
  <1>3. QED
    BY <1>1, <1>2, ExceptSeq

LEMMA MergeAppendCore ==
    ASSUME NEW s \in Seq(Candles), Ascending(s), NEW L \in Nat \ {0}, Len(s) = L,
           NEW c \in Candles, \A x \in Elems(s) : x.iv = c.iv, c.start > Last(s).start,
           NEW t \in Seq(Candles), Len(t) = L, \A i \in 1..L : i # L => t[i] = s[i],
           t[L] = Sealed(s[L])
    PROVE  Updates(s, {c}, {c}, Append(t, c))
  <1> DEFINE m == Append(t, c)
  <1>1. L \in Nat \ {0} /\ \A i \in 1..L : s[i] \in Candles /\ s[i] \in Elems(s)
    BY DEF Elems
  <1>4. m \in Seq(Candles) /\ Len(m) = L + 1 /\ m # <<>>
        /\ (\A i \in 1..L : m[i] = t[i]) /\ m[L + 1] = c
    BY <1>1
  <1>9. Elems(m) = Elems(t) \cup {c}
    BY ElemsAppend
  <1> HIDE DEF m
  <1>a. /\ t[L] \in Candles /\ t[L].closed /\ t[L].iv = s[L].iv /\ t[L].start = s[L].start
        /\ t[L].seq = s[L].seq /\ (s[L].closed => t[L] = s[L])
    <2>1. L \in 1..L
      OBVIOUS
    <2>2. QED
      BY <1>1, <2>1, SealedCandle
  <1>5. \A i \in 1..L : /\ t[i].start = s[i].start /\ t[i].iv = s[i].iv
                        /\ s[i].iv = c.iv
                        /\ s[i].start \in Nat /\ c.start \in Nat
    BY <1>1, <1>a DEF Candles
  <1>6. \A i \in 1..L : s[i].start < c.start
    <2>1. \A i \in 1..L : s[i].start <= Last(s).start
      BY <1>1, AscendingLast
    <2>2. Last(s).start \in Nat
      BY <1>1, <1>5 DEF Last
    <2>3. QED
      BY <1>5, <2>1, <2>2
  <1>7. \A i \in 1..L : t[i] = s[i] \/ (i = L /\ Finalised(s[i], {c}, t[i]))
    <2>1. s[L].closed => t[L] = s[L]
      BY <1>a
    <2>2. ~s[L].closed => Finalised(s[L], {c}, t[L])
      BY <1>1, <1>6 DEF Finalised
    <2>3. QED
      BY <2>1, <2>2
  <1>8. Ascending(m)
    <2> SUFFICES ASSUME NEW i \in 1..(L + 1), NEW j \in 1..(L + 1), i < j
                 PROVE  m[i].iv = m[j].iv /\ m[i].start < m[j].start
      BY <1>4 DEF Ascending
    <2>1. i \in 1..L /\ (j \in 1..L \/ j = L + 1)
      BY <1>1
    <2>2. CASE j \in 1..L
      <3>1. s[i].iv = s[j].iv /\ s[i].start < s[j].start
        BY <2>1, <2>2 DEF Ascending
      <3>2. QED
        BY <1>4, <1>5, <2>1, <2>2, <3>1
    <2>3. CASE j = L + 1
      BY <1>4, <1>5, <1>6, <2>1, <2>3
    <2>4. QED
      BY <2>1, <2>2, <2>3
  <1>10. \A y \in Elems(m) :
            y \in Elems(s) \/ y \in {c} \/ \E x \in Elems(s) : Finalised(x, {c}, y)
    <2>1. ASSUME NEW y \in Elems(m), y # c
          PROVE  y \in Elems(s) \/ \E x \in Elems(s) : Finalised(x, {c}, y)
      <3>1. PICK i \in 1..L : y = t[i]
        BY <1>9, <2>1 DEF Elems
      <3>2. CASE t[i] = s[i]
        BY <1>1, <3>1, <3>2
      <3>3. CASE Finalised(s[i], {c}, t[i])
        <4>1. s[i] \in Elems(s) /\ Finalised(s[i], {c}, y)
          BY <1>1, <3>1, <3>3
        <4>2. QED
          BY <4>1
      <3>4. QED
        BY <1>7, <3>2, <3>3
    <2>2. QED
      BY <2>1
  <1>11. ASSUME NEW x \in Elems(s), NEW y \in Elems(m), Same(x, y)
         PROVE  y = x \/ Finalised(x, {c}, y) \/ (y \in {c} /\ Replaces(y, x))
    <2>1. PICK i \in 1..L : x = s[i]
      BY DEF Elems
    <2>2. y # c
      BY <1>5, <1>6, <1>11, <2>1 DEF Same
    <2>3. PICK j \in 1..L : y = t[j]
      BY <1>9, <2>2 DEF Elems
    <2>4. s[i].start = s[j].start
      BY <1>5, <1>11, <2>1, <2>3 DEF Same
    <2>5. s[i] = s[j]
      BY <1>1, <2>4, AscendingOne
    <2>6. QED
      BY <1>7, <2>1, <2>3, <2>5
  <1>12. ASSUME NEW x \in Elems(s) PROVE \E y \in Elems(m) : Same(x, y)
    <2>1. PICK i \in 1..L : x = s[i]
      BY DEF Elems
    <2>2. t[i] \in Elems(m)
      BY <1>9 DEF Elems
    <2>3. QED
      BY <1>5, <2>1, <2>2 DEF Same
  <1>13. c \in Elems(m) /\ Same(c, c)
    BY <1>9 DEF Same
  <1>14. QED
    <2>1. \A x \in Elems(s) : \E y \in Elems(m) : Same(x, y)
      BY <1>12
    <2>2. \A x \in Elems(s), y \in Elems(m) :
             Same(x, y) => y = x \/ Finalised(x, {c}, y) \/ (y \in {c} /\ Replaces(y, x))
      BY <1>11
    <2>3. /\ \A d \in {c} : \E y \in Elems(m) : Same(y, d) /\ y = d
      BY <1>13
    <2>4. /\ \A d \in {c} : d.closed =>
                \/ \E y \in Elems(m) : Same(y, d) /\ y.closed
                \/ s # <<>> /\ \A x \in Elems(s) : d.start < x.start
          /\ \A d \in {c} : (\A x \in Elems(s) : x.start <= d.start) =>
                \E y \in Elems(m) :
                    Same(y, d) /\ (y = d \/ (y \in Elems(s) /\ ~Replaces(d, y)))
      BY <2>3
    <2>5. QED
      BY <1>4, <1>8, <1>10, <2>1, <2>2, <2>4 DEF Updates, m

LEMMA MergeAppend ==
    ASSUME NEW s \in Seq(Candles), Ascending(s), s # <<>>, NEW c \in Candles,
           \A x \in Elems(s) : x.iv = c.iv, c.start > Last(s).start
    PROVE  Updates(s, {c}, {c}, Append([s EXCEPT ![Len(s)] = Sealed(@)], c))
  <1>1. Len(s) \in Nat \ {0}
    OBVIOUS
  <1>2. PICK t : t = [s EXCEPT ![Len(s)] = Sealed(@)]
    BY Zenon
  <1>3. /\ t \in Seq(Candles) /\ Len(t) = Len(s)
        /\ \A i \in 1..Len(s) : i # Len(s) => t[i] = s[i]
        /\ t[Len(s)] = Sealed(s[Len(s)])
    BY <1>2, SealLast, Zenon
  <1>4. Updates(s, {c}, {c}, Append(t, c))
    BY <1>1, <1>3, MergeAppendCore, Zenon
  <1>5. QED
    BY <1>2, <1>4, Zenon

LEMMA MergeIgnored ==
    ASSUME NEW s \in Seq(Candles), Ascending(s), s # <<>>, NEW c \in Candles,
           c.start < s[1].start
    PROVE  Updates(s, {c}, {c}, s)
  <1>1. Len(s) \in Nat \ {0} /\ \A i \in 1..Len(s) : s[i] \in Candles /\ s[i] \in Elems(s)
    BY DEF Elems
  <1>2. ASSUME NEW x \in Elems(s) PROVE c.start < x.start
    <2>1. PICK i \in 1..Len(s) : x = s[i]
      BY DEF Elems
    <2>2. 1 \in 1..Len(s) /\ (i = 1 \/ 1 < i)
      BY <1>1
    <2>3. s[1].start \in Nat /\ s[i].start \in Nat /\ c.start \in Nat
      BY <1>1, <2>2 DEF Candles
    <2>4. s[1].start <= s[i].start
      BY <2>2, <2>3 DEF Ascending
    <2>5. QED
      BY <2>1, <2>3, <2>4
  <1>3. \A x, y \in Elems(s) : Same(x, y) => y = x
    BY AscendingOne DEF Same
  <1>4. \A x \in Elems(s) : Same(x, x)
    BY DEF Same
  <1>5. ASSUME \A x \in Elems(s) : x.start <= c.start PROVE FALSE
    <2>1. 1 \in 1..Len(s)
      BY <1>1
    <2>2. s[1] \in Elems(s) /\ s[1].start \in Nat /\ c.start \in Nat
      BY <1>1, <2>1 DEF Candles
    <2>3. QED
      BY <1>2, <1>5, <2>2
  <1>6. QED
    BY <1>2, <1>3, <1>4, <1>5 DEF Updates

LEMMA MergeReplace ==
    ASSUME NEW s \in Seq(Candles), Ascending(s), s # <<>>, NEW c \in Candles,
           NEW k \in 1..Len(s), Same(s[k], c),
           NEW m, m = [i \in 1..Len(s) |-> IF Same(s[i], c) /\ Replaces(c, s[i])
                                           THEN c ELSE s[i]]
    PROVE  Updates(s, {c}, {c}, m)
  <1>1. Len(s) \in Nat \ {0} /\ \A i \in 1..Len(s) : s[i] \in Candles /\ s[i] \in Elems(s)
    BY DEF Elems
  <1>2. m \in [1..Len(s) -> Candles]
    BY <1>1
  <1>3. m \in Seq(Candles) /\ Len(m) = Len(s) /\ m # <<>>
    BY <1>1, <1>2
  <1>4. \A i \in 1..Len(s) :
           /\ Same(m[i], s[i]) /\ Same(s[i], m[i])
           /\ m[i] = s[i] \/ (m[i] = c /\ Replaces(c, s[i]))
    BY DEF Same
  <1>5. \A i \in 1..Len(s) : Same(s[i], c) /\ Replaces(c, s[i]) => m[i] = c
    OBVIOUS
  <1>6. \A i \in 1..Len(s) : ~Replaces(c, s[i]) => m[i] = s[i]
    OBVIOUS
  <1>7. Elems(m) = {m[i] : i \in 1..Len(s)}
    BY <1>3 DEF Elems
  <1>8. Ascending(m)
    BY <1>3, <1>4 DEF Ascending, Same
  <1>9. \A y \in Elems(m) : y \in Elems(s) \/ y \in {c}
    BY <1>1, <1>4, <1>7
  <1>10. ASSUME NEW x \in Elems(s), NEW y \in Elems(m), Same(x, y)
         PROVE  y = x \/ (y \in {c} /\ Replaces(y, x))
    <2>1. PICK i \in 1..Len(s), j \in 1..Len(s) : x = s[i] /\ y = m[j]
      BY <1>7 DEF Elems
    <2>2. s[i].start = s[j].start
      BY <1>4, <1>10, <2>1 DEF Same
    <2>3. s[i] = s[j]
      BY <1>1, <2>2, AscendingOne
    <2>4. QED
      BY <1>4, <2>1, <2>3
  <1>11. ASSUME NEW x \in Elems(s) PROVE \E y \in Elems(m) : Same(x, y)
    <2>1. PICK i \in 1..Len(s) : x = s[i]
      BY DEF Elems
    <2>2. m[i] \in Elems(m)
      BY <1>7
    <2>3. QED
      BY <1>4, <2>1, <2>2
  <1>12. m[k] \in Elems(m) /\ Same(m[k], c)
    BY <1>4, <1>7 DEF Same
  <1>13. m[k] = c \/ (m[k] \in Elems(s) /\ ~Replaces(c, m[k]))
    BY <1>1, <1>5, <1>6
  <1>14. c.closed => m[k].closed
    BY <1>13 DEF Replaces
  <1>15. \A x \in Elems(s), y \in Elems(m) :
            Same(x, y) => y = x \/ Finalised(x, {c}, y) \/ (y \in {c} /\ Replaces(y, x))
    BY <1>10
  <1>16. \A x \in Elems(s) : \E y \in Elems(m) : Same(x, y)
    BY <1>11
  <1>17. c.closed => \E y \in Elems(m) : Same(y, c) /\ y.closed
    BY <1>12, <1>14
  <1>18. \E y \in Elems(m) : Same(y, c) /\ (y = c \/ (y \in Elems(s) /\ ~Replaces(c, y)))
    BY <1>12, <1>13
  <1>19. \A e \in {c} : e.closed => \E y \in Elems(m) : Same(y, e) /\ y.closed
    BY <1>17
  <1>20. \A e \in {c} : \E y \in Elems(m) :
            Same(y, e) /\ (y = e \/ (y \in Elems(s) /\ ~Replaces(e, y)))
    BY <1>18
  <1>21. QED
    BY <1>3, <1>8, <1>9, <1>15, <1>16, <1>19, <1>20, Zenon DEF Updates

LEMMA InsertFacts ==
    ASSUME NEW s \in Seq(Candles), Ascending(s), NEW c \in Candles,
           \A x \in Elems(s) : x.start # c.start
    PROVE  \E index \in 1..(Len(s) + 1) :
              /\ InsertSorted(s, c) = [i \in 1..Len(s) + 1 |->
                    IF i = index THEN c ELSE s[IF i < index THEN i ELSE i - 1]]
              /\ \A i \in 1..Len(s) : i < index => s[i].start < c.start
              /\ \A i \in 1..Len(s) : i >= index => s[i].start > c.start
  <1> DEFINE later == {i \in 1..Len(s) : s[i].start > c.start}
             index == IF later = {} THEN Len(s) + 1 ELSE Nth(later, 1)
  <1>1. Len(s) \in Nat
        /\ \A i \in 1..Len(s) : s[i] \in Elems(s) /\ s[i].start \in Nat /\ c.start \in Nat
    <2>1. Len(s) \in Nat /\ \A i \in 1..Len(s) : s[i] \in Elems(s) /\ s[i] \in Candles
      BY DEF Elems
    <2>2. QED
      BY <2>1 DEF Candles
  <1>2. InsertSorted(s, c) = [i \in 1..Len(s) + 1 |->
            IF i = index THEN c ELSE s[IF i < index THEN i ELSE i - 1]]
    BY DEF InsertSorted
  <1>3. /\ index \in 1..(Len(s) + 1)
        /\ \A i \in 1..Len(s) : i < index => s[i].start < c.start
        /\ \A i \in 1..Len(s) : i >= index => s[i].start > c.start
    <2>1. CASE later = {}
      BY <1>1, <2>1
    <2>2. CASE later # {}
      <3>1. later \in SUBSET Int /\ later \in SUBSET (1..Len(s)) /\ IsFiniteSet(1..Len(s))
        BY <1>1, IntervalCard
      <3>2. IsFiniteSet(later)
        BY <3>1, FS_Subset
      <3>3. Cardinality(later) \in Nat /\ Cardinality(later) # 0
        BY <2>2, <3>2, FS_CardinalityType, FS_EmptySet
      <3>4. 1 \in 1..Cardinality(later)
        BY <3>3
      <3>5. Nth(later, 1) \in later /\ Rank(later, Nth(later, 1)) = 1 - 1
        BY <3>1, <3>2, <3>4, NthFacts
      <3>6. PICK k \in later : k = Nth(later, 1)
        BY <3>5
      <3>7. {u \in later : u < k} \in SUBSET later
        OBVIOUS
      <3>8. IsFiniteSet({u \in later : u < k})
        BY <3>2, <3>7, FS_Subset
      <3>9. Cardinality({u \in later : u < k}) = 0
        BY <3>5, <3>6 DEF Rank
      <3>10. {u \in later : u < k} = {}
        BY <3>8, <3>9, FS_EmptySet
      <3>11. index = k /\ k \in 1..Len(s) /\ s[k].start > c.start
        BY <2>2, <3>6
      <3>12. ASSUME NEW i \in 1..Len(s), i < k PROVE s[i].start < c.start
        <4>1. i \notin later
          BY <3>10, <3>12
        <4>2. ~(s[i].start > c.start)
          BY <4>1
        <4>3. QED
          BY <1>1, <4>2
      <3>13. ASSUME NEW i \in 1..Len(s), i >= k PROVE s[i].start > c.start
        <4>1. CASE i = k
          BY <3>11, <4>1
        <4>2. CASE k < i
          <5>1. s[k].start < s[i].start
            BY <3>11, <4>2 DEF Ascending
          <5>2. QED
            BY <1>1, <3>11, <5>1
        <4>3. QED
          BY <3>11, <3>13, <4>1, <4>2
      <3>14. k \in 1..(Len(s) + 1)
        BY <1>1, <3>11
      <3>15. QED
        BY <3>11, <3>12, <3>13, <3>14
    <2>3. QED
      BY <2>1, <2>2
  <1> HIDE DEF index
  <1>4. QED
    BY <1>2, <1>3

LEMMA MergeInsert ==
    ASSUME NEW s \in Seq(Candles), Ascending(s), s # <<>>, NEW c \in Candles,
           \A x \in Elems(s) : x.iv = c.iv /\ x.start # c.start
    PROVE  Updates(s, {c}, {c}, InsertSorted(s, c))
  <1>a. PICK m : m = InsertSorted(s, c)
    OBVIOUS
  <1>1. PICK k \in 1..(Len(s) + 1) :
           /\ m = [i \in 1..Len(s) + 1 |->
                    IF i = k THEN c ELSE s[IF i < k THEN i ELSE i - 1]]
           /\ \A i \in 1..Len(s) : i < k => s[i].start < c.start
           /\ \A i \in 1..Len(s) : i >= k => s[i].start > c.start
    <2>1. \A x \in Elems(s) : x.start # c.start
      OBVIOUS
    <2>2. QED
      BY <1>a, <2>1, InsertFacts, Zenon
  <1>2. Len(s) \in Nat \ {0} /\ \A i \in 1..Len(s) : s[i] \in Candles /\ s[i] \in Elems(s)
    BY DEF Elems
  <1>3. \A i \in 1..Len(s) + 1 : /\ i < k => i \in 1..Len(s)
                                 /\ i > k => i - 1 \in 1..Len(s)
    BY <1>2
  <1>4. \A i \in 1..Len(s) + 1 : /\ i < k => m[i] = s[i]
                                 /\ i = k => m[i] = c
                                 /\ i > k => m[i] = s[i - 1]
    BY <1>1, <1>2
  <1>5. m \in [1..Len(s) + 1 -> Candles]
    BY <1>1, <1>2, <1>3
  <1>6. m \in Seq(Candles) /\ Len(m) = Len(s) + 1 /\ m # <<>>
    BY <1>2, <1>5
  <1>7. Ascending(m)
    <2> SUFFICES ASSUME NEW i \in 1..(Len(s) + 1), NEW j \in 1..(Len(s) + 1), i < j
                 PROVE  m[i].iv = m[j].iv /\ m[i].start < m[j].start
      BY <1>6 DEF Ascending
    <2>1. CASE j < k
      BY <1>3, <1>4, <2>1 DEF Ascending
    <2>2. CASE j = k
      BY <1>1, <1>2, <1>3, <1>4, <2>2
    <2>3. CASE i = k
      BY <1>1, <1>2, <1>3, <1>4, <2>3
    <2>4. CASE i < k /\ j > k
      <3>2. m[i] = s[i] /\ m[j] = s[j - 1]
        BY <1>4, <2>4
      <3>3. i \in 1..Len(s) /\ j - 1 \in 1..Len(s) /\ i < j - 1
        BY <1>2, <2>4
      <3>4. QED
        BY <3>2, <3>3 DEF Ascending
    <2>5. CASE i > k
      <3>1. m[i] = s[i - 1] /\ m[j] = s[j - 1]
        BY <1>4, <2>5
      <3>2. i - 1 \in 1..Len(s) /\ j - 1 \in 1..Len(s) /\ i - 1 < j - 1
        BY <1>2, <2>5
      <3>3. QED
        BY <3>1, <3>2 DEF Ascending
    <2>6. QED
      BY <2>1, <2>2, <2>3, <2>4, <2>5
  <1>8. \A y \in Elems(m) : y \in Elems(s) \/ y = c
    <2> SUFFICES ASSUME NEW i \in 1..Len(s) + 1 PROVE m[i] \in Elems(s) \/ m[i] = c
      BY <1>6 DEF Elems
    <2>1. i < k \/ i = k \/ i > k
      OBVIOUS
    <2>2. QED
      BY <1>2, <1>3, <1>4, <2>1
  <1>9. \A x \in Elems(s) : x \in Elems(m)
    <2> SUFFICES ASSUME NEW i \in 1..Len(s) PROVE s[i] \in Elems(m)
      BY DEF Elems
    <2>1. CASE i < k
      <3>1. i \in 1..Len(m) /\ m[i] = s[i]
        BY <1>2, <1>4, <1>6, <2>1
      <3>2. QED
        BY <3>1 DEF Elems
    <2>2. CASE i >= k
      <3>1. i + 1 \in 1..Len(s) + 1 /\ i + 1 > k /\ (i + 1) - 1 = i
        BY <1>2, <2>2
      <3>2. i + 1 \in 1..Len(m) /\ m[i + 1] = s[i]
        BY <1>4, <1>6, <3>1
      <3>3. QED
        BY <3>2 DEF Elems
    <2>3. QED
      BY <2>1, <2>2
  <1>10. c \in Elems(m)
    BY <1>4, <1>6 DEF Elems
  <1>11. \A x \in Elems(s), y \in Elems(m) : Same(x, y) => y = x
    BY <1>8, AscendingOne DEF Same
  <1>12. \A x \in Elems(s) : Same(x, x)
    BY DEF Same
  <1>13. Same(c, c)
    BY DEF Same
  <1>14. \A x \in Elems(s) : \E y \in Elems(m) : Same(x, y)
    BY <1>9, <1>12
  <1>15. c.closed => \E y \in Elems(m) : Same(y, c) /\ y.closed
    BY <1>10, <1>13
  <1>16. \E y \in Elems(m) : Same(y, c) /\ y = c
    BY <1>10, <1>13
  <1>17. Updates(s, {c}, {c}, m)
    BY <1>6, <1>7, <1>8, <1>11, <1>14, <1>15, <1>16, Zenon DEF Updates
  <1>18. QED
    BY <1>a, <1>17

\* CandleMerger.merge: whatever candle arrives, the series stays in order, keeps
\* its closed candles and loses no bucket.
LEMMA MergeUpdates ==
    ASSUME NEW s \in Seq(Candles), Ascending(s), NEW c \in Candles,
           \A x \in Elems(s) : x.iv = c.iv
    PROVE  Updates(s, {c}, {c}, Merge(s, c))
  <1>1. CASE s = <<>>
    <2>1. Merge(s, c) = <<c>>
      BY <1>1 DEF Merge, TooOld
    <2>2. QED
      BY <1>1, <2>1, MergeFirst
  <1>2. CASE s # <<>>
    <2>1. /\ Len(s) \in Nat \ {0} /\ s[1] \in Candles /\ s[Len(s)] \in Candles
          /\ s[1] \in Elems(s)
      BY <1>2 DEF Elems
    <2>2. s[1].start \in Nat /\ Last(s).start \in Nat /\ c.start \in Nat
      BY <2>1 DEF Last, Candles
    <2>3. s[1].start <= Last(s).start
      BY <2>1, AscendingLast
    <2>4. CASE c.start > Last(s).start
      <3>1. Merge(s, c) = Append([s EXCEPT ![Len(s)] = Sealed(@)], c)
        BY <1>2, <2>2, <2>3, <2>4 DEF Merge, TooOld
      <3>2. QED
        BY <1>2, <2>4, <3>1, MergeAppend
    <2>5. CASE c.start < s[1].start
      <3>1. Merge(s, c) = s
        BY <1>2, <2>2, <2>3, <2>5 DEF Merge, TooOld
      <3>2. QED
        BY <1>2, <2>5, <3>1, MergeIgnored
    <2>6. CASE ~(c.start > Last(s).start) /\ ~(c.start < s[1].start)
      <3>1. CASE \E i \in 1..Len(s) : Same(s[i], c)
        <4>1. PICK k \in 1..Len(s) : Same(s[k], c)
          BY <3>1
        <4>2. Merge(s, c) = [i \in 1..Len(s) |-> IF Same(s[i], c) /\ Replaces(c, s[i])
                                                 THEN c ELSE s[i]]
          BY <1>2, <2>6, <3>1 DEF Merge, TooOld
        <4>3. QED
          BY <1>2, <4>1, <4>2, MergeReplace
      <3>2. CASE ~\E i \in 1..Len(s) : Same(s[i], c)
        <4>1. Merge(s, c) = InsertSorted(s, c)
          BY <1>2, <2>6, <3>2 DEF Merge, TooOld
        <4>2. \A x \in Elems(s) : x.iv = c.iv /\ x.start # c.start
          BY <3>2 DEF Elems, Same
        <4>3. QED
          BY <1>2, <4>1, <4>2, MergeInsert
      <3>3. QED
        BY <3>1, <3>2
    <2>7. QED
      BY <2>4, <2>5, <2>6
  <1>3. QED
    BY <1>1, <1>2

Buckets(s, p) == {c.start : c \in Elems(s) \cup Elems(p)}
OfBucket(s, t) == {c \in Elems(s) : c.start = t}
Picked(s, p, t) ==
    IF OfBucket(s, t) = {} THEN CHOOSE c \in OfBucket(p, t) : TRUE
    ELSE LET d == CHOOSE d \in OfBucket(s, t) : TRUE
         IN  IF \E c \in OfBucket(p, t) : Replaces(c, d)
             THEN CHOOSE c \in OfBucket(p, t) : TRUE ELSE d

LEMMA MergeHistoryPicks ==
    ASSUME NEW s, NEW p
    PROVE  MergeHistory(s, p) =
             [i \in 1..Cardinality(Buckets(s, p)) |-> Picked(s, p, Nth(Buckets(s, p), i))]
  BY DEF MergeHistory, Buckets, OfBucket, Picked

LEMMA BucketsFinite ==
    ASSUME NEW s \in Seq(Candles), Ascending(s), NEW p \in Seq(Candles), Ascending(p),
           p # <<>>
    PROVE  /\ Buckets(s, p) \in SUBSET Int /\ IsFiniteSet(Buckets(s, p))
           /\ Buckets(s, p) # {}
  <1>1. \A c \in Elems(s) \cup Elems(p) : c \in Candles
    BY ElemsIn
  <1>2. \A c \in Elems(s) \cup Elems(p) : c.start \in Nat
    BY <1>1 DEF Candles
  <1>3. Buckets(s, p) \in SUBSET Nat
    BY <1>2 DEF Buckets
  <1>4. Last(p) \in Elems(p)
    BY ElemsLast
  <1>5. \E b \in Nat : \A t \in Buckets(s, p) : t <= b
    <2>1. \A c \in Elems(p) : c.start <= Last(p).start
      BY AscendingLast
    <2>2. CASE s = <<>>
      <3>1. Elems(s) = {}
        BY <2>2, ElemsEmpty
      <3>2. \A t \in Buckets(s, p) : t <= Last(p).start
        BY <2>1, <3>1 DEF Buckets
      <3>3. QED
        BY <1>2, <1>4, <3>2
    <2>3. CASE s # <<>>
      <3>1. \A c \in Elems(s) : c.start <= Last(s).start
        BY AscendingLast
      <3>2. Last(s) \in Elems(s)
        BY <2>3, ElemsLast
      <3>3. Last(s).start \in Nat /\ Last(p).start \in Nat
        BY <1>2, <1>4, <3>2
      <3>4. \A c \in Elems(s) \cup Elems(p) : c.start <= Last(s).start + Last(p).start
        BY <1>2, <2>1, <3>1, <3>3
      <3>5. \A t \in Buckets(s, p) : t <= Last(s).start + Last(p).start
        BY <3>4 DEF Buckets
      <3>6. Last(s).start + Last(p).start \in Nat
        BY <3>3
      <3>7. QED
        BY <3>5, <3>6
    <2>4. QED
      BY <2>2, <2>3
  <1>6. IsFiniteSet(Buckets(s, p))
    BY <1>3, <1>5, FS_BoundedSetOfNaturals
  <1>7. QED
    BY <1>3, <1>4, <1>6 DEF Buckets

\* What mergeHistory keeps of a bucket: the series' candle unless the page's may
\* replace it.
LEMMA PickedFacts ==
    ASSUME NEW s \in Seq(Candles), Ascending(s), NEW p \in Seq(Candles), Ascending(p),
           NEW t \in Buckets(s, p)
    PROVE  /\ Picked(s, p, t) \in Elems(s) \cup Elems(p) /\ Picked(s, p, t).start = t
           /\ \A x \in Elems(s) : x.start = t =>
                 \/ Picked(s, p, t) = x
                 \/ Picked(s, p, t) \in Elems(p) /\ Replaces(Picked(s, p, t), x)
           /\ \A x \in Elems(p) : x.start = t =>
                 \/ Picked(s, p, t) = x
                 \/ Picked(s, p, t) \in Elems(s) /\ ~Replaces(x, Picked(s, p, t))
  <1>1. PICK b \in Elems(s) \cup Elems(p) : b.start = t
    BY DEF Buckets
  <1>2. \A x, y \in OfBucket(s, t) : x = y
    BY AscendingOne DEF OfBucket
  <1>3. \A x, y \in OfBucket(p, t) : x = y
    BY AscendingOne DEF OfBucket
  <1>4. CASE OfBucket(s, t) = {}
    <2>1. b \in OfBucket(p, t)
      BY <1>1, <1>4 DEF OfBucket
    <2>2. Picked(s, p, t) \in OfBucket(p, t)
      BY <1>4, <2>1 DEF Picked
    <2>3. QED
      BY <1>3, <1>4, <2>2 DEF OfBucket
  <1>5. CASE OfBucket(s, t) # {}
    <2>1. PICK d \in OfBucket(s, t) : d = CHOOSE e \in OfBucket(s, t) : TRUE
      BY <1>5
    <2>2. CASE \E c \in OfBucket(p, t) : Replaces(c, d)
      <3>1. PICK c \in OfBucket(p, t) : Replaces(c, d)
        BY <2>2
      <3>2. Picked(s, p, t) \in OfBucket(p, t)
        BY <1>5, <2>1, <2>2 DEF Picked
      <3>3. Picked(s, p, t) = c
        BY <1>3, <3>2
      <3>4. QED
        BY <1>2, <1>3, <3>1, <3>3 DEF OfBucket
    <2>3. CASE ~\E c \in OfBucket(p, t) : Replaces(c, d)
      <3>1. Picked(s, p, t) = d
        BY <1>5, <2>1, <2>3 DEF Picked
      <3>2. QED
        BY <1>2, <2>3, <3>1 DEF OfBucket
    <2>4. QED
      BY <2>2, <2>3
  <1>6. QED
    BY <1>4, <1>5

\* CandleMerger.mergeHistory, for a page of the series' interval.
LEMMA MergeHistoryUpdates ==
    ASSUME NEW s \in Seq(Candles), Ascending(s), NEW p \in Seq(Candles), Ascending(p),
           p # <<>>, NEW iv, \A x \in Elems(s) \cup Elems(p) : x.iv = iv
    PROVE  /\ Updates(s, Elems(p), {}, MergeHistory(s, p))
           /\ \A c \in Elems(p) : c.closed =>
                 \E y \in Elems(MergeHistory(s, p)) : Same(y, c) /\ y.closed
  <1>1. PICK m : m = MergeHistory(s, p)
    OBVIOUS
  <1>2. PICK B : B = Buckets(s, p)
    OBVIOUS
  <1>3. PICK N : N = Cardinality(B)
    OBVIOUS
  <1>4. m = [i \in 1..N |-> Picked(s, p, Nth(B, i))]
    BY <1>1, <1>2, <1>3, MergeHistoryPicks
  <1>5. B \in SUBSET Int /\ IsFiniteSet(B) /\ B # {}
    BY <1>2, BucketsFinite
  <1>6. /\ N \in Nat /\ N # 0
        /\ \A i \in 1..N : Nth(B, i) \in B
        /\ \A i, j \in 1..N : i < j => Nth(B, i) < Nth(B, j)
        /\ \A t \in B : \E i \in 1..N : t = Nth(B, i)
    BY <1>3, <1>5, NthFacts, FS_EmptySet
  <1>7. \A t \in B :
           /\ Picked(s, p, t) \in Elems(s) \cup Elems(p) /\ Picked(s, p, t).start = t
           /\ \A x \in Elems(s) : x.start = t =>
                 \/ Picked(s, p, t) = x
                 \/ Picked(s, p, t) \in Elems(p) /\ Replaces(Picked(s, p, t), x)
           /\ \A x \in Elems(p) : x.start = t =>
                 \/ Picked(s, p, t) = x
                 \/ Picked(s, p, t) \in Elems(s) /\ ~Replaces(x, Picked(s, p, t))
    BY <1>2, PickedFacts
  <1>8. \A c \in Elems(s) \cup Elems(p) : c \in Candles /\ c.start \in B
    BY <1>2, ElemsIn DEF Buckets
  <1>9. m \in [1..N -> Candles]
    BY <1>4, <1>6, <1>7, <1>8
  <1>10. m \in Seq(Candles) /\ Len(m) = N /\ m # <<>>
    BY <1>6, <1>9
  <1>11. Elems(m) = {Picked(s, p, t) : t \in B}
    BY <1>4, <1>6, <1>10 DEF Elems
  <1>12. Ascending(m)
    <2> SUFFICES ASSUME NEW i \in 1..N, NEW j \in 1..N, i < j
                 PROVE  m[i].iv = m[j].iv /\ m[i].start < m[j].start
      BY <1>10 DEF Ascending
    <2>1. m[i].start = Nth(B, i) /\ m[j].start = Nth(B, j) /\ Nth(B, i) < Nth(B, j)
      BY <1>4, <1>6, <1>7
    <2>2. m[i].iv = iv /\ m[j].iv = iv
      BY <1>4, <1>6, <1>7
    <2>3. QED
      BY <2>1, <2>2
  <1>13. \A y \in Elems(m) : y \in Elems(s) \/ y \in Elems(p)
    BY <1>7, <1>11
  <1>14. \A x \in Elems(s), y \in Elems(m) :
            Same(x, y) => y = x \/ (y \in Elems(p) /\ Replaces(y, x))
    BY <1>7, <1>11 DEF Same
  <1>15. \A x \in Elems(s) \cup Elems(p) :
            Picked(s, p, x.start) \in Elems(m) /\ Same(x, Picked(s, p, x.start))
            /\ Same(Picked(s, p, x.start), x)
    BY <1>7, <1>8, <1>11 DEF Same
  <1>16. \A x \in Elems(s) : \E y \in Elems(m) : Same(x, y)
    BY <1>15
  <1>17. \A c \in Elems(p) : \E y \in Elems(m) :
            Same(y, c) /\ (y = c \/ (y \in Elems(s) /\ ~Replaces(c, y)))
    BY <1>7, <1>8, <1>15
  <1>18. \A c \in Elems(p) : c.closed => \E y \in Elems(m) : Same(y, c) /\ y.closed
    BY <1>17 DEF Replaces
  <1>19. Updates(s, Elems(p), {}, m)
    BY <1>10, <1>12, <1>13, <1>14, <1>16, <1>17, <1>18, Zenon DEF Updates
  <1>20. QED
    BY <1>1, <1>18, <1>19

--------------------------------------------------------------------------------
(* The engine's candles. *)

LEMMA NoneFacts == None \in Candles /\ None.iv = "m" /\ None.start = 0 /\ None.seq = 0
                   /\ ~None.closed
  BY DEF None, Candle, Candles, Intervals

\* What Bounded says about a candle's bucket and number.
LEMMA BoundedFacts ==
    ASSUME EngineOK, NEW x \in Candles, Bounded(x)
    PROVE  /\ x.start <= active[x.iv].start /\ x.seq <= n
           /\ x.start = active[x.iv].start => ~x.closed
           /\ x.start = active[x.iv].start /\ x.seq >= n => x = active[x.iv]
           /\ x.start # active[x.iv].start =>
                 \E d \in Elems(ended[x.iv]) : x.start = d.start /\ x.seq <= d.seq
  <1>1. /\ x.iv \in Intervals /\ x.start \in Nat /\ x.seq \in Nat /\ x.closed \in BOOLEAN
        /\ x = [iv |-> x.iv, start |-> x.start, seq |-> x.seq, closed |-> x.closed]
    BY DEF Candles
  <1>2. active[x.iv] \in Candles /\ ended[x.iv] \in Seq(Candles) /\ n \in Nat
    BY <1>1 DEF EngineOK, EngineType
  <1>3. /\ active[x.iv].iv = x.iv /\ ~active[x.iv].closed /\ active[x.iv].seq = n
        /\ \A d \in Elems(ended[x.iv]) :
              d.start < active[x.iv].start /\ d.seq <= n
    BY <1>1 DEF EngineOK, EngineInv
  <1>4. /\ active[x.iv].start \in Nat /\ active[x.iv].closed \in BOOLEAN
        /\ active[x.iv] = [iv |-> active[x.iv].iv, start |-> active[x.iv].start,
                           seq |-> active[x.iv].seq, closed |-> active[x.iv].closed]
    BY <1>2 DEF Candles
  <1>5. \A d \in Elems(ended[x.iv]) : d \in Candles /\ d.start \in Nat /\ d.seq \in Nat
    <2>1. \A d \in Elems(ended[x.iv]) : d \in Candles
      BY <1>2, ElemsIn
    <2>2. QED
      BY <2>1 DEF Candles
  <1>6. CASE ~x.closed /\ x.start = active[x.iv].start /\ x.seq <= active[x.iv].seq
    <2>1. x.start <= active[x.iv].start /\ x.seq <= n
      BY <1>1, <1>3, <1>4, <1>6
    <2>2. x.seq >= n => x.seq = n
      BY <1>1, <1>2, <2>1
    <2>3. x.closed = active[x.iv].closed
      BY <1>1, <1>3, <1>4, <1>6
    <2>4. x.seq = n => x = active[x.iv]
      BY <1>1, <1>3, <1>4, <1>6, <2>3
    <2>5. QED
      BY <1>6, <2>1, <2>2, <2>4
  <1>7. CASE \E d \in Elems(ended[x.iv]) : x.start = d.start /\ x.seq <= d.seq
    BY <1>1, <1>2, <1>3, <1>4, <1>5, <1>7
  <1>8. QED
    BY <1>6, <1>7 DEF Bounded

\* The engine's first bucket is where the empty candle is.
LEMMA NoneBounded ==
    ASSUME EngineOK PROVE Bounded(None)
  <1>1. "m" \in Intervals
    BY DEF Intervals
  <1>2. PICK d \in {active["m"]} \cup Elems(ended["m"]) : d.start = 0
    BY <1>1 DEF EngineOK, EngineInv
  <1>3. d \in Candles
    BY <1>1, <1>2, ElemsIn DEF EngineOK, EngineType
  <1>4. d.seq \in Nat
    BY <1>3 DEF Candles
  <1>5. QED
    BY <1>2, <1>4, NoneFacts DEF Bounded

LEMMA HistoryFacts ==
    ASSUME EngineOK, NEW iv \in Intervals, NEW d \in Elems(ended[iv])
    PROVE  /\ d \in Candles /\ d.iv = iv /\ d.closed /\ d.start < active[iv].start
           /\ d.seq <= n
           /\ \A e \in Elems(ended[iv]) : e.start = d.start => e = d
  <1>1. ended[iv] \in Seq(Candles) /\ Ascending(ended[iv])
    BY DEF EngineOK, EngineType, EngineInv
  <1>2. d \in Candles
    BY <1>1, ElemsIn
  <1>3. \A e \in Elems(ended[iv]) : e.start = d.start => e = d
    BY <1>1, AscendingOne
  <1>4. QED
    BY <1>2, <1>3 DEF EngineOK, EngineInv

LEMMA OnWayType ==
    ASSUME FlowType, NEW x \in OnWay PROVE x \in Candles
  BY ElemsIn DEF FlowType, OnWay

LEMMA ActiveFacts ==
    ASSUME EngineOK, NEW iv \in Intervals
    PROVE  /\ active[iv] \in Candles /\ active[iv].iv = iv /\ ~active[iv].closed
           /\ active[iv].seq = n /\ n \in Nat /\ n >= 1 /\ active[iv].start \in Nat
           /\ Bounded(active[iv]) /\ Final(active[iv])
           /\ active[iv] # None
  <1>1. active[iv] \in Candles /\ n \in Nat /\ n >= 1
    BY DEF EngineOK, EngineType
  <1>2. active[iv].iv = iv /\ ~active[iv].closed /\ active[iv].seq = n
    BY DEF EngineOK, EngineInv
  <1>3. active[iv].start \in Nat
    BY <1>1 DEF Candles
  <1>4. Bounded(active[iv]) /\ Final(active[iv])
    BY <1>1, <1>2 DEF Bounded, Final
  <1>5. QED
    BY <1>1, <1>2, <1>3, <1>4, NoneFacts

--------------------------------------------------------------------------------
(* A merge of the chart. *)

\* The buckets that P closes.
ClosedOf(P) == {<<c.iv, c.start>> : c \in {c \in P : c.closed}}

\* The step of NoRewrite.
Keeps ==
    \A c \in Elems(chart), d \in Elems(chart') :
        Same(c, d) => d.seq >= c.seq /\ (c.closed => c = d)

\* The candles P of one interval are merged into the chart, those of L as live ones;
\* what leaves the flow is among them, and a close that is not shown is noted.
Merging(iv, P, L) ==
    /\ iv \in Intervals /\ P \subseteq Candles
    /\ \A c \in P : c.iv = iv /\ Bounded(c) /\ Final(c)
    /\ UNCHANGED engineVars
    /\ Updates(SeriesFor(iv), P, L, chart')
    /\ missed \subseteq missed' /\ missed' \subseteq Intervals \X Nat
    /\ behind' = behind \cup (Intervals \ {iv})
    /\ \A c \in Elems(chart) : c.closed /\ c.iv # iv => <<c.iv, c.start>> \in missed'
    /\ OnWay' \subseteq OnWay /\ OnWay \subseteq OnWay' \cup P
    /\ L \in {{}, P} /\ \A c \in L, e \in OnWay' : Fine(c, e, missed)
    /\ \A c \in P : c.closed =>
          \/ <<c.iv, c.start>> \in missed'
          \/ \E y \in Elems(chart') : Same(y, c) /\ y.closed

\* The facts about the chart that a merge starts from.
Before == EngineOK /\ FlowType /\ FlowKnown /\ chart \in Seq(Candles) /\ ChartOK

LEMMA MergingSeries ==
    ASSUME Before, NEW iv, NEW P, NEW L, Merging(iv, P, L)
    PROVE  /\ SeriesFor(iv) \in Seq(Candles) /\ Ascending(SeriesFor(iv))
           /\ Elems(SeriesFor(iv)) = {x \in Elems(chart) : x.iv = iv}
           /\ SeriesFor(iv) = chart \/ SeriesFor(iv) = <<>>
           /\ \A x \in Elems(SeriesFor(iv)) :
                 x \in Candles /\ x.iv = iv /\ x.start \in Nat /\ Bounded(x)
           /\ \A c \in P : c.iv = iv /\ c.start \in Nat
  <1>1. chart \in Seq(Candles) /\ Ascending(chart)
    BY DEF Before, ChartOK, ChartOrdered, Ascending
  <1>2. /\ SeriesFor(iv) \in Seq(Candles) /\ Ascending(SeriesFor(iv))
        /\ Elems(SeriesFor(iv)) = {x \in Elems(chart) : x.iv = iv}
        /\ SeriesFor(iv) = chart \/ SeriesFor(iv) = <<>>
    BY <1>1, SeriesForFacts
  <1>3. \A x \in Elems(chart) : x \in Candles /\ Bounded(x)
    BY <1>1, ElemsIn DEF Before, ChartOK, ChartKnown
  <1>4. \A x \in Candles : x.start \in Nat
    BY DEF Candles
  <1>5. \A c \in P : c.iv = iv /\ c.start \in Nat
    BY <1>4 DEF Merging
  <1>6. QED
    BY <1>2, <1>3, <1>4, <1>5

LEMMA FinalisedFacts ==
    ASSUME NEW x \in Candles, NEW L, NEW y, Finalised(x, L, y)
    PROVE  /\ y \in Candles /\ y.iv = x.iv /\ y.start = x.start /\ y.seq = x.seq
           /\ ~x.closed
  BY SealedCandle DEF Finalised

\* A candle that the arrival of a later one closes is one the engine has closed,
\* and whose close was missed.
LEMMA MergingFinalises ==
    ASSUME Before, NEW iv, NEW P, NEW L, Merging(iv, P, L),
           NEW x \in Elems(SeriesFor(iv)), NEW y, Finalised(x, L, y)
    PROVE  \E d \in Elems(ended[iv]) :
              x.start = d.start /\ x.seq <= d.seq /\ <<iv, x.start>> \in missed
  <1>1. PICK c \in L : L = {c} /\ c.start > x.start
    BY DEF Finalised
  <1>a. P = L
    BY <1>1 DEF Merging
  <1>2. /\ x \in Elems(chart) /\ x \in Candles /\ x.iv = iv /\ x.start \in Nat /\ Bounded(x)
        /\ c \in Candles /\ c.iv = iv /\ c.start \in Nat /\ Bounded(c) /\ iv \in Intervals
    <2>1. x \in Elems(chart) /\ x \in Candles /\ x.iv = iv /\ x.start \in Nat /\ Bounded(x)
      BY MergingSeries
    <2>2. c \in P
      BY DEF Merging
    <2>3. c \in Candles /\ Bounded(c) /\ iv \in Intervals /\ c.iv = iv /\ c.start \in Nat
      BY <2>2, MergingSeries DEF Merging
    <2>4. QED
      BY <2>1, <2>2, <2>3
  <1>3. c.start <= active[iv].start
    BY <1>2, BoundedFacts DEF Before
  <1>4. active[iv].start \in Nat
    BY <1>2, ActiveFacts DEF Before
  <1>5. x.start # active[iv].start
    BY <1>1, <1>2, <1>3, <1>4
  <1>6. PICK d \in Elems(ended[iv]) : x.start = d.start /\ x.seq <= d.seq
    BY <1>2, <1>5, BoundedFacts DEF Before
  <1>7. d.iv = iv /\ d.closed
    BY <1>2, HistoryFacts DEF Before
  <1>8. <<iv, d.start>> \in missed \cup Shown \/ d \in OnWay
    BY <1>2 DEF Before, ChartOK, Settled
  <1>9. <<iv, d.start>> \notin Shown
    <2> SUFFICES ASSUME <<iv, d.start>> \in Shown PROVE FALSE
      OBVIOUS
    <2>1. PICK z \in Elems(chart) : z.closed /\ z.start = d.start
      BY DEF Shown
    <2>2. Ascending(chart) /\ chart \in Seq(Candles)
      BY DEF Before, ChartOK, ChartOrdered, Ascending
    <2>3. z = x
      BY <1>2, <1>6, <2>1, <2>2, AscendingOne
    <2>4. QED
      BY <2>1, <2>3 DEF Finalised
  <1>10. ASSUME d \in OnWay PROVE <<iv, d.start>> \in missed
    <2>1. d \in OnWay' \/ d \in P
      BY <1>10 DEF Merging
    <2>2. CASE d \in OnWay'
      <3>1. Fine(c, d, missed)
        BY <2>2 DEF Merging
      <3>2. QED
        BY <1>1, <1>2, <1>6, <1>7, <3>1 DEF Fine
    <2>3. CASE d \in P
      BY <1>1, <1>2, <1>6, <2>3, <1>a
    <2>4. QED
      BY <2>1, <2>2, <2>3
  <1>11. QED
    BY <1>6, <1>8, <1>9, <1>10

\* No account of a closed bucket is lost: it stays on the chart or is noted.
LEMMA MergingAccounts ==
    ASSUME Before, NEW iv, NEW P, NEW L, Merging(iv, P, L)
    PROVE  /\ missed \subseteq missed'
           /\ missed \cup Shown \subseteq missed' \cup Shown'
           /\ ClosedOf(P) \subseteq missed' \cup Shown'
  <1>1. /\ missed \subseteq missed'
        /\ \A c \in Elems(chart) : c.closed /\ c.iv # iv => <<c.iv, c.start>> \in missed'
    BY DEF Merging
  <1>2. Updates(SeriesFor(iv), P, L, chart')
    BY DEF Merging
  <1>3. ASSUME NEW z \in Elems(chart), z.closed
        PROVE  <<z.iv, z.start>> \in missed' \cup Shown'
    <2>1. CASE z.iv # iv
      BY <1>1, <1>3, <2>1
    <2>2. CASE z.iv = iv
      <3>1. z \in Elems(SeriesFor(iv))
        BY <2>2, MergingSeries
      <3>2. PICK y \in Elems(chart') : Same(z, y)
        BY <1>2, <3>1 DEF Updates
      <3>3. y = z
        BY <1>2, <1>3, <3>1, <3>2 DEF Updates, Finalised, Replaces
      <3>4. QED
        BY <1>3, <3>2, <3>3 DEF Shown
    <2>3. QED
      BY <2>1, <2>2
  <1>4. \A b \in Shown : b \in missed' \cup Shown'
    BY <1>3 DEF Shown
  <1>5. ASSUME NEW c \in P, c.closed
        PROVE  <<c.iv, c.start>> \in missed' \cup Shown'
    <2>1. CASE \E y \in Elems(chart') : Same(y, c) /\ y.closed
      BY <2>1 DEF Shown, Same
    <2>2. QED
      BY <1>5, <2>1 DEF Merging
  <1>6. \A b \in ClosedOf(P) : b \in missed' \cup Shown'
    BY <1>5 DEF ClosedOf
  <1>7. QED
    BY <1>1, <1>4, <1>6

\* What is on the chart after a merge.
LEMMA MergingElems ==
    ASSUME Before, NEW iv, NEW P, NEW L, Merging(iv, P, L), NEW y \in Elems(chart')
    PROVE  /\ y \in Elems(chart) \/ y \in P
              \/ \E x \in Elems(SeriesFor(iv)) : Finalised(x, L, y)
           /\ y \in Candles /\ y.iv = iv
  <1>1. Updates(SeriesFor(iv), P, L, chart')
    BY DEF Merging
  <1>2. y \in Elems(SeriesFor(iv)) \/ y \in P
           \/ \E x \in Elems(SeriesFor(iv)) : Finalised(x, L, y)
    BY <1>1 DEF Updates
  <1>3. CASE y \in Elems(SeriesFor(iv))
    BY <1>3, MergingSeries
  <1>4. CASE y \in P
    BY <1>4 DEF Merging
  <1>5. ASSUME NEW x \in Elems(SeriesFor(iv)), Finalised(x, L, y)
        PROVE  y \in Candles /\ y.iv = iv
    BY <1>5, MergingSeries, FinalisedFacts
  <1>6. QED
    BY <1>2, <1>3, <1>4, <1>5

LEMMA MergingChart ==
    ASSUME Before, NEW iv, NEW P, NEW L, Merging(iv, P, L)
    PROVE  ChartOK' /\ chart' \in Seq(Candles) /\ Keeps
  <1>1. /\ active' = active /\ ended' = ended /\ n' = n
    BY DEF Merging, engineVars, marketVars
  <1>2. Updates(SeriesFor(iv), P, L, chart') /\ iv \in Intervals
    BY DEF Merging
  <1>3. chart' \in Seq(Candles) /\ Ascending(chart')
    BY <1>2 DEF Updates
  <1>4. ChartOrdered'
    BY <1>3 DEF Ascending, ChartOrdered
  <1>5. ChartKnown'
    <2> SUFFICES ASSUME NEW y \in Elems(chart') PROVE Bounded(y)'
      BY DEF ChartKnown
    <2>1. CASE y \in Elems(chart)
      BY <1>1, <2>1 DEF Before, ChartOK, ChartKnown, Bounded
    <2>2. CASE y \in P
      BY <1>1, <2>2 DEF Merging, Bounded
    <2>3. ASSUME NEW x \in Elems(SeriesFor(iv)), Finalised(x, L, y) PROVE Bounded(y)'
      <3>1. PICK d \in Elems(ended[iv]) : x.start = d.start /\ x.seq <= d.seq
        BY <2>3, MergingFinalises
      <3>2. y.iv = iv /\ y.start = x.start /\ y.seq = x.seq
        BY <2>3, MergingSeries, FinalisedFacts
      <3>3. QED
        BY <1>1, <3>1, <3>2 DEF Bounded
    <2>4. QED
      BY <2>1, <2>2, <2>3, MergingElems
  <1>6. WrongCloseExplained'
    <2> SUFFICES ASSUME NEW y \in Elems(chart'), y.closed
                 PROVE  \E d \in Elems(ended[y.iv]) :
                           Same(y, d) /\ (y = d \/ <<y.iv, y.start>> \in missed')
      BY <1>1 DEF WrongCloseExplained, Same
    <2>1. CASE y \in Elems(chart)
      BY <2>1, MergingAccounts DEF Before, ChartOK, WrongCloseExplained
    <2>2. CASE y \in P
      <3>1. y \in Elems(ended[y.iv])
        BY <2>2 DEF Merging, Final
      <3>2. QED
        BY <3>1 DEF Same
    <2>3. ASSUME NEW x \in Elems(SeriesFor(iv)), Finalised(x, L, y)
          PROVE  \E d \in Elems(ended[y.iv]) :
                           Same(y, d) /\ (y = d \/ <<y.iv, y.start>> \in missed')
      <3>1. PICK d \in Elems(ended[iv]) :
              x.start = d.start /\ <<iv, x.start>> \in missed
        BY <2>3, MergingFinalises
      <3>2. d.iv = iv /\ y.iv = iv /\ y.start = x.start
        BY <1>2, <2>3, HistoryFacts, MergingSeries, FinalisedFacts DEF Before
      <3>3. <<y.iv, y.start>> \in missed'
        BY <3>1, <3>2, MergingAccounts
      <3>4. Same(y, d) /\ d \in Elems(ended[y.iv])
        BY <3>1, <3>2 DEF Same
      <3>5. QED
        BY <3>3, <3>4
    <2>4. QED
      BY <2>1, <2>2, <2>3, MergingElems
  <1>8. Settled'
    <2> SUFFICES ASSUME NEW v \in Intervals, NEW d \in Elems(ended[v])
                 PROVE  <<v, d.start>> \in missed' \cup Shown' \/ d \in OnWay'
      BY <1>1 DEF Settled
    <2>1. d.iv = v /\ d.closed
      BY HistoryFacts DEF Before
    <2>2. CASE <<v, d.start>> \in missed \cup Shown
      BY <2>2, MergingAccounts
    <2>3. CASE d \in OnWay
      <3>1. CASE d \in OnWay'
        BY <3>1
      <3>2. CASE d \in P
        <4>1. <<d.iv, d.start>> \in ClosedOf(P)
          BY <2>1, <3>2 DEF ClosedOf
        <4>2. QED
          BY <2>1, <4>1, MergingAccounts
      <3>3. QED
        BY <2>3, <3>1, <3>2 DEF Merging
    <2>4. QED
      BY <2>2, <2>3 DEF Before, ChartOK, Settled
  <1>9. Keeps
    <2> SUFFICES ASSUME NEW x \in Elems(chart), NEW y \in Elems(chart'), Same(x, y)
                 PROVE  y.seq >= x.seq /\ (x.closed => x = y)
      BY DEF Keeps
    <2>1. y \in Candles /\ y.iv = iv
      BY MergingElems
    <2>2. x \in Elems(SeriesFor(iv)) /\ x \in Candles /\ x.iv = iv /\ Bounded(x)
      BY <2>1, MergingSeries DEF Same
    <2>3. x.seq \in Nat /\ y.seq \in Nat
      BY <2>1, <2>2 DEF Candles
    <2>4. y = x \/ Finalised(x, L, y) \/ (y \in P /\ Replaces(y, x))
      BY <1>2, <2>2 DEF Updates
    <2>5. CASE y = x
      BY <2>3, <2>5
    <2>6. CASE Finalised(x, L, y)
      <3>1. y.seq = x.seq /\ ~x.closed
        BY <2>2, <2>6, FinalisedFacts
      <3>2. QED
        BY <2>3, <3>1
    <2>7. CASE y \in P /\ Replaces(y, x)
      <3>1. CASE y.closed
        <4>1. y \in Elems(ended[iv])
          BY <2>1, <2>7, <3>1 DEF Merging, Final
        <4>2. y.start < active[iv].start
          BY <1>2, <4>1, HistoryFacts DEF Before
        <4>3. y.start \in Nat /\ active[iv].start \in Nat /\ x.start = y.start
          BY <1>2, <2>1, ActiveFacts DEF Before, Candles, Same
        <4>4. PICK d \in Elems(ended[iv]) : x.start = d.start /\ x.seq <= d.seq
          BY <2>2, <4>2, <4>3, BoundedFacts DEF Before
        <4>5. d = y
          <5>1. d.start = y.start
            BY <4>3, <4>4
          <5>2. EngineOK
            BY DEF Before
          <5>3. QED
            BY <1>2, <4>1, <4>4, <5>1, <5>2, HistoryFacts
        <4>6. QED
          BY <2>3, <2>7, <4>4, <4>5 DEF Replaces
      <3>2. CASE ~y.closed
        BY <2>3, <2>7, <3>2 DEF Replaces
      <3>3. QED
        BY <3>1, <3>2
    <2>8. QED
      BY <2>4, <2>5, <2>6, <2>7
  <1>10. QED
    BY <1>3, <1>4, <1>5, <1>6, <1>8, <1>9 DEF ChartOK

\* A merge leaves the active candle last if it was, and puts it there if it comes.
LEMMA MergingCurrent ==
    ASSUME Before, NEW iv, NEW P, NEW L, Merging(iv, P, L), Current, pending' = pending
    PROVE  Current'
  <1>1. /\ active' = active /\ ended' = ended /\ n' = n
        /\ behind' = behind \cup (Intervals \ {iv}) /\ iv \in Intervals
    BY DEF Merging, engineVars, marketVars
  <1> SUFFICES ASSUME iv \notin behind
               PROVE  \/ active[iv] \in OnWay'
                      \/ pending[iv] = active[iv]
                      \/ chart' # <<>> /\ Last(chart') = active[iv]
    BY <1>1 DEF Current
  <1>2. /\ active[iv] \in Candles /\ active[iv].iv = iv /\ ~active[iv].closed
        /\ active[iv].seq = n /\ n \in Nat /\ active[iv].start \in Nat
    BY <1>1, ActiveFacts DEF Before
  <1>3. Updates(SeriesFor(iv), P, L, chart')
    BY DEF Merging
  <1>4. /\ chart' \in Seq(Candles) /\ chart' # <<>> /\ Ascending(chart')
    BY <1>3 DEF Updates
  <1>5. \A y \in Elems(chart') : y.start <= active[iv].start
    <2> SUFFICES ASSUME NEW y \in Elems(chart') PROVE y.start <= active[iv].start
      OBVIOUS
    <2>1. ChartKnown'
      BY MergingChart DEF ChartOK
    <2>2. Bounded(y)
      BY <1>1, <2>1 DEF ChartKnown, Bounded
    <2>3. QED
      BY <2>2, MergingElems, BoundedFacts DEF Before
  <1>6. ASSUME active[iv] \in Elems(chart')
        PROVE  Last(chart') = active[iv]
    <2>1. Last(chart') \in Elems(chart')
      BY <1>4, ElemsLast
    <2>2. Last(chart').start <= active[iv].start /\ Last(chart') \in Candles
      BY <1>5, <2>1, MergingElems
    <2>3. active[iv].start <= Last(chart').start
      BY <1>4, <1>6, AscendingLast
    <2>4. Last(chart').start \in Nat
      BY <2>2 DEF Candles
    <2>5. active[iv].start = Last(chart').start
      BY <1>2, <2>2, <2>3, <2>4
    <2>6. QED
      BY <1>4, <1>6, <2>5, AscendingLast
  <1>7. ASSUME NEW y \in P, Replaces(y, active[iv]), y.start = active[iv].start
        PROVE  FALSE
    <2>1. y \in Candles /\ y.iv = iv /\ Bounded(y)
      BY DEF Merging
    <2>2. y.seq \in Nat
      BY <2>1 DEF Candles
    <2>3. y.seq <= n /\ ~y.closed
      BY <1>7, <2>1, BoundedFacts DEF Before
    <2>4. QED
      BY <1>2, <1>7, <2>2, <2>3 DEF Replaces
  <1>8. CASE chart # <<>> /\ Last(chart) = active[iv]
    <2>1. active[iv] \in Elems(chart)
      BY <1>8, ElemsLast DEF Before
    <2>2. active[iv] \in Elems(SeriesFor(iv))
      BY <1>2, <2>1, MergingSeries
    <2>3. PICK y \in Elems(chart') : Same(active[iv], y)
      BY <1>3, <2>2 DEF Updates
    <2>4. y = active[iv] \/ Finalised(active[iv], L, y)
             \/ (y \in P /\ Replaces(y, active[iv]))
      BY <1>3, <2>2, <2>3 DEF Updates
    <2>5. ~Finalised(active[iv], L, y)
      <3> SUFFICES ASSUME Finalised(active[iv], L, y) PROVE FALSE
        OBVIOUS
      <3>1. PICK c \in P : c.start > active[iv].start
        BY DEF Finalised, Merging
      <3>2. c \in Candles /\ c.iv = iv /\ Bounded(c) /\ c.start \in Nat
        BY DEF Merging, Candles
      <3>3. c.start <= active[iv].start
        BY <3>2, BoundedFacts DEF Before
      <3>4. QED
        BY <1>2, <3>1, <3>2, <3>3
    <2>6. y.start = active[iv].start
      BY <2>3 DEF Same
    <2>7. y = active[iv]
      BY <1>7, <2>4, <2>5, <2>6
    <2>8. QED
      BY <1>4, <1>6, <2>3, <2>7
  <1>9. CASE active[iv] \in P
    <2>1. \A x \in Elems(SeriesFor(iv)) : x.start <= active[iv].start
      <3> SUFFICES ASSUME NEW x \in Elems(SeriesFor(iv)) PROVE x.start <= active[iv].start
        OBVIOUS
      <3>1. x \in Candles /\ x.iv = iv /\ Bounded(x)
        BY MergingSeries
      <3>2. QED
        BY <3>1, BoundedFacts DEF Before
    <2>2. PICK y \in Elems(chart') :
             /\ Same(y, active[iv])
             /\ y = active[iv] \/ (y \in Elems(SeriesFor(iv)) /\ ~Replaces(active[iv], y))
      BY <1>3, <1>9, <2>1 DEF Updates
    <2>3. CASE y \in Elems(SeriesFor(iv)) /\ ~Replaces(active[iv], y)
      <3>1. y \in Candles /\ y.iv = iv /\ Bounded(y) /\ y.seq \in Nat
        BY <2>3, MergingSeries DEF Candles
      <3>2. y.start = active[iv].start
        BY <2>2 DEF Same
      <3>3. ~y.closed
        BY <3>1, <3>2, BoundedFacts DEF Before
      <3>4. y.seq >= n
        BY <1>2, <2>3, <3>1, <3>3 DEF Replaces
      <3>5. QED
        BY <1>4, <1>6, <2>2, <3>1, <3>2, <3>4, BoundedFacts DEF Before
    <2>4. QED
      BY <1>4, <1>6, <2>2, <2>3
  <1>10. \/ active[iv] \in OnWay
         \/ pending[iv] = active[iv]
         \/ chart # <<>> /\ Last(chart) = active[iv]
    BY <1>1 DEF Current
  <1>11. active[iv] \in OnWay => active[iv] \in OnWay' \/ active[iv] \in P
    BY DEF Merging
  <1>12. QED
    BY <1>8, <1>9, <1>10, <1>11

--------------------------------------------------------------------------------
(* The order of what is on its way. *)

LEMMA OrderTail ==
    ASSUME NEW s \in Seq(Candles), s # <<>>, NEW M, InOrder(s, M)
    PROVE  InOrder(Tail(s), M) /\ \A d \in Elems(Tail(s)) : Fine(Head(s), d, M)
  <1>1. /\ Len(Tail(s)) = Len(s) - 1 /\ Len(s) \in Nat \ {0} /\ Head(s) = s[1]
        /\ \A i \in 1..Len(Tail(s)) : Tail(s)[i] = s[i + 1]
    BY ElemsTail
  <1>2. \A i \in 1..Len(Tail(s)) : i + 1 \in 1..Len(s)
    BY <1>1
  <1>3. InOrder(Tail(s), M)
    <2> SUFFICES ASSUME NEW i \in 1..Len(Tail(s)), NEW j \in 1..Len(Tail(s)), i < j
                 PROVE  Fine(Tail(s)[i], Tail(s)[j], M)
      BY DEF InOrder
    <2>1. i + 1 < j + 1
      OBVIOUS
    <2>2. Fine(s[i + 1], s[j + 1], M)
      BY <1>2, <2>1 DEF InOrder
    <2>3. QED
      BY <1>1, <2>2
  <1>4. ASSUME NEW i \in 1..Len(Tail(s)) PROVE Fine(Head(s), Tail(s)[i], M)
    <2>1. 1 \in 1..Len(s) /\ 1 < i + 1
      BY <1>1
    <2>2. Fine(s[1], s[i + 1], M)
      BY <1>2, <2>1 DEF InOrder
    <2>3. QED
      BY <1>1, <2>2
  <1>5. QED
    BY <1>3, <1>4 DEF Elems

LEMMA TurnTail ==
    ASSUME NEW s \in Seq(Candles), s # <<>>, NEW M, InTurn(s, M)
    PROVE  InTurn(Tail(s), M) /\ \A d \in Elems(Tail(s)) : Ahead(Head(s), d, M)
  <1>1. /\ Len(Tail(s)) = Len(s) - 1 /\ Len(s) \in Nat \ {0} /\ Head(s) = s[1]
        /\ \A i \in 1..Len(Tail(s)) : Tail(s)[i] = s[i + 1]
    BY ElemsTail
  <1>2. \A i \in 1..Len(Tail(s)) : i + 1 \in 1..Len(s)
    BY <1>1
  <1>3. InTurn(Tail(s), M)
    <2> SUFFICES ASSUME NEW i \in 1..Len(Tail(s)), NEW j \in 1..Len(Tail(s)), i < j
                 PROVE  Ahead(Tail(s)[i], Tail(s)[j], M)
      BY DEF InTurn
    <2>1. i + 1 < j + 1
      OBVIOUS
    <2>2. Ahead(s[i + 1], s[j + 1], M)
      BY <1>2, <2>1 DEF InTurn
    <2>3. QED
      BY <1>1, <2>2
  <1>4. ASSUME NEW i \in 1..Len(Tail(s)) PROVE Ahead(Head(s), Tail(s)[i], M)
    <2>1. 1 \in 1..Len(s) /\ 1 < i + 1
      BY <1>1
    <2>2. Ahead(s[1], s[i + 1], M)
      BY <1>2, <2>1 DEF InTurn
    <2>3. QED
      BY <1>1, <2>2
  <1>5. QED
    BY <1>3, <1>4 DEF Elems

LEMMA OrderAppend ==
    ASSUME NEW s \in Seq(Candles), NEW x \in Candles, NEW M, InOrder(s, M),
           \A c \in Elems(s) : Fine(c, x, M)
    PROVE  InOrder(Append(s, x), M)
  <1>1. /\ Len(Append(s, x)) = Len(s) + 1 /\ Len(s) \in Nat
        /\ (\A i \in 1..Len(s) : Append(s, x)[i] = s[i] /\ s[i] \in Elems(s))
        /\ Append(s, x)[Len(s) + 1] = x
    BY DEF Elems
  <1> SUFFICES ASSUME NEW i \in 1..Len(s) + 1, NEW j \in 1..Len(s) + 1, i < j
               PROVE  Fine(Append(s, x)[i], Append(s, x)[j], M)
    BY <1>1 DEF InOrder
  <1>2. i \in 1..Len(s)
    BY <1>1
  <1>3. CASE j \in 1..Len(s)
    BY <1>1, <1>2, <1>3 DEF InOrder
  <1>4. CASE j = Len(s) + 1
    BY <1>1, <1>2, <1>4
  <1>5. QED
    BY <1>1, <1>3, <1>4

LEMMA TurnAppend ==
    ASSUME NEW s \in Seq(Candles), NEW x \in Candles, NEW M, InTurn(s, M),
           \A c \in Elems(s) : Ahead(c, x, M)
    PROVE  InTurn(Append(s, x), M)
  <1>1. /\ Len(Append(s, x)) = Len(s) + 1 /\ Len(s) \in Nat
        /\ (\A i \in 1..Len(s) : Append(s, x)[i] = s[i] /\ s[i] \in Elems(s))
        /\ Append(s, x)[Len(s) + 1] = x
    BY DEF Elems
  <1> SUFFICES ASSUME NEW i \in 1..Len(s) + 1, NEW j \in 1..Len(s) + 1, i < j
               PROVE  Ahead(Append(s, x)[i], Append(s, x)[j], M)
    BY <1>1 DEF InTurn
  <1>2. i \in 1..Len(s)
    BY <1>1
  <1>3. CASE j \in 1..Len(s)
    BY <1>1, <1>2, <1>3 DEF InTurn
  <1>4. CASE j = Len(s) + 1
    BY <1>1, <1>2, <1>4
  <1>5. QED
    BY <1>1, <1>3, <1>4

\* Noting more buckets as missed keeps the order.
LEMMA OrderMono ==
    ASSUME NEW p, NEW mb, NEW ob, NEW h, NEW M, NEW M2, M \subseteq M2,
           Order(p, mb, ob, h, M)
    PROVE  Order(p, mb, ob, h, M2)
  <1>1. \A c, d : Fine(c, d, M) => Fine(c, d, M2)
    BY DEF Fine
  <1>2. \A c, d : Ahead(c, d, M) => Ahead(c, d, M2)
    BY <1>1 DEF Ahead
  <1>3. InOrder(ob, M2) /\ InTurn(mb, M2) /\ InTurn(p, M2)
    BY <1>1, <1>2 DEF Order, InOrder, InTurn
  <1>4. QED
    BY <1>1, <1>2, <1>3 DEF Order

LEMMA OrderPublish ==
    ASSUME NEW p \in Seq(Candles), NEW mb \in Seq(Candles), NEW ob, NEW h, NEW M,
           p # <<>>, Order(p, mb, ob, h, M)
    PROVE  Order(Tail(p), Append(mb, Head(p)), ob, h, M)
  <1>1. /\ Elems(p) = {Head(p)} \cup Elems(Tail(p)) /\ Head(p) \in Candles
        /\ InTurn(Tail(p), M) /\ \A d \in Elems(Tail(p)) : Ahead(Head(p), d, M)
    BY ElemsTail, TurnTail DEF Order
  <1>2. Elems(Append(mb, Head(p))) = Elems(mb) \cup {Head(p)}
    BY <1>1, ElemsAppend
  <1>3. InTurn(Append(mb, Head(p)), M)
    BY <1>1, TurnAppend DEF Order
  <1>4. QED
    BY <1>1, <1>2, <1>3 DEF Order

LEMMA OrderDropPub ==
    ASSUME NEW p \in Seq(Candles), NEW mb, NEW ob, NEW h, NEW M,
           p # <<>>, Order(p, mb, ob, h, M)
    PROVE  Order(Tail(p), mb, ob, h, M)
  <1>1. Elems(p) = {Head(p)} \cup Elems(Tail(p)) /\ InTurn(Tail(p), M)
    BY ElemsTail, TurnTail DEF Order
  <1>2. QED
    BY <1>1 DEF Order

LEMMA OrderDropMail ==
    ASSUME NEW p, NEW mb \in Seq(Candles), NEW ob, NEW h, NEW M,
           mb # <<>>, Order(p, mb, ob, h, M)
    PROVE  /\ Order(p, Tail(mb), ob, h, M)
           /\ \A d \in Elems(Tail(mb)) \cup Elems(p) : Ahead(Head(mb), d, M)
  <1>1. /\ Elems(mb) = {Head(mb)} \cup Elems(Tail(mb)) /\ InTurn(Tail(mb), M)
        /\ \A d \in Elems(Tail(mb)) : Ahead(Head(mb), d, M)
    BY ElemsTail, TurnTail DEF Order
  <1>2. QED
    BY <1>1 DEF Order

\* A candle that reaches the app's queue.
LEMMA OrderSend ==
    ASSUME NEW p, NEW mb, NEW ob \in Seq(Candles), NEW h, NEW M, NEW x \in Candles,
           Order(p, mb, ob, h, M), \A c \in Elems(ob) : Fine(c, x, M),
           \A d \in Elems(mb) \cup Elems(p) : Fine(x, d, M)
    PROVE  Order(p, mb, Append(ob, x), h, M)
  <1>1. InOrder(Append(ob, x), M)
    BY OrderAppend DEF Order
  <1>2. Elems(Append(ob, x)) = Elems(ob) \cup {x}
    BY ElemsAppend
  <1>3. QED
    BY <1>1, <1>2 DEF Order

LEMMA OrderReceive ==
    ASSUME NEW p, NEW mb, NEW ob \in Seq(Candles), NEW h, NEW M,
           ob # <<>>, Order(p, mb, ob, h, M)
    PROVE  /\ Order(p, mb, Tail(ob), h, M)
           /\ \A d \in Elems(Tail(ob)) \cup Elems(mb) \cup Elems(p) : Fine(Head(ob), d, M)
  <1>1. /\ Elems(ob) = {Head(ob)} \cup Elems(Tail(ob)) /\ InOrder(Tail(ob), M)
        /\ \A d \in Elems(Tail(ob)) : Fine(Head(ob), d, M)
    BY ElemsTail, OrderTail DEF Order
  <1>2. QED
    BY <1>1 DEF Order

\* The coalescer takes candles that are ahead of the rest, or gives some up.
LEMMA OrderHold ==
    ASSUME NEW p, NEW mb, NEW ob, NEW h, NEW M, NEW h2, Order(p, mb, ob, h, M),
           \A iv \in Intervals, d \in Elems(mb) \cup Elems(p) :
              h2[iv] = h[iv] \/ Ahead(h2[iv], d, M)
    PROVE  Order(p, mb, ob, h2, M)
  BY DEF Order

LEMMA NoneAhead ==
    ASSUME NEW d \in Candles, d.seq >= 1, NEW M PROVE Ahead(None, d, M)
  <1>1. d.start \in Nat /\ d.seq \in Nat
    BY DEF Candles
  <1>2. QED
    BY <1>1, NoneFacts DEF Ahead, Fine, Rise

--------------------------------------------------------------------------------
(* What steps outside the engine and the chart leave alone. *)

LEMMA EngineFrame ==
    ASSUME EngineOK, UNCHANGED engineVars
    PROVE  /\ EngineOK' /\ active' = active /\ ended' = ended /\ n' = n
           /\ \A x : Bounded(x) => Bounded(x)'
           /\ \A x : Final(x) => Final(x)'
  <1>1. active' = active /\ ended' = ended /\ n' = n /\ now' = now
    BY DEF engineVars, marketVars
  <1>2. EngineOK'
    BY <1>1 DEF EngineOK, EngineType, EngineInv
  <1>3. /\ \A x : Bounded(x) => Bounded(x)'
        /\ \A x : Final(x) => Final(x)'
    BY <1>1 DEF Bounded, Final
  <1>4. QED
    BY <1>1, <1>2, <1>3

LEMMA HistoryFrame ==
    ASSUME HistoryOK, UNCHANGED engineVars PROVE HistoryOK'
  BY DEF HistoryOK, engineVars, marketVars

LEMMA AppFrame ==
    ASSUME EngineOK, AppOK, UNCHANGED <<engineVars, appVars, told, interval, online>>
    PROVE  AppOK'
  <1>1. /\ selected' = selected /\ chart' = chart /\ asks' = asks /\ guard' = guard
        /\ asked' = asked /\ skipped' = skipped /\ told' = told /\ interval' = interval
        /\ ended' = ended /\ active' = active /\ cache' = cache /\ spec' = spec
        /\ online' = online
    BY DEF appVars, engineVars, marketVars
  <1>2. AppType' /\ AsksKnown' /\ Follows'
    BY <1>1 DEF AppOK, AppType, AsksKnown, Follows, WillSubscribe
  <1>3. PagesKnown'
    BY <1>1 DEF AppOK, PagesKnown, PageOK, Bounded, Final
  <1>4. QED
    BY <1>2, <1>3 DEF AppOK

\* Candles move on their way and the chart does not change: a close that leaves is
\* noted as missed.
LEMMA ChartFrame ==
    ASSUME EngineOK, ChartOK, chart \in Seq(Candles),
           UNCHANGED engineVars, chart' = chart, missed \subseteq missed',
           \A x \in OnWay : x.closed => x \in OnWay' \/ <<x.iv, x.start>> \in missed'
    PROVE  ChartOK' /\ Keeps
  <1>1. active' = active /\ ended' = ended
    BY DEF engineVars, marketVars
  <1>2. ChartOrdered' /\ ChartKnown'
    BY <1>1 DEF ChartOK, ChartOrdered, ChartKnown, Bounded
  <1>3. WrongCloseExplained'
    BY <1>1 DEF ChartOK, WrongCloseExplained
  <1>4. Shown' = Shown
    BY DEF Shown
  <1>6. Settled'
    <2> SUFFICES ASSUME NEW v \in Intervals, NEW d \in Elems(ended[v])
                 PROVE  <<v, d.start>> \in missed' \cup Shown' \/ d \in OnWay'
      BY <1>1 DEF Settled
    <2>1. d.iv = v /\ d.closed
      BY HistoryFacts
    <2>2. <<v, d.start>> \in missed \cup Shown \/ d \in OnWay
      BY DEF ChartOK, Settled
    <2>3. QED
      BY <1>4, <2>1, <2>2
  <1>7. Keeps
    <2> SUFFICES ASSUME NEW c \in Elems(chart), NEW d \in Elems(chart), Same(c, d)
                 PROVE  d.seq >= c.seq /\ (c.closed => c = d)
      BY DEF Keeps
    <2>1. Ascending(chart)
      BY DEF ChartOK, ChartOrdered, Ascending
    <2>2. c = d
      BY <2>1, AscendingOne DEF Same
    <2>3. c \in Candles
      BY ElemsIn
    <2>4. c.seq \in Nat
      BY <2>3 DEF Candles
    <2>5. QED
      BY <2>2, <2>4
  <1>8. QED
    BY <1>2, <1>3, <1>6, <1>7 DEF ChartOK

\* What the induction establishes for a step.
StepOK == IInv' /\ Keeps

\* The parts that a step of the bus or the session, without a subscribe, shares.
LEMMA FlowStep ==
    ASSUME IInv, UNCHANGED <<engineVars, appVars, told, interval, online>>, FlowOK',
           Current', missed \subseteq missed',
           \A x \in OnWay : x.closed => x \in OnWay' \/ <<x.iv, x.start>> \in missed'
    PROVE  StepOK
  <1>1. EngineOK' /\ HistoryOK' /\ AppOK'
    BY EngineFrame, HistoryFrame, AppFrame DEF IInv
  <1>2. chart' = chart /\ skipped' = skipped /\ chart \in Seq(Candles) /\ ChartOK
        /\ EngineOK /\ skipped \in BOOLEAN
    BY DEF appVars, IInv, AppOK, AppType
  <1>3. ChartOK' /\ Keeps
    BY <1>2, ChartFrame
  <1>4. skipped' \in BOOLEAN
    BY <1>2
  <1>5. QED
    BY <1>1, <1>3, <1>4 DEF StepOK, IInv

\* Nothing but what was on its way or held, or the active candle, gets on its way.
LEMMA FlowKnownFrame ==
    ASSUME IInv, UNCHANGED engineVars,
           \A x \in OnWay' : x \in OnWay \/ \E iv \in Intervals :
               x = active[iv] \/ (x = pending[iv] /\ pending[iv] # None)
    PROVE  FlowKnown'
  <1>1. EngineOK /\ FlowKnown /\ HeldKnown
    BY DEF IInv, FlowOK
  <1>2. /\ \A x : Bounded(x) => Bounded(x)'
        /\ \A x : Final(x) => Final(x)'
    BY <1>1, EngineFrame
  <1> SUFFICES ASSUME NEW x \in OnWay' PROVE Bounded(x)' /\ Final(x)' /\ x.seq >= 1
    BY DEF FlowKnown
  <1>3. CASE x \in OnWay
    BY <1>1, <1>2, <1>3 DEF FlowKnown
  <1>4. ASSUME NEW iv \in Intervals, x = active[iv]
        PROVE  Bounded(x) /\ Final(x) /\ x.seq >= 1
    BY <1>1, <1>4, ActiveFacts
  <1>5. ASSUME NEW iv \in Intervals, x = pending[iv], pending[iv] # None
        PROVE  Bounded(x) /\ Final(x) /\ x.seq >= 1
    BY <1>1, <1>5 DEF HeldKnown, Final
  <1>6. QED
    BY <1>2, <1>3, <1>4, <1>5

--------------------------------------------------------------------------------
(* The steps of the bus. *)

LEMMA PublishOK ==
    ASSUME IInv, Publish PROVE StepOK
  <1>1. /\ pubs # <<>> /\ Len(mailbox) < Cap
        /\ mailbox' = Append(mailbox, Head(pubs)) /\ pubs' = Tail(pubs)
        /\ behind' = IF Head(pubs).closed THEN behind ELSE behind \ {Head(pubs).iv}
        /\ UNCHANGED <<engineVars, interval, pending, online, outbound, appVars, told, missed>>
    BY DEF Publish, sessionVars
  <1>2. /\ FlowType /\ MarksType /\ HeldKnown /\ FlowOrder /\ EngineOK /\ Current
        /\ pubs \in Seq(Candles) /\ mailbox \in Seq(Candles) /\ FlowKnown /\ PubsNewest
    BY DEF IInv, FlowOK, FlowType
  <1>3. /\ Tail(pubs) \in Seq(Candles) /\ Head(pubs) \in Candles
        /\ Elems(pubs) = {Head(pubs)} \cup Elems(Tail(pubs))
    BY <1>1, <1>2, ElemsTail
  <1>4. /\ Append(mailbox, Head(pubs)) \in Seq(Candles)
        /\ Elems(Append(mailbox, Head(pubs))) = Elems(mailbox) \cup {Head(pubs)}
    BY <1>2, <1>3, ElemsAppend
  <1>5. OnWay' = OnWay
    BY <1>1, <1>3, <1>4 DEF OnWay
  <1>6. FlowType'
    <2>1. Len(mailbox') <= Cap
      BY <1>1, <1>2, <1>3, FeedAssumption DEF FeedAssumption
    <2>2. QED
      BY <1>1, <1>2, <1>3, <1>4, <2>1 DEF FlowType
  <1>7. MarksType'
    BY <1>1, <1>2 DEF MarksType
  <1>8. FlowOrder'
    BY <1>1, <1>2, OrderPublish DEF FlowOrder
  <1>9. FlowKnown'
    BY <1>1, <1>5, FlowKnownFrame
  <1>10. HeldKnown'
    BY <1>1, <1>2, EngineFrame DEF HeldKnown
  <1>a. PubsNewest'
    BY <1>1, <1>2, <1>3 DEF PubsNewest, engineVars, marketVars
  <1>11. FlowOK'
    BY <1>6, <1>7, <1>8, <1>9, <1>10, <1>a DEF FlowOK
  <1>12. Current'
    <2>1. active' = active /\ chart' = chart /\ pending' = pending
      BY <1>1 DEF engineVars, marketVars, appVars
    <2> SUFFICES ASSUME NEW iv \in Intervals, iv \notin behind'
                 PROVE  \/ active[iv] \in OnWay
                        \/ pending[iv] = active[iv]
                        \/ chart # <<>> /\ Last(chart) = active[iv]
      BY <1>5, <2>1 DEF Current
    <2>2. CASE iv \notin behind
      BY <1>2, <2>2 DEF Current
    <2>3. CASE iv \in behind
      <3>1. ~Head(pubs).closed /\ Head(pubs).iv = iv
        BY <1>1, <2>3
      <3>2. Head(pubs) = active[iv]
        BY <1>2, <1>3, <3>1 DEF PubsNewest
      <3>3. QED
        BY <1>3, <3>2 DEF OnWay
    <2>4. QED
      BY <2>2, <2>3
  <1>13. QED
    BY <1>1, <1>5, <1>11, <1>12, FlowStep

LEMMA BucketType ==
    ASSUME NEW c \in Candles PROVE <<c.iv, c.start>> \in Intervals \X Nat /\ c.iv \in Intervals
  BY DEF Candles

LEMMA PublishLostOK ==
    ASSUME IInv, PublishLost PROVE StepOK
  <1>1. /\ pubs # <<>> /\ pubs' = Tail(pubs)
        /\ UNCHANGED <<engineVars, mailbox, interval, pending, online, outbound, appVars, told>>
    BY DEF PublishLost, sessionVars
  <1>2. /\ Head(pubs).closed =>
              missed' = missed \cup {<<Head(pubs).iv, Head(pubs).start>>} /\ behind' = behind
        /\ ~Head(pubs).closed => behind' = behind \cup {Head(pubs).iv} /\ missed' = missed
    BY DEF PublishLost
  <1>3. /\ FlowType /\ MarksType /\ HeldKnown /\ FlowOrder /\ EngineOK /\ Current
        /\ pubs \in Seq(Candles) /\ FlowKnown /\ PubsNewest
    BY DEF IInv, FlowOK, FlowType
  <1>4. /\ Tail(pubs) \in Seq(Candles) /\ Head(pubs) \in Candles
        /\ Elems(pubs) = {Head(pubs)} \cup Elems(Tail(pubs))
    BY <1>1, <1>3, ElemsTail
  <1>5. OnWay' \subseteq OnWay /\ OnWay \subseteq OnWay' \cup {Head(pubs)}
    BY <1>1, <1>4 DEF OnWay
  <1>6. FlowType' /\ PubsNewest'
    BY <1>1, <1>3, <1>4 DEF FlowType, PubsNewest, engineVars, marketVars
  <1>7. MarksType' /\ missed \subseteq missed'
    BY <1>2, <1>3, <1>4, BucketType DEF MarksType
  <1>8. FlowOrder'
    <2>1. Order(Tail(pubs), mailbox, outbound, pending, missed)
      BY <1>1, <1>3, OrderDropPub DEF FlowOrder
    <2>2. Order(Tail(pubs), mailbox, outbound, pending, missed')
      BY <1>7, <2>1, OrderMono
    <2>3. QED
      BY <1>1, <2>2 DEF FlowOrder
  <1>9. FlowKnown'
    BY <1>1, <1>5, FlowKnownFrame
  <1>10. HeldKnown'
    BY <1>1, <1>3, EngineFrame DEF HeldKnown
  <1>11. FlowOK'
    BY <1>6, <1>7, <1>8, <1>9, <1>10 DEF FlowOK
  <1>12. Current'
    <2>1. active' = active /\ chart' = chart /\ pending' = pending
      BY <1>1 DEF engineVars, marketVars, appVars
    <2> SUFFICES ASSUME NEW iv \in Intervals, iv \notin behind'
                 PROVE  \/ active[iv] \in OnWay'
                        \/ pending[iv] = active[iv]
                        \/ chart # <<>> /\ Last(chart) = active[iv]
      BY <2>1 DEF Current
    <2>2. iv \notin behind
      BY <1>2
    <2>3. active[iv] # Head(pubs)
      <3>1. ~active[iv].closed /\ active[iv].iv = iv
        BY <1>3, ActiveFacts
      <3>2. QED
        BY <1>2, <3>1
    <2>4. QED
      BY <1>3, <1>5, <2>2, <2>3 DEF Current
  <1>13. \A x \in OnWay : x.closed => x \in OnWay' \/ <<x.iv, x.start>> \in missed'
    BY <1>2, <1>5
  <1>14. QED
    BY <1>1, <1>5, <1>7, <1>11, <1>12, <1>13, FlowStep

--------------------------------------------------------------------------------
(* The steps of the session. *)

\* The first facts about a step that takes a candle from the mailbox.
LEMMA MailFacts ==
    ASSUME IInv, mailbox # <<>>
    PROVE  /\ FlowType /\ MarksType /\ HeldKnown /\ FlowOrder /\ EngineOK /\ Current
           /\ mailbox \in Seq(Candles) /\ outbound \in Seq(Candles)
           /\ FlowKnown /\ PubsNewest
           /\ Tail(mailbox) \in Seq(Candles) /\ Head(mailbox) \in Candles
           /\ Len(Tail(mailbox)) <= Cap
           /\ Elems(mailbox) = {Head(mailbox)} \cup Elems(Tail(mailbox))
           /\ Head(mailbox) \in OnWay
           /\ Order(pubs, Tail(mailbox), outbound, pending, missed)
           /\ \A d \in Elems(Tail(mailbox)) \cup Elems(pubs) : Ahead(Head(mailbox), d, missed)
  <1>1. /\ FlowType /\ MarksType /\ HeldKnown /\ FlowOrder /\ EngineOK /\ Current
        /\ mailbox \in Seq(Candles) /\ outbound \in Seq(Candles) /\ Len(mailbox) <= Cap
        /\ FlowKnown /\ PubsNewest
    BY DEF IInv, FlowOK, FlowType
  <1>2. /\ Tail(mailbox) \in Seq(Candles) /\ Head(mailbox) \in Candles
        /\ Elems(mailbox) = {Head(mailbox)} \cup Elems(Tail(mailbox))
        /\ Len(Tail(mailbox)) = Len(mailbox) - 1
    BY <1>1, ElemsTail
  <1>3. Len(mailbox) \in Nat /\ Cap \in Nat
    BY <1>1, FeedAssumption DEF FeedAssumption
  <1>4. Len(Tail(mailbox)) <= Cap
    BY <1>1, <1>2, <1>3
  <1>5. /\ Order(pubs, Tail(mailbox), outbound, pending, missed)
        /\ \A d \in Elems(Tail(mailbox)) \cup Elems(pubs) : Ahead(Head(mailbox), d, missed)
    BY <1>1, OrderDropMail DEF FlowOrder
  <1>6. Head(mailbox) \in OnWay
    BY <1>2 DEF OnWay
  <1>7. QED
    BY <1>1, <1>2, <1>4, <1>5, <1>6

LEMMA HandleChangedOK ==
    ASSUME IInv, HandleChanged PROVE StepOK
  <1>1. PICK c : c = Head(mailbox)
    OBVIOUS
  <1>2. /\ mailbox # <<>> /\ ~c.closed /\ mailbox' = Tail(mailbox)
        /\ UNCHANGED <<engineVars, pubs, interval, online, outbound, appVars, told, missed>>
        /\ c.iv = interval => pending' = OnCandle(c) /\ behind' = behind
        /\ c.iv # interval => behind' = behind \cup {c.iv} /\ pending' = pending
    BY <1>1 DEF HandleChanged
  <1>3. /\ FlowType /\ MarksType /\ HeldKnown /\ FlowOrder /\ EngineOK /\ Current
        /\ FlowKnown /\ PubsNewest /\ Tail(mailbox) \in Seq(Candles) /\ c \in Candles
        /\ Len(Tail(mailbox)) <= Cap /\ Elems(mailbox) = {c} \cup Elems(Tail(mailbox))
        /\ c \in OnWay
        /\ Order(pubs, Tail(mailbox), outbound, pending, missed)
        /\ \A d \in Elems(Tail(mailbox)) \cup Elems(pubs) : Ahead(c, d, missed)
    BY <1>1, <1>2, MailFacts
  <1>4. c.iv \in Intervals /\ c.seq \in Nat /\ c.seq >= 1 /\ Bounded(c)
    BY <1>3 DEF FlowKnown, Candles
  <1>5. c.iv = interval => pending' = [pending EXCEPT ![c.iv] = c]
    <2>1. Ahead(pending[c.iv], c, missed)
      BY <1>3, <1>4 DEF FlowOrder, Order
    <2>2. ASSUME pending[c.iv] # None PROVE pending[c.iv].seq < c.seq
      BY <1>2, <1>3, <1>4, <2>1, <2>2 DEF HeldKnown, Ahead, Rise
    <2>3. pending[c.iv].seq \in Nat
      <3>1. pending[c.iv] \in Candles
        BY <1>3, <1>4 DEF FlowType
      <3>2. QED
        BY <3>1 DEF Candles
    <2>4. pending[c.iv] # None => ~(pending[c.iv].seq >= c.seq)
      BY <1>4, <2>2, <2>3
    <2>5. QED
      BY <1>2, <2>4 DEF OnCandle
  <1>6. \A iv \in Intervals : pending'[iv] = pending[iv]
                             \/ (pending'[iv] = c /\ iv = c.iv /\ c.iv = interval)
    BY <1>2, <1>3, <1>5 DEF FlowType
  <1>7. pending' \in [Intervals -> Candles]
    BY <1>2, <1>3, <1>5 DEF FlowType
  <1>8. FlowType' /\ PubsNewest' /\ MarksType'
    BY <1>2, <1>3, <1>4, <1>7 DEF FlowType, PubsNewest, MarksType, engineVars, marketVars
  <1>9. FlowOrder'
    <2>1. Order(pubs, Tail(mailbox), outbound, pending', missed)
      BY <1>3, <1>6, OrderHold
    <2>2. QED
      BY <1>2, <2>1 DEF FlowOrder
  <1>10. OnWay' \subseteq OnWay /\ OnWay \subseteq OnWay' \cup {c}
    BY <1>2, <1>3 DEF OnWay
  <1>11. FlowKnown'
    BY <1>2, <1>10, FlowKnownFrame
  <1>12. HeldKnown'
    <2>1. \A x : Bounded(x) => Bounded(x)'
      BY <1>2, <1>3, EngineFrame
    <2>2. QED
      BY <1>2, <1>3, <1>4, <1>6, <2>1 DEF HeldKnown
  <1>13. FlowOK'
    BY <1>8, <1>9, <1>11, <1>12 DEF FlowOK
  <1>14. Current'
    <2>1. active' = active /\ chart' = chart
      BY <1>2 DEF engineVars, marketVars, appVars
    <2> SUFFICES ASSUME NEW iv \in Intervals, iv \notin behind'
                 PROVE  \/ active[iv] \in OnWay'
                        \/ pending'[iv] = active[iv]
                        \/ chart # <<>> /\ Last(chart) = active[iv]
      BY <2>1 DEF Current
    <2>2. iv \notin behind /\ active[iv].iv = iv /\ ~active[iv].closed /\ active[iv].seq = n
          /\ n \in Nat /\ active[iv] # None
      BY <1>2, <1>3, ActiveFacts
    <2>3. CASE active[iv] \in OnWay
      <3>1. CASE active[iv] = c
        BY <1>2, <1>3, <1>5, <2>2, <3>1 DEF FlowType
      <3>2. CASE active[iv] # c
        BY <1>10, <2>3, <3>2
      <3>3. QED
        BY <3>1, <3>2
    <2>4. CASE pending[iv] = active[iv]
      <3>1. Ahead(active[iv], c, missed)
        BY <1>3, <2>4 DEF FlowOrder, Order
      <3>2. c.iv # iv
        <4> SUFFICES ASSUME c.iv = iv PROVE FALSE
          OBVIOUS
        <4>1. active[iv].seq < c.seq
          BY <1>2, <2>2, <3>1 DEF Ahead, Rise
        <4>2. c.seq <= n
          BY <1>3, <1>4, BoundedFacts
        <4>3. QED
          BY <1>4, <2>2, <4>1, <4>2
      <3>3. QED
        BY <1>6, <2>4, <3>2
    <2>5. QED
      BY <1>3, <2>2, <2>3, <2>4 DEF Current
  <1>15. \A x \in OnWay : x.closed => x \in OnWay'
    BY <1>2, <1>10
  <1>16. QED
    BY <1>2, <1>10, <1>13, <1>14, <1>15, FlowStep

LEMMA SendCandleClosedOK ==
    ASSUME IInv, SendCandleClosed PROVE StepOK
  <1>1. PICK c : c = Head(mailbox)
    OBVIOUS
  <1>2. /\ mailbox # <<>> /\ Len(outbound) < OutCap
        /\ mailbox' = Tail(mailbox) /\ outbound' = Append(outbound, c)
        /\ UNCHANGED <<engineVars, pubs, interval, pending, online, appVars, told, missed, behind>>
    BY <1>1 DEF SendCandleClosed, sessionVars
  <1>3. /\ FlowType /\ MarksType /\ HeldKnown /\ FlowOrder /\ EngineOK /\ Current
        /\ FlowKnown /\ PubsNewest /\ Tail(mailbox) \in Seq(Candles) /\ c \in Candles
        /\ outbound \in Seq(Candles)
        /\ Len(Tail(mailbox)) <= Cap /\ Elems(mailbox) = {c} \cup Elems(Tail(mailbox))
        /\ Order(pubs, Tail(mailbox), outbound, pending, missed)
        /\ \A d \in Elems(Tail(mailbox)) \cup Elems(pubs) : Ahead(c, d, missed)
    BY <1>1, <1>2, MailFacts
  <1>4. /\ Append(outbound, c) \in Seq(Candles)
        /\ Elems(Append(outbound, c)) = Elems(outbound) \cup {c}
    BY <1>3, ElemsAppend
  <1>5. Len(outbound') <= OutCap
    BY <1>2, <1>3, FeedAssumption DEF FeedAssumption
  <1>6. FlowType' /\ PubsNewest' /\ MarksType'
    BY <1>2, <1>3, <1>4, <1>5 DEF FlowType, PubsNewest, MarksType, engineVars, marketVars
  <1>7. OnWay' = OnWay
    BY <1>2, <1>3, <1>4 DEF OnWay
  <1>8. FlowOrder'
    <2>1. \A d \in Elems(outbound) : Fine(d, c, missed)
      BY <1>3 DEF FlowOrder, Order
    <2>2. \A d \in Elems(Tail(mailbox)) \cup Elems(pubs) : Fine(c, d, missed)
      BY <1>3 DEF Ahead
    <2>3. Order(pubs, Tail(mailbox), Append(outbound, c), pending, missed)
      BY <1>3, <2>1, <2>2, OrderSend
    <2>4. QED
      BY <1>2, <2>3 DEF FlowOrder
  <1>9. FlowKnown'
    BY <1>2, <1>7, FlowKnownFrame
  <1>10. HeldKnown'
    BY <1>2, <1>3, EngineFrame DEF HeldKnown
  <1>11. FlowOK'
    BY <1>6, <1>8, <1>9, <1>10 DEF FlowOK
  <1>12. Current'
    BY <1>2, <1>3, <1>7 DEF Current, engineVars, marketVars, appVars
  <1>13. QED
    BY <1>2, <1>7, <1>11, <1>12, FlowStep

LEMMA LoseCandleClosedOK ==
    ASSUME IInv, LoseCandleClosed PROVE StepOK
  <1>1. PICK c : c = Head(mailbox)
    OBVIOUS
  <1>2. /\ mailbox # <<>> /\ c.closed /\ mailbox' = Tail(mailbox)
        /\ missed' = missed \cup {<<c.iv, c.start>>}
        /\ UNCHANGED <<engineVars, pubs, interval, online, outbound, appVars, told>>
        /\ \/ pending' = pending /\ behind' = behind
           \/ /\ pending' = [iv \in Intervals |-> None]
              /\ behind' = behind \cup {iv \in Intervals : pending[iv] # None}
    BY <1>1 DEF LoseCandleClosed, EmptyCoalescer
  <1>3. /\ FlowType /\ MarksType /\ HeldKnown /\ FlowOrder /\ EngineOK /\ Current
        /\ FlowKnown /\ PubsNewest /\ Tail(mailbox) \in Seq(Candles) /\ c \in Candles
        /\ Len(Tail(mailbox)) <= Cap /\ Elems(mailbox) = {c} \cup Elems(Tail(mailbox))
        /\ Order(pubs, Tail(mailbox), outbound, pending, missed)
    BY <1>1, <1>2, MailFacts
  <1>4. pending' \in [Intervals -> Candles]
    BY <1>2, <1>3, NoneFacts DEF FlowType
  <1>5. FlowType' /\ PubsNewest'
    BY <1>2, <1>3, <1>4 DEF FlowType, PubsNewest, engineVars, marketVars
  <1>6. MarksType' /\ missed \subseteq missed'
    BY <1>2, <1>3, BucketType DEF MarksType
  <1>7. OnWay' \subseteq OnWay /\ OnWay \subseteq OnWay' \cup {c}
    BY <1>2, <1>3 DEF OnWay
  <1>8. \A iv \in Intervals : pending'[iv] = pending[iv] \/ pending'[iv] = None
    BY <1>2
  <1>9. FlowOrder'
    <2>1. \A d \in Elems(Tail(mailbox)) \cup Elems(pubs) : Ahead(None, d, missed)
      <3>1. \A d \in Elems(Tail(mailbox)) \cup Elems(pubs) : d \in OnWay
        BY <1>3 DEF OnWay
      <3>2. \A d \in OnWay : d \in Candles /\ d.seq >= 1
        BY <1>3, OnWayType DEF FlowKnown
      <3>3. QED
        BY <3>1, <3>2, NoneAhead
    <2>2. Order(pubs, Tail(mailbox), outbound, pending', missed)
      BY <1>3, <1>8, <2>1, OrderHold
    <2>3. Order(pubs, Tail(mailbox), outbound, pending', missed')
      BY <1>6, <2>2, OrderMono
    <2>4. QED
      BY <1>2, <2>3 DEF FlowOrder
  <1>10. FlowKnown'
    BY <1>2, <1>7, FlowKnownFrame
  <1>11. HeldKnown'
    <2>1. \A x : Bounded(x) => Bounded(x)'
      BY <1>2, <1>3, EngineFrame
    <2>2. Bounded(None)
      BY <1>3, NoneBounded DEF IInv
    <2>3. QED
      BY <1>3, <1>8, <2>1, <2>2, NoneFacts DEF HeldKnown
  <1>12. FlowOK'
    BY <1>5, <1>6, <1>9, <1>10, <1>11 DEF FlowOK
  <1>13. Current'
    <2>1. active' = active /\ chart' = chart
      BY <1>2 DEF engineVars, marketVars, appVars
    <2> SUFFICES ASSUME NEW iv \in Intervals, iv \notin behind'
                 PROVE  \/ active[iv] \in OnWay'
                        \/ pending'[iv] = active[iv]
                        \/ chart # <<>> /\ Last(chart) = active[iv]
      BY <2>1 DEF Current
    <2>2. iv \notin behind /\ ~active[iv].closed /\ active[iv] # None
      BY <1>2, <1>3, ActiveFacts
    <2>3. active[iv] # c
      BY <1>2, <2>2
    <2>4. CASE pending[iv] = active[iv]
      BY <1>2, <2>2, <2>4
    <2>5. QED
      BY <1>3, <1>7, <2>2, <2>3, <2>4 DEF Current
  <1>14. \A x \in OnWay : x.closed => x \in OnWay' \/ <<x.iv, x.start>> \in missed'
    BY <1>2, <1>7
  <1>15. QED
    BY <1>2, <1>6, <1>7, <1>12, <1>13, <1>14, FlowStep

LEMMA BookResyncOK ==
    ASSUME IInv, BookResync PROVE StepOK
  <1>1. /\ pending' = [iv \in Intervals |-> None]
        /\ behind' = behind \cup {iv \in Intervals : pending[iv] # None}
        /\ UNCHANGED <<engineVars, pubs, mailbox, interval, online, outbound, appVars, told,
                       missed>>
    BY DEF BookResync, EmptyCoalescer
  <1>2. /\ FlowType /\ MarksType /\ HeldKnown /\ FlowOrder /\ EngineOK /\ Current
        /\ FlowKnown /\ PubsNewest
    BY DEF IInv, FlowOK
  <1>3. pending' \in [Intervals -> Candles] /\ \A iv \in Intervals : pending'[iv] = None
    BY <1>1, NoneFacts
  <1>4. FlowType' /\ PubsNewest' /\ MarksType'
    BY <1>1, <1>2, <1>3 DEF FlowType, PubsNewest, MarksType, engineVars, marketVars
  <1>5. OnWay' = OnWay
    BY <1>1 DEF OnWay
  <1>6. FlowOrder'
    <2>1. \A d \in OnWay : Ahead(None, d, missed)
      BY <1>2, OnWayType, NoneAhead DEF FlowKnown
    <2>2. \A d \in Elems(mailbox) \cup Elems(pubs) : Ahead(None, d, missed)
      BY <2>1 DEF OnWay
    <2>3. Order(pubs, mailbox, outbound, pending', missed)
      BY <1>2, <1>3, <2>2, OrderHold DEF FlowOrder
    <2>4. QED
      BY <1>1, <2>3 DEF FlowOrder
  <1>7. FlowKnown'
    BY <1>1, <1>5, FlowKnownFrame
  <1>8. HeldKnown'
    BY <1>1, <1>2, <1>3, EngineFrame, NoneBounded, NoneFacts DEF HeldKnown
  <1>9. FlowOK'
    BY <1>4, <1>6, <1>7, <1>8 DEF FlowOK
  <1>10. Current'
    <2>1. active' = active /\ chart' = chart
      BY <1>1 DEF engineVars, marketVars, appVars
    <2> SUFFICES ASSUME NEW iv \in Intervals, iv \notin behind'
                 PROVE  \/ active[iv] \in OnWay
                        \/ chart # <<>> /\ Last(chart) = active[iv]
      BY <1>5, <2>1 DEF Current
    <2>2. iv \notin behind /\ pending[iv] = None /\ active[iv] # None
      BY <1>1, <1>2, ActiveFacts
    <2>3. QED
      BY <1>2, <2>2 DEF Current
  <1>11. QED
    BY <1>1, <1>5, <1>9, <1>10, FlowStep

LEMMA FlushCandlesOK ==
    ASSUME IInv, FlushCandles PROVE StepOK
  <1>1. PICK c : c = pending[interval]
    OBVIOUS
  <1>2. /\ c # None
        /\ \/ /\ Len(outbound) < OutCap /\ outbound' = Append(outbound, c)
              /\ pending' = [pending EXCEPT ![interval] = None]
           \/ outbound' = outbound /\ pending' = pending
        /\ UNCHANGED <<engineVars, pubs, mailbox, interval, online, appVars, told, missed,
                       behind>>
    BY <1>1 DEF FlushCandles
  <1>3. /\ FlowType /\ MarksType /\ HeldKnown /\ FlowOrder /\ EngineOK /\ Current
        /\ FlowKnown /\ PubsNewest /\ outbound \in Seq(Candles) /\ interval \in Intervals
        /\ pending \in [Intervals -> Candles] /\ mailbox \in Seq(Candles)
    BY DEF IInv, FlowOK, FlowType
  <1>4. c \in Candles /\ ~c.closed
    BY <1>1, <1>3 DEF HeldKnown
  <1>5. /\ Append(outbound, c) \in Seq(Candles)
        /\ Elems(Append(outbound, c)) = Elems(outbound) \cup {c}
    BY <1>3, <1>4, ElemsAppend
  <1>6. CASE outbound' = outbound /\ pending' = pending
    <2>1. OnWay' = OnWay
      BY <1>2, <1>6 DEF OnWay
    <2>2. FlowType' /\ PubsNewest' /\ MarksType' /\ FlowOrder'
      BY <1>2, <1>3, <1>6 DEF FlowType, PubsNewest, MarksType, engineVars, marketVars, FlowOrder
    <2>3. FlowKnown'
      BY <1>2, <2>1, FlowKnownFrame
    <2>4. HeldKnown'
      BY <1>2, <1>3, <1>6, EngineFrame DEF HeldKnown
    <2>5. FlowOK'
      BY <2>2, <2>3, <2>4 DEF FlowOK
    <2>6. Current'
      BY <1>2, <1>3, <1>6, <2>1 DEF Current, engineVars, marketVars, appVars
    <2>7. QED
      BY <1>2, <2>1, <2>5, <2>6, FlowStep
  <1>7. CASE /\ Len(outbound) < OutCap /\ outbound' = Append(outbound, c)
             /\ pending' = [pending EXCEPT ![interval] = None]
    <2>1. OnWay' = OnWay \cup {c}
      BY <1>2, <1>5, <1>7 DEF OnWay
    <2>2. Len(outbound') <= OutCap
      BY <1>3, <1>4, <1>7, FeedAssumption DEF FeedAssumption
    <2>3. pending' \in [Intervals -> Candles]
      BY <1>3, <1>7, NoneFacts
    <2>4. FlowType' /\ PubsNewest' /\ MarksType'
      BY <1>2, <1>3, <1>5, <1>7, <2>2, <2>3
         DEF FlowType, PubsNewest, MarksType, engineVars, marketVars
    <2>5. \A iv \in Intervals : pending'[iv] = pending[iv]
                               \/ (pending'[iv] = None /\ iv = interval)
      BY <1>3, <1>7
    <2>6. FlowOrder'
      <3>1. \A d \in Elems(outbound) : Fine(d, c, missed)
        BY <1>4 DEF Fine
      <3>2. \A d \in Elems(mailbox) \cup Elems(pubs) : Fine(c, d, missed)
        BY <1>1, <1>3 DEF FlowOrder, Order, Ahead
      <3>3. Order(pubs, mailbox, Append(outbound, c), pending, missed)
        BY <1>3, <1>4, <3>1, <3>2, OrderSend DEF FlowOrder
      <3>4. \A d \in Elems(mailbox) \cup Elems(pubs) : Ahead(None, d, missed)
        <4>1. \A d \in Elems(mailbox) \cup Elems(pubs) : d \in OnWay
          BY DEF OnWay
        <4>2. \A d \in OnWay : d \in Candles /\ d.seq >= 1
          BY <1>3, OnWayType DEF FlowKnown
        <4>3. QED
          BY <4>1, <4>2, NoneAhead
      <3>5. Order(pubs, mailbox, Append(outbound, c), pending', missed)
        BY <2>5, <3>3, <3>4, OrderHold
      <3>6. QED
        BY <1>2, <1>7, <3>5 DEF FlowOrder
    <2>7. FlowKnown'
      BY <1>1, <1>2, <1>3, <2>1, FlowKnownFrame
    <2>8. HeldKnown'
      <3>1. \A x : Bounded(x) => Bounded(x)'
        BY <1>2, <1>3, EngineFrame
      <3>2. Bounded(None)
        BY <1>3, NoneBounded DEF IInv
      <3>3. QED
        BY <1>3, <2>5, <3>1, <3>2, NoneFacts DEF HeldKnown
    <2>9. FlowOK'
      BY <2>4, <2>6, <2>7, <2>8 DEF FlowOK
    <2>10. Current'
      <3>1. active' = active /\ chart' = chart
        BY <1>2 DEF engineVars, marketVars, appVars
      <3> SUFFICES ASSUME NEW iv \in Intervals, iv \notin behind
                   PROVE  \/ active[iv] \in OnWay'
                          \/ pending'[iv] = active[iv]
                          \/ chart # <<>> /\ Last(chart) = active[iv]
        BY <1>2, <3>1 DEF Current
      <3>2. pending[iv] = active[iv] => pending'[iv] = active[iv] \/ active[iv] = c
        BY <1>1, <2>5
      <3>3. QED
        BY <1>3, <2>1, <3>2 DEF Current
    <2>11. QED
      BY <1>2, <1>4, <2>1, <2>9, <2>10, FlowStep
  <1>8. QED
    BY <1>2, <1>6, <1>7

LEMMA TailLast ==
    ASSUME NEW S, NEW s \in Seq(S), s # <<>>
    PROVE  /\ Tail(s) \in Seq(S)
           /\ Tail(s) = <<>> => Head(s) = Last(s)
           /\ Tail(s) # <<>> => Last(Tail(s)) = Last(s) /\ Len(s) # 1
  <1>1. /\ Tail(s) \in Seq(S) /\ Len(Tail(s)) = Len(s) - 1 /\ Len(s) \in Nat \ {0}
        /\ \A i \in 1..Len(Tail(s)) : Tail(s)[i] = s[i + 1]
        /\ Head(s) = s[1]
    OBVIOUS
  <1>2. CASE Tail(s) = <<>>
    <2>0. Len(<<>>) = 0
      OBVIOUS
    <2>a. Len(Tail(s)) = 0
      BY <1>2, <2>0, Zenon
    <2>b. \A k \in Nat : k - 1 = 0 => k = 1
      OBVIOUS
    <2>c. Len(s) \in Nat /\ Len(s) - 1 = 0
      BY <1>1, <2>a, Zenon
    <2>1. Len(s) = 1
      BY <2>b, <2>c, Zenon
    <2>2. QED
      BY <1>1, <1>2, <2>1 DEF Last
  <1>3. CASE Tail(s) # <<>>
    <2>1. Len(Tail(s)) # 0 /\ Len(Tail(s)) \in Nat
      BY <1>1, <1>3
    <2>2. Len(Tail(s)) \in 1..Len(Tail(s)) /\ Len(Tail(s)) + 1 = Len(s) /\ Len(s) # 1
      BY <1>1, <2>1
    <2>3. Tail(s)[Len(Tail(s))] = s[Len(s)]
      BY <1>1, <2>2
    <2>4. QED
      BY <1>1, <1>3, <2>2, <2>3 DEF Last
  <1>4. QED
    BY <1>1, <1>2, <1>3

LEMMA SubscribeOK ==
    ASSUME IInv, Subscribe PROVE StepOK
  <1>1. PICK v : v = Head(told)
    OBVIOUS
  <1>2. /\ told # <<>> /\ told' = Tail(told) /\ interval' = v
        /\ missed' = missed \cup {<<c.iv, c.start>> :
                     c \in {c \in Elems(mailbox) \cup Elems(pubs) : c.closed /\ c.iv = v}}
        /\ \/ /\ Len(outbound) < OutCap /\ outbound' = Append(outbound, active[v])
              /\ behind' = behind \ {v}
           \/ outbound' = outbound /\ behind' = behind
        /\ UNCHANGED <<engineVars, pubs, mailbox, pending, online, appVars>>
    BY <1>1 DEF Subscribe
  <1>3. /\ FlowType /\ MarksType /\ HeldKnown /\ FlowOrder /\ EngineOK /\ Current
        /\ FlowKnown /\ PubsNewest /\ outbound \in Seq(Candles) /\ told \in Seq(Intervals)
        /\ AppType /\ AppOK /\ ChartOK /\ chart \in Seq(Candles) /\ skipped \in BOOLEAN
        /\ HistoryOK
    BY DEF IInv, FlowOK, FlowType, AppOK, AppType
  <1>4. /\ Tail(told) \in Seq(Intervals) /\ v \in Intervals /\ told[1] = v
        /\ Len(Tail(told)) = Len(told) - 1
        /\ \A i \in 1..Len(Tail(told)) : Tail(told)[i] = told[i + 1]
    BY <1>1, <1>2, <1>3, ElemsTail
  <1>5. /\ active[v] \in Candles /\ ~active[v].closed /\ active[v].iv = v
        /\ active' = active /\ chart' = chart /\ selected' = selected /\ asks' = asks
        /\ guard' = guard /\ asked' = asked /\ skipped' = skipped /\ pending' = pending
        /\ ended' = ended /\ cache' = cache /\ spec' = spec /\ online' = online
    BY <1>2, <1>3, <1>4, ActiveFacts DEF engineVars, marketVars, appVars
  <1>6. missed \subseteq missed'
    BY <1>2
  <1>7. MarksType'
    <2>1. \A c \in Elems(mailbox) \cup Elems(pubs) : c \in Candles
      BY <1>3, OnWayType DEF OnWay
    <2>2. \A c \in Elems(mailbox) \cup Elems(pubs) : <<c.iv, c.start>> \in Intervals \X Nat
      BY <2>1, BucketType
    <2>3. QED
      BY <1>2, <1>3, <2>2 DEF MarksType
  <1>8. /\ Append(outbound, active[v]) \in Seq(Candles)
        /\ Elems(Append(outbound, active[v])) = Elems(outbound) \cup {active[v]}
    BY <1>3, <1>5, ElemsAppend
  <1>9. OnWay \subseteq OnWay' /\ OnWay' \subseteq OnWay \cup {active[v]}
    BY <1>2, <1>8 DEF OnWay
  <1>10. FlowType' /\ PubsNewest'
    <2>1. Len(outbound') <= OutCap
      BY <1>2, <1>3, <1>5, FeedAssumption DEF FeedAssumption, FlowType
    <2>2. outbound' \in Seq(Candles)
      BY <1>2, <1>3, <1>8
    <2>3. QED
      BY <1>2, <1>3, <1>4, <1>5, <2>1, <2>2 DEF FlowType, PubsNewest
  <1>11. FlowOrder'
    <2>1. Order(pubs, mailbox, outbound, pending, missed')
      BY <1>3, <1>6, OrderMono DEF FlowOrder
    <2>2. \A d \in Elems(outbound) : Fine(d, active[v], missed')
      BY <1>5 DEF Fine
    <2>3. \A d \in Elems(mailbox) \cup Elems(pubs) : Fine(active[v], d, missed')
      BY <1>2, <1>5 DEF Fine
    <2>4. Order(pubs, mailbox, Append(outbound, active[v]), pending, missed')
      BY <1>3, <1>5, <2>1, <2>2, <2>3, OrderSend
    <2>5. QED
      BY <1>2, <2>1, <2>4 DEF FlowOrder
  <1>12. FlowKnown'
    BY <1>2, <1>4, <1>9, FlowKnownFrame
  <1>13. HeldKnown' /\ EngineOK'
    BY <1>2, <1>3, EngineFrame DEF HeldKnown
  <1>14. Current'
    <2> SUFFICES ASSUME NEW iv \in Intervals, iv \notin behind'
                 PROVE  \/ active[iv] \in OnWay'
                        \/ pending[iv] = active[iv]
                        \/ chart # <<>> /\ Last(chart) = active[iv]
      BY <1>5 DEF Current
    <2>1. CASE iv \notin behind
      BY <1>3, <1>9, <2>1 DEF Current
    <2>2. CASE iv \in behind
      <3>1. iv = v /\ outbound' = Append(outbound, active[v])
        BY <1>2, <2>2
      <3>2. QED
        BY <1>8, <3>1 DEF OnWay
    <2>3. QED
      BY <2>1, <2>2
  <1>15. ChartOK' /\ Keeps
    BY <1>2, <1>3, <1>5, <1>6, <1>9, ChartFrame
  <1>16. AppType' /\ AsksKnown' /\ PagesKnown'
    <2>1. AppType'
      BY <1>2, <1>3, <1>4, <1>5 DEF AppType
    <2>2. AsksKnown'
      BY <1>3, <1>5 DEF AppOK, AsksKnown
    <2>3. PagesKnown'
      BY <1>3, <1>5 DEF AppOK, PagesKnown, PageOK, Bounded, Final
    <2>4. QED
      BY <2>1, <2>2, <2>3
  <1>17. Follows'
    <2> SUFFICES ASSUME ~skipped
                 PROVE  \/ WillSubscribe
                        \/ /\ spec = selected
                           /\ \/ told' # <<>> /\ Last(told') = selected
                              \/ told' = <<>> /\ v = selected
      BY <1>2, <1>5 DEF Follows, WillSubscribe
    <2>1. WillSubscribe \/ (spec = selected /\ Last(told) = selected)
      BY <1>2, <1>3 DEF AppOK, Follows
    <2>2. CASE spec = selected /\ Last(told) = selected
      BY <1>2, <1>3, <1>4, <2>2, TailLast
    <2>3. QED
      BY <2>1, <2>2
  <1>18. FlowOK' /\ AppOK' /\ skipped' \in BOOLEAN
    BY <1>3, <1>5, <1>7, <1>10, <1>11, <1>12, <1>13, <1>16, <1>17 DEF FlowOK, AppOK
  <1>19. HistoryOK'
    BY <1>2, <1>3, HistoryFrame
  <1>20. QED
    BY <1>13, <1>14, <1>15, <1>18, <1>19 DEF StepOK, IInv

--------------------------------------------------------------------------------
(* The steps of the app. *)

LEMMA AppChartFrame ==
    ASSUME EngineOK, AppOK, chart' \in Seq(Candles),
           UNCHANGED <<engineVars, selected, asks, guard, asked, cache, spec, skipped, told,
                       interval, online>>
    PROVE  AppOK'
  <1>1. ended' = ended /\ active' = active
    BY DEF engineVars, marketVars
  <1>2. AppType' /\ AsksKnown' /\ Follows'
    BY DEF AppOK, AppType, AsksKnown, Follows, WillSubscribe
  <1>3. PagesKnown'
    BY <1>1 DEF AppOK, PagesKnown, PageOK, Bounded, Final
  <1>4. QED
    BY <1>2, <1>3 DEF AppOK

\* What Forget does for a merge.
LEMMA ForgetFacts ==
    ASSUME MarksType, chart \in Seq(Candles), NEW iv, NEW I \in SUBSET (Intervals \X Nat),
           Forget(iv, I)
    PROVE  /\ missed \subseteq missed' /\ I \subseteq missed'
           /\ missed' \subseteq Intervals \X Nat
           /\ behind' = behind \cup (Intervals \ {iv})
           /\ \A c \in Elems(chart) : c.closed /\ c.iv # iv => <<c.iv, c.start>> \in missed'
  <1>1. \A c \in Elems(chart) : c \in Candles
    BY ElemsIn
  <1>2. \A c \in Elems(chart) : <<c.iv, c.start>> \in Intervals \X Nat
    BY <1>1, BucketType
  <1>3. QED
    BY <1>2 DEF MarksType, Forget

LEMMA MergingMarks ==
    ASSUME MarksType, NEW iv, NEW P, NEW L, Merging(iv, P, L) PROVE MarksType'
  BY DEF MarksType, Merging

LEMMA ReceiveOK ==
    ASSUME IInv, Receive PROVE StepOK
  <1>1. PICK c : c = Head(outbound)
    OBVIOUS
  <1>2. /\ outbound # <<>> /\ outbound' = Tail(outbound)
        /\ UNCHANGED <<engineVars, pubs, mailbox, interval, pending, online, selected, asks,
                       guard, asked, cache, spec, skipped, told>>
        /\ c.iv = selected =>
              /\ chart' = Merge(SeriesFor(c.iv), c)
              /\ Forget(c.iv, IF c.closed /\ TooOld(SeriesFor(c.iv), c)
                              THEN {<<c.iv, c.start>>} ELSE {})
        /\ c.iv # selected =>
              /\ missed' = IF c.closed THEN missed \cup {<<c.iv, c.start>>} ELSE missed
              /\ behind' = behind \cup {c.iv}
              /\ chart' = chart
    BY <1>1 DEF Receive, sessionVars
  <1>3. /\ FlowType /\ MarksType /\ HeldKnown /\ FlowOrder /\ EngineOK /\ Current
        /\ FlowKnown /\ PubsNewest /\ outbound \in Seq(Candles) /\ Len(outbound) <= OutCap
        /\ AppOK /\ ChartOK /\ chart \in Seq(Candles) /\ skipped \in BOOLEAN /\ HistoryOK
    BY DEF IInv, FlowOK, FlowType, AppOK, AppType
  <1>4. /\ Tail(outbound) \in Seq(Candles) /\ c \in Candles
        /\ Elems(outbound) = {c} \cup Elems(Tail(outbound))
        /\ Len(Tail(outbound)) = Len(outbound) - 1
    BY <1>1, <1>2, <1>3, ElemsTail
  <1>5. /\ Order(pubs, mailbox, Tail(outbound), pending, missed)
        /\ \A d \in Elems(Tail(outbound)) \cup Elems(mailbox) \cup Elems(pubs) :
              Fine(c, d, missed)
    BY <1>1, <1>2, <1>3, OrderReceive DEF FlowOrder
  <1>6. OnWay' = Elems(Tail(outbound)) \cup Elems(mailbox) \cup Elems(pubs)
    BY <1>2 DEF OnWay
  <1>7. OnWay' \subseteq OnWay /\ OnWay \subseteq OnWay' \cup {c} /\ c \in OnWay
    BY <1>4, <1>6 DEF OnWay
  <1>8. FlowType' /\ PubsNewest'
    <2>1. Len(outbound') <= OutCap
      BY <1>2, <1>3, <1>4, FeedAssumption DEF FeedAssumption
    <2>2. QED
      BY <1>2, <1>3, <1>4, <2>1 DEF FlowType, PubsNewest, engineVars, marketVars
  <1>9. FlowKnown'
    BY <1>2, <1>7, FlowKnownFrame
  <1>10. HeldKnown' /\ EngineOK'
    BY <1>2, <1>3, EngineFrame DEF HeldKnown
  <1>11. c.iv \in Intervals /\ <<c.iv, c.start>> \in Intervals \X Nat
    BY <1>4, BucketType
  <1>12. CASE c.iv # selected
    <2>1. MarksType' /\ missed \subseteq missed'
      BY <1>2, <1>3, <1>11, <1>12 DEF MarksType
    <2>2. FlowOrder'
      BY <1>2, <1>5, <2>1, OrderMono DEF FlowOrder
    <2>3. FlowOK'
      BY <1>8, <1>9, <1>10, <2>1, <2>2 DEF FlowOK
    <2>4. Current'
      <3>1. active' = active /\ chart' = chart /\ pending' = pending
        BY <1>2, <1>12 DEF engineVars, marketVars
      <3> SUFFICES ASSUME NEW iv \in Intervals, iv \notin behind'
                   PROVE  \/ active[iv] \in OnWay'
                          \/ pending[iv] = active[iv]
                          \/ chart # <<>> /\ Last(chart) = active[iv]
        BY <3>1 DEF Current
      <3>2. iv \notin behind /\ iv # c.iv /\ active[iv].iv = iv
        BY <1>2, <1>3, <1>12, ActiveFacts
      <3>3. active[iv] # c
        BY <3>2
      <3>4. QED
        BY <1>3, <1>7, <3>2, <3>3 DEF Current
    <2>5. \A x \in OnWay : x.closed => x \in OnWay' \/ <<x.iv, x.start>> \in missed'
      BY <1>2, <1>7, <1>12
    <2>6. UNCHANGED <<engineVars, appVars, told, interval, online>>
      BY <1>2, <1>12 DEF appVars
    <2>7. QED
      BY <1>7, <2>1, <2>3, <2>4, <2>5, <2>6, FlowStep
  <1>13. CASE c.iv = selected
    <2>1. Before
      BY <1>3 DEF Before
    <2>2. Merging(c.iv, {c}, {c})
      <3>1. /\ SeriesFor(c.iv) \in Seq(Candles) /\ Ascending(SeriesFor(c.iv))
            /\ Elems(SeriesFor(c.iv)) = {x \in Elems(chart) : x.iv = c.iv}
        <4>1. Ascending(chart)
          BY <1>3 DEF ChartOK, ChartOrdered, Ascending
        <4>2. QED
          BY <1>3, <4>1, SeriesForFacts
      <3>2. \A x \in Elems(SeriesFor(c.iv)) : x.iv = c.iv
        BY <3>1
      <3>3. Updates(SeriesFor(c.iv), {c}, {c}, chart')
        BY <1>2, <1>4, <1>13, <3>1, <3>2, MergeUpdates
      <3>4. Bounded(c) /\ Final(c)
        BY <1>3, <1>7 DEF FlowKnown
      <3>5. \A e \in OnWay' : Fine(c, e, missed)
        BY <1>5, <1>6
      <3>6. PICK I : I = IF c.closed /\ TooOld(SeriesFor(c.iv), c)
                         THEN {<<c.iv, c.start>>} ELSE {}
        OBVIOUS
      <3>7. /\ missed \subseteq missed' /\ I \subseteq missed'
            /\ missed' \subseteq Intervals \X Nat
            /\ behind' = behind \cup (Intervals \ {c.iv})
            /\ \A d \in Elems(chart) : d.closed /\ d.iv # c.iv => <<d.iv, d.start>> \in missed'
        <4>1. I \in SUBSET (Intervals \X Nat)
          BY <1>11, <3>6
        <4>2. Forget(c.iv, I)
          BY <1>2, <1>13, <3>6
        <4>3. QED
          BY <1>3, <4>1, <4>2, ForgetFacts
      <3>8. ASSUME c.closed
            PROVE  \/ <<c.iv, c.start>> \in missed'
                   \/ \E y \in Elems(chart') : Same(y, c) /\ y.closed
        <4>1. CASE /\ SeriesFor(c.iv) # <<>>
                   /\ \A x \in Elems(SeriesFor(c.iv)) : c.start < x.start
          <5>1. SeriesFor(c.iv)[1] \in Elems(SeriesFor(c.iv))
            BY <3>1, <4>1 DEF Elems
          <5>2. TooOld(SeriesFor(c.iv), c)
            BY <4>1, <5>1 DEF TooOld
          <5>3. QED
            BY <3>6, <3>7, <3>8, <5>2
        <4>2. QED
          BY <3>3, <3>8, <4>1 DEF Updates
      <3>9. QED
        BY <1>2, <1>4, <1>7, <1>11, <3>3, <3>4, <3>5, <3>7, <3>8 DEF Merging
    <2>3. ChartOK' /\ chart' \in Seq(Candles) /\ Keeps
      BY <2>1, <2>2, MergingChart
    <2>4. Current'
      BY <1>2, <1>3, <2>1, <2>2, MergingCurrent
    <2>5. MarksType'
      BY <1>3, <2>2, MergingMarks
    <2>6. FlowOrder'
      <3>1. missed \subseteq missed'
        BY <2>1, <2>2, MergingAccounts
      <3>2. QED
        BY <1>2, <1>5, <3>1, OrderMono DEF FlowOrder
    <2>7. FlowOK'
      BY <1>8, <1>9, <1>10, <2>5, <2>6 DEF FlowOK
    <2>8. AppOK'
      BY <1>2, <1>3, <2>3, AppChartFrame
    <2>9. HistoryOK'
      BY <1>2, <1>3, HistoryFrame
    <2>10. QED
      BY <1>2, <1>3, <1>10, <2>3, <2>4, <2>7, <2>8, <2>9 DEF StepOK, IInv
  <1>14. QED
    BY <1>12, <1>13

\* A step that moves no candle.
LEMMA StillFrame ==
    ASSUME IInv, UNCHANGED <<engineVars, pubs, mailbox, pending, outbound, chart, missed,
                             behind>>,
           interval' \in Intervals, online' \in BOOLEAN
    PROVE  EngineOK' /\ HistoryOK' /\ FlowOK' /\ ChartOK' /\ Current' /\ Keeps
  <1>1. /\ FlowType /\ MarksType /\ HeldKnown /\ FlowOrder /\ EngineOK /\ Current
        /\ FlowKnown /\ PubsNewest /\ ChartOK /\ chart \in Seq(Candles) /\ HistoryOK
    BY DEF IInv, FlowOK, AppOK, AppType
  <1>2. /\ active' = active /\ ended' = ended /\ UNCHANGED engineVars
    BY DEF engineVars, marketVars
  <1>3. OnWay' = OnWay
    BY DEF OnWay
  <1>4. EngineOK' /\ HeldKnown' /\ HistoryOK'
    BY <1>1, <1>2, EngineFrame, HistoryFrame DEF HeldKnown
  <1>5. FlowType' /\ MarksType' /\ PubsNewest' /\ FlowOrder'
    BY <1>1, <1>2 DEF FlowType, MarksType, PubsNewest, FlowOrder
  <1>6. FlowKnown'
    BY <1>2, <1>3, FlowKnownFrame
  <1>7. ChartOK' /\ Keeps
    BY <1>1, <1>2, <1>3, ChartFrame
  <1>8. Current'
    BY <1>1, <1>2, <1>3 DEF Current
  <1>9. QED
    BY <1>4, <1>5, <1>6, <1>7, <1>8 DEF FlowOK

LEMMA StillSession ==
    ASSUME IInv, UNCHANGED sessionVars
    PROVE  interval' \in Intervals /\ online' \in BOOLEAN /\ pending' = pending
           /\ interval' = interval /\ online' = online
  BY DEF IInv, FlowOK, FlowType, sessionVars

LEMMA DropSubscribeOK ==
    ASSUME IInv, DropSubscribe PROVE StepOK
  <1>1. /\ told # <<>> /\ told' = Tail(told)
        /\ skipped' = (skipped \/ (Len(told) = 1 /\ ~WillSubscribe))
        /\ UNCHANGED <<engineVars, pubs, mailbox, sessionVars, outbound, selected, chart, asks,
                       guard, asked, cache, spec, missed, behind>>
    BY DEF DropSubscribe
  <1>2. AppType /\ AsksKnown /\ PagesKnown /\ Follows /\ skipped \in BOOLEAN
        /\ told \in Seq(Intervals)
    BY DEF IInv, AppOK, AppType
  <1>3. interval' \in Intervals /\ online' \in BOOLEAN /\ pending' = pending
        /\ active' = active /\ ended' = ended
    BY <1>1, StillSession DEF engineVars, marketVars
  <1>4. EngineOK' /\ HistoryOK' /\ FlowOK' /\ ChartOK' /\ Current' /\ Keeps
    BY <1>1, <1>3, StillFrame
  <1>5. Tail(told) \in Seq(Intervals) /\ (Tail(told) = <<>> => Len(told) = 1)
        /\ (Tail(told) # <<>> => Last(Tail(told)) = Last(told))
    <2>1. Len(Tail(told)) = Len(told) - 1 /\ Len(told) \in Nat \ {0}
      BY <1>1, <1>2
    <2>2. Tail(told) = <<>> => Len(told) = 1
      BY <2>1
    <2>3. QED
      BY <1>1, <1>2, <2>2, TailLast
  <1>6. skipped' \in BOOLEAN
    BY <1>1, <1>2, Zenon
  <1>7. ~skipped' => ~skipped /\ (Len(told) # 1 \/ WillSubscribe)
    BY <1>1, Zenon
  <1>8. WillSubscribe' <=> WillSubscribe
    BY <1>1 DEF WillSubscribe
  <1>9. Follows'
    BY <1>1, <1>2, <1>5, <1>7, <1>8 DEF Follows
  <1>10. AppType' /\ AsksKnown'
    BY <1>1, <1>2, <1>5 DEF AppType, AsksKnown
  <1>11. PagesKnown'
    BY <1>1, <1>2, <1>3 DEF PagesKnown, PageOK, Bounded, Final
  <1>12. QED
    BY <1>4, <1>6, <1>9, <1>10, <1>11 DEF StepOK, IInv, AppOK

LEMMA ConnectOK ==
    ASSUME IInv, Connect PROVE StepOK
  <1>1. /\ online' = TRUE /\ interval' = "m" /\ told' = <<spec>>
        /\ UNCHANGED <<engineVars, pubs, mailbox, pending, outbound, appVars, missed, behind>>
    BY DEF Connect
  <1>2. AppType /\ AsksKnown /\ PagesKnown /\ Follows /\ skipped \in BOOLEAN
        /\ spec \in Intervals
    BY DEF IInv, AppOK, AppType
  <1>3. /\ selected' = selected /\ chart' = chart /\ asks' = asks /\ guard' = guard
        /\ asked' = asked /\ skipped' = skipped /\ cache' = cache /\ spec' = spec
        /\ active' = active /\ ended' = ended
    BY <1>1 DEF appVars, engineVars, marketVars
  <1>4. interval' \in Intervals /\ online' \in BOOLEAN
    BY <1>1 DEF Intervals
  <1>5. EngineOK' /\ HistoryOK' /\ FlowOK' /\ ChartOK' /\ Current' /\ Keeps
    BY <1>1, <1>3, <1>4, StillFrame
  <1>6. told' \in Seq(Intervals) /\ told' # <<>> /\ Last(told') = spec
    BY <1>1, <1>2 DEF Last
  <1>7. Follows'
    BY <1>2, <1>3, <1>6 DEF Follows, WillSubscribe
  <1>8. AppType' /\ AsksKnown'
    BY <1>2, <1>3, <1>6 DEF AppType, AsksKnown
  <1>9. PagesKnown'
    BY <1>2, <1>3 DEF PagesKnown, PageOK, Bounded, Final
  <1>10. QED
    BY <1>2, <1>3, <1>5, <1>7, <1>8, <1>9 DEF StepOK, IInv, AppOK

LEMMA DisconnectOK ==
    ASSUME IInv, Disconnect PROVE StepOK
  <1> DEFINE lost == Elems(mailbox) \cup Elems(outbound)
  <1>1. /\ online' = FALSE /\ mailbox' = <<>> /\ outbound' = <<>> /\ told' = <<>>
        /\ pending' = [iv \in Intervals |-> None]
        /\ missed' = missed \cup {<<c.iv, c.start>> : c \in {c \in lost : c.closed}}
        /\ behind' = behind \cup {c.iv : c \in {c \in lost : ~c.closed}}
                            \cup {iv \in Intervals : pending[iv] # None}
        /\ UNCHANGED <<engineVars, pubs, interval, appVars>>
    BY DEF Disconnect
  <1>2. /\ FlowType /\ MarksType /\ HeldKnown /\ FlowOrder /\ EngineOK /\ Current
        /\ FlowKnown /\ PubsNewest /\ ChartOK /\ chart \in Seq(Candles) /\ HistoryOK
        /\ AppType /\ AsksKnown /\ PagesKnown /\ Follows /\ skipped \in BOOLEAN
    BY DEF IInv, FlowOK, AppOK, AppType
  <1>3. /\ selected' = selected /\ chart' = chart /\ asks' = asks /\ guard' = guard
        /\ asked' = asked /\ skipped' = skipped /\ cache' = cache /\ spec' = spec
        /\ active' = active /\ ended' = ended
    BY <1>1 DEF appVars, engineVars, marketVars
  <1>4. \A c \in lost : c \in OnWay /\ c \in Candles
    BY <1>2, OnWayType DEF OnWay
  <1>5. OnWay' = Elems(pubs) /\ OnWay = Elems(pubs) \cup lost
        /\ Elems(mailbox') = {} /\ Elems(outbound') = {}
    BY <1>1, ElemsEmpty DEF OnWay
  <1>6. pending' \in [Intervals -> Candles] /\ \A iv \in Intervals : pending'[iv] = None
    BY <1>1, NoneFacts
  <1>7. FlowType' /\ PubsNewest'
    <2>1. Len(<<>>) <= Cap /\ Len(<<>>) <= OutCap /\ <<>> \in Seq(Candles)
      BY FeedAssumption DEF FeedAssumption
    <2>2. QED
      BY <1>1, <1>2, <1>3, <1>6, <2>1 DEF FlowType, PubsNewest
  <1>8. MarksType' /\ missed \subseteq missed'
    <2>1. \A c \in lost : <<c.iv, c.start>> \in Intervals \X Nat /\ c.iv \in Intervals
      BY <1>4, BucketType
    <2>2. QED
      BY <1>1, <1>2, <2>1 DEF MarksType
  <1>9. FlowOrder'
    <2>1. InOrder(<<>>, missed') /\ InTurn(<<>>, missed')
      BY DEF InOrder, InTurn
    <2>2. InTurn(pubs, missed')
      BY <1>2, <1>8 DEF FlowOrder, Order, InTurn, Ahead, Fine
    <2>3. \A d \in Elems(pubs) : Ahead(None, d, missed')
      BY <1>2, OnWayType, NoneAhead DEF FlowKnown, OnWay
    <2>4. QED
      BY <1>1, <1>5, <1>6, <2>1, <2>2, <2>3 DEF FlowOrder, Order
  <1>10. FlowKnown'
    BY <1>1, <1>5, FlowKnownFrame
  <1>11. HeldKnown'
    BY <1>1, <1>2, <1>6, EngineFrame, NoneBounded, NoneFacts DEF HeldKnown
  <1>12. FlowOK'
    BY <1>7, <1>8, <1>9, <1>10, <1>11 DEF FlowOK
  <1>13. Current'
    <2> SUFFICES ASSUME NEW iv \in Intervals, iv \notin behind'
                 PROVE  \/ active[iv] \in Elems(pubs)
                        \/ chart # <<>> /\ Last(chart) = active[iv]
      BY <1>3, <1>5 DEF Current
    <2>1. iv \notin behind /\ pending[iv] = None /\ active[iv] # None
          /\ ~active[iv].closed /\ active[iv].iv = iv
      BY <1>1, <1>2, ActiveFacts
    <2>2. active[iv] \notin lost
      BY <1>1, <2>1
    <2>3. QED
      BY <1>2, <1>5, <2>1, <2>2 DEF Current
  <1>14. \A x \in OnWay : x.closed => x \in OnWay' \/ <<x.iv, x.start>> \in missed'
    BY <1>1, <1>5
  <1>15. ChartOK' /\ Keeps
    BY <1>1, <1>2, <1>3, <1>8, <1>14, ChartFrame
  <1>16. EngineOK' /\ HistoryOK'
    BY <1>1, <1>2, EngineFrame, HistoryFrame
  <1>17. Follows'
    BY <1>1, <1>2, <1>3 DEF Follows, WillSubscribe
  <1>18. AppType' /\ AsksKnown'
    BY <1>1, <1>2, <1>3 DEF AppType, AsksKnown
  <1>19. PagesKnown'
    BY <1>2, <1>3 DEF PagesKnown, PageOK, Bounded, Final
  <1>20. QED
    BY <1>2, <1>3, <1>12, <1>13, <1>15, <1>16, <1>17, <1>18, <1>19
    DEF StepOK, IInv, AppOK

--------------------------------------------------------------------------------
(* The loads of the app. *)

LEMMA AskFacts ==
    ASSUME AppType, NEW a \in asks
    PROVE  a \in Asks /\ a.id \in 1..MaxAsks /\ a.iv \in Intervals /\ a.sub \in BOOLEAN
           /\ a.page \in Seq(Candles) /\ a.net \in BOOLEAN
  BY DEF AppType, Asks

LEMMA EmptyPage == Ascending(<<>>) /\ Elems(<<>>) = {}
  BY ElemsEmpty DEF Ascending

\* A load begins.
LEMMA BeginOK ==
    ASSUME IInv, NEW iv \in Intervals, NEW sub \in BOOLEAN, Begin(iv, sub),
           selected' = iv, skipped' \in BOOLEAN, Follows'
    PROVE  StepOK
  <1>1. PICK b : b = [id |-> asked + 1, iv |-> iv, sub |-> sub, page |-> <<>>,
                      net |-> FALSE]
    OBVIOUS
  <1>2. /\ asked < MaxAsks /\ asked' = asked + 1
        /\ guard' = [id |-> asked + 1, iv |-> iv] /\ asks' = asks \cup {b}
        /\ UNCHANGED <<engineVars, pubs, mailbox, sessionVars, outbound, chart, cache, spec,
                       told, missed, behind>>
    BY <1>1 DEF Begin
  <1>3. AppType /\ AsksKnown /\ PagesKnown /\ EngineOK
    BY DEF IInv, AppOK
  <1>4. asked \in Nat /\ MaxAsks \in Nat /\ asked + 1 \in 1..MaxAsks
    BY <1>2, <1>3, FeedAssumption DEF FeedAssumption, AppType
  <1>5. b \in Asks /\ b.id = asked + 1 /\ b.iv = iv /\ b.page = <<>>
    BY <1>1, <1>4 DEF Asks
  <1>6. AppType'
    BY <1>2, <1>3, <1>4, <1>5 DEF AppType
  <1>7. AsksKnown'
    <2>1. \A a \in asks : a.id <= asked /\ a.id \in Nat
      BY <1>3, AskFacts DEF AsksKnown
    <2>2. \A a \in asks : a.id # asked + 1 /\ a.id <= asked + 1
      BY <1>4, <2>1
    <2>3. \A a \in asks' : a.id <= asked'
      BY <1>2, <1>4, <1>5, <2>2
    <2>4. \A a, d \in asks' : a.id = d.id => a = d
      BY <1>2, <1>3, <1>5, <2>2 DEF AsksKnown
    <2>5. guard'.id <= asked' /\ (guard'.id # 0 => guard'.iv = selected')
      BY <1>2, <1>4
    <2>6. \A a \in asks' : a.id = guard'.id => a.iv = guard'.iv
      BY <1>2, <1>5, <2>2
    <2>7. QED
      BY <2>3, <2>4, <2>5, <2>6 DEF AsksKnown
  <1>8. PagesKnown'
    <2>1. ended' = ended /\ active' = active
      BY <1>2 DEF engineVars, marketVars
    <2>2. QED
      BY <1>2, <1>3, <1>5, <2>1, EmptyPage DEF PagesKnown, PageOK, Bounded, Final
  <1>9. EngineOK' /\ HistoryOK' /\ FlowOK' /\ ChartOK' /\ Current' /\ Keeps
    BY <1>2, StillFrame, StillSession
  <1>10. QED
    BY <1>6, <1>7, <1>8, <1>9 DEF StepOK, IInv, AppOK

LEMMA SelectIntervalOK ==
    ASSUME IInv, SelectInterval PROVE StepOK
  <1>1. PICK iv \in Intervals : Begin(iv, TRUE) /\ selected' = iv
    BY DEF SelectInterval
  <1>2. skipped' = FALSE
    BY DEF SelectInterval
  <1>3. Follows'
    <2>1. PICK b : b = [id |-> asked + 1, iv |-> iv, sub |-> TRUE, page |-> <<>>,
                        net |-> FALSE]
      OBVIOUS
    <2>2. guard'.id = asked + 1 /\ b \in asks'
      BY <1>1, <2>1 DEF Begin
    <2>3. b.sub /\ b.id = guard'.id
      BY <2>1, <2>2
    <2>4. QED
      BY <2>2, <2>3 DEF Follows, WillSubscribe
  <1>4. QED
    BY <1>1, <1>2, <1>3, BeginOK

LEMMA RefreshOK ==
    ASSUME IInv, Refresh PROVE StepOK
  <1>1. /\ Begin(selected, FALSE) /\ selected' = selected
        /\ skipped' = (skipped \/ WillSubscribe)
    BY DEF Refresh
  <1>2. selected \in Intervals /\ Follows /\ skipped \in BOOLEAN
    BY DEF IInv, AppOK, AppType
  <1>3. skipped' \in BOOLEAN
    BY <1>1, <1>2, Zenon
  <1>4. told' = told /\ interval' = interval /\ online' = online /\ spec' = spec
    BY <1>1 DEF Begin, sessionVars
  <1>5. ASSUME ~skipped' PROVE ~skipped /\ ~WillSubscribe
    BY <1>1, <1>5, Zenon
  <1>6. Follows'
    BY <1>1, <1>2, <1>4, <1>5 DEF Follows
  <1>7. QED
    BY <1>1, <1>2, <1>3, <1>6, BeginOK

\* A page that the history endpoint reads.
LEMMA ServedPage ==
    ASSUME EngineOK, HistoryOK, NEW iv \in Intervals
    PROVE  /\ Append(history[iv], active[iv]) \in Seq(Candles)
           /\ PageOK(iv, Append(history[iv], active[iv]))
  <1>1. PICK h : h = history[iv]
    OBVIOUS
  <1>2. PICK c : c = active[iv]
    OBVIOUS
  <1>3. h \in Seq(Candles) /\ Ascending(h)
    BY <1>1 DEF HistoryOK
  <1>4. /\ c \in Candles /\ c.iv = iv /\ Bounded(c) /\ Final(c)
    BY <1>2, ActiveFacts
  <1>5. \A d \in Elems(h) : d \in Candles /\ d.iv = iv /\ d.closed /\ d.start < c.start
                            /\ d \in Elems(ended[d.iv])
    <2>1. \A d \in Elems(h) : d \in Elems(ended[iv])
      BY <1>1 DEF HistoryOK
    <2>2. QED
      BY <1>2, <2>1, HistoryFacts
  <1>6. /\ Append(h, c) \in Seq(Candles) /\ Elems(Append(h, c)) = Elems(h) \cup {c}
        /\ Ascending(Append(h, c))
    BY <1>3, <1>4, <1>5, ElemsAppend, AscendingAppend
  <1>7. \A d \in Elems(h) : d.seq \in Nat
    BY <1>5 DEF Candles
  <1>8. \A d \in Elems(h) : Bounded(d) /\ Final(d)
    BY <1>5, <1>7 DEF Bounded, Final
  <1>9. PageOK(iv, Append(h, c))
    BY <1>4, <1>5, <1>6, <1>8 DEF PageOK
  <1>10. QED
    BY <1>1, <1>2, <1>6, <1>9

\* A load gets a page of candles the engine had.
LEMMA LoadOK ==
    ASSUME IInv, NEW a \in asks, NEW p \in Seq(Candles), NEW net \in BOOLEAN,
           PageOK(a.iv, p), Load(a, p, net)
    PROVE  StepOK
  <1>1. asks' = (asks \ {a}) \cup {[a EXCEPT !.page = p, !.net = net]}
    BY DEF Load
  <1>2. UNCHANGED <<engineVars, pubs, mailbox, sessionVars, outbound, selected, chart,
                    guard, asked, cache, spec, skipped, told, missed, behind>>
    BY DEF Load
  <1>3. AppType /\ AsksKnown /\ PagesKnown /\ Follows /\ EngineOK /\ skipped \in BOOLEAN
    BY DEF IInv, AppOK
  <1>4. a \in Asks
    BY <1>3, AskFacts
  <1>5. PICK b : b = [a EXCEPT !.page = p, !.net = net]
    OBVIOUS
  <1>6. /\ b \in Asks /\ b.id = a.id /\ b.iv = a.iv /\ b.sub = a.sub /\ b.page = p
    BY <1>4, <1>5 DEF Asks
  <1>7. asks' = (asks \ {a}) \cup {b}
    BY <1>1, <1>5
  <1>8. AppType'
    BY <1>2, <1>3, <1>6, <1>7 DEF AppType
  <1>9. AsksKnown'
    BY <1>2, <1>3, <1>6, <1>7 DEF AsksKnown
  <1>10. ended' = ended /\ active' = active /\ interval' = interval /\ online' = online
    BY <1>2 DEF engineVars, marketVars, sessionVars
  <1>11. PagesKnown'
    <2>1. PageOK(b.iv, b.page)
      BY <1>6
    <2>2. \A d \in asks' : PageOK(d.iv, d.page)
      BY <1>3, <1>7, <2>1 DEF PagesKnown
    <2>3. \A iv \in Intervals : PageOK(iv, cache[iv])
      BY <1>3 DEF PagesKnown
    <2>4. QED
      BY <1>2, <1>10, <2>2, <2>3 DEF PagesKnown, PageOK, Bounded, Final
  <1>12. WillSubscribe => WillSubscribe'
    BY <1>2, <1>6, <1>7 DEF WillSubscribe
  <1>13. Follows'
    BY <1>2, <1>3, <1>10, <1>12 DEF Follows
  <1>14. EngineOK' /\ HistoryOK' /\ FlowOK' /\ ChartOK' /\ Current' /\ Keeps
    BY <1>2, StillFrame, StillSession
  <1>15. QED
    BY <1>2, <1>3, <1>8, <1>9, <1>11, <1>13, <1>14 DEF StepOK, IInv, AppOK

LEMMA ServeOK ==
    ASSUME IInv, Serve PROVE StepOK
  <1>1. PICK a \in asks : Load(a, Append(history[a.iv], active[a.iv]), TRUE)
    BY DEF Serve
  <1>2. EngineOK /\ HistoryOK /\ a.iv \in Intervals
    BY AskFacts DEF IInv, AppOK
  <1>3. /\ Append(history[a.iv], active[a.iv]) \in Seq(Candles)
        /\ PageOK(a.iv, Append(history[a.iv], active[a.iv]))
    BY <1>2, ServedPage
  <1>4. QED
    BY <1>1, <1>3, LoadOK

LEMMA ServeCachedOK ==
    ASSUME IInv, ServeCached PROVE StepOK
  <1>1. PICK a \in asks : Load(a, cache[a.iv], FALSE)
    BY DEF ServeCached
  <1>2. a.iv \in Intervals /\ AppType /\ PagesKnown
    BY AskFacts DEF IInv, AppOK
  <1>3. cache[a.iv] \in Seq(Candles) /\ PageOK(a.iv, cache[a.iv])
    BY <1>2 DEF AppType, PagesKnown
  <1>4. QED
    BY <1>1, <1>3, LoadOK

\* The page of a load is merged into the chart.
LEMMA PageMerging ==
    ASSUME IInv, NEW a \in asks, a.page # <<>>, UNCHANGED engineVars, OnWay' = OnWay,
           chart' = MergeHistory(SeriesFor(a.iv), a.page), Forget(a.iv, {})
    PROVE  Before /\ Merging(a.iv, Elems(a.page), {})
  <1>1. /\ AppType /\ PagesKnown /\ EngineOK /\ FlowType /\ FlowKnown /\ ChartOK
        /\ chart \in Seq(Candles) /\ MarksType
    BY DEF IInv, AppOK, AppType, FlowOK
  <1>2. a.iv \in Intervals /\ a.page \in Seq(Candles)
    BY <1>1, AskFacts
  <1>3. /\ Ascending(a.page)
        /\ \A x \in Elems(a.page) : x.iv = a.iv /\ Bounded(x) /\ Final(x)
    BY <1>1 DEF PagesKnown, PageOK
  <1>4. Ascending(chart)
    BY <1>1 DEF ChartOK, ChartOrdered, Ascending
  <1>5. /\ SeriesFor(a.iv) \in Seq(Candles) /\ Ascending(SeriesFor(a.iv))
        /\ Elems(SeriesFor(a.iv)) = {x \in Elems(chart) : x.iv = a.iv}
    BY <1>1, <1>4, SeriesForFacts
  <1>6. \A x \in Elems(SeriesFor(a.iv)) \cup Elems(a.page) : x.iv = a.iv
    BY <1>3, <1>5
  <1>7. /\ Updates(SeriesFor(a.iv), Elems(a.page), {}, chart')
        /\ \A c \in Elems(a.page) : c.closed =>
              \E y \in Elems(chart') : Same(y, c) /\ y.closed
    BY <1>2, <1>3, <1>5, <1>6, MergeHistoryUpdates
  <1>8. \A c \in Elems(a.page) : c \in Candles
    BY <1>2, ElemsIn
  <1>9. Before
    BY <1>1 DEF Before
  <1>10. /\ missed \subseteq missed' /\ missed' \subseteq Intervals \X Nat
         /\ behind' = behind \cup (Intervals \ {a.iv})
         /\ \A c \in Elems(chart) : c.closed /\ c.iv # a.iv => <<c.iv, c.start>> \in missed'
    BY <1>1, ForgetFacts
  <1>11. Merging(a.iv, Elems(a.page), {})
    BY <1>2, <1>3, <1>7, <1>8, <1>10 DEF Merging
  <1>12. QED
    BY <1>9, <1>11

LEMMA AnswerOK ==
    ASSUME IInv, Answer PROVE StepOK
  <1>1. PICK a \in asks :
          /\ asks' = asks \ {a}
          /\ \/ /\ a.page # <<>>
                /\ cache' = IF a.net THEN [cache EXCEPT ![a.iv] = a.page] ELSE cache
                /\ IF Accepts(a)
                   THEN /\ chart' = MergeHistory(SeriesFor(a.iv), a.page)
                        /\ Forget(a.iv, {})
                   ELSE UNCHANGED <<chart, missed, behind>>
             \/ UNCHANGED <<cache, chart, missed, behind>>
          /\ guard' = IF Accepts(a) THEN [id |-> 0, iv |-> "none"] ELSE guard
          /\ IF Accepts(a) /\ a.sub
             THEN /\ spec' = a.iv
                  /\ told' = IF online THEN Append(told, a.iv) ELSE <<>>
             ELSE UNCHANGED <<spec, told>>
    BY DEF Answer
  <1>2. UNCHANGED <<engineVars, pubs, mailbox, sessionVars, outbound, selected, asked,
                    skipped>>
    BY DEF Answer
  <1>3. /\ AppType /\ AsksKnown /\ PagesKnown /\ Follows /\ EngineOK /\ skipped \in BOOLEAN
        /\ FlowType /\ MarksType /\ HeldKnown /\ FlowOrder /\ Current /\ FlowKnown
        /\ PubsNewest /\ chart \in Seq(Candles) /\ told \in Seq(Intervals) /\ HistoryOK
    BY DEF IInv, AppOK, FlowOK, AppType
  <1>4. a \in Asks /\ a.iv \in Intervals /\ a.id \in 1..MaxAsks /\ a.sub \in BOOLEAN
        /\ a.page \in Seq(Candles)
    BY <1>3, AskFacts
  <1>5. /\ ended' = ended /\ active' = active /\ interval' = interval /\ online' = online
        /\ pending' = pending /\ OnWay' = OnWay
    BY <1>2 DEF engineVars, marketVars, sessionVars, OnWay
  <1>6. /\ EngineOK' /\ HistoryOK' /\ FlowOK' /\ ChartOK' /\ Current' /\ Keeps
        /\ chart' \in Seq(Candles)
    <2>1. CASE chart' = chart /\ missed' = missed /\ behind' = behind
      <3>1. EngineOK' /\ HistoryOK' /\ FlowOK' /\ ChartOK' /\ Current' /\ Keeps
        BY <1>2, <1>5, <2>1, StillFrame, StillSession
      <3>2. QED
        BY <1>3, <2>1, <3>1
    <2>2. CASE /\ a.page # <<>> /\ chart' = MergeHistory(SeriesFor(a.iv), a.page)
               /\ Forget(a.iv, {})
      <3>1. Before /\ Merging(a.iv, Elems(a.page), {})
        BY <1>2, <1>5, <2>2, PageMerging
      <3>2. ChartOK' /\ chart' \in Seq(Candles) /\ Keeps
        BY <3>1, MergingChart
      <3>3. Current'
        BY <1>3, <1>5, <3>1, MergingCurrent
      <3>4. MarksType'
        BY <1>3, <3>1, MergingMarks
      <3>5. FlowOrder'
        <4>1. missed \subseteq missed'
          BY <3>1, MergingAccounts
        <4>2. Order(pubs, mailbox, outbound, pending, missed')
          BY <1>3, <4>1, OrderMono DEF FlowOrder
        <4>3. QED
          BY <1>2, <1>5, <4>2 DEF FlowOrder
      <3>6. FlowKnown'
        BY <1>2, <1>5, FlowKnownFrame
      <3>7. HeldKnown' /\ EngineOK' /\ HistoryOK'
        BY <1>2, <1>3, <1>5, EngineFrame, HistoryFrame DEF HeldKnown
      <3>8. FlowType' /\ PubsNewest'
        BY <1>2, <1>3, <1>5 DEF FlowType, PubsNewest
      <3>9. QED
        BY <3>2, <3>3, <3>4, <3>5, <3>6, <3>7, <3>8 DEF FlowOK
    <2>3. QED
      BY <1>1, <2>1, <2>2
  <1>7. /\ Accepts(a) => guard' = [id |-> 0, iv |-> "none"]
        /\ ~Accepts(a) => guard' = guard
        /\ Accepts(a) /\ a.sub =>
              spec' = a.iv /\ told' = IF online THEN Append(told, a.iv) ELSE <<>>
        /\ ~(Accepts(a) /\ a.sub) => spec' = spec /\ told' = told
        /\ cache' = cache \/ cache' = [cache EXCEPT ![a.iv] = a.page]
    BY <1>1
  <1>8. AppType'
    <2>1. told' \in Seq(Intervals) /\ spec' \in Intervals
      <3>1. Append(told, a.iv) \in Seq(Intervals)
        BY <1>3, <1>4
      <3>2. told' = told \/ told' = Append(told, a.iv) \/ told' = <<>>
        BY <1>7
      <3>3. spec' = spec \/ spec' = a.iv
        BY <1>7
      <3>4. <<>> \in Seq(Intervals) /\ spec \in Intervals
        BY <1>3 DEF AppType
      <3>5. told' \in Seq(Intervals)
        BY <1>3, <3>1, <3>2, <3>4, Zenon
      <3>6. QED
        BY <1>4, <3>3, <3>4, <3>5
    <2>2. guard' \in [id : 0..MaxAsks, iv : Intervals \cup {"none"}]
      <3>1. 0 \in 0..MaxAsks
        BY FeedAssumption DEF FeedAssumption
      <3>2. QED
        BY <1>3, <1>7, <3>1 DEF AppType
    <2>3. cache' \in [Intervals -> Seq(Candles)]
      BY <1>3, <1>4, <1>7 DEF AppType
    <2>4. QED
      BY <1>1, <1>2, <1>3, <1>6, <2>1, <2>2, <2>3 DEF AppType
  <1>9. AsksKnown'
    <2>1. \A b \in asks : b.id # 0
      BY <1>3, AskFacts
    <2>2. CASE Accepts(a)
      <3>1. guard'.id = 0
        BY <1>7, <2>2
      <3>2. asked \in Nat
        BY <1>3 DEF AppType
      <3>3. QED
        BY <1>1, <1>2, <1>3, <2>1, <3>1, <3>2 DEF AsksKnown
    <2>3. CASE ~Accepts(a)
      BY <1>1, <1>2, <1>3, <1>7, <2>3 DEF AsksKnown
    <2>4. QED
      BY <2>2, <2>3
  <1>10. PagesKnown'
    <2>1. \A b \in asks' : PageOK(b.iv, b.page)
      BY <1>1, <1>3 DEF PagesKnown
    <2>2. PageOK(a.iv, a.page) /\ cache \in [Intervals -> Seq(Candles)]
      BY <1>3 DEF PagesKnown, AppType
    <2>3. \A iv \in Intervals : cache'[iv] = cache[iv] \/ (iv = a.iv /\ cache'[iv] = a.page)
      BY <1>7, <2>2
    <2>4. \A iv \in Intervals : PageOK(iv, cache'[iv])
      BY <1>3, <2>2, <2>3 DEF PagesKnown
    <2>5. QED
      BY <1>5, <2>1, <2>4 DEF PagesKnown, PageOK, Bounded, Final
  <1>11. Follows'
    <2> SUFFICES ASSUME ~skipped
                 PROVE  \/ \E b \in asks' : b.sub /\ b.id = guard'.id
                        \/ /\ spec' = selected
                           /\ \/ told' # <<>> /\ Last(told') = selected
                              \/ told' = <<>> /\ (online => interval = selected)
      BY <1>2, <1>5 DEF Follows, WillSubscribe
    <2>0. \/ \E b \in asks : b.sub /\ b.id = guard.id
          \/ /\ spec = selected
             /\ \/ told # <<>> /\ Last(told) = selected
                \/ told = <<>> /\ (online => interval = selected)
      BY <1>3 DEF Follows, WillSubscribe
    <2>1. a.id # 0
      BY <1>4
    <2>2. CASE ~Accepts(a)
      <3>1. a.id # guard.id
        BY <1>3, <2>1, <2>2 DEF Accepts, AsksKnown
      <3>2. guard' = guard /\ spec' = spec /\ told' = told
        BY <1>7, <2>2
      <3>3. QED
        BY <1>1, <2>0, <3>1, <3>2
    <2>3. CASE Accepts(a) /\ a.sub
      <3>1. a.iv = selected
        BY <1>3, <2>3 DEF Accepts, AsksKnown
      <3>2. spec' = selected
        BY <1>7, <2>3, <3>1
      <3>3. CASE online
        <4>1. told' = Append(told, selected)
          BY <1>7, <2>3, <3>1, <3>3
        <4>2. told' # <<>> /\ Last(told') = selected
          BY <1>3, <1>4, <3>1, <4>1 DEF Last
        <4>3. QED
          BY <3>2, <4>2
      <3>4. CASE ~online
        BY <1>7, <2>3, <3>2, <3>4
      <3>5. QED
        BY <3>3, <3>4
    <2>4. CASE Accepts(a) /\ ~a.sub
      <3>1. told' = told /\ spec' = spec /\ a.id = guard.id
        BY <1>7, <2>4 DEF Accepts
      <3>2. ~\E b \in asks : b.sub /\ b.id = guard.id
        BY <1>3, <2>4, <3>1 DEF AsksKnown
      <3>3. QED
        BY <2>0, <3>1, <3>2
    <2>5. QED
      BY <2>2, <2>3, <2>4
  <1>12. skipped' \in BOOLEAN
    BY <1>2, <1>3
  <1>13. QED
    BY <1>6, <1>8, <1>9, <1>10, <1>11, <1>12 DEF StepOK, IInv, AppOK

--------------------------------------------------------------------------------
(* The step of the engine. *)

LEMMA BucketStartFacts ==
    ASSUME NEW iv \in Intervals, NEW t \in Nat
    PROVE  /\ BucketStart(iv, t) \in Nat
           /\ BucketStart(iv, t) <= BucketStart(iv, t + 1)
  BY DEF BucketStart, Intervals

LEMMA SingleTurn ==
    ASSUME NEW x \in Candles
    PROVE  /\ <<x>> \in Seq(Candles) /\ Elems(<<x>>) = {x}
           /\ \A M : InTurn(<<x>>, M)
  <1>1. <<x>> \in Seq(Candles) /\ Len(<<x>>) = 1 /\ <<x>>[1] = x
    OBVIOUS
  <1>2. 1..Len(<<x>>) = {1}
    BY <1>1
  <1>3. QED
    BY <1>1, <1>2 DEF Elems, InTurn

LEMMA EmptyTurn ==
    /\ <<>> \in Seq(Candles) /\ Elems(<<>>) = {}
    /\ \A M : InTurn(<<>>, M)
  BY DEF Elems, InTurn

\* One sequence after another.
LEMMA ConcatTurn ==
    ASSUME NEW s \in Seq(Candles), NEW u \in Seq(Candles)
    PROVE  /\ s \o u \in Seq(Candles) /\ Elems(s \o u) = Elems(s) \cup Elems(u)
           /\ \A M : (/\ InTurn(s, M) /\ InTurn(u, M)
                      /\ \A c \in Elems(s), d \in Elems(u) : Ahead(c, d, M))
                     => InTurn(s \o u, M)
  <1> DEFINE w == s \o u  f == Len(s)
  <1>1. /\ w \in Seq(Candles) /\ Len(w) = f + Len(u) /\ f \in Nat /\ Len(u) \in Nat
        /\ \A i \in 1..f + Len(u) : w[i] = IF i <= f THEN s[i] ELSE u[i - f]
    OBVIOUS
  <1>2. \A i \in 1..f : i \in 1..Len(w) /\ w[i] = s[i]
    BY <1>1
  <1>3. \A i \in 1..Len(u) : f + i \in 1..Len(w) /\ w[f + i] = u[i]
    BY <1>1
  <1>4. \A i \in 1..Len(w) : i \in 1..f \/ (i - f \in 1..Len(u) /\ w[i] = u[i - f] /\ i > f)
    BY <1>1
  <1> HIDE DEF w, f
  <1>5. \A x \in Elems(s) \cup Elems(u) : x \in Elems(w)
    <2>1. f = Len(s)
      BY DEF f
    <2>2. QED
      BY <1>2, <1>3, <2>1 DEF Elems
  <1>6. \A x \in Elems(w) : x \in Elems(s) \cup Elems(u)
    <2> TAKE x \in Elems(w)
    <2>1. PICK i \in 1..Len(w) : x = w[i]
      BY DEF Elems
    <2>2. CASE i \in 1..f
      BY <1>2, <2>1, <2>2 DEF Elems, f
    <2>3. CASE i - f \in 1..Len(u) /\ w[i] = u[i - f]
      BY <2>1, <2>3 DEF Elems
    <2>4. QED
      BY <1>4, <2>2, <2>3
  <1>7. ASSUME NEW M, InTurn(s, M), InTurn(u, M),
               \A c \in Elems(s), d \in Elems(u) : Ahead(c, d, M)
        PROVE  InTurn(w, M)
    <2> SUFFICES ASSUME NEW i \in 1..Len(w), NEW j \in 1..Len(w), i < j
                 PROVE  Ahead(w[i], w[j], M)
      BY DEF InTurn
    <2>0. f = Len(s) /\ f \in Nat
      BY <1>1 DEF f
    <2>1. CASE i \in 1..f /\ j \in 1..f
      <3>1. Ahead(s[i], s[j], M)
        BY <1>7, <2>0, <2>1 DEF InTurn
      <3>2. QED
        BY <1>2, <2>1, <3>1
    <2>2. CASE i \in 1..f /\ j \notin 1..f
      <3>1. s[i] \in Elems(s) /\ u[j - f] \in Elems(u) /\ w[j] = u[j - f]
        BY <1>4, <2>0, <2>2 DEF Elems
      <3>2. QED
        BY <1>2, <1>7, <2>2, <3>1
    <2>3. CASE i \notin 1..f
      <3>1. i > f /\ i - f \in 1..Len(u) /\ w[i] = u[i - f]
        BY <1>4, <2>3
      <3>2. j \notin 1..f
        BY <2>0, <3>1
      <3>3. j - f \in 1..Len(u) /\ w[j] = u[j - f]
        BY <1>4, <3>2
      <3>4. i - f < j - f
        BY <2>0
      <3>5. Ahead(u[i - f], u[j - f], M)
        BY <1>7, <3>1, <3>3, <3>4 DEF InTurn
      <3>6. QED
        BY <3>1, <3>3, <3>5
    <2>4. QED
      BY <2>1, <2>2, <2>3
  <1>8. w \in Seq(Candles) /\ Elems(w) = Elems(s) \cup Elems(u)
    BY <1>1, <1>5, <1>6
  <1>9. w = s \o u
    BY DEF w
  <1>10. QED
    BY Zenon, <1>7, <1>8, <1>9

\* What the engine does on a trade at t.
Trades(t) ==
    /\ n < MaxTrades /\ t \in {now, now + 1}
    /\ now' = t /\ n' = n + 1
    /\ active' = [iv \in Intervals |-> Applied(iv, t)]
    /\ ended' = [iv \in Intervals |-> IF Ends(iv, t)
                   THEN Append(ended[iv], Closed(iv)) ELSE ended[iv]]

LEMMA TradeCandles ==
    ASSUME EngineOK, NEW t \in {now, now + 1}, NEW iv \in Intervals
    PROVE  /\ t \in Nat /\ BucketStart(iv, t) \in Nat
           /\ Applied(iv, t) \in Candles /\ Applied(iv, t).iv = iv
           /\ ~Applied(iv, t).closed /\ Applied(iv, t).seq = n + 1
           /\ Applied(iv, t).start = BucketStart(iv, t)
           /\ active[iv].start <= BucketStart(iv, t)
           /\ Ends(iv, t) \/ active[iv].start = BucketStart(iv, t)
           /\ Ends(iv, t) \in BOOLEAN /\ Rolls(iv, t) \in BOOLEAN
           /\ Rolls(iv, t) => Ends(iv, t)
           /\ Closed(iv) \in Candles /\ Closed(iv).iv = iv /\ Closed(iv).closed
           /\ Closed(iv).seq = n /\ Closed(iv).start = active[iv].start
  <1>1. now \in Nat /\ n \in Nat /\ active[iv] \in Candles
    BY DEF EngineOK, EngineType
  <1>2. active[iv].iv = iv /\ active[iv].seq = n /\ active[iv].start = BucketStart(iv, now)
    BY DEF EngineOK, EngineInv
  <1>3. t \in Nat /\ BucketStart(iv, t) \in Nat /\ active[iv].start \in Nat
    BY <1>1, <1>2, BucketStartFacts
  <1>4. active[iv].start <= BucketStart(iv, t)
    BY <1>1, <1>2, <1>3, BucketStartFacts
  <1>5. /\ Applied(iv, t) \in Candles /\ Applied(iv, t).iv = iv
        /\ ~Applied(iv, t).closed /\ Applied(iv, t).seq = n + 1
        /\ Applied(iv, t).start = BucketStart(iv, t)
    BY <1>1, <1>3 DEF Applied, Candle, Candles
  <1>6. /\ Closed(iv) \in Candles /\ Closed(iv).iv = iv /\ Closed(iv).closed
        /\ Closed(iv).seq = n /\ Closed(iv).start = active[iv].start
    BY <1>1, <1>2, SealedCandle DEF Closed
  <1>7. Ends(iv, t) \in BOOLEAN /\ (Ends(iv, t) \/ active[iv].start = BucketStart(iv, t))
    BY <1>3, <1>4 DEF Ends
  <1>8. Rolls(iv, t) \in BOOLEAN /\ (Rolls(iv, t) => Ends(iv, t))
    BY DEF Rolls
  <1>9. QED
    BY <1>3, <1>4, <1>5, <1>6, <1>7, <1>8

LEMMA PublishedFacts ==
    ASSUME EngineOK, NEW t \in {now, now + 1}
    PROVE  /\ Published(t) \in Seq(Candles)
           /\ \A x \in Elems(Published(t)) : \E iv \in Intervals :
                 x = Applied(iv, t) \/ (Rolls(iv, t) /\ x = Closed(iv))
           /\ \A iv \in Intervals :
                 /\ Applied(iv, t) \in Elems(Published(t))
                 /\ Rolls(iv, t) => Closed(iv) \in Elems(Published(t))
           /\ \A M : InTurn(Published(t), M)
  <1> DEFINE a == Applied("m", t)  b == Applied("h", t)
             k == Closed("m")      l == Closed("h")
             A == IF Rolls("m", t) THEN <<k>> ELSE <<>>
             B == IF Rolls("h", t) THEN <<l>> ELSE <<>>
             C == <<a>> \o <<b>>
  <1>1. "m" \in Intervals /\ "h" \in Intervals /\ \A iv \in Intervals : iv \in {"m", "h"}
    BY DEF Intervals
  <1>2. /\ a \in Candles /\ a.iv = "m" /\ ~a.closed
        /\ b \in Candles /\ b.iv = "h" /\ ~b.closed
        /\ k \in Candles /\ k.iv = "m" /\ k.closed
        /\ l \in Candles /\ l.iv = "h" /\ l.closed
    BY <1>1, TradeCandles
  <1>3. Published(t) = (A \o B) \o C
    <2>1. <<a, b>> = <<a>> \o <<b>>
      OBVIOUS
    <2>2. QED
      BY <2>1 DEF Published
  <1> HIDE DEF a, b, k, l
  <1>4. \A M : /\ Ahead(a, b, M) /\ Ahead(k, l, M)
               /\ Ahead(k, a, M) /\ Ahead(k, b, M) /\ Ahead(l, a, M) /\ Ahead(l, b, M)
    BY <1>2 DEF Ahead, Fine, Rise
  <1>5. /\ A \in Seq(Candles) /\ \A M : InTurn(A, M)
        /\ Elems(A) = IF Rolls("m", t) THEN {k} ELSE {}
    BY <1>2, SingleTurn, EmptyTurn
  <1>6. /\ B \in Seq(Candles) /\ \A M : InTurn(B, M)
        /\ Elems(B) = IF Rolls("h", t) THEN {l} ELSE {}
    BY <1>2, SingleTurn, EmptyTurn
  <1> HIDE DEF A, B
  <1>7. C \in Seq(Candles) /\ Elems(C) = {a, b} /\ \A M : InTurn(C, M)
    <2>1. /\ <<a>> \in Seq(Candles) /\ Elems(<<a>>) = {a} /\ \A M : InTurn(<<a>>, M)
          /\ <<b>> \in Seq(Candles) /\ Elems(<<b>>) = {b} /\ \A M : InTurn(<<b>>, M)
      BY <1>2, SingleTurn
    <2>2. \A c \in {a}, d \in {b} : \A M : Ahead(c, d, M)
      BY <1>4
    <2>3. /\ <<a>> \o <<b>> \in Seq(Candles)
          /\ Elems(<<a>> \o <<b>>) = Elems(<<a>>) \cup Elems(<<b>>)
      BY <2>1, ConcatTurn, Zenon
    <2>4. ASSUME NEW M PROVE InTurn(<<a>> \o <<b>>, M)
      <3>1. /\ InTurn(<<a>>, M) /\ InTurn(<<b>>, M)
            /\ \A c \in Elems(<<a>>), d \in Elems(<<b>>) : Ahead(c, d, M)
        BY <2>1, <2>2
      <3>2. QED
        BY <2>1, <3>1, ConcatTurn, Zenon
    <2>5. QED
      BY <2>1, <2>3, <2>4, Zenon DEF C
  <1> HIDE DEF C
  <1>8. /\ A \o B \in Seq(Candles) /\ Elems(A \o B) = Elems(A) \cup Elems(B)
        /\ \A M : InTurn(A \o B, M)
    <2>1. \A c \in Elems(A), d \in Elems(B) : \A M : Ahead(c, d, M)
      BY <1>4, <1>5, <1>6
    <2>2. QED
      BY <1>5, <1>6, <2>1, ConcatTurn
  <1>9. /\ (A \o B) \o C \in Seq(Candles)
        /\ Elems((A \o B) \o C) = Elems(A) \cup Elems(B) \cup {a, b}
        /\ \A M : InTurn((A \o B) \o C, M)
    <2>1. \A c \in Elems(A \o B), d \in Elems(C) : \A M : Ahead(c, d, M)
      BY <1>4, <1>5, <1>6, <1>7, <1>8
    <2>2. QED
      BY <1>7, <1>8, <2>1, ConcatTurn
  <1>10. Elems(Published(t)) = Elems(A) \cup Elems(B) \cup {a, b}
    BY <1>3, <1>9
  <1>11. \A x \in Elems(Published(t)) : \E iv \in Intervals :
             x = Applied(iv, t) \/ (Rolls(iv, t) /\ x = Closed(iv))
    BY <1>1, <1>5, <1>6, <1>10 DEF a, b, k, l
  <1>12. \A iv \in Intervals :
             /\ Applied(iv, t) \in Elems(Published(t))
             /\ Rolls(iv, t) => Closed(iv) \in Elems(Published(t))
    BY <1>1, <1>5, <1>6, <1>10 DEF a, b, k, l
  <1>13. QED
    BY <1>3, <1>9, <1>11, <1>12

\* The ended buckets and the active candles after a trade.
LEMMA TradeHistory ==
    ASSUME EngineOK, NEW t, Trades(t), NEW iv \in Intervals
    PROVE  /\ active'[iv] = Applied(iv, t) /\ ended'[iv] \in Seq(Candles)
           /\ Ends(iv, t) => Elems(ended'[iv]) = Elems(ended[iv]) \cup {Closed(iv)}
           /\ ~Ends(iv, t) => ended'[iv] = ended[iv]
           /\ Ascending(ended'[iv])
  <1>1. /\ t \in {now, now + 1} /\ active'[iv] = Applied(iv, t)
        /\ Ends(iv, t) => ended'[iv] = Append(ended[iv], Closed(iv))
        /\ ~Ends(iv, t) => ended'[iv] = ended[iv]
    BY DEF Trades
  <1>2. /\ Closed(iv) \in Candles /\ Closed(iv).iv = iv
        /\ Closed(iv).start = active[iv].start
    BY <1>1, TradeCandles
  <1>3. ended[iv] \in Seq(Candles) /\ Ascending(ended[iv])
    BY DEF EngineOK, EngineType, EngineInv
  <1>4. /\ Append(ended[iv], Closed(iv)) \in Seq(Candles)
        /\ Elems(Append(ended[iv], Closed(iv))) = Elems(ended[iv]) \cup {Closed(iv)}
    BY <1>2, <1>3, ElemsAppend
  <1>5. Ascending(Append(ended[iv], Closed(iv)))
    <2>1. \A d \in Elems(ended[iv]) : d.iv = Closed(iv).iv /\ d.start < Closed(iv).start
      BY <1>2, HistoryFacts
    <2>2. QED
      BY <1>2, <1>3, <2>1, AscendingAppend
  <1>6. QED
    BY <1>1, <1>3, <1>4, <1>5

\* The aggregators after a trade.
LEMMA TradeKept ==
    ASSUME EngineOK, HistoryOK, NEW t, Trades(t), fresh' = FALSE,
           history' = [iv \in Intervals |-> IF Rolls(iv, t)
                         THEN Append(history[iv], Closed(iv)) ELSE history[iv]]
    PROVE  HistoryOK'
  <1>1. t \in {now, now + 1}
    BY DEF Trades
  <1>2. ASSUME NEW iv \in Intervals
        PROVE  /\ history'[iv] \in Seq(Candles) /\ Ascending(history'[iv])
               /\ Elems(history'[iv]) \subseteq Elems(ended'[iv])
    <2>1. /\ history[iv] \in Seq(Candles) /\ Ascending(history[iv])
          /\ Elems(history[iv]) \subseteq Elems(ended[iv])
      BY DEF HistoryOK
    <2>2. /\ Ends(iv, t) => Elems(ended'[iv]) = Elems(ended[iv]) \cup {Closed(iv)}
          /\ ~Ends(iv, t) => ended'[iv] = ended[iv]
      BY TradeHistory
    <2>3. CASE ~Rolls(iv, t)
      BY <2>1, <2>2, <2>3
    <2>4. CASE Rolls(iv, t)
      <3>1. /\ Closed(iv) \in Candles /\ Closed(iv).iv = iv
            /\ Closed(iv).start = active[iv].start /\ Ends(iv, t)
        BY <1>1, <2>4, TradeCandles
      <3>2. \A d \in Elems(history[iv]) : d.iv = Closed(iv).iv /\ d.start < Closed(iv).start
        BY <2>1, <3>1, HistoryFacts
      <3>3. history'[iv] = Append(history[iv], Closed(iv))
        BY <2>4
      <3>4. /\ Append(history[iv], Closed(iv)) \in Seq(Candles)
            /\ Elems(Append(history[iv], Closed(iv))) = Elems(history[iv]) \cup {Closed(iv)}
        BY <2>1, <3>1, ElemsAppend
      <3>5. Ascending(Append(history[iv], Closed(iv)))
        BY <2>1, <3>1, <3>2, AscendingAppend
      <3>6. QED
        BY <2>1, <2>2, <3>1, <3>3, <3>4, <3>5
    <2>5. QED
      BY <2>3, <2>4
  <1>3. history' \in [Intervals -> Seq(Candles)]
    <2>1. history' = [iv \in Intervals |-> history'[iv]]
      OBVIOUS
    <2>2. QED
      BY <1>2, <2>1
  <1>4. QED
    BY <1>2, <1>3 DEF HistoryOK

LEMMA TradeEngine ==
    ASSUME EngineOK, NEW t, Trades(t)
    PROVE  /\ EngineOK'
           /\ \A x \in Candles : Bounded(x) => Bounded(x)'
           /\ \A x \in Candles : Final(x) => Final(x)'
  <1>0. t \in {now, now + 1} /\ now' = t /\ n' = n + 1 /\ n < MaxTrades
    BY DEF Trades
  <1>1. n \in Nat /\ n >= 1
    BY DEF EngineOK, EngineType
  <1>2. EngineType'
    <2>1. t \in Nat
      BY <1>0 DEF EngineOK, EngineType
    <2>2. n' \in 1..MaxTrades
      BY <1>0, <1>1, FeedAssumption DEF FeedAssumption
    <2>3. active' \in [Intervals -> Candles]
      BY <1>0, TradeCandles DEF Trades
    <2>4. ended' \in [Intervals -> Seq(Candles)]
      <3>1. \A iv \in Intervals : ended'[iv] \in Seq(Candles)
        BY TradeHistory
      <3>2. ended' = [iv \in Intervals |-> ended'[iv]]
        BY DEF Trades
      <3>3. QED
        BY <3>1, <3>2
    <2>5. QED
      BY <1>0, <2>1, <2>2, <2>3, <2>4 DEF EngineType
  <1>3. ASSUME NEW iv \in Intervals
        PROVE  /\ active'[iv].iv = iv /\ ~active'[iv].closed /\ active'[iv].seq = n'
               /\ active'[iv].start = BucketStart(iv, now')
               /\ Ascending(ended'[iv])
               /\ \E d \in {active'[iv]} \cup Elems(ended'[iv]) : d.start = 0
               /\ \A d \in Elems(ended'[iv]) :
                     d.iv = iv /\ d.closed /\ d.start < active'[iv].start /\ d.seq <= n'
    <2>1. /\ active'[iv] = Applied(iv, t) /\ Ascending(ended'[iv])
          /\ Ends(iv, t) => Elems(ended'[iv]) = Elems(ended[iv]) \cup {Closed(iv)}
          /\ ~Ends(iv, t) => ended'[iv] = ended[iv]
      BY TradeHistory
    <2>2. /\ Applied(iv, t).iv = iv /\ ~Applied(iv, t).closed /\ Applied(iv, t).seq = n + 1
          /\ Applied(iv, t).start = BucketStart(iv, t)
          /\ active[iv].start <= BucketStart(iv, t) /\ BucketStart(iv, t) \in Nat
          /\ Ends(iv, t) \/ active[iv].start = BucketStart(iv, t)
          /\ Closed(iv).iv = iv /\ Closed(iv).closed
          /\ Closed(iv).seq = n /\ Closed(iv).start = active[iv].start
      BY <1>0, TradeCandles
    <2>3. PICK d \in {active[iv]} \cup Elems(ended[iv]) : d.start = 0
      BY DEF EngineOK, EngineInv
    <2>4. \E e \in {active'[iv]} \cup Elems(ended'[iv]) : e.start = 0
      <3>1. CASE Ends(iv, t)
        BY <2>1, <2>2, <2>3, <3>1
      <3>2. CASE ~Ends(iv, t)
        BY <2>1, <2>2, <2>3, <3>2
      <3>3. QED
        BY <3>1, <3>2
    <2>5. active[iv].start \in Nat
      BY ActiveFacts
    <2>6. ASSUME NEW e \in Elems(ended[iv])
          PROVE  e.iv = iv /\ e.closed /\ e.start < active'[iv].start /\ e.seq <= n'
      <3>1. /\ e \in Candles /\ e.iv = iv /\ e.closed /\ e.start < active[iv].start
            /\ e.seq <= n
        BY HistoryFacts
      <3>2. e.start \in Nat /\ e.seq \in Nat
        BY <3>1 DEF Candles
      <3>3. QED
        BY <1>0, <1>1, <2>1, <2>2, <2>5, <3>1, <3>2
    <2>7. Ends(iv, t) => /\ Closed(iv).start < active'[iv].start
                          /\ Closed(iv).seq <= n'
      BY <1>0, <1>1, <2>1, <2>2, <2>5 DEF Ends
    <2>8. \A e \in Elems(ended'[iv]) :
              e.iv = iv /\ e.closed /\ e.start < active'[iv].start /\ e.seq <= n'
      BY <2>1, <2>2, <2>6, <2>7
    <2>9. QED
      BY <1>0, <2>1, <2>2, <2>4, <2>8
  <1>4. EngineOK'
    BY <1>2, <1>3 DEF EngineOK, EngineInv
  <1>5. ASSUME NEW x \in Candles, Bounded(x) PROVE Bounded(x)'
    <2>0. x.iv \in Intervals /\ x.start \in Nat /\ x.seq \in Nat
      BY DEF Candles
    <2>1. /\ active'[x.iv] = Applied(x.iv, t)
          /\ Ends(x.iv, t) =>
                Elems(ended'[x.iv]) = Elems(ended[x.iv]) \cup {Closed(x.iv)}
          /\ ~Ends(x.iv, t) => ended'[x.iv] = ended[x.iv]
      BY <2>0, TradeHistory
    <2>2. /\ Applied(x.iv, t).seq = n + 1 /\ Applied(x.iv, t).start = BucketStart(x.iv, t)
          /\ Ends(x.iv, t) \/ active[x.iv].start = BucketStart(x.iv, t)
          /\ Closed(x.iv).seq = n /\ Closed(x.iv).start = active[x.iv].start
      BY <1>0, <2>0, TradeCandles
    <2>3. CASE \E d \in Elems(ended[x.iv]) : x.start = d.start /\ x.seq <= d.seq
      BY <2>1, <2>3 DEF Bounded
    <2>4. CASE ~x.closed /\ x.start = active[x.iv].start /\ x.seq <= active[x.iv].seq
      <3>1. x.seq <= n /\ x.seq <= n + 1
        BY <1>1, <2>0, <2>4 DEF EngineOK, EngineInv
      <3>2. CASE Ends(x.iv, t)
        BY <2>1, <2>2, <2>4, <3>1, <3>2 DEF Bounded
      <3>3. CASE ~Ends(x.iv, t)
        BY <2>1, <2>2, <2>4, <3>1, <3>3 DEF Bounded
      <3>4. QED
        BY <3>2, <3>3
    <2>5. QED
      BY <1>5, <2>3, <2>4 DEF Bounded
  <1>6. ASSUME NEW x \in Candles, Final(x) PROVE Final(x)'
    <2>0. x.iv \in Intervals
      BY DEF Candles
    <2>1. Elems(ended[x.iv]) \subseteq Elems(ended'[x.iv])
      BY <2>0, TradeHistory
    <2>2. QED
      BY <1>6, <2>1 DEF Final
  <1>7. QED
    BY <1>4, <1>5, <1>6

\* The published candles follow everything that is on its way, held or shown.
LEMMA PublishedLast ==
    ASSUME EngineOK, NEW t, Trades(t), NEW x \in Candles, Bounded(x),
           NEW y \in Elems(Published(t)), NEW M
    PROVE  Ahead(x, y, M)
  <1>0. t \in {now, now + 1}
    BY DEF Trades
  <1>1. PICK iv \in Intervals : y = Applied(iv, t) \/ (Rolls(iv, t) /\ y = Closed(iv))
    BY <1>0, PublishedFacts
  <1>2. /\ x.start <= active[x.iv].start /\ x.seq <= n
        /\ x.start \in Nat /\ x.seq \in Nat /\ x.iv \in Intervals /\ n \in Nat
    <2>1. x.start <= active[x.iv].start /\ x.seq <= n
      BY BoundedFacts
    <2>2. x.start \in Nat /\ x.seq \in Nat /\ x.iv \in Intervals
      BY DEF Candles
    <2>3. n \in Nat
      BY DEF EngineOK, EngineType
    <2>4. QED
      BY <2>1, <2>2, <2>3
  <1>3. active[x.iv].start \in Nat
    BY <1>2, ActiveFacts
  <1>4. CASE y = Applied(iv, t)
    <2>1. ~y.closed /\ y.seq = n + 1
      BY <1>0, <1>4, TradeCandles
    <2>2. QED
      BY <1>2, <2>1 DEF Ahead, Fine, Rise
  <1>5. CASE y = Closed(iv)
    <2>1. y.closed /\ y.iv = iv /\ y.start = active[iv].start
      BY <1>0, <1>5, TradeCandles
    <2>2. QED
      BY <1>2, <1>3, <2>1 DEF Ahead, Fine, Rise
  <1>6. QED
    BY <1>1, <1>4, <1>5

LEMMA ApplyTradeOK ==
    ASSUME IInv, ApplyTrade PROVE StepOK
  <1>1. PICK t \in {now, now + 1} :
           /\ Trades(t) /\ pubs' = Published(t)
           /\ history' = [iv \in Intervals |-> IF Rolls(iv, t)
                            THEN Append(history[iv], Closed(iv)) ELSE history[iv]]
           /\ missed' = missed \cup {<<iv, active[iv].start>> :
                            iv \in {iv \in Intervals : fresh /\ Ends(iv, t)}}
    BY DEF ApplyTrade, Trades
  <1>2. /\ pubs = <<>> /\ fresh' = FALSE
        /\ UNCHANGED <<mailbox, interval, pending, online, outbound, appVars, told, behind>>
    BY DEF ApplyTrade, sessionVars
  <1>3. /\ EngineOK /\ FlowType /\ MarksType /\ FlowKnown /\ HeldKnown /\ FlowOrder
        /\ AppType /\ PagesKnown /\ AsksKnown /\ Follows /\ ChartOK /\ Current
        /\ skipped \in BOOLEAN /\ chart \in Seq(Candles) /\ HistoryOK
    BY DEF IInv, FlowOK, AppOK, AppType
  <1>4. /\ selected' = selected /\ chart' = chart /\ asks' = asks /\ guard' = guard
        /\ asked' = asked /\ skipped' = skipped /\ cache' = cache /\ spec' = spec
    BY <1>2 DEF appVars
  <1>5. /\ EngineOK'
        /\ \A x \in Candles : Bounded(x) => Bounded(x)'
        /\ \A x \in Candles : Final(x) => Final(x)'
    BY <1>1, <1>3, TradeEngine
  <1>6. /\ Published(t) \in Seq(Candles)
        /\ \A x \in Elems(Published(t)) : \E iv \in Intervals :
              x = Applied(iv, t) \/ (Rolls(iv, t) /\ x = Closed(iv))
        /\ \A iv \in Intervals :
              /\ Applied(iv, t) \in Elems(Published(t))
              /\ Rolls(iv, t) => Closed(iv) \in Elems(Published(t))
        /\ InTurn(Published(t), missed)
    BY <1>3, PublishedFacts
  <1>7. OnWay' = OnWay \cup Elems(Published(t))
    BY <1>1, <1>2, ElemsEmpty DEF OnWay
  <1>8. \A iv \in Intervals :
            /\ active'[iv] = Applied(iv, t)
            /\ Ends(iv, t) => Elems(ended'[iv]) = Elems(ended[iv]) \cup {Closed(iv)}
            /\ ~Ends(iv, t) => ended'[iv] = ended[iv]
    BY <1>1, <1>3, TradeHistory
  <1>9. /\ \A x \in OnWay : x \in Candles /\ Bounded(x) /\ Final(x) /\ x.seq >= 1
        /\ \A iv \in Intervals : pending[iv] \in Candles /\ Bounded(pending[iv])
        /\ \A x \in Elems(chart) : x \in Candles /\ Bounded(x)
    <2>1. \A x \in OnWay : x \in Candles /\ Bounded(x) /\ Final(x) /\ x.seq >= 1
      BY <1>3, OnWayType DEF FlowKnown
    <2>2. \A iv \in Intervals : pending[iv] \in Candles /\ Bounded(pending[iv])
      BY <1>3 DEF FlowType, HeldKnown
    <2>3. \A x \in Elems(chart) : x \in Candles /\ Bounded(x)
      BY <1>3, ElemsIn DEF ChartOK, ChartKnown
    <2>4. QED
      BY <2>1, <2>2, <2>3
  <1>10. \A y \in Elems(Published(t)) :
             /\ \A x \in OnWay : Ahead(x, y, missed)
             /\ \A iv \in Intervals : Ahead(pending[iv], y, missed)
    BY <1>1, <1>3, <1>9, PublishedLast DEF Ahead
  <1>11. \A iv \in Intervals :
             /\ Applied(iv, t).iv = iv /\ Applied(iv, t).seq = n + 1
             /\ ~Applied(iv, t).closed /\ Applied(iv, t) \in Candles
             /\ Closed(iv).iv = iv /\ Closed(iv).closed /\ Closed(iv).seq = n
             /\ Closed(iv) \in Candles /\ Closed(iv).start = active[iv].start
             /\ Rolls(iv, t) => Ends(iv, t)
    BY <1>3, TradeCandles
  <1>12. FlowType'
    BY <1>1, <1>2, <1>3, <1>6 DEF FlowType
  <1>13. MarksType' /\ missed \subseteq missed'
    <2>1. \A iv \in Intervals : active[iv].start \in Nat
      BY <1>3, ActiveFacts
    <2>2. QED
      BY <1>1, <1>2, <1>3, <2>1 DEF MarksType
  <1>14. FlowKnown'
    <2> SUFFICES ASSUME NEW x \in OnWay' PROVE Bounded(x)' /\ Final(x)' /\ x.seq >= 1
      BY DEF FlowKnown
    <2>1. CASE x \in OnWay
      BY <1>5, <1>9, <2>1
    <2>2. CASE x \in Elems(Published(t))
      <3>1. PICK iv \in Intervals : x = Applied(iv, t) \/ (Rolls(iv, t) /\ x = Closed(iv))
        BY <1>6, <2>2
      <3>2. n \in Nat /\ n >= 1
        BY <1>3 DEF EngineOK, EngineType
      <3>3. CASE x = Applied(iv, t)
        <4>1. x = active'[iv]
          BY <1>8, <3>3
        <4>2. x.iv = iv /\ ~x.closed /\ x.seq = n + 1
          BY <1>11, <3>3
        <4>3. ~x.closed /\ x.start = active'[x.iv].start /\ x.seq <= active'[x.iv].seq
          BY <3>2, <4>1, <4>2
        <4>4. Bounded(x)' /\ Final(x)'
          BY <4>3 DEF Bounded, Final
        <4>5. QED
          BY <3>2, <4>2, <4>4
      <3>4. CASE Rolls(iv, t) /\ x = Closed(iv)
        <4>1. x \in Elems(ended'[iv]) /\ x.iv = iv /\ x.seq = n
          BY <1>8, <1>11, <3>4
        <4>2. Bounded(x)' /\ Final(x)'
          BY <3>2, <4>1 DEF Bounded, Final
        <4>3. QED
          BY <3>2, <4>1, <4>2
      <3>5. QED
        BY <3>1, <3>3, <3>4
    <2>3. QED
      BY <1>7, <2>1, <2>2
  <1>15. PubsNewest'
    BY <1>1, <1>6, <1>8, <1>11 DEF PubsNewest
  <1>16. HeldKnown'
    BY <1>2, <1>3, <1>5, <1>9 DEF HeldKnown
  <1>17. FlowOrder'
    <2>1. Elems(pubs') = Elems(Published(t)) /\ Elems(pubs) = {}
      BY <1>1, <1>2, ElemsEmpty
    <2>2. /\ \A c \in Elems(outbound), d \in Elems(Published(t)) : Fine(c, d, missed)
          /\ \A c \in Elems(mailbox), d \in Elems(Published(t)) : Ahead(c, d, missed)
      BY <1>10 DEF OnWay, Ahead
    <2>3. Order(Published(t), mailbox, outbound, pending, missed)
      BY <1>3, <1>6, <1>10, <2>1, <2>2 DEF FlowOrder, Order
    <2>4. Order(Published(t), mailbox, outbound, pending, missed')
      BY <1>13, <2>3, OrderMono
    <2>5. QED
      BY <1>1, <1>2, <2>4 DEF FlowOrder
  <1>18. FlowOK'
    BY <1>12, <1>13, <1>14, <1>15, <1>16, <1>17 DEF FlowOK
  <1>19. PagesKnown'
    <2>1. ASSUME NEW iv, NEW q \in Seq(Candles), PageOK(iv, q) PROVE PageOK(iv, q)'
      <3>1. \A x \in Elems(q) : x \in Candles
        BY ElemsIn
      <3>2. QED
        BY <1>5, <2>1, <3>1 DEF PageOK
    <2>2. \A a \in asks : a.page \in Seq(Candles)
      BY <1>3, AskFacts
    <2>3. \A iv \in Intervals : cache[iv] \in Seq(Candles)
      BY <1>3 DEF AppType
    <2>4. /\ \A a \in asks : PageOK(a.iv, a.page)'
          /\ \A iv \in Intervals : PageOK(iv, cache[iv])'
      BY <1>3, <1>4, <2>1, <2>2, <2>3 DEF PagesKnown
    <2>5. QED
      BY <1>4, <2>4 DEF PagesKnown
  <1>20. AppOK'
    <2>1. AppType' /\ AsksKnown' /\ Follows'
      BY <1>2, <1>3, <1>4 DEF AppType, AsksKnown, Follows, WillSubscribe
    <2>2. QED
      BY <1>19, <2>1 DEF AppOK
  <1>21. ChartOK'
    <2>1. ChartKnown' /\ ChartOrdered'
      BY <1>3, <1>4, <1>5, <1>9 DEF ChartKnown, ChartOK, ChartOrdered
    <2>2. WrongCloseExplained'
      <3> SUFFICES ASSUME NEW c \in Elems(chart), c.closed
                   PROVE  \E d \in Elems(ended'[c.iv]) :
                             Same(c, d) /\ (c = d \/ <<c.iv, c.start>> \in missed')
        BY <1>2, <1>4 DEF WrongCloseExplained
      <3>1. PICK d \in Elems(ended[c.iv]) :
               Same(c, d) /\ (c = d \/ <<c.iv, c.start>> \in missed)
        BY <1>3 DEF ChartOK, WrongCloseExplained
      <3>2. c.iv \in Intervals
        BY <1>9 DEF Candles
      <3>3. d \in Elems(ended'[c.iv])
        BY <1>8, <3>1, <3>2
      <3>4. QED
        BY <1>13, <3>1, <3>3
    <2>3. Shown' = Shown
      BY <1>4 DEF Shown
    <2>5. Settled'
      <3> SUFFICES ASSUME NEW iv \in Intervals, NEW d \in Elems(ended'[iv])
                   PROVE  <<iv, d.start>> \in missed' \cup Shown \/ d \in OnWay'
        BY <1>2, <2>3 DEF Settled
      <3>1. CASE d \in Elems(ended[iv])
        BY <1>3, <1>7, <1>13, <3>1 DEF ChartOK, Settled
      <3>2. CASE d \notin Elems(ended[iv])
        <4>1. d = Closed(iv) /\ Ends(iv, t) /\ d.start = active[iv].start
          BY <1>8, <1>11, <3>2
        <4>2. CASE fresh
          BY <1>1, <4>1, <4>2
        <4>3. CASE ~fresh
          <5>1. Rolls(iv, t)
            BY <4>1, <4>3 DEF Rolls
          <5>2. QED
            BY <1>6, <1>7, <4>1, <5>1
        <4>4. QED
          BY <4>2, <4>3
      <3>3. QED
        BY <3>1, <3>2
    <2>6. QED
      BY <2>1, <2>2, <2>5 DEF ChartOK
  <1>22. Current'
    BY <1>6, <1>7, <1>8 DEF Current
  <1>23. Keeps
    <2> SUFFICES ASSUME NEW c \in Elems(chart), NEW d \in Elems(chart), Same(c, d)
                 PROVE  d.seq >= c.seq /\ (c.closed => c = d)
      BY <1>4 DEF Keeps
    <2>1. Ascending(chart)
      BY <1>3 DEF ChartOK, ChartOrdered, Ascending
    <2>2. c = d
      BY <1>3, <2>1, AscendingOne DEF Same
    <2>3. c.seq \in Nat
      BY <1>9 DEF Candles
    <2>4. QED
      BY <2>2, <2>3
  <1>24. HistoryOK'
    BY <1>1, <1>2, <1>3, TradeKept
  <1>25. QED
    BY <1>3, <1>4, <1>5, <1>18, <1>20, <1>21, <1>22, <1>23, <1>24 DEF StepOK, IInv

\* A reset takes the aggregators' closed candles and leaves the rest alone.
LEMMA ResetOK ==
    ASSUME IInv, Reset PROVE StepOK
  <1>1. /\ history' = [iv \in Intervals |-> <<>>] /\ fresh' = TRUE
        /\ UNCHANGED <<marketVars, pubs, mailbox, sessionVars, outbound, appVars, told,
                       missed, behind>>
    BY DEF Reset
  <1>2. /\ now' = now /\ n' = n /\ active' = active /\ ended' = ended /\ pubs' = pubs
        /\ mailbox' = mailbox /\ interval' = interval /\ pending' = pending
        /\ online' = online /\ outbound' = outbound /\ selected' = selected
        /\ chart' = chart /\ asks' = asks /\ guard' = guard /\ asked' = asked
        /\ cache' = cache /\ spec' = spec /\ skipped' = skipped /\ told' = told
        /\ missed' = missed /\ behind' = behind
    BY <1>1 DEF marketVars, sessionVars, appVars
  <1>3. EngineOK /\ FlowOK /\ AppOK /\ ChartOK /\ Current /\ skipped \in BOOLEAN
        /\ chart \in Seq(Candles)
    BY DEF IInv, AppOK, AppType
  <1>4. EngineOK'
    BY <1>2, <1>3 DEF EngineOK, EngineType, EngineInv
  <1>5. HistoryOK'
    <2>1. \A iv \in Intervals : history'[iv] = <<>>
      BY <1>1
    <2>2. history' \in [Intervals -> Seq(Candles)]
      BY <1>1, EmptyTurn
    <2>3. QED
      BY <1>1, <2>1, <2>2, EmptyPage DEF HistoryOK
  <1>6. OnWay' = OnWay /\ Shown' = Shown
    BY <1>2 DEF OnWay, Shown
  <1>7. FlowOK'
    <2>1. FlowType' /\ MarksType' /\ PubsNewest' /\ FlowOrder'
      BY <1>2, <1>3 DEF FlowOK, FlowType, MarksType, PubsNewest, FlowOrder
    <2>2. FlowKnown' /\ HeldKnown'
      BY <1>2, <1>3, <1>6 DEF FlowOK, FlowKnown, HeldKnown, Bounded, Final
    <2>3. QED
      BY <2>1, <2>2 DEF FlowOK
  <1>8. AppOK'
    <2>1. AppType' /\ AsksKnown' /\ Follows'
      BY <1>2, <1>3 DEF AppOK, AppType, AsksKnown, Follows, WillSubscribe
    <2>2. PagesKnown'
      BY <1>2, <1>3 DEF AppOK, PagesKnown, PageOK, Bounded, Final
    <2>3. QED
      BY <2>1, <2>2 DEF AppOK
  <1>9. ChartOK'
    BY <1>2, <1>3, <1>6 DEF ChartOK, ChartKnown, ChartOrdered, WrongCloseExplained,
                           Settled, Bounded
  <1>10. Current'
    BY <1>2, <1>3, <1>6 DEF Current
  <1>11. Keeps
    <2> SUFFICES ASSUME NEW c \in Elems(chart), NEW d \in Elems(chart), Same(c, d)
                 PROVE  d.seq >= c.seq /\ (c.closed => c = d)
      BY <1>2 DEF Keeps
    <2>1. Ascending(chart)
      BY <1>3 DEF ChartOK, ChartOrdered, Ascending
    <2>2. c = d
      BY <1>3, <2>1, AscendingOne DEF Same
    <2>3. c \in Candles
      BY <1>3, ElemsIn
    <2>4. c.seq \in Nat
      BY <2>3 DEF Candles
    <2>5. QED
      BY <2>2, <2>4
  <1>12. QED
    BY <1>2, <1>3, <1>4, <1>5, <1>7, <1>8, <1>9, <1>10, <1>11 DEF StepOK, IInv

--------------------------------------------------------------------------------
(* The induction. *)

LEMMA InitOK == Init => IInv
  <1> SUFFICES ASSUME Init PROVE IInv
    OBVIOUS
  <1>1. /\ now = 0 /\ n = 1
        /\ active = [iv \in Intervals |-> Candle(iv, 0, 1, FALSE)]
        /\ ended = [iv \in Intervals |-> <<>>]
        /\ history = [iv \in Intervals |-> <<>>] /\ fresh = FALSE
        /\ pubs = <<>> /\ mailbox = <<>> /\ interval = "m" /\ online = FALSE
        /\ pending = [iv \in Intervals |-> None] /\ outbound = <<>>
        /\ selected = "m" /\ chart = <<>> /\ spec = "m"
        /\ asks = {} /\ guard = [id |-> 0, iv |-> "none"] /\ asked = 0 /\ told = <<>>
        /\ missed = {} /\ behind = Intervals /\ skipped = FALSE
    BY DEF Init
  <1>2. "m" \in Intervals /\ \A iv \in Intervals : BucketStart(iv, 0) = 0
    BY DEF Intervals, BucketStart
  <1>3. \A iv \in Intervals :
            /\ active[iv] = Candle(iv, 0, 1, FALSE) /\ active[iv] \in Candles
            /\ active[iv].iv = iv /\ ~active[iv].closed /\ active[iv].seq = 1
            /\ active[iv].start = 0
    BY <1>1 DEF Candle, Candles
  <1>a. /\ cache \in [Intervals -> Seq(Candles)]
        /\ \A iv \in Intervals : cache[iv] = <<active[iv]>>
    <2>1. cache = [iv \in Intervals |-> <<active[iv]>>]
      BY DEF Init
    <2>2. ASSUME NEW iv \in Intervals
          PROVE  <<active[iv]>> \in Seq(Candles)
      <3>1. PICK c \in Candles : c = active[iv]
        BY <1>3
      <3>2. <<c>> \in Seq(Candles)
        OBVIOUS
      <3>3. QED
        BY <3>1, <3>2
    <2>3. QED
      BY <2>1, <2>2
  <1>4. \A iv \in Intervals : ended[iv] = <<>> /\ Elems(ended[iv]) = {}
    BY <1>1, ElemsEmpty
  <1>5. EngineOK
    <2>1. EngineType
      <3>1. n \in 1..MaxTrades
        BY <1>1, FeedAssumption DEF FeedAssumption
      <3>2. active \in [Intervals -> Candles]
        BY <1>1, <1>3
      <3>3. ended \in [Intervals -> Seq(Candles)]
        BY <1>1, EmptyTurn
      <3>4. QED
        BY <1>1, <3>1, <3>2, <3>3 DEF EngineType
    <2>2. Ascending(<<>>)
      BY DEF Ascending
    <2>3. EngineInv
      BY <1>1, <1>2, <1>3, <1>4, <2>2 DEF EngineInv
    <2>4. QED
      BY <2>1, <2>3 DEF EngineOK
  <1>6. /\ Elems(pubs) = {} /\ Elems(mailbox) = {} /\ Elems(outbound) = {}
        /\ Elems(chart) = {} /\ OnWay = {}
    BY <1>1, ElemsEmpty DEF OnWay
  <1>7. FlowType
    <2>1. pending \in [Intervals -> Candles]
      BY <1>1, NoneFacts
    <2>2. Len(<<>>) <= Cap /\ Len(<<>>) <= OutCap
      BY FeedAssumption DEF FeedAssumption
    <2>3. QED
      BY <1>1, <1>2, <2>1, <2>2, EmptyTurn DEF FlowType
  <1>8. MarksType
    BY <1>1 DEF MarksType
  <1>9. FlowKnown /\ PubsNewest
    BY <1>6 DEF FlowKnown, PubsNewest
  <1>10. HeldKnown
    <2>1. \A iv \in Intervals : pending[iv] = None
      BY <1>1
    <2>2. Bounded(None) /\ ~None.closed
      BY <1>5, NoneBounded, NoneFacts
    <2>3. QED
      BY <2>1, <2>2 DEF HeldKnown
  <1>11. FlowOrder
    <2>1. InOrder(<<>>, missed) /\ InTurn(<<>>, missed)
      BY DEF InOrder, InTurn
    <2>2. QED
      BY <1>1, <1>6, <2>1 DEF FlowOrder, Order
  <1>12. AppOK
    <2>1. AppType
      <3>1. 0 \in 0..MaxAsks
        BY FeedAssumption DEF FeedAssumption
      <3>2. told \in Seq(Intervals)
        BY <1>1
      <3>3. guard \in [id : 0..MaxAsks, iv : Intervals \cup {"none"}]
        BY <1>1, <3>1
      <3>4. QED
        BY <1>1, <1>2, <1>a, <3>1, <3>2, <3>3, EmptyTurn DEF AppType
    <2>2. PagesKnown
      <3>1. \A iv \in Intervals : PageOK(iv, cache[iv])
        <4> SUFFICES ASSUME NEW iv \in Intervals PROVE PageOK(iv, cache[iv])
          OBVIOUS
        <4>1. Bounded(active[iv]) /\ Final(active[iv])
          BY <1>5, ActiveFacts
        <4>2. Len(<<active[iv]>>) = 1 /\ <<active[iv]>>[1] = active[iv]
          OBVIOUS
        <4>3. Elems(<<active[iv]>>) = {active[iv]} /\ Ascending(<<active[iv]>>)
          BY <4>2 DEF Elems, Ascending
        <4>4. QED
          BY <1>3, <1>a, <4>1, <4>3 DEF PageOK
      <3>2. QED
        BY <1>1, <3>1 DEF PagesKnown
    <2>3. AsksKnown /\ Follows
      BY <1>1 DEF AsksKnown, Follows
    <2>4. QED
      BY <2>1, <2>2, <2>3 DEF AppOK
  <1>13. ChartOK
    <2>1. ChartOrdered
      BY <1>1 DEF ChartOrdered
    <2>2. ChartKnown /\ WrongCloseExplained
      BY <1>6 DEF ChartKnown, WrongCloseExplained
    <2>3. Settled
      BY <1>4 DEF Settled
    <2>4. QED
      BY <2>1, <2>2, <2>3 DEF ChartOK
  <1>14. Current /\ skipped \in BOOLEAN
    BY <1>1 DEF Current
  <1>b. HistoryOK
    <2>1. history \in [Intervals -> Seq(Candles)]
      BY <1>1, EmptyTurn
    <2>2. QED
      BY <1>1, <2>1, EmptyPage DEF HistoryOK
  <1>15. QED
    BY <1>b, <1>5, <1>7, <1>8, <1>9, <1>10, <1>11, <1>12, <1>13, <1>14 DEF IInv, FlowOK

\* A step that changes nothing.
LEMMA StutterOK ==
    ASSUME IInv, UNCHANGED vars PROVE StepOK
  <1>1. UNCHANGED <<engineVars, pubs, mailbox, sessionVars, outbound, chart, missed, behind>>
    BY DEF vars, appVars
  <1>2. UNCHANGED <<engineVars, appVars, told, interval, online>>
    BY DEF vars, sessionVars
  <1>3. EngineOK' /\ HistoryOK' /\ FlowOK' /\ ChartOK' /\ Current' /\ Keeps
    BY <1>1, StillFrame, StillSession
  <1>4. AppOK'
    BY <1>2, AppFrame DEF IInv
  <1>5. skipped' \in BOOLEAN
    BY <1>2 DEF IInv, appVars
  <1>6. QED
    BY <1>3, <1>4, <1>5 DEF StepOK, IInv

LEMMA NextOK ==
    ASSUME IInv, [Next]_vars PROVE StepOK
  <1>1. CASE ApplyTrade
    BY <1>1, ApplyTradeOK
  <1>2. CASE Publish
    BY <1>2, PublishOK
  <1>3. CASE PublishLost
    BY <1>3, PublishLostOK
  <1>4. CASE HandleChanged
    BY <1>4, HandleChangedOK
  <1>5. CASE SendCandleClosed
    BY <1>5, SendCandleClosedOK
  <1>6. CASE LoseCandleClosed
    BY <1>6, LoseCandleClosedOK
  <1>7. CASE FlushCandles
    BY <1>7, FlushCandlesOK
  <1>8. CASE Subscribe
    BY <1>8, SubscribeOK
  <1>9. CASE Receive
    BY <1>9, ReceiveOK
  <1>10. CASE SelectInterval
    BY <1>10, SelectIntervalOK
  <1>11. CASE Refresh
    BY <1>11, RefreshOK
  <1>12. CASE Serve
    BY <1>12, ServeOK
  <1>13. CASE Answer
    BY <1>13, AnswerOK
  <1>14. CASE Reset
    BY <1>14, ResetOK
  <1>15. CASE BookResync
    BY <1>15, BookResyncOK
  <1>16. CASE DropSubscribe
    BY <1>16, DropSubscribeOK
  <1>17. CASE Disconnect
    BY <1>17, DisconnectOK
  <1>18. CASE Connect
    BY <1>18, ConnectOK
  <1>19. CASE ServeCached
    BY <1>19, ServeCachedOK
  <1>20. CASE UNCHANGED vars
    BY <1>20, StutterOK
  <1>21. QED
    BY <1>1, <1>2, <1>3, <1>4, <1>5, <1>6, <1>7, <1>8, <1>9, <1>10, <1>11, <1>12,
       <1>13, <1>14, <1>15, <1>16, <1>17, <1>18, <1>19, <1>20 DEF Next

\* IInv is inductive: the engine's bookkeeping, the order in which closes and
\* changes travel through bus, session and queue, and what that implies for the
\* chart and for the pages of history under way and on the device.
THEOREM FeedInvariant == Spec => []IInv
  <1>1. IInv /\ [Next]_vars => IInv'
    BY NextOK DEF StepOK
  <1>2. QED
    BY InitOK, <1>1, PTL DEF Spec

\* For every capacity and every number of trades and loads, the chart of
\* CandleMerger.merge and mergeHistory is one interval in order of time, and a
\* bucket it shows as closed has ended in the engine, with the engine's value unless
\* its close was missed: in the bus, in the session, with the connection, in the app
\* or by a reset of the engine, whether pages come from the server or the device.
THEOREM ChartSoundProved == Spec => []ChartSound
  <1>1. IInv => ChartSound
    <2> SUFFICES ASSUME IInv PROVE ChartSound
      OBVIOUS
    <2>1. TypeOK
      BY TypeParts DEF IInv, EngineOK, FlowOK, AppOK
    <2>2. ChartOrdered /\ WrongCloseExplained
      BY DEF IInv, ChartOK
    <2>3. QED
      BY <2>1, <2>2 DEF ChartSound
  <1>2. QED
    BY FeedInvariant, <1>1, PTL

\* At rest the chart ends with the engine's active candle unless the newest change
\* was lost, and the session is on the interval the user selected, after a reconnect
\* too, unless it dropped the subscribe or a refresh took the selection's subscribe
\* away with its load (IntervalRequestGuard).
THEOREM AtRestCurrentProved == Spec => []AtRestCurrent
  <1>1. IInv => AtRestCurrent
    <2> SUFFICES ASSUME IInv PROVE AtRestCurrent
      OBVIOUS
    <2>1. EngineOK /\ Current /\ Follows /\ AppType
      BY DEF IInv, AppOK
    <2>2. selected \in Intervals
      BY <2>1 DEF AppType
    <2>3. QuietIsCurrent
      <3> SUFFICES ASSUME Quiet, interval = selected, selected \notin behind
                   PROVE  chart # <<>> /\ Last(chart) = active[selected]
        BY DEF QuietIsCurrent
      <3>1. OnWay = {} /\ pending[selected] = None
        BY ElemsEmpty DEF Quiet, OnWay
      <3>2. active[selected] # None
        BY <2>1, <2>2, ActiveFacts
      <3>3. QED
        BY <2>1, <2>2, <3>1, <3>2 DEF Current
    <2>4. SessionFollows
      BY <2>1 DEF SessionFollows, Follows, WillSubscribe
    <2>5. QED
      BY <2>3, <2>4 DEF AtRestCurrent
  <1>2. QED
    BY FeedInvariant, <1>1, PTL

\* No step of the app takes a bucket of the chart back to an older value or changes
\* one it shows as closed, whatever the socket, the coalescer and the history
\* endpoint deliver and in whatever order.
THEOREM NoRewriteProved == Spec => NoRewrite
  <1>1. IInv /\ [Next]_vars =>
            [\A c \in Elems(chart), d \in Elems(chart') :
                Same(c, d) => d.seq >= c.seq /\ (c.closed => c = d)]_vars
    BY NextOK DEF StepOK, Keeps
  <1>2. QED
    BY FeedInvariant, <1>1, PTL DEF Spec, NoRewrite
=============================================================================
