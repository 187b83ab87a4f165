----------------------------- MODULE Summary24h -----------------------------
(***************************************************************************)
(* The rolling 24 hour view of a market (market/summary.go): a ring of one  *)
(* bucket per minute with running totals, and a cached high, low and open   *)
(* that are recomputed only when the bucket that held them expires.         *)
(* A trade is [id, time, price]; its quantity is its price as well.         *)
(***************************************************************************)
EXTENDS Integers, SequencesExt

CONSTANT Window      \* summaryBuckets, 24 * 60 in the code

ASSUME WindowAssumption == Window \in Nat \ {0}

\* A bucket without trades is not set.
NoBucket == [minute |-> 0, volume |-> 0, high |-> 0, low |-> 0, open |-> 0, trades |-> 0]

EmptySummary ==
    [buckets |-> [i \in 0..Window - 1 |-> NoBucket], volume |-> 0, trades |-> 0,
     count |-> 0, high |-> 0, low |-> 0, open |-> 0, openAt |-> 0, last |-> 0,
     newest |-> 0]

BucketIndex(minute) == minute % Window
SetBuckets(s) == {b \in Range(s.buckets) : b.trades > 0}

\* clear keeps the last price and the newest minute.
Clear(s) == [EmptySummary EXCEPT !.last = s.last, !.newest = s.newest]

RecomputeHigh(s) ==
    [s EXCEPT !.high = CHOOSE p \in {b.high : b \in SetBuckets(s)} :
                          \A b \in SetBuckets(s) : b.high <= p]
RecomputeLow(s) ==
    [s EXCEPT !.low = CHOOSE p \in {b.low : b \in SetBuckets(s)} :
                         \A b \in SetBuckets(s) : b.low >= p]
RecomputeOpen(s) ==
    LET first == CHOOSE b \in SetBuckets(s) : \A c \in SetBuckets(s) : b.minute <= c.minute
    IN  [s EXCEPT !.open = first.open, !.openAt = first.minute]

\* Mutant: the cached high survives the bucket that held it.
ExpireKeepsHigh(s, i) ==
    LET b == s.buckets[i]
        cut == [s EXCEPT !.buckets[i] = NoBucket, !.volume = @ - b.volume,
                         !.trades = @ - b.trades, !.count = @ - 1]
    IN  IF cut.count = 0 THEN [cut EXCEPT !.high = 0, !.low = 0, !.open = 0, !.openAt = 0]
        ELSE LET low == IF b.low = s.low THEN RecomputeLow(cut) ELSE cut
             IN  IF b.minute = s.openAt THEN RecomputeOpen(low) ELSE low

\* expire: the bucket of slot i leaves the window.
Expire(s, i) ==
    LET b == s.buckets[i]
        cut == [s EXCEPT !.buckets[i] = NoBucket, !.volume = @ - b.volume,
                         !.trades = @ - b.trades, !.count = @ - 1]
        high == IF b.high = s.high THEN RecomputeHigh(cut) ELSE cut
        low == IF b.low = s.low THEN RecomputeLow(high) ELSE high
    IN  IF cut.count = 0 THEN [cut EXCEPT !.high = 0, !.low = 0, !.open = 0, !.openAt = 0]
        ELSE IF b.minute = s.openAt THEN RecomputeOpen(low) ELSE low

\* The slot of minute m, if what it holds is older than the window that ends at last.
ExpireOld(s, m, last) ==
    LET b == s.buckets[BucketIndex(m)]
    IN  IF b.trades > 0 /\ b.minute < last - Window + 1 THEN Expire(s, BucketIndex(m)) ELSE s

\* The summary after each of the minutes the new one passes.
Passed(s, last) ==
    LET at[k \in 0..Window] ==
            IF k = 0 THEN s ELSE ExpireOld(at[k - 1], s.newest + k, last)
    IN  at

\* advance: every bucket the new minute pushes out of the window expires.
Advance(s, minute) ==
    CASE s.count = 0 -> [s EXCEPT !.newest = minute]
      [] s.count > 0 /\ minute <= s.newest -> s
      [] s.count > 0 /\ minute - s.newest >= Window -> [Clear(s) EXCEPT !.newest = minute]
      [] OTHER -> [Passed(s, minute)[minute - s.newest] EXCEPT !.newest = minute]

\* The trade's bucket with the trade folded in.
Folded(b, t) ==
    IF b.trades = 0
    THEN [minute |-> t.time, volume |-> t.price, high |-> t.price, low |-> t.price,
          open |-> t.price, trades |-> 1]
    ELSE [b EXCEPT !.volume = @ + t.price, !.trades = @ + 1,
                   !.high = IF t.price > @ THEN t.price ELSE @,
                   !.low = IF t.price < @ THEN t.price ELSE @]

\* Summary24h.Apply.  A slot that holds another minute expires first.
ApplySummary(s, t) ==
    LET i == BucketIndex(t.time)
        adv == Advance(s, t.time)
        old == adv.buckets[i]
        free == IF old.trades > 0 /\ old.minute # t.time THEN Expire(adv, i) ELSE adv
        fresh == free.buckets[i].trades = 0
        count == IF fresh THEN free.count + 1 ELSE free.count
        first == fresh /\ (count = 1 \/ t.time < free.openAt)
        only == count = 1 /\ fresh
    IN  [buckets |-> [free.buckets EXCEPT ![i] = Folded(@, t)], count |-> count,
         volume |-> free.volume + t.price, trades |-> free.trades + 1,
         openAt |-> IF first THEN t.time ELSE free.openAt,
         open |-> IF first THEN t.price ELSE free.open,
         high |-> IF only \/ t.price > free.high THEN t.price ELSE free.high,
         low |-> IF only \/ t.price < free.low THEN t.price ELSE free.low,
         last |-> t.price,
         newest |-> IF t.time > free.newest THEN t.time ELSE free.newest]
=============================================================================
