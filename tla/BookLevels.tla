----------------------------- MODULE BookLevels -----------------------------
(***************************************************************************)
(* The price levels of the canonical order book (market/book.go) under the  *)
(* trades of the synthetic market (synthetic/generator.go, ladder.go), the  *)
(* periodic refresh, resets and the deltas of a recording.                  *)
(*                                                                          *)
(* A side is the sequence of its prices, best first.  Quantities are left   *)
(* out: a trade exhausts the touch or it does not, and churn that only      *)
(* resizes a level changes nothing here.  Random choices are free ones.     *)
(***************************************************************************)
EXTENDS Integers, SequencesExt

CONSTANTS
    MaxLevels,    \* OrderBook.maxLevels (100)
    KeepLevels,   \* a side this short loses no level to churn (20)
    WidenEvery,   \* Recenter widens the spacing every so many levels (20)
    Anchor,       \* the market's seed price
    Deviation,    \* how far the generator may leave it
    MaxStep,      \* bound: the generator's largest step
    MaxChanges,   \* bound: calls that change the book
    Deltas        \* the provider is a recording with book deltas

\* The configuration bounds the levels from below only; like the defaults, they are
\* few enough for the first ladder to stay above price zero.
ASSUME LevelsAssumption ==
    /\ MaxLevels \in Nat \ {0, 1} /\ KeepLevels \in Nat \ {0, 1} /\ WidenEvery \in Nat \ {0}
    /\ Anchor \in Nat /\ Deviation \in Nat /\ MaxStep \in Nat /\ MaxChanges \in Nat
    /\ Deltas \in BOOLEAN
    /\ Deviation < Anchor /\ 2 * MaxLevels + 2 < Anchor

VARIABLES
    bids, asks,  \* the two sides
    boot,        \* the ladder Snapshot cached, which a reset installs again
    updateID,    \* OrderBook.updateID
    price,       \* the generator's last price
    last,        \* Engine.lastPrice, 0 when there was no trade since the reset
    foreign,     \* a provider delta was applied since the reset
    refused,     \* checkOrdering refused the last change
    crashed,     \* an index out of range ended the process
    changes      \* calls made, for the bound

levelVars == <<bids, asks, boot, updateID, price, last, foreign, refused, crashed, changes>>

(* ------------------------------- both sides ------------------------------- *)

Descending(s) == \A i \in 1..Len(s) - 1 : s[i] > s[i + 1]
Ascending(s) == \A i \in 1..Len(s) - 1 : s[i] < s[i + 1]

\* checkOrdering.
Ordered(b, a) ==
    Descending(b) /\ Ascending(a) /\ (b # <<>> /\ a # <<>> => b[1] < a[1])

\* The prices of a loop that starts at `from` and takes these steps down or up.
Outward(from, dir, steps) ==
    LET at[i \in 0..Len(steps)] == IF i = 0 THEN from ELSE at[i - 1] + dir * steps[i]
    IN  [i \in 1..Len(steps) |-> at[i]]

\* BuildLadder: gaps of one or two ticks, the same on both sides.
BuildLadder(mid, gaps) == <<Outward(mid - 2, -1, gaps), Outward(mid + 2, 1, gaps)>>

LevelsInit ==
    /\ \E gaps \in [1..MaxLevels -> 1..2] :
          LET ladder == BuildLadder(Anchor, gaps)
          IN  boot = ladder /\ bids = ladder[1] /\ asks = ladder[2]
    /\ updateID = 0 /\ price = Anchor /\ last = 0
    /\ foreign = FALSE /\ refused = FALSE /\ crashed = FALSE /\ changes = 0

\* One more call on a process that still runs.
Call == ~crashed /\ changes < MaxChanges /\ changes' = changes + 1

\* A change becomes an update only if the levels it leaves are in order; the
\* levels it leaves are kept in any case.
Commit(b, a) ==
    /\ bids' = b /\ asks' = a
    /\ refused' = ~Ordered(b, a)
    /\ updateID' = IF Ordered(b, a) THEN updateID + 1 ELSE updateID

\* The lowest price is one tick.
AtLeastOne(p) == IF p <= 0 THEN 1 ELSE p

(* --------------------------------- trades --------------------------------- *)

\* Generator.Next: the walk's next price, kept within its band.
Clamp(p) ==
    IF p < Anchor - Deviation THEN Anchor - Deviation
    ELSE IF p > Anchor + Deviation THEN Anchor + Deviation ELSE p

\* sideForDelta: a flat move may have either side.
SidesFor(delta) ==
    IF delta > 0 THEN {"BUY"} ELSE IF delta < 0 THEN {"SELL"} ELSE {"BUY", "SELL"}

\* consume: the exhausted touch leaves and a level is added at the far end, which
\* for bids stops at the lowest price although that level may be there already.
Replaced(side, far) == Append(Tail(side), far)

\* A trade takes part of the touch or exhausts it; a side that loses its only
\* level is then indexed at -1, which ends the process.
Consume(side) ==
    LET hit == IF side = "BUY" THEN asks ELSE bids
    IN  \/ Commit(bids, asks) /\ UNCHANGED crashed
        \/ /\ Len(hit) > 1
           /\ \E g \in 1..2 :
                 IF side = "BUY"
                 THEN Commit(bids, Replaced(asks, Last(asks) + g))
                 ELSE Commit(Replaced(bids, AtLeastOne(Last(bids) - g)), asks)
           /\ UNCHANGED crashed
        \/ /\ Len(hit) = 1
           /\ crashed' = TRUE
           /\ UNCHANGED <<bids, asks, updateID, refused>>

\* One generated trade, applied to the book by ApplyTrade.
Trade ==
    /\ Call
    /\ \E step \in -MaxStep..MaxStep :
          /\ price' = Clamp(price + step)
          /\ last' = price'
          /\ IF bids = <<>> \/ asks = <<>>
             THEN UNCHANGED <<bids, asks, updateID, refused, crashed>>
             ELSE \E side \in SidesFor(price' - price) : Consume(side)
    /\ UNCHANGED <<boot, foreign>>

(* --------------------------------- refresh -------------------------------- *)

Tolerance == Max({6, (6 * MaxLevels) \div 100})

\* Mutant: drift is noticed by the spread alone.
NeedsRecenterSpreadOnly(mid) ==
    \/ Len(bids) < (MaxLevels * 3) \div 4 \/ Len(asks) < (MaxLevels * 3) \div 4
    \/ asks[1] - bids[1] > Tolerance

\* needsRecenter.
NeedsRecenter(mid) ==
    \/ Len(bids) < (MaxLevels * 3) \div 4 \/ Len(asks) < (MaxLevels * 3) \div 4
    \/ asks[1] - bids[1] > Tolerance
    \/ bids[1] > mid \/ asks[1] < mid

\* Mutant: an even mid gets both touches.
RecenterAtMid(mid) ==
    LET half == mid % 2
    IN  Commit([i \in 1..MaxLevels |-> mid - half - i + 1], [i \in 1..MaxLevels |-> mid + half + i - 1])

\* Recenter: the whole ladder around mid, wider with depth; what would lie below the
\* lowest price is put there.
Recenter(mid) ==
    LET steps == [i \in 1..MaxLevels |->
                    IF i = 1 THEN 1 + (mid % 2) ELSE 1 + ((i - 1) \div WidenEvery)]
        below == Outward(mid, -1, steps)
    IN  Commit([i \in 1..MaxLevels |-> AtLeastOne(below[i])], Outward(mid, 1, steps))

\* The ways to keep k levels of a side.
Thinned(side, k) ==
    {[i \in 1..k |-> side[at[i]]] :
        at \in {f \in [1..k -> 1..Len(side)] : \A i, j \in 1..k : i < j => f[i] < f[j]}}

\* mutateRandomLevel, up to three times: levels go while the side is long enough.
Churned(side) ==
    UNION {Thinned(side, k) :
             k \in {Len(side)} \cup {k \in KeepLevels..Len(side) : k >= Len(side) - 3}}

\* replenish: levels of one or two ticks are added until the side is full or, for
\* bids, the next one would not be positive.
Replenished(side, dir) ==
    {full \in UNION {{side \o Outward(Last(side), dir, gaps) : gaps \in [1..k -> 1..2]} :
                        k \in 0..MaxLevels - Len(side)} :
        /\ Last(full) > 0
        /\ Len(full) = MaxLevels \/ Last(full) + 2 * dir <= 0}

\* refreshBook takes the last trade's price, or the best bid when there is none.
Mid == IF last = 0 /\ bids # <<>> THEN bids[1] ELSE last

Refresh ==
    /\ Call /\ Mid > 0
    /\ IF bids = <<>> \/ asks = <<>> \/ NeedsRecenter(Mid)
       THEN Recenter(Mid)
       ELSE \E b \in Churned(bids), a \in Churned(asks) :
               \E fb \in Replenished(b, -1), fa \in Replenished(a, 1) : Commit(fb, fa)
    /\ UNCHANGED <<boot, price, last, foreign, crashed>>

(* ---------------------------- reset and deltas ---------------------------- *)

\* Reset: Install of the cached ladder.
Install ==
    /\ Call
    /\ bids' = boot[1] /\ asks' = boot[2]
    /\ updateID' = 0 /\ last' = 0 /\ foreign' = FALSE /\ refused' = FALSE
    /\ UNCHANGED <<boot, price, crashed>>

\* applyLevel: one price is deleted, kept, or put in front of the first worse one.
ApplyLevel(side, p, delete, dir) ==
    LET at == {i \in 1..Len(side) : side[i] = p}
        worse == {i \in 1..Len(side) : dir * side[i] > dir * p}
        grown == InsertAt(side, IF worse = {} THEN Len(side) + 1 ELSE Min(worse), p)
    IN  CASE delete /\ at # {} -> RemoveAt(side, Min(at))
          [] ~delete /\ at = {} ->
                SubSeq(grown, 1, IF Len(grown) > MaxLevels THEN MaxLevels ELSE Len(grown))
          [] OTHER -> side

ApplyBid(side, p, delete) == ApplyLevel(side, p, delete, -1)
ApplyAsk(side, p, delete) == ApplyLevel(side, p, delete, 1)

\* ApplyDelta of one level in sequence; stale and gapped ranges change nothing.
ApplyDelta ==
    /\ Deltas /\ Call
    /\ \E p \in Range(bids) \cup Range(asks) \cup {price}, delete \in BOOLEAN :
          \/ Commit(ApplyBid(bids, p, delete), asks)
          \/ Commit(bids, ApplyAsk(asks, p, delete))
    /\ foreign' = TRUE
    /\ UNCHANGED <<boot, price, last, crashed>>

LevelsNext == Trade \/ Refresh \/ Install \/ ApplyDelta

LevelsSpec == LevelsInit /\ [][LevelsNext]_levelVars

(* ------------------------------- properties -------------------------------- *)

\* Every variable keeps its type, prices stay positive and no side grows past its cap.
LevelsTyped ==
    /\ bids \in Seq(Nat \ {0}) /\ asks \in Seq(Nat \ {0})
    /\ Len(bids) <= MaxLevels /\ Len(asks) <= MaxLevels
    /\ updateID \in 0..changes /\ changes \in 0..MaxChanges /\ last \in Nat
    /\ price \in Anchor - Deviation..Anchor + Deviation
    /\ foreign \in BOOLEAN /\ refused \in BOOLEAN /\ crashed \in BOOLEAN

\* Each side stays strictly ordered through trades, churn, recentring and deltas,
\* even when a change is refused and its levels stay, but for bids that share the
\* lowest price.
SidesSorted ==
    /\ Ascending(asks)
    /\ \A i \in 1..Len(bids) - 1 :
          bids[i] > bids[i + 1] \/ (bids[i] = 1 /\ bids[i + 1] = 1)

\* Two bids share the lowest price.
Floored == Len(bids) > 1 /\ bids[Len(bids) - 1] = 1

\* Without provider deltas every change is accepted until bids share the lowest
\* price, so an update id stands for one state of the book: a refused change alters
\* the levels under the old id.
NothingRefused == refused \/ ~Ordered(bids, asks) => foreign \/ Floored

\* Without provider deltas the book keeps its full depth: whatever trades exhaust
\* or churn removes is replaced within the same update, unless the bids have no
\* room left below them.
DepthKept ==
    ~foreign => /\ Len(asks) = MaxLevels
                /\ Len(bids) = MaxLevels \/ (bids # <<>> /\ Last(bids) <= 2)

\* A refresh that is accepted leaves a full, uncrossed book around the mid, however
\* far trades, a reset or deltas had moved or thinned it; only bids without room
\* below them may stay short.
RefreshRestores ==
    [][Refresh /\ updateID' = updateID + 1 =>
          /\ Len(asks') = MaxLevels
          /\ Len(bids') = MaxLevels \/ (bids' # <<>> /\ Last(bids') <= 2)
          /\ bids'[1] <= Mid /\ Mid <= asks'[1] /\ bids'[1] < asks'[1]]_levelVars

\* A trade runs into an empty side only after provider deltas have thinned it.
CrashNeedsDelta == crashed => foreign

\* A book that only trades and refreshes change is sorted, full, never crashes and
\* refuses a change only at the lowest price; with provider deltas it is still sorted
\* and within its cap.
BookSound == LevelsTyped /\ SidesSorted /\ NothingRefused /\ DepthKept /\ CrashNeedsDelta

\* OrderBook says of its bids that they are in strictly descending price.
BidsDescend == Descending(bids)
=============================================================================
