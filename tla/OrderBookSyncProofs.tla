-------------------------- MODULE OrderBookSyncProofs --------------------------
(***************************************************************************)
(* Proofs about OrderBookSync, for every set of prices and quantities,     *)
(* every buffer cap and recovery budget, every number of loads in flight,  *)
(* and every frame the environment sends.                                  *)
(***************************************************************************)
EXTENDS MCOrderBookSync, WellFoundedInduction, SequenceTheorems, TLAPS

--------------------------------------------------------------------------------
(* The largest of some positions. *)

LEMMA LeastOfNats ==
    ASSUME NEW T, T \subseteq Nat, T # {}
    PROVE  \E x \in T : \A y \in T : x <= y
  <1> DEFINE R == OpToRel(<, Nat)
  <1>1. IsWellFoundedOn(R, Nat)
    BY NatLessThanWellFounded, Zenon
  <1>2. \A x, y \in Nat : <<x, y>> \in R <=> x < y
    BY DEF OpToRel
  <1> HIDE DEF R
  <1>3. PICK x \in T : \A y \in T : ~ (<<y, x>> \in R)
    BY <1>1, WFMin
  <1>4. \A y \in T : y \in Nat /\ x \in Nat /\ ~ (y < x)
    BY <1>2, <1>3
  <1>5. \A y \in T : x <= y
    BY <1>4
  <1>6. QED
    BY <1>5

LEMMA LastOfIn ==
    ASSUME NEW n \in Nat, NEW S, S \subseteq 1..n, S # {}
    PROVE  LastOf(S) \in S /\ \A j \in S : j <= LastOf(S)
  <1> DEFINE T == {n - i : i \in S}
  <1>0. \A i \in S : i \in Nat /\ n - i \in Nat /\ n - i \in T
    <2>1. \A i \in 1..n : i \in Nat /\ n - i \in Nat
      OBVIOUS
    <2>2. QED
      BY <2>1
  <1>1. T \subseteq Nat /\ T # {}
    BY <1>0
  <1>2. PICK x \in T : \A y \in T : x <= y
    <2> HIDE DEF T
    <2>1. QED
      BY <1>1, LeastOfNats
  <1>3. PICK i \in S : x = n - i
    BY <1>2
  <1>4. \A j \in S : j \in Nat /\ i \in Nat /\ n - j \in T
    BY <1>0
  <1> HIDE DEF T
  <1>5. \A j \in S : j <= i
    BY <1>2, <1>3, <1>4
  <1>6. QED
    BY <1>5 DEF LastOf

--------------------------------------------------------------------------------
(* The inductive invariant. *)

\* What an image, a range and an event of the bloc look like.
ImageFrames == {f \in Frames : f.kind = "snapshot" /\ f.levels \in Levels}
DeltaFrames == {f \in Frames : f.kind = "delta"}
Events ==
    [kind : {"snapshot"}, frame : ImageFrames, cached : BOOLEAN] \cup
    [kind : {"delta"}, frame : DeltaFrames, cached : BOOLEAN] \cup
    [kind : {"started", "retry", "lost"}, frame : Frames, cached : BOOLEAN]

PositionInv == state \in States /\ epoch \in Nat /\ applied \in Nat /\ attempts \in Nat
BookInv == view \in Levels /\ goal \in Levels
FlagInv == recoveryPending \in BOOLEAN /\ pure \in BOOLEAN
LoadsInv == loads \in [Loads -> {"idle", "subscribe", "recovery"}]
QueueInv == inbox \in Seq(Events) /\ cache \in Seq(ImageFrames) /\ Len(cache) <= 1
BufferInv == buffer \in Seq(DeltaFrames) /\ Len(buffer) <= BufferCap /\ BufferOrdered

\* The flag of a pending recovery stands for a load that will clear it.
PendingLoads == recoveryPending => \E k \in Loads : loads[k] # "idle"

IInv ==
    /\ PositionInv /\ BookInv /\ FlagInv /\ LoadsInv /\ QueueInv /\ BufferInv
    /\ Budget /\ PendingLoads /\ WaitingIsAsked

--------------------------------------------------------------------------------
(* Levels and frames. *)

LEMMA EmptyLevels == Empty \in Levels
  BY SyncAssumption DEF Empty, Levels

LEMMA ChangesAre ==
    ASSUME NEW d \in Changes
    PROVE  DOMAIN d \subseteq Prices /\ \A p \in DOMAIN d : d[p] \in Quantities
  BY DEF Changes

LEMMA LevelsAreChanges == Levels \subseteq Changes
  <1>1. Prices \in SUBSET Prices
    OBVIOUS
  <1>2. QED
    BY <1>1 DEF Levels, Changes

LEMMA OverlayLevels ==
    ASSUME NEW b \in Levels, NEW d \in Changes
    PROVE  Overlay(b, d) \in Levels
  BY ChangesAre DEF Overlay, Levels

LEMMA FrameFields ==
    ASSUME NEW f \in Frames
    PROVE  /\ f.epoch \in Nat /\ f.first \in Nat /\ f.last \in Nat
           /\ f.levels \in Changes /\ f.truth \in Levels /\ f.exact \in BOOLEAN
  BY DEF Frames

LEMMA NoFrameIs ==
    ASSUME NEW e \in Nat
    PROVE  NoFrame \in Frames /\ [NoFrame EXCEPT !.epoch = e] \in Frames
  BY EmptyLevels, LevelsAreChanges DEF NoFrame, Frames

LEMMA EnvFramesAre == EnvImages \subseteq ImageFrames /\ EnvDeltas \subseteq DeltaFrames
  <1>1. ASSUME NEW e \in 0..MaxEpoch, NEW i \in 0..MaxId, NEW l \in Levels
        PROVE  EnvImage(e, i, l) \in ImageFrames
    <2>1. l \in Changes /\ e \in Nat /\ i \in Nat
      BY LevelsAreChanges
    <2>2. QED
      BY <2>1 DEF EnvImage, ImageFrames, Frames
  <1>2. ASSUME NEW e \in 0..MaxEpoch, NEW f \in 1..MaxId, NEW i \in 1..MaxId, NEW d \in Changes
        PROVE  EnvDelta(e, f, i, d) \in DeltaFrames
    <2>1. Overlay(Empty, d) \in Levels /\ e \in Nat /\ f \in Nat /\ i \in Nat
      BY OverlayLevels, EmptyLevels
    <2>2. QED
      BY <2>1 DEF EnvDelta, DeltaFrames, Frames
  <1>3. EnvImages \subseteq ImageFrames
    BY <1>1 DEF EnvImages
  <1>4. EnvDeltas \subseteq DeltaFrames
    BY <1>2 DEF EnvDeltas
  <1>5. QED
    BY <1>3, <1>4

--------------------------------------------------------------------------------
(* Draining the buffer onto an image. *)

\* The ranges drained, and what they leave of the book.
LEMMA DrainFacts ==
    ASSUME IInv, NEW s \in ImageFrames
    PROVE  /\ Drained(s) \subseteq 1..Len(buffer) /\ Len(buffer) \in Nat
           /\ Drained(s) # {} => LastOf(Drained(s)) \in Drained(s)
           /\ \A i \in 1..Len(buffer) : buffer[i] \in DeltaFrames /\ buffer[i] \in Frames
           /\ DrainedLevels(s) \in Levels
  <1>1. buffer \in Seq(DeltaFrames) /\ s.levels \in Levels /\ s \in Frames
    BY DEF IInv, BufferInv, ImageFrames
  <1>2. Len(buffer) \in Nat /\ DOMAIN buffer = 1..Len(buffer)
    BY <1>1
  <1>3. \A i \in 1..Len(buffer) : buffer[i] \in DeltaFrames /\ buffer[i] \in Frames
    BY <1>1 DEF DeltaFrames
  <1>4. Drained(s) \subseteq 1..Len(buffer)
    BY <1>2 DEF Drained, Kept
  <1>5. Drained(s) # {} => LastOf(Drained(s)) \in Drained(s)
    BY <1>2, <1>4, LastOfIn
  <1>6. ASSUME NEW p \in Prices
        PROVE  LET on == {i \in Drained(s) : p \in DOMAIN buffer[i].levels}
               IN  (IF on = {} THEN s.levels[p] ELSE buffer[LastOf(on)].levels[p]) \in Quantities
    <2> DEFINE on == {i \in Drained(s) : p \in DOMAIN buffer[i].levels}
    <2>1. CASE on = {}
      BY <1>1, <2>1 DEF Levels
    <2>2. CASE on # {}
      <3>1. on \subseteq 1..Len(buffer)
        BY <1>4
      <3>2. LastOf(on) \in on
        <4> HIDE DEF on
        <4>1. QED
          BY <1>2, <2>2, <3>1, LastOfIn
      <3>3. LastOf(on) \in 1..Len(buffer) /\ p \in DOMAIN buffer[LastOf(on)].levels
        BY <3>1, <3>2
      <3> HIDE DEF on
      <3>4. buffer[LastOf(on)].levels \in Changes
        BY <1>3, <3>3, FrameFields
      <3>5. buffer[LastOf(on)].levels[p] \in Quantities
        BY <3>3, <3>4, ChangesAre
      <3>6. QED
        BY <2>2, <3>5 DEF on
    <2>3. QED
      BY <2>1, <2>2
  <1>7. DrainedLevels(s) \in Levels
    BY <1>6 DEF DrainedLevels, Levels
  <1>8. QED
    BY <1>2, <1>3, <1>4, <1>5, <1>7

\* Whatever draining advances over is in one of the ranges drained.
LEMMA DrainCovers ==
    ASSUME IInv, NEW s \in ImageFrames, Drained(s) # {},
           NEW n \in Nat, s.last < n, n <= buffer[LastOf(Drained(s))].last
    PROVE  \E i \in 1..Len(buffer) : buffer[i].kind = "delta" /\ buffer[i].first <= n /\ n <= buffer[i].last
  <1> DEFINE T == {i \in Drained(s) : n <= buffer[i].last}
  <1>1. /\ Drained(s) \subseteq 1..Len(buffer) /\ Len(buffer) \in Nat /\ LastOf(Drained(s)) \in Drained(s)
        /\ \A i \in 1..Len(buffer) : buffer[i] \in DeltaFrames /\ buffer[i] \in Frames
        /\ s \in Frames
    BY DrainFacts DEF ImageFrames
  <1>2. PICK i \in T : \A j \in T : i <= j
    <2>1. T \subseteq Nat /\ T # {}
      BY <1>1
    <2> HIDE DEF T
    <2>2. QED
      BY <2>1, LeastOfNats
  <1>3. i \in Drained(s) /\ i \in 1..Len(buffer) /\ n <= buffer[i].last /\ i \in Kept(s)
    BY <1>1, <1>2 DEF Drained
  <1>4. i \notin Holes(s)
    <2>1. \A j \in Holes(s) : i < j
      BY <1>3 DEF Drained
    <2>2. ~ (i < i)
      BY <1>3
    <2>3. QED
      BY <2>1, <2>2
  <1>5. ~ (buffer[i].first > Before(s, i) + 1)
    BY <1>3, <1>4 DEF Holes
  <1>6. Before(s, i) < n /\ Before(s, i) \in Nat
    <2>1. CASE i - 1 \in Kept(s)
      <3>1. i - 1 \in 1..Len(buffer) /\ i - 1 < i
        <4>1. DOMAIN buffer = 1..Len(buffer)
          BY DEF IInv, BufferInv
        <4>2. QED
          BY <1>3, <2>1, <4>1 DEF Kept
      <3>2. i - 1 \in Drained(s)
        <4>1. \A j \in Holes(s) : i < j /\ j \in 1..Len(buffer)
          <5>1. DOMAIN buffer = 1..Len(buffer)
            BY DEF IInv, BufferInv
          <5>2. QED
            BY <1>3, <5>1 DEF Drained, Holes, Kept
        <4>2. \A j \in Holes(s) : i - 1 < j
          BY <1>3, <4>1
        <4>3. QED
          BY <2>1, <4>2 DEF Drained
      <3>3. i - 1 \notin T
        BY <1>2, <1>3, <3>1
      <3>4. ~ (n <= buffer[i - 1].last) /\ buffer[i - 1].last \in Nat
        BY <1>1, <3>1, <3>2, <3>3, FrameFields
      <3>5. QED
        BY <2>1, <3>4 DEF Before
    <2>2. CASE i - 1 \notin Kept(s)
      BY <1>1, <2>2, FrameFields DEF Before
    <2>3. QED
      BY <2>1, <2>2
  <1>7. buffer[i].first \in Nat /\ buffer[i].kind = "delta"
    BY <1>1, <1>3, FrameFields DEF DeltaFrames
  <1>8. buffer[i].first <= n
    BY <1>5, <1>6, <1>7
  <1>9. QED
    BY <1>3, <1>7, <1>8

--------------------------------------------------------------------------------
(* The closed form of the drain is the loop of _drain. *)

\* Induction, for a set of numbers.
LEMMA Induct ==
    ASSUME NEW T, 0 \in T, \A n \in Nat : n \in T => n + 1 \in T
    PROVE  Nat \subseteq T
  <1> SUFFICES ASSUME Nat \ T # {} PROVE FALSE
    OBVIOUS
  <1>1. PICK x \in Nat \ T : \A y \in Nat \ T : x <= y
    BY LeastOfNats
  <1>2. x # 0 /\ x - 1 \in Nat /\ x - 1 \in T
    BY <1>1
  <1>3. QED
    BY <1>1, <1>2

\* f holds what the loop has reached after each of the first n ranges.
Looped(f, s, n) ==
    f = [i \in 0..n |->
            IF i = 0 THEN [stopped |-> FALSE, applied |-> s.last, view |-> s.levels]
            ELSE DrainStep(f[i - 1], buffer[i])]

LEMMA LoopExists ==
    ASSUME NEW s, NEW N \in Nat
    PROVE  \E f : Looped(f, s, N)
  <1> DEFINE start == [stopped |-> FALSE, applied |-> s.last, view |-> s.levels]
             E(x, k) == DrainStep(x, buffer[k])
             T == {n \in Nat : \E f : Looped(f, s, n)}
  <1> HIDE DEF start, E
  <1>1. 0 \in T
    <2> DEFINE f == [k \in 0..0 |-> start]
    <2>1. f = [k \in 0..0 |-> IF k = 0 THEN start ELSE E(f[k - 1], k)]
      OBVIOUS
    <2>2. Looped(f, s, 0)
      BY <2>1 DEF Looped, start, E
    <2>3. QED
      BY <2>2
  <1>2. ASSUME NEW n \in Nat, n \in T
        PROVE  n + 1 \in T
    <2>1. PICK f : Looped(f, s, n)
      BY <1>2
    <2> DEFINE g == [k \in 0..n + 1 |-> IF k = n + 1 THEN E(f[n], n + 1) ELSE f[k]]
    <2>2. f = [k \in 0..n |-> IF k = 0 THEN start ELSE E(f[k - 1], k)]
      BY <2>1 DEF Looped, start, E
    <2>3. \A k \in 0..n : f[k] = IF k = 0 THEN start ELSE E(f[k - 1], k)
      BY <2>2
    <2>4. ASSUME NEW k \in 0..n + 1
          PROVE  g[k] = IF k = 0 THEN start ELSE E(g[k - 1], k)
      <3>1. CASE k = 0
        <4>1. 0 \in 0..n /\ 0 # n + 1 /\ g[k] = f[0]
          BY <3>1
        <4>2. QED
          BY <2>3, <3>1, <4>1
      <3>2. CASE k # 0
        <4>1. k - 1 \in 0..n /\ k - 1 \in 0..n + 1 /\ k - 1 # n + 1
          BY <3>2
        <4>2. g[k - 1] = f[k - 1]
          BY <4>1
        <4>3. CASE k = n + 1
          <5>1. k - 1 = n /\ g[k] = E(f[n], k)
            BY <4>3
          <5>2. QED
            BY <3>2, <4>2, <5>1
        <4>4. CASE k # n + 1
          <5>1. k \in 0..n /\ g[k] = f[k]
            BY <4>4
          <5>2. f[k] = E(f[k - 1], k)
            BY <2>3, <3>2, <5>1
          <5>3. QED
            BY <3>2, <4>2, <5>1, <5>2
        <4>5. QED
          BY <4>3, <4>4
      <3>3. QED
        BY <3>1, <3>2
    <2>5. g = [k \in 0..n + 1 |-> g[k]]
      OBVIOUS
    <2> HIDE DEF g
    <2>6. g = [k \in 0..n + 1 |-> IF k = 0 THEN start ELSE E(g[k - 1], k)]
      BY <2>4, <2>5
    <2>7. Looped(g, s, n + 1)
      BY <2>6 DEF Looped, start, E
    <2>8. QED
      BY <2>7
  <1>3. Nat \subseteq T
    <2> HIDE DEF T
    <2>1. QED
      BY <1>1, <1>2, Induct
  <1>4. QED
    BY <1>3

\* In an ordered buffer the ranges an image does not supersede are the last ones,
\* and only the first of them can leave a hole.
LEMMA KeptFacts ==
    ASSUME IInv, NEW s \in ImageFrames
    PROVE  /\ Kept(s) \subseteq 1..Len(buffer)
           /\ \A i \in Kept(s), j \in 1..Len(buffer) : i <= j => j \in Kept(s)
           /\ \A i \in Holes(s) : i \in Kept(s) /\ i - 1 \notin Kept(s)
           /\ Holes(s) # {} => Drained(s) = {}
           /\ Holes(s) = {} => Drained(s) = Kept(s)
  <1>1. /\ Len(buffer) \in Nat /\ DOMAIN buffer = 1..Len(buffer) /\ s.last \in Nat
        /\ \A i \in 1..Len(buffer) : buffer[i].last \in Nat /\ buffer[i].first \in Nat
    <2>1. buffer \in Seq(DeltaFrames) /\ s \in Frames
      BY DEF IInv, BufferInv, ImageFrames
    <2>2. \A i \in 1..Len(buffer) : buffer[i] \in Frames
      BY <2>1 DEF DeltaFrames
    <2>3. QED
      BY <2>1, <2>2, FrameFields
  <1>2. \A i \in 2..Len(buffer) : /\ buffer[i].last > buffer[i - 1].last
                                  /\ buffer[i].first <= buffer[i - 1].last + 1
    BY DEF IInv, BufferInv, BufferOrdered
  <1>3. Kept(s) \subseteq 1..Len(buffer)
    BY <1>1 DEF Kept
  <1>4. ASSUME NEW i \in Kept(s), NEW j \in 1..Len(buffer), i <= j
        PROVE  j \in Kept(s)
    <2> DEFINE T == {d \in Nat : i + d <= Len(buffer) => i + d \in Kept(s)}
    <2>0. i \in 1..Len(buffer)
      BY <1>3
    <2>1. 0 \in T
      BY <2>0
    <2>2. ASSUME NEW d \in Nat, d \in T
          PROVE  d + 1 \in T
      <3> SUFFICES ASSUME i + (d + 1) <= Len(buffer)
                   PROVE  i + (d + 1) \in Kept(s)
        OBVIOUS
      <3>1. /\ i + (d + 1) \in 2..Len(buffer) /\ i + (d + 1) \in 1..Len(buffer)
            /\ (i + (d + 1)) - 1 = i + d /\ i + d \in 1..Len(buffer) /\ i + d <= Len(buffer)
        BY <1>1, <2>0
      <3>2. i + d \in Kept(s)
        BY <2>2, <3>1
      <3>3. buffer[i + d].last > s.last
        BY <3>2 DEF Kept
      <3>4. buffer[i + (d + 1)].last > buffer[i + d].last
        BY <1>2, <3>1
      <3>5. buffer[i + (d + 1)].last > s.last
        BY <1>1, <3>1, <3>3, <3>4
      <3>6. QED
        BY <1>1, <3>1, <3>5 DEF Kept
    <2>3. Nat \subseteq T
      <3> HIDE DEF T
      <3>1. QED
        BY <2>1, <2>2, Induct
    <2>4. j - i \in Nat /\ i + (j - i) = j /\ j <= Len(buffer)
      BY <1>1, <1>4, <2>0
    <2>5. j - i \in T
      BY <2>3, <2>4
    <2>6. QED
      BY <2>4, <2>5
  <1>5. ASSUME NEW i \in Holes(s)
        PROVE  i \in Kept(s) /\ i - 1 \notin Kept(s)
    <2>1. i \in Kept(s) /\ buffer[i].first > Before(s, i) + 1
      BY DEF Holes
    <2>2. ASSUME i - 1 \in Kept(s)
          PROVE  FALSE
      <3>1. i \in 2..Len(buffer) /\ i - 1 \in 1..Len(buffer) /\ i \in 1..Len(buffer)
        BY <1>1, <1>3, <2>1, <2>2
      <3>2. Before(s, i) = buffer[i - 1].last
        BY <2>2 DEF Before
      <3>3. buffer[i].first <= buffer[i - 1].last + 1
        BY <1>2, <3>1
      <3>4. buffer[i].first \in Nat /\ buffer[i - 1].last \in Nat
        BY <1>1, <3>1
      <3>5. QED
        BY <2>1, <3>2, <3>3, <3>4
    <2>3. QED
      BY <2>1, <2>2
  <1>6. ASSUME NEW h \in Holes(s), NEW i \in Drained(s)
        PROVE  FALSE
    <2>1. i \in Kept(s) /\ i < h /\ h \in Kept(s) /\ h - 1 \notin Kept(s)
      BY <1>5 DEF Drained
    <2>2. i \in 1..Len(buffer) /\ h \in 1..Len(buffer)
      BY <1>3, <2>1
    <2>3. h - 1 \in 1..Len(buffer) /\ i <= h - 1
      BY <1>1, <2>1, <2>2
    <2>4. QED
      BY <1>4, <2>1, <2>3
  <1>7. Holes(s) = {} => Drained(s) = Kept(s)
    BY DEF Drained
  <1>8. Holes(s) # {} => Drained(s) = {}
    BY <1>6
  <1>9. QED
    BY <1>3, <1>4, <1>5, <1>7, <1>8

\* The image with the ranges it does not supersede, up to the i-th, on top.
LevelsUpTo(s, i) ==
    [p \in Prices |->
        LET on == {j \in Kept(s) : j <= i /\ p \in DOMAIN buffer[j].levels} IN
        IF on = {} THEN s.levels[p] ELSE buffer[LastOf(on)].levels[p]]

LEMMA LevelsStart ==
    ASSUME NEW s \in ImageFrames, NEW i, \A j \in Kept(s) : ~(j <= i)
    PROVE  LevelsUpTo(s, i) = s.levels
  <1>1. s.levels \in Levels
    BY DEF ImageFrames
  <1>2. s.levels = [p \in Prices |-> s.levels[p]]
    BY <1>1 DEF Levels
  <1>3. ASSUME NEW p \in Prices
        PROVE  LevelsUpTo(s, i)[p] = s.levels[p]
    BY DEF LevelsUpTo
  <1>4. LevelsUpTo(s, i) = [p \in Prices |-> LevelsUpTo(s, i)[p]]
    BY DEF LevelsUpTo
  <1>5. QED
    BY <1>2, <1>3, <1>4

LEMMA LevelsGrow ==
    ASSUME IInv, NEW s \in ImageFrames, NEW i \in Nat, i + 1 \in Kept(s)
    PROVE  LevelsUpTo(s, i + 1) = Overlay(LevelsUpTo(s, i), buffer[i + 1].levels)
  <1> DEFINE d == buffer[i + 1].levels
             on(k, p) == {j \in Kept(s) : j <= k /\ p \in DOMAIN buffer[j].levels}
  <1>1. Kept(s) \subseteq 1..Len(buffer) /\ Len(buffer) \in Nat
    BY KeptFacts DEF IInv, BufferInv
  <1>2. \A j \in Kept(s) : j \in Nat
    BY <1>1
  <1>3. \A k, p : p \in Prices => LevelsUpTo(s, k)[p] = IF on(k, p) = {} THEN s.levels[p] ELSE buffer[LastOf(on(k, p))].levels[p]
    BY DEF LevelsUpTo
  <1>4. ASSUME NEW p \in Prices
        PROVE  LevelsUpTo(s, i + 1)[p] = IF p \in DOMAIN d THEN d[p] ELSE LevelsUpTo(s, i)[p]
    <2>1. CASE p \in DOMAIN d
      <3>1. i + 1 \in on(i + 1, p) /\ on(i + 1, p) \subseteq 1..Len(buffer) /\ \A j \in on(i + 1, p) : j <= i + 1
        BY <1>1, <2>1
      <3>2. on(i + 1, p) # {}
        BY <3>1
      <3>3. LastOf(on(i + 1, p)) \in on(i + 1, p) /\ \A j \in on(i + 1, p) : j <= LastOf(on(i + 1, p))
        <4> HIDE DEF on
        <4>1. QED
          BY <1>1, <3>1, <3>2, LastOfIn
      <3>4. LastOf(on(i + 1, p)) \in Nat /\ LastOf(on(i + 1, p)) <= i + 1 /\ i + 1 <= LastOf(on(i + 1, p))
        <4> HIDE DEF on
        <4>1. QED
          BY <1>1, <3>1, <3>3
      <3>5. LastOf(on(i + 1, p)) = i + 1
        BY <3>4
      <3> HIDE DEF on
      <3>6. QED
        BY <1>3, <2>1, <3>2, <3>5
    <2>2. CASE p \notin DOMAIN d
      <3>1. ASSUME NEW j \in Kept(s), p \in DOMAIN buffer[j].levels
            PROVE  j <= i + 1 <=> j <= i
        <4>1. j # i + 1
          BY <2>2, <3>1
        <4>2. QED
          BY <1>2, <4>1
      <3>2. on(i + 1, p) = on(i, p)
        BY <3>1
      <3> HIDE DEF on
      <3>3. QED
        BY <1>3, <2>2, <3>2
    <2>3. QED
      BY <2>1, <2>2
  <1>5. LevelsUpTo(s, i + 1) = [p \in Prices |-> LevelsUpTo(s, i + 1)[p]]
    BY DEF LevelsUpTo
  <1> HIDE DEF on
  <1>6. QED
    BY <1>4, <1>5 DEF Overlay

\* What the loop has reached after its first i ranges.
Reached(s, i) ==
    [stopped |-> Holes(s) # {} /\ i \in Kept(s),
     applied |-> IF Holes(s) = {} /\ i \in Kept(s) THEN buffer[i].last ELSE s.last,
     view    |-> IF Holes(s) = {} THEN LevelsUpTo(s, i) ELSE s.levels]

\* The three things the loop can have reached.
LEMMA ReachedIs ==
    ASSUME NEW s, NEW i
    PROVE  /\ Holes(s) # {} /\ i \in Kept(s)
                => Reached(s, i) = [stopped |-> TRUE, applied |-> s.last, view |-> s.levels]
           /\ Holes(s) # {} /\ i \notin Kept(s)
                => Reached(s, i) = [stopped |-> FALSE, applied |-> s.last, view |-> s.levels]
           /\ Holes(s) = {} /\ i \in Kept(s)
                => Reached(s, i) = [stopped |-> FALSE, applied |-> buffer[i].last, view |-> LevelsUpTo(s, i)]
           /\ Holes(s) = {} /\ i \notin Kept(s)
                => Reached(s, i) = [stopped |-> FALSE, applied |-> s.last, view |-> LevelsUpTo(s, i)]
  <1>1. (Holes(s) # {} /\ i \in Kept(s)) \in BOOLEAN
    BY Zenon
  <1>2. CASE Holes(s) # {} /\ i \in Kept(s)
    <2>1. (Holes(s) # {} /\ i \in Kept(s)) = TRUE
      BY <1>2, Zenon
    <2>2. QED
      BY <1>2, <2>1 DEF Reached
  <1>3. CASE ~(Holes(s) # {} /\ i \in Kept(s))
    <2>1. (Holes(s) # {} /\ i \in Kept(s)) = FALSE
      BY <1>3, Zenon
    <2>2. QED
      BY <1>3, <2>1 DEF Reached
  <1>4. QED
    BY <1>2, <1>3

LEMMA ReachedStep ==
    ASSUME IInv, NEW s \in ImageFrames, NEW i \in Nat, i + 1 <= Len(buffer)
    PROVE  DrainStep(Reached(s, i), buffer[i + 1]) = Reached(s, i + 1)
  <1> DEFINE r == buffer[i + 1]
  <1>1. /\ Len(buffer) \in Nat /\ DOMAIN buffer = 1..Len(buffer) /\ s.last \in Nat
        /\ i + 1 \in 1..Len(buffer) /\ r.last \in Nat /\ r.first \in Nat
        /\ i \in Kept(s) => i \in 1..Len(buffer) /\ buffer[i].last \in Nat
    <2>1. buffer \in Seq(DeltaFrames) /\ s \in Frames
      BY DEF IInv, BufferInv, ImageFrames
    <2>2. \A k \in 1..Len(buffer) : buffer[k] \in Frames
      BY <2>1 DEF DeltaFrames
    <2>3. Len(buffer) \in Nat /\ DOMAIN buffer = 1..Len(buffer) /\ i + 1 \in 1..Len(buffer)
      BY <2>1
    <2>4. i \in Kept(s) => i \in 1..Len(buffer)
      BY KeptFacts
    <2>5. QED
      BY <2>1, <2>2, <2>3, <2>4, FrameFields
  <1>2. i \in Kept(s) => i + 1 \in Kept(s)
    BY <1>1, KeptFacts
  <1>3. r.last > s.last <=> i + 1 \in Kept(s)
    BY <1>1 DEF Kept
  <1>4. CASE i + 1 \notin Kept(s)
    <2>1. i \notin Kept(s) /\ r.last <= s.last
      BY <1>1, <1>2, <1>3, <1>4
    <2>2. \A j \in Kept(s) : ~(j <= i + 1) /\ ~(j <= i)
      <3>1. \A j \in Kept(s) : j \in Nat /\ ~(j <= i + 1)
        BY <1>1, <1>4, KeptFacts
      <3>2. QED
        BY <3>1
    <2>3. LevelsUpTo(s, i) = s.levels /\ LevelsUpTo(s, i + 1) = s.levels
      BY <2>2, LevelsStart
    <2>4. /\ Reached(s, i) = [stopped |-> FALSE, applied |-> s.last, view |-> s.levels]
          /\ Reached(s, i + 1) = [stopped |-> FALSE, applied |-> s.last, view |-> s.levels]
      BY <1>4, <2>1, <2>3, ReachedIs
    <2>5. QED
      BY <2>1, <2>4 DEF DrainStep
  <1>5. CASE i + 1 \in Kept(s) /\ Holes(s) # {}
    <2>1. Reached(s, i + 1) = [stopped |-> TRUE, applied |-> s.last, view |-> s.levels]
      BY <1>5, ReachedIs
    <2>2. CASE i \in Kept(s)
      <3>1. Reached(s, i) = [stopped |-> TRUE, applied |-> s.last, view |-> s.levels]
        BY <1>5, <2>2, ReachedIs
      <3>2. QED
        BY <2>1, <3>1 DEF DrainStep
    <2>3. CASE i \notin Kept(s)
      <3>1. Reached(s, i) = [stopped |-> FALSE, applied |-> s.last, view |-> s.levels]
        BY <1>5, <2>3, ReachedIs
      <3>2. PICK h \in Holes(s) : TRUE
        BY <1>5
      <3>3. h \in Kept(s) /\ h - 1 \notin Kept(s) /\ h \in 1..Len(buffer)
        BY KeptFacts
      <3>4. h = i + 1
        <4>1. ~(h <= i)
          <5>1. h <= i => i \in 1..Len(buffer)
            BY <1>1, <3>3
          <5>2. QED
            BY <2>3, <3>3, <5>1, KeptFacts
        <4>2. ~(h > i + 1)
          <5>1. h > i + 1 => h - 1 \in 1..Len(buffer) /\ i + 1 <= h - 1
            BY <1>1, <3>3
          <5>2. QED
            BY <1>5, <3>3, <5>1, KeptFacts
        <4>3. QED
          BY <3>3, <4>1, <4>2
      <3>5. (i + 1) - 1 = i
        OBVIOUS
      <3>6. Before(s, i + 1) = s.last
        BY <2>3, <3>5 DEF Before
      <3>7. r.first > s.last + 1
        BY <3>2, <3>4, <3>6 DEF Holes
      <3>8. ~(r.last <= s.last)
        BY <1>1, <1>3, <1>5
      <3> DEFINE acc == Reached(s, i)
      <3>9. acc.stopped = FALSE /\ acc.applied = s.last /\ acc.view = s.levels
        BY <3>1
      <3>10. DrainStep(acc, r) = [stopped |-> TRUE, applied |-> acc.applied, view |-> acc.view]
        <4> HIDE DEF acc, r
        <4>1. QED
          BY <3>7, <3>8, <3>9 DEF DrainStep
      <3>11. QED
        BY <2>1, <3>9, <3>10
    <2>4. QED
      BY <2>2, <2>3
  <1>6. CASE i + 1 \in Kept(s) /\ Holes(s) = {}
    <2>1. Reached(s, i + 1) = [stopped |-> FALSE, applied |-> r.last, view |-> LevelsUpTo(s, i + 1)]
      BY <1>6, ReachedIs
    <2>2. LevelsUpTo(s, i + 1) = Overlay(LevelsUpTo(s, i), r.levels)
      BY <1>6, LevelsGrow
    <2>3. Reached(s, i) = [stopped |-> FALSE, applied |-> Before(s, i + 1), view |-> LevelsUpTo(s, i)]
      <3>1. (i + 1) - 1 = i
        OBVIOUS
      <3>2. QED
        BY <1>6, <3>1, ReachedIs DEF Before
    <2>4. ~(r.first > Before(s, i + 1) + 1)
      BY <1>6 DEF Holes
    <2>5. ~(r.last <= Before(s, i + 1))
      <3>0. (i + 1) - 1 = i
        OBVIOUS
      <3>1. CASE i \in Kept(s)
        <4>1. i + 1 \in 2..Len(buffer)
          BY <1>1, <3>1
        <4>2. r.last > buffer[i].last
          BY <3>0, <4>1 DEF IInv, BufferInv, BufferOrdered
        <4>3. QED
          BY <1>1, <3>0, <3>1, <4>2 DEF Before
      <3>2. CASE i \notin Kept(s)
        BY <1>1, <1>3, <1>6, <3>0, <3>2 DEF Before
      <3>3. QED
        BY <3>1, <3>2
    <2> DEFINE acc == Reached(s, i)
    <2>6. acc.stopped = FALSE /\ acc.applied = Before(s, i + 1) /\ acc.view = LevelsUpTo(s, i)
      BY <2>3
    <2>7. DrainStep(acc, r) = [stopped |-> FALSE, applied |-> r.last, view |-> Overlay(acc.view, r.levels)]
      <3> HIDE DEF acc, r
      <3>1. QED
        BY <2>4, <2>5, <2>6 DEF DrainStep
    <2>8. QED
      BY <2>1, <2>2, <2>6, <2>7
  <1>7. QED
    BY <1>4, <1>5, <1>6

LEMMA LoopReaches ==
    ASSUME IInv, NEW s \in ImageFrames
    PROVE  DrainLoop(s) = Reached(s, Len(buffer))
  <1> DEFINE f == CHOOSE g : Looped(g, s, Len(buffer))
             start == [stopped |-> FALSE, applied |-> s.last, view |-> s.levels]
             T == {i \in Nat : i <= Len(buffer) => f[i] = Reached(s, i)}
  <1>1. Len(buffer) \in Nat
    BY DEF IInv, BufferInv
  <1>2. Looped(f, s, Len(buffer))
    <2>1. \E g : Looped(g, s, Len(buffer))
      BY <1>1, LoopExists
    <2>2. QED
      BY <2>1
  <1>3. DrainLoop(s) = f[Len(buffer)]
    BY DEF DrainLoop, Looped
  <1> HIDE DEF f
  <1>4. \A i \in 0..Len(buffer) : f[i] = IF i = 0 THEN start ELSE DrainStep(f[i - 1], buffer[i])
    <2> DEFINE E(x, k) == DrainStep(x, buffer[k])
    <2>1. f = [i \in 0..Len(buffer) |-> IF i = 0 THEN start ELSE E(f[i - 1], i)]
      BY <1>2 DEF Looped
    <2> HIDE DEF E, start
    <2>2. \A i \in 0..Len(buffer) : f[i] = IF i = 0 THEN start ELSE E(f[i - 1], i)
      BY <2>1
    <2>3. QED
      BY <2>2 DEF E
  <1>5. 0 \in T
    <2>1. f[0] = start
      <3> HIDE DEF start
      <3>1. 0 \in 0..Len(buffer)
        BY <1>1
      <3>2. QED
        BY <1>4, <3>1
    <2>2. 0 \notin Kept(s) /\ \A j \in Kept(s) : ~(j <= 0)
      BY <1>1, KeptFacts
    <2>3. LevelsUpTo(s, 0) = s.levels
      BY <2>2, LevelsStart
    <2>4. Reached(s, 0) = start
      BY <2>2, <2>3, ReachedIs
    <2>5. QED
      BY <2>1, <2>4
  <1>6. ASSUME NEW i \in Nat, i \in T
        PROVE  i + 1 \in T
    <2> SUFFICES ASSUME i + 1 <= Len(buffer)
                 PROVE  f[i + 1] = Reached(s, i + 1)
      OBVIOUS
    <2>1. i + 1 \in 0..Len(buffer) /\ i + 1 # 0 /\ (i + 1) - 1 = i /\ i <= Len(buffer)
      BY <1>1
    <2>2. f[i] = Reached(s, i)
      BY <1>6, <2>1
    <2>3. f[i + 1] = DrainStep(f[i], buffer[i + 1])
      <3>1. f[i + 1] = DrainStep(f[(i + 1) - 1], buffer[i + 1])
        <4> HIDE DEF start
        <4>1. QED
          BY <1>4, <2>1
      <3>2. QED
        BY <2>1, <3>1
    <2>4. QED
      BY <2>2, <2>3, ReachedStep
  <1>7. Nat \subseteq T
    <2> HIDE DEF T
    <2>1. QED
      BY <1>5, <1>6, Induct
  <1>8. Len(buffer) \in T
    BY <1>1, <1>7
  <1>9. f[Len(buffer)] = Reached(s, Len(buffer))
    BY <1>1, <1>8
  <1>10. QED
    BY <1>3, <1>9

\* The loop stops at a hole exactly when the closed form has one, at the position
\* and with the levels of the ranges drained.
LEMMA LoopIsClosedForm ==
    ASSUME IInv, NEW s \in ImageFrames
    PROVE  LET loop == DrainLoop(s) IN
           /\ loop.stopped = (Holes(s) # {})
           /\ loop.applied = IF Drained(s) = {} THEN s.last ELSE buffer[LastOf(Drained(s))].last
           /\ loop.view = DrainedLevels(s)
  <1> DEFINE n == Len(buffer)
             loop == DrainLoop(s)
  <1>1. n \in Nat /\ Kept(s) \subseteq 1..n /\ DOMAIN buffer = 1..n
    BY KeptFacts DEF IInv, BufferInv
  <1>2. loop = Reached(s, n)
    BY LoopReaches
  <1>3. Kept(s) # {} => n \in Kept(s)
    <2> SUFFICES ASSUME NEW k \in Kept(s)
                 PROVE  n \in Kept(s)
      OBVIOUS
    <2>1. n \in 1..n /\ k <= n
      BY <1>1
    <2>2. QED
      BY <2>1, KeptFacts
  <1>4. CASE Holes(s) # {}
    <2>1. Drained(s) = {} /\ n \in Kept(s)
      <3>1. Kept(s) # {}
        BY <1>4 DEF Holes
      <3>2. QED
        BY <1>3, <1>4, <3>1, KeptFacts
    <2>2. loop = [stopped |-> TRUE, applied |-> s.last, view |-> s.levels]
      BY <1>2, <1>4, <2>1, ReachedIs
    <2>3. DrainedLevels(s) = s.levels
      <3>1. s.levels = [p \in Prices |-> s.levels[p]]
        BY DEF ImageFrames, Levels
      <3>2. \A p \in Prices : DrainedLevels(s)[p] = s.levels[p]
        BY <2>1 DEF DrainedLevels
      <3>3. DrainedLevels(s) = [p \in Prices |-> DrainedLevels(s)[p]]
        BY DEF DrainedLevels
      <3>4. QED
        BY <3>1, <3>2, <3>3
    <2>4. (Holes(s) # {}) = TRUE
      BY <1>4, Zenon
    <2>5. loop.stopped = TRUE
      BY <2>2
    <2>6. loop.stopped = (Holes(s) # {})
      BY <2>4, <2>5, Zenon
    <2>7. loop.applied = s.last /\ loop.view = DrainedLevels(s)
      BY <2>2, <2>3
    <2>8. QED
      BY <2>1, <2>6, <2>7
  <1>5. CASE Holes(s) = {}
    <2>1. Drained(s) = Kept(s)
      BY <1>5, KeptFacts
    <2>2. LevelsUpTo(s, n) = DrainedLevels(s)
      <3>1. ASSUME NEW p
            PROVE  {j \in Kept(s) : j <= n /\ p \in DOMAIN buffer[j].levels}
                     = {j \in Drained(s) : p \in DOMAIN buffer[j].levels}
        BY <1>1, <2>1
      <3>2. QED
        BY <3>1 DEF LevelsUpTo, DrainedLevels
    <2>3. loop.stopped = FALSE /\ loop.view = LevelsUpTo(s, n)
      BY <1>2, <1>5, ReachedIs
    <2>4. (Holes(s) # {}) = FALSE
      BY <1>5, Zenon
    <2>5. loop.stopped = (Holes(s) # {})
      BY <2>3, <2>4, Zenon
    <2>6. loop.applied = IF Drained(s) = {} THEN s.last ELSE buffer[LastOf(Drained(s))].last
      <3>1. CASE Kept(s) = {}
        BY <1>2, <1>5, <2>1, <3>1, ReachedIs
      <3>2. CASE Kept(s) # {}
        <4>1. LastOf(Kept(s)) \in Kept(s) /\ n <= LastOf(Kept(s))
          BY <1>1, <1>3, <3>2, LastOfIn
        <4>2. LastOf(Kept(s)) \in 1..n
          BY <1>1, <4>1
        <4>3. LastOf(Kept(s)) = n
          BY <1>1, <4>1, <4>2
        <4>4. loop.applied = buffer[n].last
          BY <1>2, <1>3, <1>5, <3>2, ReachedIs
        <4>5. QED
          BY <2>1, <3>2, <4>3, <4>4
      <3>3. QED
        BY <3>1, <3>2
    <2>7. QED
      BY <2>2, <2>3, <2>5, <2>6
  <1>6. QED
    BY <1>4, <1>5

--------------------------------------------------------------------------------
(* The queue of events, and requests for an image. *)

Waited == \E i \in DOMAIN inbox : inbox[i].kind \in {"snapshot", "lost", "started"}

LEMMA QueueFacts ==
    ASSUME inbox \in Seq(Events), NEW e \in Events, Queue(e)
    PROVE  /\ inbox' \in Seq(Events) /\ (Waited => Waited')
           /\ e.kind \in {"snapshot", "lost", "started"} => Waited'
  <1>1. /\ inbox' \in Seq(Events) /\ Len(inbox') = Len(inbox) + 1 /\ Len(inbox) \in Nat
        /\ \A i \in 1..Len(inbox) : inbox'[i] = inbox[i]
        /\ inbox'[Len(inbox) + 1] = e
    BY AppendProperties DEF Queue
  <1>2. DOMAIN inbox = 1..Len(inbox) /\ DOMAIN inbox' = 1..Len(inbox) + 1
    BY <1>1
  <1>3. \A i \in 1..Len(inbox) : i \in 1..Len(inbox) + 1
    BY <1>1
  <1>4. Len(inbox) + 1 \in 1..Len(inbox) + 1
    BY <1>1
  <1>5. Waited => Waited'
    BY <1>1, <1>2, <1>3 DEF Waited
  <1>6. e.kind \in {"snapshot", "lost", "started"} => Waited'
    BY <1>1, <1>2, <1>4 DEF Waited
  <1>7. QED
    BY <1>1, <1>5, <1>6

LEMMA TakeFacts ==
    ASSUME inbox \in Seq(Events), NEW k, Handles(k)
    PROVE  /\ inbox' \in Seq(Events) /\ inbox[1] \in Events /\ inbox[1].kind = k
           /\ k \notin {"snapshot", "lost", "started"} /\ Waited => Waited'
  <1>1. inbox # <<>> /\ inbox[1].kind = k /\ inbox' = Tail(inbox)
    BY DEF Handles
  <1>2. /\ inbox' \in Seq(Events) /\ Len(inbox') = Len(inbox) - 1 /\ Len(inbox) \in Nat \ {0}
        /\ \A i \in 1..Len(inbox) - 1 : inbox'[i] = inbox[i + 1]
    BY <1>1, HeadTailProperties
  <1>3. inbox[1] \in Events
    <2>1. 1 \in 1..Len(inbox)
      BY <1>2
    <2>2. QED
      BY <2>1
  <1>4. DOMAIN inbox = 1..Len(inbox) /\ DOMAIN inbox' = 1..Len(inbox) - 1
    BY <1>2
  <1>5. ASSUME k \notin {"snapshot", "lost", "started"}, NEW i \in DOMAIN inbox,
               inbox[i].kind \in {"snapshot", "lost", "started"}
        PROVE  Waited'
    <2>1. i # 1
      BY <1>1, <1>5
    <2>2. i - 1 \in 1..Len(inbox) - 1 /\ (i - 1) + 1 = i
      BY <1>2, <1>4, <2>1
    <2>3. inbox'[i - 1] = inbox[i]
      BY <1>2, <2>2
    <2>4. QED
      BY <1>4, <1>5, <2>2, <2>3 DEF Waited
  <1>6. QED
    BY <1>1, <1>2, <1>3, <1>5 DEF Waited

\* What is in the frame of an event.
LEMMA EventFrames ==
    ASSUME NEW e \in Events
    PROVE  /\ e.frame \in Frames
           /\ e.kind = "snapshot" => e.frame \in ImageFrames
           /\ e.kind = "delta" => e.frame \in DeltaFrames
  BY DEF Events, ImageFrames, DeltaFrames

Asked == \E k \in Loads : loads[k] # "idle"

LEMMA RequestFacts ==
    ASSUME IInv, Request("recovery")
    PROVE  LoadsInv' /\ Asked' /\ recoveryPending' \in BOOLEAN
  <1>1. PICK k \in Loads : loads[k] = "idle" /\ loads' = [loads EXCEPT ![k] = "recovery"]
    BY DEF Request
  <1>2. LoadsInv' /\ loads'[k] = "recovery"
    BY <1>1 DEF IInv, LoadsInv
  <1>3. recoveryPending' \in BOOLEAN
    BY Zenon DEF Request
  <1>4. QED
    BY <1>2, <1>3 DEF Asked

LEMMA ShortBuffer ==
    ASSUME NEW b \in Seq(DeltaFrames), Len(b) <= 1, buffer' = b
    PROVE  BufferInv'
  <1>1. Len(b) \in Nat /\ ~ \E i \in 2..Len(b) : TRUE
    OBVIOUS
  <1>2. Len(b) <= BufferCap
    BY <1>1, SyncAssumption
  <1>3. QED
    BY <1>1, <1>2 DEF BufferInv, BufferOrdered

LEMMA RecoveryFacts ==
    ASSUME IInv, NEW b \in Seq(DeltaFrames), Len(b) <= 1, BeginRecovery(b)
    PROVE  /\ LoadsInv' /\ recoveryPending' \in BOOLEAN /\ BufferInv' /\ Budget' /\ PendingLoads'
           /\ attempts' \in Nat /\ state' \in {"recovering", "error"}
           /\ state' = "recovering" => Asked'
  <1>1. attempts' = OneMore /\ buffer' = b /\ OneMore \in Nat /\ OneMore # 0
    BY SyncAssumption DEF BeginRecovery, OneMore, IInv, PositionInv
  <1>2. BufferInv'
    BY <1>1, ShortBuffer
  <1>3. CASE OneMore > MaxAttempts
    <2>1. state' = "error" /\ loads' = loads /\ recoveryPending' = recoveryPending
      BY <1>3 DEF BeginRecovery
    <2>2. LoadsInv' /\ PendingLoads'
      BY <2>1 DEF IInv, LoadsInv, PendingLoads
    <2>3. recoveryPending' \in BOOLEAN
      BY <2>1, Zenon DEF IInv, FlagInv
    <2>4. Budget'
      BY <1>1, <1>3, <2>1 DEF Budget
    <2>5. QED
      BY <1>1, <1>2, <2>1, <2>2, <2>3, <2>4
  <1>4. CASE ~ (OneMore > MaxAttempts)
    <2>1. state' = "recovering" /\ Request("recovery")
      BY <1>4 DEF BeginRecovery
    <2>2. LoadsInv' /\ Asked' /\ recoveryPending' \in BOOLEAN
      BY <2>1, RequestFacts
    <2>3. Budget'
      BY <1>1, <1>4, <2>1, SyncAssumption DEF Budget
    <2>4. QED
      BY <1>1, <1>2, <2>1, <2>2, <2>3 DEF PendingLoads, Asked
  <1>5. QED
    BY <1>3, <1>4

LEMMA ResetFacts ==
    ASSUME IInv, NEW e \in Nat, ResetTo(e)
    PROVE  /\ LoadsInv' /\ recoveryPending' \in BOOLEAN /\ BufferInv' /\ Budget' /\ PendingLoads'
           /\ PositionInv' /\ Asked'
  <1>1. buffer' = <<>> /\ epoch' = e /\ applied' = 0 /\ attempts' = 0 /\ state' = "syncing" /\ Request("recovery")
    BY DEF ResetTo
  <1>2. LoadsInv' /\ Asked' /\ recoveryPending' \in BOOLEAN
    BY <1>1, RequestFacts
  <1>3. BufferInv'
    <2>1. <<>> \in Seq(DeltaFrames) /\ Len(<<>>) <= 1
      OBVIOUS
    <2>2. QED
      BY <1>1, <2>1, ShortBuffer
  <1>4. PositionInv' /\ Budget'
    BY <1>1, SyncAssumption DEF PositionInv, Budget, States
  <1>5. QED
    BY <1>2, <1>3, <1>4 DEF PendingLoads, Asked

--------------------------------------------------------------------------------
(* The invariant is inductive. *)

\* Events that arrive leave the book alone.
LEMMA ArrivalStep ==
    ASSUME IInv, UNCHANGED <<sync, view, goal, pure>>, NEW e \in Events, Queue(e)
    PROVE  /\ PositionInv' /\ BookInv' /\ BufferInv' /\ Budget' /\ inbox' \in Seq(Events) /\ pure' \in BOOLEAN
           /\ (Asked => Asked') => WaitingIsAsked'
           /\ e.kind \in {"snapshot", "lost", "started"} => WaitingIsAsked'
  <1>1. UNCHANGED <<state, epoch, applied, attempts, buffer, view, goal, pure>>
    BY DEF sync
  <1>2. PositionInv' /\ BookInv' /\ BufferInv' /\ Budget'
    BY <1>1 DEF IInv, PositionInv, BookInv, BufferInv, BufferOrdered, Budget
  <1>3. pure' \in BOOLEAN
    BY <1>1, Zenon DEF IInv, FlagInv
  <1>4. /\ inbox' \in Seq(Events) /\ (Waited => Waited')
        /\ e.kind \in {"snapshot", "lost", "started"} => Waited'
    BY QueueFacts DEF IInv, QueueInv
  <1>5. state \in {"syncing", "recovering"} => Asked \/ Waited
    BY DEF IInv, WaitingIsAsked, Asked, Waited
  <1>6. ((Asked => Asked') => WaitingIsAsked') /\ (e.kind \in {"snapshot", "lost", "started"} => WaitingIsAsked')
    BY <1>1, <1>4, <1>5 DEF WaitingIsAsked, Asked, Waited
  <1>7. QED
    BY <1>2, <1>3, <1>4, <1>6

LEMMA EnvStep ==
    ASSUME IInv, EnvReceive \/ EnvSignal \/ (\E k \in Loads : EnvAnswer(k))
    PROVE  IInv'
  <1>1. LoadsInv /\ FlagInv /\ QueueInv /\ PendingLoads
    BY DEF IInv
  <1>2. CASE EnvReceive
    <2>1. PICK f \in EnvImages \cup EnvDeltas : Receive(f)
      BY <1>2 DEF EnvReceive
    <2>2. Event(f.kind, f, FALSE) \in Events
      BY EnvFramesAre DEF Event, Events, ImageFrames, DeltaFrames
    <2>3. Queue(Event(f.kind, f, FALSE)) /\ UNCHANGED <<sync, view, recoveryPending, loads, cache, goal, pure>>
      BY <2>1 DEF Receive
    <2>4. /\ PositionInv' /\ BookInv' /\ BufferInv' /\ Budget' /\ inbox' \in Seq(Events) /\ pure' \in BOOLEAN
          /\ (Asked => Asked') => WaitingIsAsked'
      BY <2>2, <2>3, ArrivalStep
    <2>5. LoadsInv' /\ QueueInv' /\ PendingLoads' /\ (Asked => Asked')
      BY <1>1, <2>3, <2>4 DEF LoadsInv, QueueInv, PendingLoads, Asked
    <2>6. FlagInv'
      BY <1>1, <2>3, <2>4, Zenon DEF FlagInv
    <2>7. QED
      BY <2>4, <2>5, <2>6 DEF IInv
  <1>3. CASE EnvSignal
    <2>1. PICK e \in 0..MaxEpoch, k \in {"started", "retry", "lost"} : Signal(k, e)
      BY <1>3 DEF EnvSignal
    <2> DEFINE ev == Event(k, [NoFrame EXCEPT !.epoch = e], FALSE)
    <2>2. ev \in Events
      <3>1. e \in Nat
        OBVIOUS
      <3>2. [NoFrame EXCEPT !.epoch = e] \in Frames
        BY <3>1, NoFrameIs
      <3>3. QED
        BY <3>2 DEF Event, Events
    <2>3. Queue(ev) /\ UNCHANGED <<sync, view, recoveryPending, loads, cache, goal, pure>>
      BY <2>1 DEF Signal
    <2> HIDE DEF ev
    <2>4. /\ PositionInv' /\ BookInv' /\ BufferInv' /\ Budget' /\ inbox' \in Seq(Events) /\ pure' \in BOOLEAN
          /\ (Asked => Asked') => WaitingIsAsked'
      BY <2>2, <2>3, ArrivalStep
    <2>5. LoadsInv' /\ QueueInv' /\ PendingLoads' /\ (Asked => Asked')
      BY <1>1, <2>3, <2>4 DEF LoadsInv, QueueInv, PendingLoads, Asked
    <2>6. FlagInv'
      BY <1>1, <2>3, <2>4, Zenon DEF FlagInv
    <2>7. QED
      BY <2>4, <2>5, <2>6 DEF IInv
  <1>4. ASSUME NEW k \in Loads, EnvAnswer(k)
        PROVE  IInv'
    <2>1. PICK ev \in Events : /\ ev.kind \in {"snapshot", "lost", "started"} /\ Queue(ev) /\ Answer(k)
                               /\ UNCHANGED <<sync, view, goal, pure>> /\ cache' \in Seq(ImageFrames) /\ Len(cache') <= 1
      <3>1. CASE EnvFresh(k)
        <4>1. PICK f \in EnvImages : AnswerFresh(k, f)
          BY <3>1 DEF EnvFresh
        <4>2. f \in ImageFrames
          BY EnvFramesAre
        <4>3. Event("snapshot", f, FALSE) \in Events /\ Event("snapshot", f, FALSE).kind = "snapshot"
          BY <4>2 DEF Event, Events
        <4>4. <<f>> \in Seq(ImageFrames) /\ Len(<<f>>) <= 1
          BY <4>2
        <4>5. QED
          BY <4>1, <4>3, <4>4 DEF AnswerFresh
      <3>2. CASE AnswerCached(k)
        <4>1. Head(cache) \in ImageFrames
          BY <1>1, <3>2 DEF AnswerCached, QueueInv
        <4>2. Event("snapshot", Head(cache), TRUE) \in Events /\ Event("snapshot", Head(cache), TRUE).kind = "snapshot"
          BY <4>1 DEF Event, Events
        <4>3. QED
          BY <1>1, <3>2, <4>2 DEF AnswerCached, QueueInv
      <3>3. CASE AnswerFailed(k)
        <4>1. Event("lost", NoFrame, FALSE) \in Events /\ Event("lost", NoFrame, FALSE).kind = "lost"
          <5>1. NoFrame \in Frames
            BY NoFrameIs
          <5>2. QED
            BY <5>1 DEF Event, Events
        <4>2. QED
          BY <1>1, <3>3, <4>1 DEF AnswerFailed, QueueInv
      <3>4. QED
        BY <1>4, <3>1, <3>2, <3>3 DEF EnvAnswer
    <2>2. /\ PositionInv' /\ BookInv' /\ BufferInv' /\ Budget' /\ inbox' \in Seq(Events) /\ pure' \in BOOLEAN
          /\ WaitingIsAsked'
      BY <2>1, ArrivalStep
    <2>3. LoadsInv' /\ recoveryPending' = FALSE
      BY <1>1, <2>1 DEF Answer, LoadsInv
    <2>4. QueueInv' /\ PendingLoads'
      BY <2>1, <2>2, <2>3 DEF QueueInv, PendingLoads
    <2>5. FlagInv'
      BY <2>2, <2>3, Zenon DEF FlagInv
    <2>6. QED
      BY <2>2, <2>3, <2>4, <2>5 DEF IInv
  <1>5. QED
    BY <1>2, <1>3, <1>4

LEMMA BufferGrows ==
    ASSUME IInv, NEW f \in DeltaFrames, Len(buffer) < BufferCap, buffer' = Append(buffer, f),
           buffer # <<>> => f.last > buffer[Len(buffer)].last /\ f.first <= buffer[Len(buffer)].last + 1
    PROVE  BufferInv'
  <1>1. buffer \in Seq(DeltaFrames) /\ Len(buffer) \in Nat /\ BufferOrdered
    BY DEF IInv, BufferInv
  <1>2. /\ buffer' \in Seq(DeltaFrames) /\ Len(buffer') = Len(buffer) + 1
        /\ \A i \in 1..Len(buffer) : buffer'[i] = buffer[i]
        /\ buffer'[Len(buffer) + 1] = f
    BY <1>1, AppendProperties
  <1>3. ASSUME NEW i \in 2..Len(buffer) + 1
        PROVE  buffer'[i].last > buffer'[i - 1].last /\ buffer'[i].first <= buffer'[i - 1].last + 1
    <2>1. CASE i = Len(buffer) + 1
      <3>1. i - 1 = Len(buffer) /\ i - 1 \in 1..Len(buffer) /\ buffer # <<>>
        BY <1>1, <2>1
      <3>2. QED
        BY <1>2, <2>1, <3>1
    <2>2. CASE i # Len(buffer) + 1
      <3>1. i \in 2..Len(buffer) /\ i \in 1..Len(buffer) /\ i - 1 \in 1..Len(buffer)
        BY <1>1, <2>2
      <3>2. QED
        BY <1>1, <1>2, <3>1 DEF BufferOrdered
    <2>3. QED
      BY <2>1, <2>2
  <1>4. BufferOrdered'
    BY <1>2, <1>3 DEF BufferOrdered
  <1>5. Len(buffer') <= BufferCap
    BY <1>1, <1>2, SyncAssumption
  <1>6. QED
    BY <1>2, <1>4, <1>5 DEF BufferInv

LEMMA HandleStep ==
    ASSUME IInv, HandleEvent
    PROVE  IInv'
  <1>1. /\ PositionInv /\ BookInv /\ FlagInv /\ LoadsInv /\ QueueInv /\ BufferInv /\ Budget /\ PendingLoads
        /\ inbox \in Seq(Events)
        /\ state \in {"syncing", "recovering"} => Asked \/ Waited
    BY DEF IInv, QueueInv, WaitingIsAsked, Asked, Waited
  <1>2. (state' \in {"syncing", "recovering"} => Asked' \/ Waited') => WaitingIsAsked'
    BY DEF WaitingIsAsked, Asked, Waited
  <1>3. ASSUME NEW k, Handles(k), cache' = cache
        PROVE  /\ QueueInv' /\ Head1 \in Frames
               /\ k = "snapshot" => Head1 \in ImageFrames
               /\ k = "delta" => Head1 \in DeltaFrames
               /\ k \notin {"snapshot", "lost", "started"} /\ Waited => Waited'
    <2>1. /\ inbox' \in Seq(Events) /\ inbox[1] \in Events /\ inbox[1].kind = k
          /\ k \notin {"snapshot", "lost", "started"} /\ Waited => Waited'
      BY <1>1, <1>3, TakeFacts
    <2>2. QueueInv'
      BY <1>1, <1>3, <2>1 DEF QueueInv
    <2>3. QED
      BY <2>1, <2>2, EventFrames DEF Head1
  <1>4. CASE HandleStarted
    <2>1. Handles("started") /\ cache' = cache
      BY <1>4 DEF HandleStarted
    <2>2. QueueInv' /\ Head1.epoch \in Nat
      BY <1>3, <2>1, FrameFields
    <2>3. PositionInv' /\ BookInv' /\ Budget'
      BY <1>4, <2>2, EmptyLevels, SyncAssumption DEF HandleStarted, PositionInv, BookInv, Budget, States
    <2>4. BufferInv'
      <3>1. <<>> \in Seq(DeltaFrames) /\ Len(<<>>) <= 1
        OBVIOUS
      <3>2. QED
        BY <1>4, <3>1, ShortBuffer DEF HandleStarted
    <2>5. PICK k \in Loads : loads' = [j \in Loads |-> IF j = k THEN "subscribe" ELSE "idle"]
      BY <1>4 DEF HandleStarted
    <2>6. LoadsInv' /\ loads'[k] # "idle"
      BY <2>5 DEF LoadsInv
    <2>7. FlagInv'
      BY <1>1, <1>4, Zenon DEF FlagInv, HandleStarted
    <2>8. PendingLoads' /\ WaitingIsAsked'
      BY <2>6 DEF PendingLoads, WaitingIsAsked
    <2>9. QED
      BY <2>2, <2>3, <2>4, <2>6, <2>7, <2>8 DEF IInv
  <1>5. CASE HandleRetry \/ DeltaOtherEpoch
    <2>1. PICK k : Handles(k) /\ cache' = cache /\ UNCHANGED <<view, goal, pure>>
                   /\ (ResetTo(epoch) \/ ResetTo(Head1.epoch))
      BY <1>5 DEF HandleRetry, DeltaOtherEpoch
    <2>2. QueueInv' /\ Head1.epoch \in Nat /\ epoch \in Nat
      BY <1>1, <1>3, <2>1, FrameFields DEF PositionInv
    <2>3. /\ LoadsInv' /\ recoveryPending' \in BOOLEAN /\ BufferInv' /\ Budget' /\ PendingLoads'
          /\ PositionInv' /\ Asked'
      BY <2>1, <2>2, ResetFacts
    <2>4. BookInv'
      BY <1>1, <2>1 DEF BookInv
    <2>5. FlagInv'
      BY <1>1, <2>1, <2>3, Zenon DEF FlagInv
    <2>6. QED
      BY <1>2, <2>2, <2>3, <2>4, <2>5 DEF IInv
  <1>6. CASE HandleLost
    <2>1. Handles("lost") /\ cache' = cache
      BY <1>6 DEF HandleLost
    <2>2. QueueInv'
      BY <1>3, <2>1
    <2>3. /\ state' = "stale"
          /\ UNCHANGED <<epoch, applied, attempts, buffer, view, recoveryPending, loads, goal, pure>>
      BY <1>6 DEF HandleLost
    <2>4. PositionInv' /\ BookInv' /\ LoadsInv' /\ BufferInv' /\ Budget' /\ PendingLoads' /\ WaitingIsAsked'
      BY <1>1, <2>3 DEF PositionInv, BookInv, LoadsInv, BufferInv, BufferOrdered, Budget, PendingLoads, WaitingIsAsked, States
    <2>5. FlagInv'
      BY <1>1, <2>3, Zenon DEF FlagInv
    <2>6. QED
      BY <2>2, <2>4, <2>5 DEF IInv
  <1>7. ASSUME NEW k, Handles(k), UNCHANGED <<sync, view, recoveryPending, loads, cache, goal, pure>>,
               k = "delta" \/ (k = "snapshot" /\ (state = "live" \/ recoveryPending))
        PROVE  IInv'
    <2>1. QueueInv' /\ (k = "delta" /\ Waited => Waited')
      BY <1>3, <1>7
    <2>2. UNCHANGED <<state, epoch, applied, attempts, buffer, view, recoveryPending, loads, goal, pure>>
      BY <1>7 DEF sync
    <2>3. PositionInv' /\ BookInv' /\ LoadsInv' /\ BufferInv' /\ Budget' /\ PendingLoads'
      BY <1>1, <2>2 DEF PositionInv, BookInv, LoadsInv, BufferInv, BufferOrdered, Budget, PendingLoads
    <2>4. FlagInv'
      BY <1>1, <2>2, Zenon DEF FlagInv
    <2>5. (Asked => Asked') /\ (recoveryPending => Asked')
      BY <1>1, <2>2 DEF Asked, PendingLoads
    <2>6. state' \in {"syncing", "recovering"} => Asked' \/ Waited'
      BY <1>1, <1>7, <2>1, <2>2, <2>5
    <2>7. QED
      BY <1>2, <2>1, <2>3, <2>4, <2>6 DEF IInv
  <1>8. CASE DropSnapshot
    <2>1. Handles("snapshot") /\ Unwanted /\ UNCHANGED <<sync, view, recoveryPending, loads, cache, goal, pure>>
      BY <1>8 DEF DropSnapshot
    <2>2. state = "live" \/ recoveryPending
      BY <2>1 DEF Unwanted
    <2>3. QED
      BY <1>7, <2>1, <2>2
  <1>9. CASE DeltaIgnored
    BY <1>7, <1>9 DEF DeltaIgnored
  <1>10. CASE HandleSnapshot
    <2>1. Handles("snapshot") /\ cache' = cache /\ Install(Head1)
      BY <1>10 DEF HandleSnapshot
    <2>2. QueueInv' /\ Head1 \in ImageFrames /\ Head1 \in Frames
      BY <1>3, <2>1
    <2> DEFINE s == Head1
    <2>3. s.epoch \in Nat /\ s.last \in Nat /\ s.truth \in Levels
      BY <2>2, FrameFields
    <2>4. BookInv' /\ epoch' \in Nat /\ applied' \in Nat
      <3>1. epoch' = s.epoch /\ view' = DrainedLevels(s) /\ DrainedLevels(s) \in Levels
        BY <2>1, <2>2, DrainFacts DEF Install
      <3>2. CASE Drained(s) = {}
        BY <2>1, <2>3, <3>1, <3>2 DEF Install, BookInv
      <3>3. CASE Drained(s) # {}
        <4>1. LastOf(Drained(s)) \in Drained(s) /\ LastOf(Drained(s)) \in 1..Len(buffer)
                /\ buffer[LastOf(Drained(s))] \in Frames
          BY <2>2, <3>3, DrainFacts
        <4>2. buffer[LastOf(Drained(s))].last \in Nat /\ buffer[LastOf(Drained(s))].truth \in Levels
          BY <4>1, FrameFields
        <4>3. QED
          BY <2>1, <2>3, <3>1, <3>3, <4>2 DEF Install, BookInv
      <3>4. QED
        BY <3>2, <3>3
    <2>5. pure' \in BOOLEAN
      BY <2>1, Zenon DEF Install
    <2>6. /\ LoadsInv' /\ recoveryPending' \in BOOLEAN /\ BufferInv' /\ Budget' /\ PendingLoads'
          /\ attempts' \in Nat /\ state' \in States
          /\ state' \in {"syncing", "recovering"} => Asked'
      <3>1. CASE Holes(s) # {}
        <4>1. <<>> \in Seq(DeltaFrames) /\ Len(<<>>) <= 1
          OBVIOUS
        <4>2. BeginRecovery(<<>>)
          BY <2>1, <3>1 DEF Install
        <4>3. /\ LoadsInv' /\ recoveryPending' \in BOOLEAN /\ BufferInv' /\ Budget' /\ PendingLoads'
              /\ attempts' \in Nat /\ state' \in {"recovering", "error"}
              /\ state' = "recovering" => Asked'
          BY <4>1, <4>2, RecoveryFacts
        <4>4. QED
          BY <4>3 DEF States
      <3>2. CASE Holes(s) = {}
        <4>1. state' = "live" /\ attempts' = 0 /\ buffer' = <<>> /\ UNCHANGED <<loads, recoveryPending>>
          BY <2>1, <3>2 DEF Install
        <4>2. <<>> \in Seq(DeltaFrames) /\ Len(<<>>) <= 1
          OBVIOUS
        <4>3. BufferInv'
          BY <4>1, <4>2, ShortBuffer
        <4>4. recoveryPending' \in BOOLEAN
          BY <1>1, <4>1, Zenon DEF FlagInv
        <4>5. LoadsInv' /\ PendingLoads' /\ Budget' /\ state' \in States
          BY <1>1, <4>1, SyncAssumption DEF LoadsInv, PendingLoads, Budget, States
        <4>6. QED
          BY <4>1, <4>3, <4>4, <4>5
      <3>3. QED
        BY <3>1, <3>2
    <2>7. QED
      BY <1>2, <2>2, <2>4, <2>5, <2>6 DEF IInv, PositionInv, FlagInv
  <1>11. CASE DeltaApplied
    <2>1. /\ Handles("delta") /\ Fits /\ state = "live" /\ cache' = cache
          /\ view' = Overlay(view, Head1.levels) /\ applied' = Head1.last /\ goal' = Head1.truth
          /\ UNCHANGED <<state, epoch, attempts, buffer, recoveryPending, loads>>
      BY <1>11 DEF DeltaApplied
    <2>2. QueueInv' /\ Head1 \in Frames
      BY <1>3, <2>1
    <2>3. Head1.last \in Nat /\ Head1.truth \in Levels /\ Overlay(view, Head1.levels) \in Levels
      BY <1>1, <2>2, FrameFields, OverlayLevels DEF BookInv
    <2>4. PositionInv' /\ BookInv' /\ LoadsInv' /\ BufferInv' /\ Budget' /\ PendingLoads' /\ WaitingIsAsked'
      BY <1>1, <2>1, <2>3
         DEF PositionInv, BookInv, LoadsInv, BufferInv, BufferOrdered, Budget, PendingLoads, WaitingIsAsked
    <2>5. FlagInv'
      BY <1>1, <1>11, Zenon DEF FlagInv, DeltaApplied
    <2>6. QED
      BY <2>2, <2>4, <2>5 DEF IInv
  <1>12. ASSUME NEW b \in Seq(DeltaFrames), Len(b) <= 1, Handles("delta"), BeginRecovery(b),
                UNCHANGED <<epoch, applied, view, cache, goal, pure>>
         PROVE  IInv'
    <2>1. QueueInv'
      BY <1>3, <1>12
    <2>2. /\ LoadsInv' /\ recoveryPending' \in BOOLEAN /\ BufferInv' /\ Budget' /\ PendingLoads'
          /\ attempts' \in Nat /\ state' \in {"recovering", "error"}
          /\ state' = "recovering" => Asked'
      BY <1>12, RecoveryFacts
    <2>3. PositionInv' /\ BookInv' /\ (state' \in {"syncing", "recovering"} => Asked')
      BY <1>1, <1>12, <2>2 DEF PositionInv, BookInv, States
    <2>4. FlagInv'
      BY <1>1, <1>12, <2>2, Zenon DEF FlagInv
    <2>5. QED
      BY <1>2, <2>1, <2>2, <2>3, <2>4 DEF IInv
  <1>13. CASE DeltaGap
    <2>1. Handles("delta") /\ BeginRecovery(<<Head1>>) /\ UNCHANGED <<epoch, applied, view, cache, goal, pure>>
      BY <1>13 DEF DeltaGap
    <2>2. Head1 \in DeltaFrames
      BY <1>3, <2>1
    <2>3. <<Head1>> \in Seq(DeltaFrames) /\ Len(<<Head1>>) <= 1
      BY <2>2
    <2>4. QED
      BY <1>12, <2>1, <2>3
  <1>14. CASE DeltaBuffered
    <2>1. /\ Handles("delta") /\ Fits /\ state \notin {"live", "error"}
          /\ buffer # <<>> => Head1.first <= Reference + 1
          /\ UNCHANGED <<epoch, applied, view, cache, goal, pure>>
      BY <1>14 DEF DeltaBuffered
    <2>2. QueueInv' /\ Head1 \in DeltaFrames /\ (Waited => Waited')
      BY <1>3, <2>1
    <2>3. CASE Len(buffer) < BufferCap
      <3>1. buffer' = Append(buffer, Head1) /\ UNCHANGED <<state, attempts, loads, recoveryPending>>
        BY <1>14, <2>3 DEF DeltaBuffered
      <3>2. BufferInv'
        <4>1. buffer # <<>> =>
                Head1.last > buffer[Len(buffer)].last /\ Head1.first <= buffer[Len(buffer)].last + 1
          BY <2>1 DEF Fits, Reference
        <4>2. QED
          BY <2>2, <2>3, <3>1, <4>1, BufferGrows
      <3>3. PositionInv' /\ BookInv' /\ LoadsInv' /\ Budget' /\ PendingLoads' /\ (Asked => Asked')
        BY <1>1, <2>1, <3>1 DEF PositionInv, BookInv, LoadsInv, Budget, PendingLoads, Asked
      <3>4. FlagInv'
        BY <1>1, <2>1, <3>1, Zenon DEF FlagInv
      <3>5. QED
        BY <1>1, <1>2, <2>2, <3>1, <3>2, <3>3, <3>4 DEF IInv
    <2>4. CASE ~ (Len(buffer) < BufferCap)
      <3>1. <<>> \in Seq(DeltaFrames) /\ Len(<<>>) <= 1
        OBVIOUS
      <3>2. BeginRecovery(<<>>)
        BY <1>14, <2>4 DEF DeltaBuffered
      <3>3. QED
        BY <1>12, <2>1, <3>1, <3>2
    <2>5. QED
      BY <2>3, <2>4
  <1>15. QED
    BY <1>4, <1>5, <1>6, <1>8, <1>9, <1>10, <1>11, <1>13, <1>14 DEF HandleEvent

LEMMA InitIInv == Init => IInv
  <1> SUFFICES ASSUME Init
               PROVE  IInv
    OBVIOUS
  <1>1. PositionInv /\ LoadsInv /\ PendingLoads /\ WaitingIsAsked
    BY DEF Init, PositionInv, LoadsInv, PendingLoads, WaitingIsAsked, States
  <1>2. Budget
    BY SyncAssumption DEF Init, Budget
  <1>3. BookInv
    BY EmptyLevels DEF Init, BookInv
  <1>4. FlagInv
    BY Zenon DEF Init, FlagInv
  <1>5. <<>> \in Seq(Events) /\ <<>> \in Seq(ImageFrames) /\ <<>> \in Seq(DeltaFrames) /\ Len(<<>>) = 0
    OBVIOUS
  <1>6. QueueInv
    BY <1>5 DEF Init, QueueInv
  <1>7. BufferInv
    BY <1>5, SyncAssumption DEF Init, BufferInv, BufferOrdered
  <1>8. QED
    BY <1>1, <1>2, <1>3, <1>4, <1>6, <1>7 DEF IInv

LEMMA StutterIInv ==
    ASSUME IInv, UNCHANGED vars
    PROVE  IInv'
  <1>1. /\ UNCHANGED <<state, epoch, applied, attempts, buffer>>
        /\ UNCHANGED <<view, recoveryPending, loads, cache, inbox, goal, pure>>
    BY DEF vars, sync
  <1>2. PositionInv' /\ BookInv' /\ LoadsInv' /\ QueueInv' /\ BufferInv' /\ Budget' /\ PendingLoads' /\ WaitingIsAsked'
    BY <1>1 DEF IInv, PositionInv, BookInv, LoadsInv, QueueInv, BufferInv, BufferOrdered, Budget, PendingLoads, WaitingIsAsked
  <1>3. FlagInv'
    BY <1>1, Zenon DEF IInv, FlagInv
  <1>4. QED
    BY <1>2, <1>3 DEF IInv

LEMMA Inductive == Spec => []IInv
  <1>1. IInv /\ [Next]_vars => IInv'
    BY EnvStep, HandleStep, StutterIInv DEF Next
  <1>2. QED
    BY InitIInv, <1>1, PTL DEF Spec

--------------------------------------------------------------------------------
(* Results. *)

\* The synchronizer keeps its buffer within its cap, in order and without a hole,
\* and enters and leaves recovery and the terminal state exactly as its budget
\* says, whatever ranges and images the socket, the cache and the loads bring
\* (SyncSound).
THEOREM SynchronizerSound == Spec => []SyncSound
  <1>1. IInv => SyncSound
    <2> SUFFICES ASSUME IInv
                 PROVE  SyncSound
      OBVIOUS
    <2>1. BufferOrdered /\ Budget
      BY DEF IInv, BufferInv
    <2>2. buffer \in Seq(Frames)
      <3>1. DeltaFrames \subseteq Frames /\ buffer \in Seq(DeltaFrames)
        BY DEF DeltaFrames, IInv, BufferInv
      <3>2. QED
        BY <3>1
    <2>3. cache \in Seq(Frames)
      <3>1. ImageFrames \subseteq Frames /\ cache \in Seq(ImageFrames)
        BY DEF ImageFrames, IInv, QueueInv
      <3>2. QED
        BY <3>1
    <2>4. TypeOK
      BY <2>2, <2>3 DEF IInv, PositionInv, BookInv, FlagInv, LoadsInv, QueueInv, BufferInv, TypeOK
    <2>5. QED
      BY <2>1, <2>4 DEF SyncSound
  <1>2. QED
    BY Inductive, <1>1, PTL

\* A book that waits for an image always has a load in flight or an answer in its
\* queue: dropping unwanted images, clearing the recovery flag by whichever load
\* ends first and restarting with loads in flight never lose the last request
\* (WaitingIsAsked).
THEOREM WaitingAsked == Spec => []WaitingIsAsked
  <1>1. IInv => WaitingIsAsked
    BY DEF IInv
  <1>2. QED
    BY Inductive, <1>1, PTL

\* Only an installed image and a range applied to a live book move the position on.
LEMMA PositionMoves ==
    ASSUME IInv, Next, ~HandleSnapshot, ~DeltaApplied
    PROVE  applied' <= applied
  <1>1. applied \in Nat
    BY DEF IInv, PositionInv
  <1>2. applied' = applied \/ applied' = 0
    <2>1. CASE EnvReceive
      BY <2>1 DEF EnvReceive, Receive, sync
    <2>2. CASE EnvSignal
      BY <2>2 DEF EnvSignal, Signal, sync
    <2>3. CASE \E k \in Loads : EnvAnswer(k)
      BY <2>3 DEF EnvAnswer, EnvFresh, AnswerFresh, AnswerCached, AnswerFailed, sync
    <2>4. CASE HandleEvent
      BY <2>4 DEF HandleEvent, HandleStarted, HandleRetry, HandleLost, DropSnapshot, DeltaOtherEpoch, DeltaIgnored,
                  DeltaGap, DeltaBuffered, ResetTo, sync
    <2>5. QED
      BY <2>1, <2>2, <2>3, <2>4 DEF Next
  <1>3. QED
    BY <1>1, <1>2

\* No update is left out: every id the position advances over, past the image that
\* is installed or past the old position, is in a range the book received.  The
\* drain stops in front of every hole, and a live book never jumps one
\* (NoSkippedUpdate).
THEOREM NothingSkipped == Spec => NoSkippedUpdate
  <1> DEFINE base == IF HandleSnapshot THEN Head1.last ELSE applied
             ranges == {Head1} \cup {buffer[i] : i \in DOMAIN buffer}
             Covered == \A n \in base + 1 .. applied' :
                          \E r \in ranges : r.kind = "delta" /\ r.first <= n /\ n <= r.last
  <1>1. ASSUME IInv, Next
        PROVE  Covered
    <2>1. applied \in Nat /\ inbox \in Seq(Events)
      BY <1>1 DEF IInv, PositionInv, QueueInv
    <2>2. CASE HandleSnapshot
      <3>1. Handles("snapshot") /\ Install(Head1) /\ base = Head1.last
        BY <2>2 DEF HandleSnapshot
      <3>2. Head1 \in ImageFrames /\ Head1 \in Frames
        BY <2>1, <3>1, TakeFacts, EventFrames DEF Head1
      <3>3. Head1.last \in Nat
        BY <3>2, FrameFields
      <3>4. CASE Drained(Head1) = {}
        <4>1. applied' = Head1.last
          BY <3>1, <3>4 DEF Install
        <4>2. QED
          BY <3>1, <3>3, <4>1
      <3>5. CASE Drained(Head1) # {}
        <4>1. applied' = buffer[LastOf(Drained(Head1))].last
          BY <3>1, <3>5 DEF Install
        <4>2. applied' \in Nat
          BY <1>1, <3>2, <3>5, <4>1, DrainFacts, FrameFields
        <4>3. DOMAIN buffer = 1..Len(buffer)
          BY <1>1 DEF IInv, BufferInv
        <4>4. ASSUME NEW n \in base + 1 .. applied'
              PROVE  \E r \in ranges : r.kind = "delta" /\ r.first <= n /\ n <= r.last
          <5>1. n \in Nat /\ Head1.last < n /\ n <= buffer[LastOf(Drained(Head1))].last
            BY <3>1, <3>3, <4>1, <4>2
          <5>2. PICK i \in 1..Len(buffer) : buffer[i].kind = "delta" /\ buffer[i].first <= n /\ n <= buffer[i].last
            BY <1>1, <3>2, <3>5, <5>1, DrainCovers
          <5>3. QED
            BY <4>3, <5>2
        <4>5. QED
          BY <4>4
      <3>6. QED
        BY <3>4, <3>5
    <2>3. CASE ~HandleSnapshot /\ DeltaApplied
      <3>1. Handles("delta") /\ Head1.first <= applied + 1 /\ applied' = Head1.last /\ base = applied
        BY <2>3 DEF DeltaApplied
      <3>2. Head1 \in DeltaFrames /\ Head1 \in Frames
        BY <2>1, <3>1, TakeFacts, EventFrames DEF Head1
      <3>3. Head1.first \in Nat /\ Head1.last \in Nat /\ Head1.kind = "delta"
        BY <3>2, FrameFields DEF DeltaFrames
      <3>4. ASSUME NEW n \in base + 1 .. applied'
            PROVE  Head1.first <= n /\ n <= Head1.last
        BY <2>1, <3>1, <3>3
      <3>5. QED
        BY <3>3, <3>4
    <2>4. CASE ~HandleSnapshot /\ ~DeltaApplied
      <3>1. applied' <= applied /\ base = applied /\ (applied' = applied \/ applied' \in Int)
        <4>1. applied' <= applied
          BY <1>1, <2>4, PositionMoves
        <4>2. QED
          BY <1>1, <2>4, <4>1, HandleStep, EnvStep DEF Next, IInv, PositionInv
      <3>2. ASSUME NEW n \in base + 1 .. applied'
            PROVE  FALSE
        BY <2>1, <3>1
      <3>3. QED
        BY <3>2
    <2>5. QED
      BY <2>2, <2>3, <2>4
  <1>2. ASSUME IInv, [Next]_vars
        PROVE  [Covered]_sync
    BY <1>1, <1>2 DEF vars
  <1>3. IInv /\ [Next]_vars => [Covered]_sync
    BY <1>2
  <1>4. QED
    BY Inductive, <1>3, PTL DEF Spec, NoSkippedUpdate

\* In every state the synchronizer reaches, draining its buffer onto any image the
\* environment may send is the loop of _drain: the same ranges, the same position,
\* the same levels, and a hole found when the loop finds one (DrainAgrees).
THEOREM DrainIsTheLoop == Spec => []DrainAgrees
  <1>1. IInv => DrainAgrees
    BY EnvFramesAre, LoopIsClosedForm DEF DrainAgrees
  <1>2. QED
    BY Inductive, <1>1, PTL
================================================================================
