------------------------------ MODULE BookProofs ------------------------------
(***************************************************************************)
(* Proofs about the order book, from its levels to the screen.  First the  *)
(* levels themselves (BookLevels), then the path from the engine to the    *)
(* socket (BookDelivery), then what the app shows (BookFeed): it is what   *)
(* the engine had, for every market, depth, fault, mailbox, buffer cap and *)
(* number of loads in flight, and however often the engine is reset and    *)
(* the connection lost.  On the way to the app the provider's snapshot     *)
(* carries the epoch the engine starts with.                               *)
(*                                                                         *)
(* The engine keeps no record of its past windows, so the invariant of the *)
(* feed says that there is one: a history that gives each stamp a window,  *)
(* with which every window, frame, image and book in the system agrees.    *)
(***************************************************************************)
EXTENDS BookFeed, BookLevels, SequenceTheorems, WellFoundedInduction, TLAPS

--------------------------------------------------------------------------------
(* The levels of the book: BookLevels, for every depth, anchor, deviation and *)
(* number of changes. *)

\* A set of numbers has a least one.
LEMMA LeastOfNats ==
    ASSUME NEW T, T \subseteq Nat, T # {}
    PROVE  \E x \in T : \A y \in T : x <= y
  <1> DEFINE R == OpToRel(<, Nat)
  <1>1. IsWellFoundedOn(R, Nat)
    BY NatLessThanWellFounded, Zenon
  <1>2. \A x, y \in Nat : <<x, y>> \in R <=> x < y
    BY DEF OpToRel
  <1> HIDE DEF R
  <1>3. PICK x \in T : \A y \in T : ~ (<<y, x>> \in R)
    BY <1>1, WFMin
  <1>4. \A y \in T : y \in Nat /\ x \in Nat /\ ~ (y < x)
    BY <1>2, <1>3
  <1> QED BY <1>4

\* Induction, for a set of numbers.
LEMMA Induct ==
    ASSUME NEW T, 0 \in T, \A n \in Nat : n \in T => n + 1 \in T
    PROVE  Nat \subseteq T
  <1> SUFFICES ASSUME Nat \ T # {} PROVE FALSE
    OBVIOUS
  <1>1. PICK x \in Nat \ T : \A y \in Nat \ T : x <= y
    BY LeastOfNats
  <1>2. x # 0 /\ x - 1 \in Nat /\ x - 1 \in T
    BY <1>1
  <1> QED BY <1>1, <1>2

(* ----------------------------- one side of the book ------------------------- *)

Directions == {-1, 1}

\* Price q may follow p on a side: it is lower for bids (-1), higher for asks (1), or
\* both are the lowest price, which bids may share.
Farther(dir, p, q) == dir * p < dir * q \/ (dir = -1 /\ p = 1 /\ q = 1)

LEMMA FartherIs ==
    ASSUME NEW p \in Int, NEW q \in Int
    PROVE  /\ Farther(-1, p, q) <=> q < p \/ (p = 1 /\ q = 1)
           /\ Farther(1, p, q) <=> p < q
  BY DEF Farther

LEMMA FartherOrder ==
    ASSUME NEW dir \in Directions, NEW p \in Int, NEW q \in Int
    PROVE  /\ p # q => Farther(dir, p, q) \/ Farther(dir, q, p)
           /\ \A r \in Int : Farther(dir, p, q) /\ Farther(dir, q, r) => Farther(dir, p, r)
  BY FartherIs DEF Directions

\* Each level may follow all the ones before it.
Sorted(s, dir) == \A i, j \in 1..Len(s) : i < j => Farther(dir, s[i], s[j])

\* No price of the side is below lo.
Above(s, lo) == \A i \in 1..Len(s) : s[i] >= lo

\* A side in order, with no price below lo.
Side(s, dir, lo) == s \in Seq(Int) /\ Sorted(s, dir) /\ Above(s, lo)

\* What Sorted says of neighbours, as checkOrdering looks at them.
LEMMA SortedIs ==
    /\ \A s \in Seq(Int) : Sorted(s, -1) =>
          \A i \in 1..Len(s) - 1 : s[i] > s[i + 1] \/ (s[i] = 1 /\ s[i + 1] = 1)
    /\ \A s \in Seq(Int) : Sorted(s, 1) => Ascending(s)
  <1>1. ASSUME NEW s \in Seq(Int), NEW i \in 1..Len(s) - 1
        PROVE  /\ i \in 1..Len(s) /\ i + 1 \in 1..Len(s) /\ i < i + 1
               /\ s[i] \in Int /\ s[i + 1] \in Int
    OBVIOUS
  <1>2. ASSUME NEW s \in Seq(Int), Sorted(s, -1), NEW i \in 1..Len(s) - 1
        PROVE  s[i] > s[i + 1] \/ (s[i] = 1 /\ s[i + 1] = 1)
    <2>1. Farther(-1, s[i], s[i + 1]) /\ s[i] \in Int /\ s[i + 1] \in Int
      BY <1>1, <1>2 DEF Sorted
    <2> QED BY <2>1, FartherIs
  <1>3. ASSUME NEW s \in Seq(Int), Sorted(s, 1) PROVE Ascending(s)
    BY <1>1, <1>3, FartherIs DEF Sorted, Ascending
  <1> QED BY <1>2, <1>3

\* Bids that do not strictly descend share the lowest price at their far end.
LEMMA FlooredIs ==
    ASSUME NEW s, Side(s, -1, 1), ~Descending(s)
    PROVE  Len(s) > 1 /\ s[Len(s) - 1] = 1
  <1> DEFINE n == Len(s)
  <1>1. s \in Seq(Int) /\ Sorted(s, -1) /\ n \in Nat /\ \A i \in 1..n : s[i] \in Int /\ s[i] >= 1
    BY DEF Side, Above
  <1>2. PICK i \in 1..n - 1 : ~(s[i] > s[i + 1])
    BY DEF Descending
  <1>3. s[i] = 1
    BY <1>1, <1>2, SortedIs
  <1>4. i \in 1..n /\ n - 1 \in 1..n /\ n > 1
    BY <1>1, <1>2
  <1>5. CASE i # n - 1
    <2>1. i < n - 1
      BY <1>1, <1>2, <1>5
    <2>2. Farther(-1, s[i], s[n - 1])
      BY <1>1, <1>4, <2>1 DEF Sorted
    <2> QED BY <1>1, <1>3, <1>4, <2>2, FartherIs
  <1> QED BY <1>3, <1>4, <1>5

\* A side above a price is above every lower one.
LEMMA SideLower ==
    ASSUME NEW s, NEW dir, NEW lo \in Int, NEW low \in Int, low <= lo, Side(s, dir, lo)
    PROVE  Side(s, dir, low)
  <1>1. ASSUME NEW i \in 1..Len(s) PROVE s[i] >= low
    <2>1. s[i] \in Int /\ s[i] >= lo
      BY DEF Side, Above
    <2> QED BY <2>1
  <1> QED BY <1>1 DEF Side, Above

\* A side followed by levels farther out than its last one.
LEMMA JoinedSide ==
    ASSUME NEW dir \in Directions, NEW lo \in Int, NEW s, Side(s, dir, lo), s # <<>>,
           NEW t, Side(t, dir, lo), \A j \in 1..Len(t) : Farther(dir, Last(s), t[j])
    PROVE  Side(s \o t, dir, lo) /\ (s \o t)[1] = s[1] /\ Len(s \o t) = Len(s) + Len(t)
  <1> DEFINE n == Len(s)
             m == Len(t)
             u == s \o t
  <1>1. s \in Seq(Int) /\ t \in Seq(Int) /\ n \in Nat \ {0} /\ m \in Nat
    BY DEF Side
  <1>2. /\ u \in Seq(Int) /\ Len(u) = n + m
        /\ \A i \in 1..n : u[i] = s[i]
        /\ \A i \in n + 1..n + m : u[i] = t[i - n] /\ i - n \in 1..m
    BY <1>1
  <1>3. /\ \A i \in 1..n : s[i] \in Int /\ s[i] >= lo
        /\ \A i \in 1..m : t[i] \in Int /\ t[i] >= lo
    BY <1>1 DEF Side, Above
  <1>4. Above(u, lo)
    <2> SUFFICES ASSUME NEW i \in 1..n + m PROVE u[i] >= lo
      BY <1>2 DEF Above
    <2>1. CASE i \in 1..n
      BY <1>2, <1>3, <2>1
    <2>2. CASE i \in n + 1..n + m
      BY <1>2, <1>3, <2>2
    <2> QED BY <1>1, <2>1, <2>2
  <1>5. Sorted(u, dir)
    <2> SUFFICES ASSUME NEW i \in 1..n + m, NEW j \in 1..n + m, i < j
                 PROVE  Farther(dir, u[i], u[j])
      BY <1>2 DEF Sorted
    <2>1. CASE j \in 1..n
      <3>1. i \in 1..n /\ u[i] = s[i] /\ u[j] = s[j]
        BY <1>1, <1>2, <2>1
      <3> QED BY <2>1, <3>1 DEF Side, Sorted
    <2>2. CASE i \in 1..n /\ j \in n + 1..n + m
      <3>1. u[i] = s[i] /\ u[j] = t[j - n] /\ j - n \in 1..m
        BY <1>2, <2>2
      <3>2. Farther(dir, s[n], u[j])
        BY <3>1 DEF Last
      <3>3. CASE i = n
        BY <3>1, <3>2, <3>3
      <3>4. CASE i # n
        <4>1. n \in 1..n /\ i < n
          BY <1>1, <2>2, <3>4
        <4>2. Farther(dir, s[i], s[n])
          BY <2>2, <4>1 DEF Side, Sorted
        <4>3. s[i] \in Int /\ s[n] \in Int /\ u[j] \in Int
          BY <1>3, <2>2, <3>1, <4>1
        <4> QED BY <3>1, <3>2, <4>2, <4>3, FartherOrder
      <3> QED BY <3>3, <3>4
    <2>3. CASE i \in n + 1..n + m
      <3>1. j \in n + 1..n + m
        BY <1>1, <2>3
      <3>2. u[i] = t[i - n] /\ u[j] = t[j - n] /\ i - n \in 1..m /\ j - n \in 1..m /\ i - n < j - n
        BY <1>2, <2>3, <3>1
      <3> QED BY <3>2 DEF Side, Sorted
    <2> QED BY <1>1, <2>1, <2>2, <2>3
  <1>6. u[1] = s[1]
    BY <1>1, <1>2
  <1> QED BY <1>2, <1>4, <1>5, <1>6 DEF Side

(* ---------------------------- levels put outwards --------------------------- *)

\* f walks from a price by steps to its end.
Walk(f, from, dir, steps, n) ==
    f = [i \in 0..n |-> IF i = 0 THEN from ELSE f[i - 1] + dir * steps[i]]

LEMMA WalkExists ==
    ASSUME NEW from, NEW dir, NEW steps, NEW N \in Nat
    PROVE  \E f : Walk(f, from, dir, steps, N)
  <1> DEFINE T == {n \in Nat : \E f : Walk(f, from, dir, steps, n)}
             E(x, k) == x + dir * steps[k]
  <1>1. 0 \in T
    <2> DEFINE f == [k \in 0..0 |-> from]
    <2>1. f = [k \in 0..0 |-> IF k = 0 THEN from ELSE f[k - 1] + dir * steps[k]]
      OBVIOUS
    <2>2. Walk(f, from, dir, steps, 0)
      BY <2>1 DEF Walk
    <2> QED BY <2>2
  <1>2. ASSUME NEW n \in Nat, n \in T PROVE n + 1 \in T
    <2>1. PICK f : Walk(f, from, dir, steps, n)
      BY <1>2
    <2> DEFINE g == [k \in 0..n + 1 |-> IF k = n + 1 THEN E(f[n], n + 1) ELSE f[k]]
    <2>2. f = [k \in 0..n |-> IF k = 0 THEN from ELSE E(f[k - 1], k)]
      BY <2>1 DEF Walk
    <2> HIDE DEF E
    <2>3. \A k \in 0..n : f[k] = IF k = 0 THEN from ELSE E(f[k - 1], k)
      BY <2>2
    <2>4. ASSUME NEW k \in 0..n + 1
          PROVE  g[k] = IF k = 0 THEN from ELSE E(g[k - 1], k)
      <3>1. CASE k = 0
        <4>1. 0 \in 0..n /\ 0 # n + 1 /\ g[k] = f[0]
          BY <3>1
        <4> QED BY <2>3, <3>1, <4>1
      <3>2. CASE k # 0
        <4>1. k - 1 \in 0..n /\ k - 1 \in 0..n + 1 /\ k - 1 # n + 1
          BY <3>2
        <4>2. g[k - 1] = f[k - 1]
          BY <4>1
        <4>3. CASE k = n + 1
          <5>1. k - 1 = n /\ g[k] = E(f[n], k)
            BY <4>3
          <5> QED BY <3>2, <4>2, <5>1
        <4>4. CASE k # n + 1
          <5>1. k \in 0..n /\ g[k] = f[k]
            BY <4>4
          <5>2. f[k] = E(f[k - 1], k)
            BY <2>3, <3>2, <5>1
          <5> QED BY <3>2, <4>2, <5>1, <5>2
        <4> QED BY <4>3, <4>4
      <3> QED BY <3>1, <3>2
    <2>5. g = [k \in 0..n + 1 |-> g[k]]
      OBVIOUS
    <2> HIDE DEF g
    <2>6. g = [k \in 0..n + 1 |-> IF k = 0 THEN from ELSE E(g[k - 1], k)]
      BY <2>4, <2>5
    <2>7. Walk(g, from, dir, steps, n + 1)
      BY <2>6 DEF Walk, E
    <2> QED BY <2>7
  <1>3. Nat \subseteq T
    <2> HIDE DEF T
    <2> QED BY <1>1, <1>2, Induct
  <1> QED BY <1>3

\* A walk of steps of 1 to D ticks goes outwards, and down by no more than D a step.
LEMMA WalkGoes ==
    ASSUME NEW dir \in Directions, NEW from \in Int, NEW n \in Nat, NEW D \in Nat,
           NEW steps, \A i \in 1..n : steps[i] \in 1..D,
           NEW f, Walk(f, from, dir, steps, n)
    PROVE  /\ f[0] = from
           /\ \A i \in 0..n : f[i] \in Int /\ f[i] >= from - i * D
           /\ \A i, j \in 0..n : i < j => Farther(dir, f[i], f[j])
  <1>1. \A i \in 0..n : f[i] = IF i = 0 THEN from ELSE f[i - 1] + dir * steps[i]
    BY DEF Walk
  <1>2. f[0] = from
    BY <1>1
  <1>3. ASSUME NEW i \in 1..n, f[i - 1] \in Int
        PROVE  f[i] \in Int /\ Farther(dir, f[i - 1], f[i]) /\ f[i] >= f[i - 1] - D
    <2>1. f[i] = f[i - 1] + dir * steps[i] /\ steps[i] \in 1..D
      BY <1>1
    <2>2. CASE dir = 1
      BY <1>3, <2>1, <2>2, FartherIs
    <2>3. CASE dir = -1
      BY <1>3, <2>1, <2>3, FartherIs
    <2> QED BY <2>2, <2>3 DEF Directions
  <1> DEFINE T == {j \in Nat : j <= n => /\ f[j] \in Int /\ f[j] >= from - j * D
                                        /\ \A i \in 0..j : i < j => Farther(dir, f[i], f[j])}
  <1>4. 0 \in T
    BY <1>2
  <1>5. ASSUME NEW j \in Nat, \A k \in 0..j : k \in T PROVE j + 1 \in T
    <2> SUFFICES ASSUME j + 1 <= n
                 PROVE  /\ f[j + 1] \in Int /\ f[j + 1] >= from - (j + 1) * D
                        /\ \A i \in 0..j + 1 : i < j + 1 => Farther(dir, f[i], f[j + 1])
      OBVIOUS
    <2>1. /\ f[j] \in Int /\ f[j] >= from - j * D
          /\ \A i \in 0..j : i < j => Farther(dir, f[i], f[j])
      BY <1>5
    <2>2. f[j + 1] \in Int /\ Farther(dir, f[j], f[j + 1]) /\ f[j + 1] >= f[j] - D
      <3>1. j + 1 \in 1..n /\ (j + 1) - 1 = j
        OBVIOUS
      <3> QED BY <1>3, <2>1, <3>1
    <2>3. (j + 1) * D = j * D + D
      OBVIOUS
    <2>4. f[j + 1] >= from - (j + 1) * D
      <3> DEFINE a == j * D
      <3>1. a \in Int
        OBVIOUS
      <3> HIDE DEF a
      <3> QED BY <2>1, <2>2, <2>3, <3>1 DEF a
    <2>5. ASSUME NEW i \in 0..j + 1, i < j + 1 PROVE Farther(dir, f[i], f[j + 1])
      <3>1. CASE i = j
        BY <2>2, <3>1
      <3>2. CASE i # j
        <4>1. i \in 0..j /\ i < j /\ i \in Nat /\ i <= n
          BY <2>5, <3>2
        <4>2. f[i] \in Int
          BY <1>5, <4>1
        <4> QED BY <2>1, <2>2, <4>1, <4>2, FartherOrder
      <3> QED BY <3>1, <3>2
    <2> QED BY <2>2, <2>4, <2>5
  <1> DEFINE U == {j \in Nat : \A k \in 0..j : k \in T}
  <1> HIDE DEF T
  <1>6. 0 \in U
    BY <1>4
  <1>7. ASSUME NEW j \in Nat, j \in U PROVE j + 1 \in U
    <2>1. j + 1 \in T
      BY <1>5, <1>7
    <2> QED BY <1>7, <2>1
  <1>8. Nat \subseteq U
    <2> HIDE DEF U
    <2> QED BY <1>6, <1>7, Induct
  <1>9. \A j \in 0..n : j \in T /\ j <= n
    BY <1>8
  <1> USE DEF T
  <1>10. \A j \in 0..n : /\ f[j] \in Int /\ f[j] >= from - j * D
                         /\ \A i \in 0..j : i < j => Farther(dir, f[i], f[j])
    BY <1>9
  <1> HIDE DEF T
  <1> QED BY <1>2, <1>10

\* The levels of a loop of steps outwards.
LEMMA OutwardSide ==
    ASSUME NEW dir \in Directions, NEW from \in Int, NEW n \in Nat, NEW D \in Nat,
           NEW steps \in [1..n -> 1..D], NEW lo \in Int, lo <= from - n * D
    PROVE  LET o == Outward(from, dir, steps)
           IN  /\ Side(o, dir, lo) /\ Len(o) = n
               /\ \A i \in 1..n : Farther(dir, from, o[i])
  <1> DEFINE o == Outward(from, dir, steps)
             f == CHOOSE g : Walk(g, from, dir, steps, n)
  <1>1. steps \in Seq(1..D) /\ Len(steps) = n
    OBVIOUS
  <1>2. Walk(f, from, dir, steps, n)
    <2>1. \E g : Walk(g, from, dir, steps, n)
      BY WalkExists
    <2> QED BY <2>1
  <1>3. o = [i \in 1..n |-> f[i]]
    BY <1>1 DEF Outward, Walk
  <1> HIDE DEF f, o
  <1>4. \A i \in 1..n : steps[i] \in 1..D
    OBVIOUS
  <1>5. /\ f[0] = from
        /\ \A i \in 0..n : f[i] \in Int /\ f[i] >= from - i * D
        /\ \A i, j \in 0..n : i < j => Farther(dir, f[i], f[j])
    BY <1>2, <1>4, WalkGoes
  <1>6. \A i \in 1..n : /\ i \in 0..n /\ 0 \in 0..n /\ 0 < i
                        /\ o[i] = f[i]
    BY <1>3
  <1>7. o \in Seq(Int) /\ Len(o) = n
    <2>1. \A i \in 1..n : f[i] \in Int
      BY <1>5, <1>6
    <2>2. o \in [1..n -> Int]
      BY <1>3, <2>1
    <2> QED BY <2>2
  <1>8. Sorted(o, dir)
    BY <1>5, <1>6, <1>7 DEF Sorted
  <1>9. Above(o, lo)
    <2> SUFFICES ASSUME NEW i \in 1..n PROVE o[i] >= lo
      BY <1>7 DEF Above
    <2>1. i * D <= n * D /\ i * D \in Int /\ n * D \in Int
      <3>1. n * D = i * D + (n - i) * D /\ n - i \in Nat
        OBVIOUS
      <3>2. (n - i) * D >= 0
        OBVIOUS
      <3> QED BY <3>1, <3>2
    <2>2. o[i] \in Int /\ o[i] >= from - i * D
      BY <1>5, <1>6
    <2> DEFINE a == i * D
               b == n * D
    <2>3. a <= b /\ a \in Int /\ b \in Int /\ o[i] >= from - a /\ lo <= from - b
      BY <2>1, <2>2
    <2> HIDE DEF a, b
    <2> QED BY <2>2, <2>3
  <1>10. \A i \in 1..n : Farther(dir, from, o[i])
    BY <1>5, <1>6
  <1> QED BY <1>7, <1>8, <1>9, <1>10 DEF Side, o

\* A loop of steps up from a price.
LEMMA OutwardUp ==
    ASSUME NEW from \in Int, NEW n \in Nat, NEW D \in Nat, NEW steps \in [1..n -> 1..D],
           NEW lo \in Int, lo <= from
    PROVE  LET o == Outward(from, 1, steps)
           IN  /\ Side(o, 1, lo) /\ Len(o) = n
               /\ \A i \in 1..n : from < o[i]
  <1> DEFINE o == Outward(from, 1, steps)
             low == from - n * D
  <1>1. low \in Int /\ low <= from - n * D /\ 1 \in Directions
    BY DEF Directions
  <1> HIDE DEF low
  <1>2. Side(o, 1, low) /\ Len(o) = n /\ \A i \in 1..n : Farther(1, from, o[i])
    BY <1>1, OutwardSide
  <1> HIDE DEF o
  <1>3. \A i \in 1..n : o[i] \in Int
    BY <1>2 DEF Side
  <1>4. \A i \in 1..n : from < o[i]
    BY <1>2, <1>3, FartherIs
  <1>5. Above(o, lo)
    BY <1>2, <1>3, <1>4 DEF Above
  <1> QED BY <1>2, <1>4, <1>5 DEF Side, o

\* A loop of steps down whose prices are put no lower than the lowest price.
LEMMA ClampedSide ==
    ASSUME NEW s, NEW lo, Side(s, -1, lo)
    PROVE  LET c == [i \in 1..Len(s) |-> AtLeastOne(s[i])]
           IN  Side(c, -1, 1) /\ Len(c) = Len(s)
  <1> DEFINE n == Len(s)
             c == [i \in 1..n |-> AtLeastOne(s[i])]
  <1>1. s \in Seq(Int) /\ n \in Nat /\ \A i \in 1..n : s[i] \in Int
    BY DEF Side
  <1>2. \A i \in 1..n : c[i] = AtLeastOne(s[i]) /\ c[i] \in Int /\ c[i] >= 1
    BY <1>1 DEF AtLeastOne
  <1>3. c \in Seq(Int) /\ Len(c) = n
    <2>1. c \in [1..n -> Int]
      BY <1>2
    <2> QED BY <1>1, <2>1
  <1> HIDE DEF c
  <1>4. ASSUME NEW i \in 1..n, NEW j \in 1..n, i < j PROVE Farther(-1, c[i], c[j])
    <2>1. Farther(-1, s[i], s[j])
      BY <1>4 DEF Side, Sorted
    <2>2. s[j] < s[i] \/ (s[i] = 1 /\ s[j] = 1)
      BY <1>1, <2>1, FartherIs
    <2>3. c[j] < c[i] \/ (c[i] = 1 /\ c[j] = 1)
      BY <1>1, <1>2, <2>2 DEF AtLeastOne
    <2> QED BY <1>2, <2>3, FartherIs
  <1>5. Sorted(c, -1) /\ Above(c, 1)
    BY <1>2, <1>3, <1>4 DEF Sorted, Above
  <1> QED BY <1>3, <1>5 DEF Side, c

(* --------------------------- levels removed or replaced ---------------------- *)

\* A selection of a side's levels, in their order.
LEMMA ThinnedSide ==
    ASSUME NEW dir \in Directions, NEW lo \in Int, NEW s, Side(s, dir, lo),
           NEW k \in 1..Len(s), NEW t \in Thinned(s, k)
    PROVE  /\ Side(t, dir, lo) /\ Len(t) = k
           /\ t[1] = s[1] \/ Farther(dir, s[1], t[1])
  <1>1. s \in Seq(Int) /\ Len(s) \in Nat
    BY DEF Side
  <1>2. PICK at \in [1..k -> 1..Len(s)] :
            /\ t = [i \in 1..k |-> s[at[i]]]
            /\ \A i, j \in 1..k : i < j => at[i] < at[j]
    BY DEF Thinned
  <1>3. \A i \in 1..k : at[i] \in 1..Len(s) /\ s[at[i]] \in Int /\ s[at[i]] >= lo /\ t[i] = s[at[i]]
    BY <1>1, <1>2 DEF Side, Above
  <1>4. t \in Seq(Int) /\ Len(t) = k
    <2>1. t \in [1..k -> Int]
      BY <1>2, <1>3
    <2> QED BY <2>1
  <1>5. Sorted(t, dir)
    BY <1>2, <1>3, <1>4 DEF Sorted, Side
  <1>6. Above(t, lo)
    BY <1>3, <1>4 DEF Above
  <1>7. t[1] = s[1] \/ Farther(dir, s[1], t[1])
    <2>1. 1 \in 1..k /\ 1 \in 1..Len(s) /\ at[1] \in 1..Len(s) /\ t[1] = s[at[1]]
      BY <1>1, <1>3
    <2>2. CASE at[1] = 1
      BY <2>1, <2>2
    <2>3. CASE at[1] # 1
      <3>1. 1 < at[1]
        BY <2>1, <2>3
      <3> QED BY <2>1, <3>1 DEF Side, Sorted
    <2> QED BY <2>2, <2>3
  <1> QED BY <1>4, <1>5, <1>6, <1>7 DEF Side

\* Churn leaves a side of at least one level, of two if it had two, and a touch that
\* is no better.
LEMMA ChurnedSide ==
    ASSUME NEW dir \in Directions, NEW lo \in Int, NEW s, Side(s, dir, lo), s # <<>>,
           NEW t \in Churned(s)
    PROVE  /\ Side(t, dir, lo) /\ Len(t) \in 1..Len(s) /\ t # <<>>
           /\ Len(s) > 1 => Len(t) > 1
           /\ t[1] = s[1] \/ Farther(dir, s[1], t[1])
  <1>1. s \in Seq(Int) /\ Len(s) \in Nat \ {0}
    BY DEF Side
  <1>2. PICK k \in {Len(s)} \cup {k \in KeepLevels..Len(s) : k >= Len(s) - 3} : t \in Thinned(s, k)
    BY DEF Churned
  <1>3. k \in 1..Len(s) /\ (Len(s) > 1 => k > 1)
    BY <1>1, <1>2, LevelsAssumption
  <1>4. /\ Side(t, dir, lo) /\ Len(t) = k
        /\ t[1] = s[1] \/ Farther(dir, s[1], t[1])
    BY <1>2, <1>3, ThinnedSide
  <1>5. t # <<>>
    BY <1>3, <1>4
  <1> QED BY <1>3, <1>4, <1>5

\* Replenishing adds to a side without touching what it has, until it is full or, for
\* bids, there is no room below.
LEMMA ReplenishedSide ==
    ASSUME NEW dir \in Directions, NEW s, Side(s, dir, 1), s # <<>>, Len(s) <= MaxLevels,
           NEW t \in Replenished(s, dir)
    PROVE  /\ Side(t, dir, 1) /\ t[1] = s[1] /\ Len(t) \in Len(s)..MaxLevels
           /\ Len(t) = MaxLevels \/ (dir = -1 /\ Last(t) <= 2)
  <1>1. /\ s \in Seq(Int) /\ Len(s) \in Nat \ {0} /\ MaxLevels \in Nat
        /\ Last(s) \in Int /\ Last(s) >= 1
    <2>1. s \in Seq(Int) /\ Len(s) \in Nat \ {0} /\ Len(s) \in 1..Len(s) /\ MaxLevels \in Nat
      BY LevelsAssumption DEF Side
    <2>2. s[Len(s)] \in Int /\ s[Len(s)] >= 1
      BY <2>1 DEF Side, Above
    <2> QED BY <2>1, <2>2 DEF Last
  <1>2. PICK k \in 0..MaxLevels - Len(s) : \E gaps \in [1..k -> 1..2] :
            /\ t = s \o Outward(Last(s), dir, gaps)
            /\ Last(t) > 0 /\ (Len(t) = MaxLevels \/ Last(t) + 2 * dir <= 0)
    BY Zenon DEF Replenished
  <1>3. PICK gaps \in [1..k -> 1..2] :
            /\ t = s \o Outward(Last(s), dir, gaps)
            /\ Last(t) > 0 /\ (Len(t) = MaxLevels \/ Last(t) + 2 * dir <= 0)
    BY <1>2
  <1> DEFINE o == Outward(Last(s), dir, gaps)
             low == 1 - k * 2
  <1>4. Side(o, dir, low) /\ Len(o) = k /\ \A i \in 1..k : Farther(dir, Last(s), o[i])
    <2>1. low \in Int /\ low <= Last(s) - k * 2 /\ 2 \in Nat /\ k \in Nat
      BY <1>1
    <2> HIDE DEF low
    <2> QED BY <1>1, <1>3, <2>1, OutwardSide
  <1>5. low \in Int /\ low <= 1 /\ 1 \in Int /\ k \in Nat
    BY <1>1
  <1> HIDE DEF o, low
  <1>6. Side(s, dir, low)
    BY <1>5, SideLower
  <1>7. Side(t, dir, low) /\ t[1] = s[1] /\ Len(t) = Len(s) + k
    <2>1. t = s \o o
      BY <1>3 DEF o
    <2>2. \A i \in 1..Len(o) : Farther(dir, Last(s), o[i])
      BY <1>4
    <2>3. Side(s \o o, dir, low) /\ (s \o o)[1] = s[1] /\ Len(s \o o) = Len(s) + Len(o)
      BY <1>4, <1>5, <1>6, <2>2, JoinedSide
    <2> QED BY <1>4, <2>1, <2>3
  <1>8. Len(t) \in Len(s)..MaxLevels /\ Len(t) \in Nat \ {0}
    BY <1>1, <1>7
  <1>9. /\ t \in Seq(Int) /\ Last(t) = t[Len(t)] /\ t[Len(t)] \in Int
        /\ \A i \in 1..Len(t) : t[i] \in Int
    BY <1>7, <1>8 DEF Side, Last
  <1>10. Len(t) = MaxLevels \/ (dir = -1 /\ Last(t) <= 2)
    <2>1. CASE dir = 1
      <3>1. ~(Last(t) + 2 * 1 <= 0)
        BY <1>3, <1>9
      <3> QED BY <1>3, <2>1, <3>1
    <2>2. CASE dir = -1
      <3>1. Last(t) + 2 * (-1) <= 0 => Last(t) <= 2
        BY <1>9
      <3> QED BY <1>3, <2>2, <3>1
    <2> QED BY <2>1, <2>2 DEF Directions
  <1>11. Above(t, 1)
    <2> SUFFICES ASSUME NEW i \in 1..Len(t) PROVE t[i] >= 1
      BY DEF Above
    <2>1. CASE i = Len(t)
      BY <1>3, <1>9, <2>1
    <2>2. CASE i # Len(t) /\ dir = -1
      <3>1. i < Len(t) /\ Len(t) \in 1..Len(t)
        BY <1>8, <2>2
      <3>2. Farther(-1, t[i], t[Len(t)])
        BY <1>7, <2>2, <3>1 DEF Side, Sorted
      <3> QED BY <1>3, <1>9, <3>2, FartherIs
    <2>3. CASE i # 1 /\ dir = 1
      <3>1. 1 < i /\ 1 \in 1..Len(t)
        BY <1>8, <2>3
      <3>2. Farther(1, t[1], t[i])
        BY <1>7, <2>3, <3>1 DEF Side, Sorted
      <3>3. t[1] >= 1
        BY <1>1, <1>7 DEF Side, Above
      <3> QED BY <1>9, <3>1, <3>2, <3>3, FartherIs
    <2>4. CASE i = 1
      BY <1>1, <1>7, <2>4 DEF Side, Above
    <2> QED BY <2>1, <2>2, <2>3, <2>4 DEF Directions
  <1> QED BY <1>7, <1>8, <1>10, <1>11 DEF Side

\* The exhausted touch is replaced by a level at the far end.
LEMMA ReplacedSide ==
    ASSUME NEW dir \in Directions, NEW lo \in Int, NEW s, Side(s, dir, lo), Len(s) > 1,
           NEW far \in Int, far >= lo, Farther(dir, Last(s), far)
    PROVE  LET r == Replaced(s, far)
           IN  /\ Side(r, dir, lo) /\ Len(r) = Len(s) /\ Farther(dir, s[1], r[1])
  <1> DEFINE n == Len(s)
             r == Replaced(s, far)
  <1>1. /\ s \in Seq(Int) /\ n \in Nat /\ n > 1 /\ \A i \in 1..n : s[i] \in Int /\ s[i] >= lo
    BY DEF Side, Above
  <1>2. far \in Int /\ far >= lo /\ Farther(dir, s[n], far)
    BY DEF Last
  <1>3. /\ r \in Seq(Int) /\ Len(r) = n
        /\ \A i \in 1..n - 1 : r[i] = s[i + 1] /\ i + 1 \in 1..n
        /\ r[n] = far
    BY <1>1, <1>2 DEF Replaced
  <1> HIDE DEF r
  <1>4. Above(r, lo)
    <2> SUFFICES ASSUME NEW i \in 1..n PROVE r[i] >= lo
      BY <1>3 DEF Above
    <2>1. CASE i = n
      BY <1>2, <1>3, <2>1
    <2>2. CASE i # n
      <3>1. r[i] = s[i + 1] /\ s[i + 1] \in Int /\ s[i + 1] >= lo
        BY <1>1, <1>3, <2>2
      <3> QED BY <3>1
    <2> QED BY <2>1, <2>2
  <1>5. Sorted(r, dir)
    <2> SUFFICES ASSUME NEW i \in 1..n, NEW j \in 1..n, i < j
                 PROVE  Farther(dir, r[i], r[j])
      BY <1>3 DEF Sorted
    <2>0. i \in 1..n - 1
      BY <1>1
    <2>1. r[i] = s[i + 1] /\ i + 1 \in 1..n /\ s[i + 1] \in Int
      BY <1>1, <1>3, <2>0
    <2>2. CASE j # n
      <3>1. r[j] = s[j + 1] /\ j + 1 \in 1..n /\ i + 1 < j + 1
        BY <1>1, <1>3, <2>2
      <3> QED BY <2>1, <3>1 DEF Side, Sorted
    <2>3. CASE j = n /\ i + 1 = n
      BY <1>2, <1>3, <2>1, <2>3
    <2>4. CASE j = n /\ i + 1 # n
      <3>1. n \in 1..n /\ i + 1 < n /\ s[n] \in Int
        BY <1>1, <2>1, <2>4
      <3>2. Farther(dir, s[i + 1], s[n])
        BY <2>1, <3>1 DEF Side, Sorted
      <3> QED BY <1>2, <1>3, <2>1, <2>4, <3>1, <3>2, FartherOrder
    <2> QED BY <2>2, <2>3, <2>4
  <1>6. Farther(dir, s[1], r[1])
    <2>1. 1 \in 1..n /\ 2 \in 1..n /\ 1 < 2 /\ 1 \in 1..n - 1 /\ r[1] = s[2]
      BY <1>1, <1>3
    <2> QED BY <2>1 DEF Side, Sorted
  <1> QED BY <1>3, <1>4, <1>5, <1>6 DEF Side, r

(* --------------------------- a level of a recording -------------------------- *)

LEMMA MinIs ==
    ASSUME NEW T, T \subseteq Nat, T # {}
    PROVE  Min(T) \in T /\ \A x \in T : Min(T) <= x
  <1>1. \E x \in T : \A y \in T : x <= y
    BY LeastOfNats
  <1> QED BY <1>1 DEF Min

\* The places of two sequences put together.
LEMMA Joined ==
    ASSUME NEW a \in Seq(Int), NEW b \in Seq(Int)
    PROVE  /\ a \o b \in Seq(Int) /\ Len(a \o b) = Len(a) + Len(b)
           /\ Len(a) \in Nat /\ Len(b) \in Nat
           /\ \A i \in 1..Len(a) : (a \o b)[i] = a[i]
           /\ \A i \in Len(a) + 1..Len(a) + Len(b) : (a \o b)[i] = b[i - Len(a)]
  OBVIOUS

LEMMA JoinedOne ==
    ASSUME NEW a \in Seq(Int), NEW p \in Int
    PROVE  /\ a \o <<p>> \in Seq(Int) /\ Len(a \o <<p>>) = Len(a) + 1
           /\ (a \o <<p>>)[Len(a) + 1] = p
           /\ \A i \in 1..Len(a) : (a \o <<p>>)[i] = a[i]
  <1> DEFINE b == <<p>>
  <1>1. b \in Seq(Int) /\ Len(b) = 1 /\ b[1] = p
    OBVIOUS
  <1> HIDE DEF b
  <1>2. /\ a \o b \in Seq(Int) /\ Len(a \o b) = Len(a) + Len(b) /\ Len(a) \in Nat
        /\ \A i \in 1..Len(a) : (a \o b)[i] = a[i]
        /\ \A i \in Len(a) + 1..Len(a) + Len(b) : (a \o b)[i] = b[i - Len(a)]
    BY <1>1, Joined
  <1>3. Len(a) + 1 \in Len(a) + 1..Len(a) + Len(b) /\ Len(a) + 1 - Len(a) = 1
    BY <1>1, <1>2
  <1>4. (a \o b)[Len(a) + 1] = p
    BY <1>1, <1>2, <1>3
  <1> QED BY <1>1, <1>2, <1>4 DEF b

\* A side without its level m.
LEMMA RemovedSide ==
    ASSUME NEW dir \in Directions, NEW lo \in Int, NEW s, Side(s, dir, lo), NEW m \in 1..Len(s)
    PROVE  Side(RemoveAt(s, m), dir, lo) /\ Len(RemoveAt(s, m)) = Len(s) - 1
  <1> DEFINE n == Len(s)
             r == RemoveAt(s, m)
             from(i) == IF i < m THEN i ELSE i + 1
  <1>1. s \in Seq(Int) /\ n \in Nat /\ m \in 1..n /\ \A i \in 1..n : s[i] \in Int /\ s[i] >= lo
    BY DEF Side, Above
  <1>2. /\ r \in Seq(Int) /\ Len(r) = n - 1
        /\ \A i \in 1..n - 1 : r[i] = s[from(i)]
    <2> DEFINE a == SubSeq(s, 1, m - 1)
               b == SubSeq(s, m + 1, n)
    <2>1. /\ a \in Seq(Int) /\ Len(a) = m - 1 /\ \A i \in 1..m - 1 : a[i] = s[i]
          /\ b \in Seq(Int) /\ Len(b) = n - m /\ \A i \in 1..n - m : b[i] = s[m + i]
      BY <1>1
    <2>2. r = a \o b
      BY DEF RemoveAt
    <2> HIDE DEF a, b, r
    <2> HIDE DEF n
    <2>3. r \in Seq(Int) /\ Len(r) = n - 1
      <3>1. r \in Seq(Int) /\ Len(r) = Len(a) + Len(b)
        BY <2>1, <2>2, Joined
      <3> QED BY <1>1, <2>1, <3>1
    <2>4. ASSUME NEW i \in 1..n - 1 PROVE r[i] = s[from(i)]
      <3>1. CASE i < m
        BY <1>1, <2>1, <2>2, <3>1
      <3>2. CASE i >= m
        <4>1. r[i] = b[i - (m - 1)] /\ i - (m - 1) \in 1..n - m
          <5>1. i \in Len(a) + 1..Len(a) + Len(b) /\ i - (m - 1) \in 1..n - m
            BY <1>1, <2>1, <3>2
          <5>2. r[i] = b[i - Len(a)]
            BY <2>1, <2>2, <5>1, Joined
          <5> QED BY <2>1, <5>1, <5>2
        <4>2. m + (i - (m - 1)) = i + 1
          BY <1>1
        <4> QED BY <2>1, <3>2, <4>1, <4>2
      <3> QED BY <1>1, <3>1, <3>2
    <2> QED BY <2>3, <2>4
  <1>3. \A i \in 1..n - 1 : from(i) \in 1..n
    BY <1>1
  <1>4. \A i, j \in 1..n - 1 : i < j => from(i) < from(j)
    BY <1>1
  <1> HIDE DEF r, from
  <1>5. Above(r, lo)
    BY <1>1, <1>2, <1>3 DEF Above
  <1>6. Sorted(r, dir)
    BY <1>2, <1>3, <1>4 DEF Sorted, Side
  <1> QED BY <1>2, <1>5, <1>6 DEF Side, r

\* A side with price p put at place m, between the better and the worse levels.
LEMMA InsertedSide ==
    ASSUME NEW dir \in Directions, NEW lo \in Int, NEW s, Side(s, dir, lo),
           NEW m \in 1..Len(s) + 1, NEW p \in Int, p >= lo,
           \A i \in 1..Len(s) : i < m => Farther(dir, s[i], p),
           \A i \in 1..Len(s) : i >= m => Farther(dir, p, s[i])
    PROVE  Side(InsertAt(s, m, p), dir, lo) /\ Len(InsertAt(s, m, p)) = Len(s) + 1
  <1> DEFINE n == Len(s)
             r == InsertAt(s, m, p)
  <1>1. s \in Seq(Int) /\ n \in Nat /\ m \in 1..n + 1 /\ \A i \in 1..n : s[i] \in Int /\ s[i] >= lo
    BY DEF Side, Above
  <1>2. /\ r \in Seq(Int) /\ Len(r) = n + 1 /\ r[m] = p
        /\ \A i \in 1..m - 1 : r[i] = s[i] /\ i \in 1..n
        /\ \A i \in m + 1..n + 1 : r[i] = s[i - 1] /\ i - 1 \in 1..n
    <2> DEFINE a == SubSeq(s, 1, m - 1)
               b == SubSeq(s, m, n)
               c == a \o <<p>>
    <2>1. /\ a \in Seq(Int) /\ Len(a) = m - 1 /\ \A i \in 1..m - 1 : a[i] = s[i]
          /\ b \in Seq(Int) /\ Len(b) = n - m + 1 /\ \A i \in 1..n - m + 1 : b[i] = s[m + i - 1]
      BY <1>1
    <2>2. r = c \o b
      BY DEF InsertAt
    <2> HIDE DEF a, b, r
    <2> HIDE DEF n
    <2>3. c \in Seq(Int) /\ Len(c) = m /\ c[m] = p /\ \A i \in 1..m - 1 : c[i] = s[i]
      <3>1. /\ c \in Seq(Int) /\ Len(c) = Len(a) + 1 /\ c[Len(a) + 1] = p
            /\ \A i \in 1..Len(a) : c[i] = a[i]
        BY <2>1, JoinedOne
      <3>2. Len(a) + 1 = m
        BY <1>1, <2>1
      <3> QED BY <2>1, <3>1, <3>2
    <2> HIDE DEF c
    <2>4. r \in Seq(Int) /\ Len(r) = n + 1 /\ r[m] = p
      <3>1. r \in Seq(Int) /\ Len(r) = Len(c) + Len(b) /\ \A i \in 1..Len(c) : r[i] = c[i]
        BY <2>1, <2>2, <2>3, Joined
      <3> QED BY <1>1, <2>1, <2>3, <3>1
    <2>5. \A i \in 1..m - 1 : r[i] = s[i] /\ i \in 1..n
      BY <1>1, <2>1, <2>2, <2>3
    <2>6. ASSUME NEW i \in m + 1..n + 1 PROVE r[i] = s[i - 1] /\ i - 1 \in 1..n
      <3>1. r[i] = b[i - m] /\ i - m \in 1..n - m + 1
        <4>1. i \in Len(c) + 1..Len(c) + Len(b) /\ i - m \in 1..n - m + 1
          BY <1>1, <2>1, <2>3
        <4>2. r[i] = b[i - Len(c)]
          BY <2>1, <2>2, <2>3, <4>1, Joined
        <4> QED BY <2>3, <4>1, <4>2
      <3>2. m + (i - m) - 1 = i - 1
        BY <1>1
      <3> QED BY <1>1, <2>1, <3>1, <3>2
    <2> QED BY <2>4, <2>5, <2>6
  <1> HIDE DEF r
  <1>3. Above(r, lo)
    <2> SUFFICES ASSUME NEW i \in 1..n + 1 PROVE r[i] >= lo
      BY <1>2 DEF Above
    <2>1. i \in 1..m - 1 \/ i = m \/ i \in m + 1..n + 1
      BY <1>1
    <2> QED BY <1>1, <1>2, <2>1
  <1>4. Sorted(r, dir)
    <2> SUFFICES ASSUME NEW i \in 1..n + 1, NEW j \in 1..n + 1, i < j
                 PROVE  Farther(dir, r[i], r[j])
      BY <1>2 DEF Sorted
    <2>1. CASE j \in 1..m - 1
      <3>1. i \in 1..m - 1
        BY <1>1, <2>1
      <3> QED BY <1>2, <2>1, <3>1 DEF Side, Sorted
    <2>2. CASE j = m
      <3>1. i \in 1..m - 1 /\ i < m
        BY <1>1, <2>2
      <3> QED BY <1>2, <2>2, <3>1
    <2>3. CASE j \in m + 1..n + 1 /\ i = m
      <3>1. j - 1 >= m
        BY <1>1, <2>3
      <3> QED BY <1>2, <2>3, <3>1
    <2>4. CASE j \in m + 1..n + 1 /\ i \in 1..m - 1
      <3>1. i < j - 1
        BY <1>1, <2>4
      <3> QED BY <1>2, <2>4, <3>1 DEF Side, Sorted
    <2>5. CASE j \in m + 1..n + 1 /\ i \in m + 1..n + 1
      <3>1. i - 1 < j - 1
        BY <1>1, <2>5
      <3> QED BY <1>2, <2>5, <3>1 DEF Side, Sorted
    <2> QED BY <1>1, <2>1, <2>2, <2>3, <2>4, <2>5
  <1> QED BY <1>2, <1>3, <1>4 DEF Side, r

\* The first levels of a side.
LEMMA TrimmedSide ==
    ASSUME NEW dir \in Directions, NEW lo \in Int, NEW s, Side(s, dir, lo), NEW m \in 0..Len(s)
    PROVE  Side(SubSeq(s, 1, m), dir, lo) /\ Len(SubSeq(s, 1, m)) = m
  <1> DEFINE r == SubSeq(s, 1, m)
  <1>1. s \in Seq(Int) /\ Len(s) \in Nat
    BY DEF Side
  <1>2. r \in Seq(Int) /\ Len(r) = m /\ \A i \in 1..m : r[i] = s[i] /\ i \in 1..Len(s)
    BY <1>1
  <1> HIDE DEF r
  <1>3. Sorted(r, dir) /\ Above(r, lo)
    BY <1>2 DEF Sorted, Above, Side
  <1> QED BY <1>2, <1>3 DEF Side, r

\* applyLevel keeps the side sorted and within its cap.
LEMMA AppliedSide ==
    ASSUME NEW dir \in Directions, NEW lo \in Int, NEW s, Side(s, dir, lo), Len(s) <= MaxLevels,
           NEW p \in Int, p >= lo, NEW delete \in BOOLEAN
    PROVE  LET r == ApplyLevel(s, p, delete, dir)
           IN  Side(r, dir, lo) /\ Len(r) <= MaxLevels
  <1> DEFINE n == Len(s)
             at == {i \in 1..n : s[i] = p}
             worse == {i \in 1..n : dir * s[i] > dir * p}
             m == IF worse = {} THEN n + 1 ELSE Min(worse)
             grown == InsertAt(s, m, p)
             k == IF Len(grown) > MaxLevels THEN MaxLevels ELSE Len(grown)
             r == ApplyLevel(s, p, delete, dir)
  <1>1. s \in Seq(Int) /\ n \in Nat /\ MaxLevels \in Nat /\ \A i \in 1..n : s[i] \in Int
    BY LevelsAssumption DEF Side
  <1>2. CASE delete /\ at # {}
    <2>1. r = RemoveAt(s, Min(at))
      BY <1>2 DEF ApplyLevel
    <2>2. Min(at) \in 1..n
      <3>1. at \subseteq Nat /\ at \subseteq 1..n
        OBVIOUS
      <3> HIDE DEF at
      <3> QED BY <1>2, <3>1, MinIs
    <2> HIDE DEF at, r
    <2>3. Side(RemoveAt(s, Min(at)), dir, lo) /\ Len(RemoveAt(s, Min(at))) = n - 1
      BY <2>2, RemovedSide
    <2>4. Side(r, dir, lo) /\ Len(r) <= MaxLevels
      BY <1>1, <2>1, <2>3
    <2> QED BY <2>4 DEF r
  <1>3. CASE ~delete /\ at = {}
    <2>1. r = SubSeq(grown, 1, k)
      BY <1>3 DEF ApplyLevel
    <2>2. \A i \in 1..n : s[i] # p
      BY <1>3
    <2>3. \A i \in 1..n : i \in worse <=> Farther(dir, p, s[i])
      <3>1. \A x \in Int, y \in Int : x # y => (dir * x > dir * y <=> Farther(dir, y, x))
        BY DEF Directions, Farther
      <3> QED BY <1>1, <2>2, <3>1
    <2>4. worse \subseteq 1..n /\ worse \subseteq Nat
      OBVIOUS
    <2> HIDE DEF at, worse, r
    <2>5. m \in 1..n + 1 /\ \A i \in 1..n : (i < m => i \notin worse) /\ (m <= n => m \in worse)
      <3>1. CASE worse = {}
        BY <1>1, <3>1
      <3>2. CASE worse # {}
        <4>1. Min(worse) \in worse /\ \A x \in worse : Min(worse) <= x
          BY <2>4, <3>2, MinIs
        <4>2. m = Min(worse)
          BY <3>2
        <4> HIDE DEF m
        <4>3. m \in worse /\ \A x \in worse : m <= x
          BY <4>1, <4>2
        <4>4. m \in 1..n
          BY <2>4, <4>3
        <4> QED BY <1>1, <4>3, <4>4
      <3> QED BY <3>1, <3>2
    <2> HIDE DEF m
    <2>6. ASSUME NEW i \in 1..n, i < m PROVE Farther(dir, s[i], p)
      <3>1. ~Farther(dir, p, s[i])
        BY <2>3, <2>5, <2>6
      <3> QED BY <1>1, <2>2, <3>1, FartherOrder
    <2>7. ASSUME NEW i \in 1..n, i >= m PROVE Farther(dir, p, s[i])
      <3>1. m \in 1..n /\ Farther(dir, p, s[m])
        BY <2>3, <2>5, <2>7
      <3>2. CASE i = m
        BY <3>1, <3>2
      <3>3. CASE i # m
        <4>1. m < i
          BY <2>5, <2>7, <3>3
        <4>2. Farther(dir, s[m], s[i])
          BY <3>1, <4>1 DEF Side, Sorted
        <4> QED BY <1>1, <3>1, <4>2, FartherOrder
      <3> QED BY <3>2, <3>3
    <2>8. Side(grown, dir, lo) /\ Len(grown) = n + 1
      BY <2>5, <2>6, <2>7, InsertedSide
    <2> HIDE DEF grown
    <2>9. k \in 0..Len(grown) /\ k <= MaxLevels
      BY <1>1, <2>8
    <2> HIDE DEF k
    <2>10. Side(SubSeq(grown, 1, k), dir, lo) /\ Len(SubSeq(grown, 1, k)) = k
      BY <2>8, <2>9, TrimmedSide
    <2>11. Side(r, dir, lo) /\ Len(r) <= MaxLevels
      BY <2>1, <2>9, <2>10
    <2> QED BY <2>11 DEF r
  <1>4. CASE ~(delete /\ at # {}) /\ ~(~delete /\ at = {})
    <2>1. r = s
      BY <1>4 DEF ApplyLevel
    <2> QED BY <2>1
  <1> QED BY <1>2, <1>3, <1>4

(* ----------------------------- the steps of a ladder ------------------------- *)

\* Division is monotone.
LEMMA Quotients ==
    ASSUME NEW w \in Nat \ {0}, NEW a \in Nat, NEW b \in Nat, a <= b
    PROVE  a \div w \in Nat /\ b \div w \in Nat /\ a \div w <= b \div w
  <1> DEFINE q == a \div w
             r == a % w
             q2 == b \div w
             r2 == b % w
  <1>1. /\ q \in Int /\ r \in 0..w - 1 /\ q2 \in Int /\ r2 \in 0..w - 1
        /\ a = w * q + r /\ b = w * q2 + r2
    OBVIOUS
  <1> HIDE DEF q, r, q2, r2
  <1>2. ASSUME NEW x \in Int, NEW y \in 0..w - 1, w * x + y >= 0 PROVE x >= 0
    <2>1. x <= -1 => w * x <= -w
      OBVIOUS
    <2> QED BY <1>2, <2>1
  <1>3. q >= 0 /\ q2 >= 0
    BY <1>1, <1>2
  <1>4. q <= q2
    <2>1. w * (q - q2) = w * q - w * q2
      BY <1>1
    <2>2. q - q2 >= 1 => w * (q - q2) >= w
      BY <1>1
    <2>3. w * q \in Int /\ w * q2 \in Int
      BY <1>1
    <2>4. w * q - w * q2 < w
      <3> DEFINE x == w * q
                 y == w * q2
      <3>1. a = x + r /\ b = y + r2 /\ x \in Int /\ y \in Int
        BY <1>1
      <3> HIDE DEF x, y
      <3>2. x - y < w
        BY <1>1, <3>1
      <3> QED BY <3>2 DEF x, y
    <2> QED BY <1>1, <2>1, <2>2, <2>4
  <1> QED BY <1>1, <1>3, <1>4 DEF q, q2

\* The widest step of a ladder.
Widest == 2 + MaxLevels \div WidenEvery

LEMMA WidestIs ==
    /\ Widest \in Nat /\ Widest >= 2
    /\ \A i \in 2..MaxLevels : 1 + ((i - 1) \div WidenEvery) \in 1..Widest
  <1>0. MaxLevels \in Nat \ {0, 1} /\ WidenEvery \in Nat \ {0}
    BY LevelsAssumption
  <1>1. MaxLevels \div WidenEvery \in Nat
    BY <1>0, Quotients
  <1>2. Widest \in Nat /\ Widest >= 2
    BY <1>1 DEF Widest
  <1>3. ASSUME NEW i \in 2..MaxLevels PROVE 1 + ((i - 1) \div WidenEvery) \in 1..Widest
    <2>1. i - 1 \in Nat /\ i - 1 <= MaxLevels
      BY <1>0
    <2>2. (i - 1) \div WidenEvery \in Nat /\ (i - 1) \div WidenEvery <= MaxLevels \div WidenEvery
      BY <1>0, <2>1, Quotients
    <2> QED BY <1>1, <2>2 DEF Widest
  <1> QED BY <1>2, <1>3

(* ------------------------------ the invariant -------------------------------- *)

\* Bids as deep as they can be: full, or without room below.
DeepBids(b) == Len(b) > 1 /\ (Len(b) = MaxLevels \/ Last(b) <= 2)

\* A book as deep as it can be, whose touches do not cross.
Whole(b, a) == DeepBids(b) /\ Len(a) = MaxLevels /\ b[1] < a[1]

\* Two sides of at most the configured depth and of positive prices.
Sides(b, a) ==
    /\ Side(b, -1, 1) /\ Side(a, 1, 1)
    /\ Len(b) <= MaxLevels /\ Len(a) <= MaxLevels

CountsInv ==
    /\ changes \in 0..MaxChanges /\ updateID \in 0..changes
    /\ price \in Anchor - Deviation..Anchor + Deviation
    /\ last \in Nat /\ (last = 0 \/ last >= Anchor - Deviation)
    /\ foreign \in BOOLEAN /\ refused \in BOOLEAN /\ crashed \in BOOLEAN

\* The ladder a reset installs is whole.
BootInv == Sides(boot[1], boot[2]) /\ Whole(boot[1], boot[2])

\* Until a provider delta comes, the book is whole, the process runs, and a change is
\* refused only when bids share the lowest price.
OwnInv == ~foreign => Whole(bids, asks) /\ (refused => ~Descending(bids)) /\ ~crashed

\* The inductive invariant.
LevelsInv == CountsInv /\ Sides(bids, asks) /\ BootInv /\ OwnInv

\* A whole book passes checkOrdering when no two bids share the lowest price.
LEMMA WholeOrdered ==
    ASSUME NEW b, NEW a, Sides(b, a)
    PROVE  /\ Ascending(a) /\ b \in Seq(Int) /\ a \in Seq(Int)
           /\ Whole(b, a) /\ Descending(b) => Ordered(b, a)
           /\ Len(b) > 0 /\ Len(a) > 0 /\ Ordered(b, a) => b[1] < a[1]
  <1>1. b \in Seq(Int) /\ a \in Seq(Int) /\ Sorted(a, 1)
    BY DEF Sides, Side
  <1>2. Ascending(a)
    BY <1>1, SortedIs
  <1>3. Whole(b, a) /\ Descending(b) => Ordered(b, a)
    BY <1>2 DEF Ordered, Whole
  <1>4. Len(b) > 0 /\ Len(a) > 0 /\ Ordered(b, a) => b[1] < a[1]
    BY <1>1 DEF Ordered
  <1> QED BY <1>1, <1>2, <1>3, <1>4

\* What the run checks follows.
LEMMA InvSound == LevelsInv => BookSound
  <1> SUFFICES ASSUME LevelsInv PROVE BookSound
    OBVIOUS
  <1> USE DEF LevelsInv
  <1>1. /\ Ascending(asks) /\ bids \in Seq(Int)
        /\ Whole(bids, asks) /\ Descending(bids) => Ordered(bids, asks)
    BY WholeOrdered
  <1>2. ASSUME NEW s, NEW dir, Side(s, dir, 1) PROVE s \in Seq(Nat \ {0})
    <2>1. s \in Seq(Int) /\ \A i \in 1..Len(s) : s[i] \in Int /\ s[i] >= 1
      BY <1>2 DEF Side, Above
    <2>3. \A i \in 1..Len(s) : s[i] \in Nat \ {0}
      BY <2>1
    <2>4. Len(s) \in Nat /\ s = [i \in 1..Len(s) |-> s[i]]
      BY <2>1
    <2>5. s \in [1..Len(s) -> Nat \ {0}]
      BY <2>3, <2>4
    <2> QED BY <2>4, <2>5, SeqDef
  <1>3. LevelsTyped
    BY <1>2 DEF LevelsTyped, CountsInv, Sides
  <1>4. SidesSorted
    <2>1. Sorted(bids, -1)
      BY DEF Sides, Side
    <2> QED BY <1>1, <2>1, SortedIs DEF SidesSorted
  <1>5. ~Descending(bids) => Floored
    BY FlooredIs DEF Floored, Sides
  <1>6. NothingRefused
    BY <1>1, <1>5 DEF NothingRefused, OwnInv
  <1>7. DepthKept /\ CrashNeedsDelta
    <2> SUFFICES ASSUME ~foreign
                 PROVE  /\ Len(asks) = MaxLevels /\ ~crashed
                        /\ Len(bids) = MaxLevels \/ (bids # <<>> /\ Last(bids) <= 2)
      BY DEF DepthKept, CrashNeedsDelta
    <2>1. ~crashed /\ Len(asks) = MaxLevels /\ Len(bids) > 1 /\ (Len(bids) = MaxLevels \/ Last(bids) <= 2)
      BY DEF OwnInv, Whole, DeepBids
    <2>2. bids # <<>>
      BY <1>1, <2>1
    <2> QED BY <2>1, <2>2
  <1> QED BY <1>3, <1>4, <1>6, <1>7 DEF BookSound

(* ------------------------------- the steps ----------------------------------- *)

LEMMA InitLevels == LevelsInit => LevelsInv
  <1> SUFFICES ASSUME LevelsInit PROVE LevelsInv
    OBVIOUS
  <1>1. PICK gaps \in [1..MaxLevels -> 1..2] :
            /\ boot = BuildLadder(Anchor, gaps)
            /\ bids = BuildLadder(Anchor, gaps)[1] /\ asks = BuildLadder(Anchor, gaps)[2]
    BY DEF LevelsInit
  <1> DEFINE b == Outward(Anchor - 2, -1, gaps)
             a == Outward(Anchor + 2, 1, gaps)
  <1>2. boot[1] = b /\ boot[2] = a /\ bids = b /\ asks = a
    BY <1>1 DEF BuildLadder
  <1>3. /\ Anchor \in Nat /\ Deviation \in Nat /\ MaxLevels \in Nat \ {0, 1} /\ MaxChanges \in Nat
        /\ 2 * MaxLevels + 2 < Anchor
    BY LevelsAssumption
  <1>4. 1 <= (Anchor - 2) - MaxLevels * 2 /\ 1 <= Anchor + 2
    BY <1>3
  <1>5. Side(b, -1, 1) /\ Len(b) = MaxLevels /\ \A i \in 1..MaxLevels : Farther(-1, Anchor - 2, b[i])
    <2>1. -1 \in Directions /\ Anchor - 2 \in Int /\ 2 \in Nat /\ MaxLevels \in Nat /\ 1 \in Int
      BY <1>3 DEF Directions
    <2> QED BY <1>4, <2>1, OutwardSide
  <1>6. Side(a, 1, 1) /\ Len(a) = MaxLevels /\ \A i \in 1..MaxLevels : Anchor + 2 < a[i]
    <2>1. Anchor + 2 \in Int /\ 2 \in Nat /\ MaxLevels \in Nat /\ 1 \in Int
      BY <1>3
    <2> QED BY <1>4, <2>1, OutwardUp
  <1> HIDE DEF b, a
  <1>7. Sides(b, a) /\ Whole(b, a)
    <2>1. 1 \in 1..MaxLevels /\ b[1] \in Int /\ a[1] \in Int
      BY <1>3, <1>5, <1>6 DEF Side
    <2>2. b[1] < a[1] /\ MaxLevels > 1 /\ MaxLevels <= MaxLevels
      BY <1>3, <1>5, <1>6, <2>1, FartherIs
    <2> QED BY <1>5, <1>6, <2>2 DEF Sides, Whole, DeepBids
  <1>8. CountsInv /\ changes = 0
    <2>1. /\ updateID = 0 /\ price = Anchor /\ last = 0 /\ changes = 0
          /\ foreign = FALSE /\ refused = FALSE /\ crashed = FALSE
      BY DEF LevelsInit
    <2>2. Anchor \in Anchor - Deviation..Anchor + Deviation
      BY <1>3
    <2>3. foreign \in BOOLEAN /\ refused \in BOOLEAN /\ crashed \in BOOLEAN
      BY <2>1, Zenon
    <2>4. 0 \in 0..MaxChanges /\ 0 \in 0..0 /\ 0 \in Nat
      BY <1>3
    <2>5. /\ changes \in 0..MaxChanges /\ updateID \in 0..changes /\ last \in Nat /\ last = 0
          /\ price \in Anchor - Deviation..Anchor + Deviation
      BY <2>1, <2>2, <2>4, Zenon
    <2> QED BY <2>1, <2>3, <2>5, Zenon DEF CountsInv
  <1>9. BootInv /\ OwnInv /\ Sides(bids, asks)
    BY <1>2, <1>7, <1>8 DEF BootInv, OwnInv, LevelsInit
  <1> QED BY <1>8, <1>9 DEF LevelsInv

\* A call that commits two sides.
LEMMA CommitKeeps ==
    ASSUME CountsInv, Call, NEW b, NEW a, Commit(b, a), Sides(b, a), ~foreign' => Whole(b, a)
    PROVE  /\ Sides(bids, asks)'
           /\ ~foreign' => Whole(bids, asks)' /\ (refused' => ~Descending(bids)')
           /\ changes' \in 0..MaxChanges /\ updateID' \in 0..changes' /\ refused' \in BOOLEAN
  <1>1. /\ bids' = b /\ asks' = a /\ refused' = ~Ordered(b, a) /\ changes' = changes + 1
        /\ updateID' \in {updateID, updateID + 1}
    BY DEF Commit, Call
  <1>2. Whole(b, a) /\ Descending(b) => Ordered(b, a)
    BY WholeOrdered
  <1>3. changes' \in 0..MaxChanges /\ updateID' \in 0..changes'
    BY <1>1, LevelsAssumption DEF CountsInv, Call
  <1>4. Sides(bids', asks')
    BY <1>1
  <1>5. ~foreign' => Whole(bids', asks') /\ (refused' => ~Descending(bids'))
    BY <1>1, <1>2
  <1>6. (Whole(bids, asks)' <=> Whole(bids', asks')) /\ (Descending(bids)' <=> Descending(bids'))
    BY DEF Whole, DeepBids, Last, Descending
  <1>7. Sides(bids, asks)' <=> Sides(bids', asks')
    BY DEF Sides, Side, Sorted, Above, Farther
  <1>8. refused' \in BOOLEAN
    BY <1>1
  <1> QED BY <1>3, <1>4, <1>5, <1>6, <1>7, <1>8

LEMMA CallCounts ==
    ASSUME LevelsInv, Call
    PROVE  changes' = changes + 1 /\ changes \in Nat /\ changes' \in 0..MaxChanges
  BY LevelsAssumption DEF LevelsInv, CountsInv, Call

\* A trade that takes the touch of one side.
LEMMA ConsumeKeeps ==
    ASSUME LevelsInv, Call, NEW side \in {"BUY", "SELL"}, Consume(side), foreign' = foreign
    PROVE  /\ Sides(bids, asks)' /\ OwnInv'
           /\ changes' \in 0..MaxChanges /\ updateID' \in 0..changes'
           /\ refused' \in BOOLEAN /\ crashed' \in BOOLEAN
  <1>1. /\ CountsInv /\ Sides(bids, asks) /\ Side(bids, -1, 1) /\ Side(asks, 1, 1)
        /\ Len(bids) <= MaxLevels /\ Len(asks) <= MaxLevels /\ OwnInv
        /\ bids \in Seq(Int) /\ asks \in Seq(Int)
    BY DEF LevelsInv, Sides, Side
  <1>2. MaxLevels \in Nat \ {0, 1} /\ ~crashed
    BY LevelsAssumption DEF Call
  <1> DEFINE Goal == /\ Sides(bids, asks)' /\ OwnInv'
                     /\ changes' \in 0..MaxChanges /\ updateID' \in 0..changes'
                     /\ refused' \in BOOLEAN /\ crashed' \in BOOLEAN
  <1>3. ASSUME NEW b, NEW a, Commit(b, a), crashed' = crashed, Sides(b, a), ~foreign => Whole(b, a)
        PROVE  Goal
    <2>1. /\ Sides(bids, asks)'
          /\ ~foreign' => Whole(bids, asks)' /\ (refused' => ~Descending(bids)')
          /\ changes' \in 0..MaxChanges /\ updateID' \in 0..changes' /\ refused' \in BOOLEAN
      BY <1>1, <1>3, CommitKeeps
    <2>2. OwnInv'
      BY <1>2, <1>3, <2>1 DEF OwnInv
    <2>3. crashed' \in BOOLEAN
      BY <1>1, <1>3 DEF CountsInv
    <2> QED BY <2>1, <2>2, <2>3
  <1>4. ASSUME Commit(bids, asks), UNCHANGED crashed PROVE Goal
    BY <1>1, <1>3, <1>4 DEF OwnInv
  <1>5. ASSUME side = "BUY", Len(asks) > 1, UNCHANGED crashed, NEW g \in 1..2,
               Commit(bids, Replaced(asks, Last(asks) + g))
        PROVE  Goal
    <2> DEFINE r == Replaced(asks, Last(asks) + g)
    <2>1. Last(asks) + g \in Int /\ Last(asks) + g >= 1 /\ Farther(1, Last(asks), Last(asks) + g)
      <3>1. asks[Len(asks)] \in Int /\ asks[Len(asks)] >= 1
        BY <1>1, <1>5 DEF Side, Above
      <3> QED BY <3>1, FartherIs DEF Last
    <2>2. Side(r, 1, 1) /\ Len(r) = Len(asks) /\ Farther(1, asks[1], r[1])
      BY <1>1, <1>5, <2>1, ReplacedSide DEF Directions
    <2> HIDE DEF r
    <2>3. Sides(bids, r)
      BY <1>1, <2>2 DEF Sides
    <2>4. ~foreign => Whole(bids, r)
      <3> SUFFICES ASSUME ~foreign PROVE Whole(bids, r)
        OBVIOUS
      <3>1. Whole(bids, asks)
        BY <1>1 DEF OwnInv
      <3>2. bids[1] \in Int /\ asks[1] \in Int /\ r[1] \in Int
        BY <1>1, <1>2, <2>2, <3>1 DEF Whole, DeepBids, Side
      <3>3. asks[1] < r[1] /\ bids[1] < asks[1]
        BY <2>2, <3>1, <3>2, FartherIs DEF Whole
      <3>4. bids[1] < r[1]
        BY <3>2, <3>3
      <3> QED BY <2>2, <3>1, <3>4 DEF Whole
    <2> QED BY <1>3, <1>5, <2>3, <2>4 DEF r
  <1>6. ASSUME side = "SELL", Len(bids) > 1, UNCHANGED crashed, NEW g \in 1..2,
               Commit(Replaced(bids, AtLeastOne(Last(bids) - g)), asks)
        PROVE  Goal
    <2> DEFINE far == AtLeastOne(Last(bids) - g)
               r == Replaced(bids, far)
    <2>1. Last(bids) \in Int /\ Last(bids) >= 1
      <3>1. bids[Len(bids)] \in Int /\ bids[Len(bids)] >= 1
        BY <1>1, <1>6 DEF Side, Above
      <3> QED BY <3>1 DEF Last
    <2>2. /\ far \in Int /\ far >= 1 /\ Farther(-1, Last(bids), far)
          /\ Last(bids) <= 2 => far <= 2
      <3>1. far \in Int /\ far >= 1 /\ (far < Last(bids) \/ (Last(bids) = 1 /\ far = 1))
        BY <2>1 DEF AtLeastOne
      <3> HIDE DEF far
      <3> QED BY <2>1, <3>1, FartherIs
    <2> HIDE DEF far
    <2>3. Side(r, -1, 1) /\ Len(r) = Len(bids) /\ Farther(-1, bids[1], r[1])
      BY <1>1, <1>6, <2>2, ReplacedSide DEF Directions
    <2>4. Last(r) = far
      <3>1. Tail(bids) \in Seq(Int)
        BY <1>1, <1>6
      <3>2. r[Len(Tail(bids)) + 1] = far /\ Len(r) = Len(Tail(bids)) + 1
        BY <2>2, <3>1 DEF Replaced
      <3> QED BY <3>2 DEF Last
    <2> HIDE DEF r
    <2>5. Sides(r, asks)
      BY <1>1, <2>3 DEF Sides
    <2>6. ~foreign => Whole(r, asks)
      <3> SUFFICES ASSUME ~foreign PROVE Whole(r, asks)
        OBVIOUS
      <3>1. Whole(bids, asks)
        BY <1>1 DEF OwnInv
      <3>2. bids[1] \in Int /\ asks[1] \in Int /\ r[1] \in Int
        BY <1>1, <1>2, <1>6, <2>3, <3>1 DEF Whole, Side
      <3>3. r[1] <= bids[1] /\ bids[1] < asks[1]
        BY <2>3, <3>1, <3>2, FartherIs DEF Whole
      <3>4. r[1] < asks[1]
        BY <3>2, <3>3
      <3>5. DeepBids(r)
        BY <2>2, <2>3, <2>4, <3>1 DEF Whole, DeepBids
      <3> QED BY <3>1, <3>4, <3>5 DEF Whole
    <2> QED BY <1>3, <1>6, <2>5, <2>6 DEF r, far
  <1>7. ASSUME Len(IF side = "BUY" THEN asks ELSE bids) = 1,
               crashed' = TRUE, UNCHANGED <<bids, asks, updateID, refused>>
        PROVE  Goal
    <2>1. foreign
      <3> SUFFICES ASSUME ~foreign PROVE FALSE
        OBVIOUS
      <3>1. Len(bids) > 1 /\ Len(asks) = MaxLevels
        BY <1>1 DEF OwnInv, Whole, DeepBids
      <3>2. CASE side = "BUY"
        BY <1>2, <1>7, <3>1, <3>2
      <3>3. CASE side = "SELL"
        <4>1. Len(bids) = 1
          BY <1>7, <3>3
        <4> QED BY <3>1, <4>1
      <3> QED BY <3>2, <3>3
    <2>2. OwnInv'
      BY <2>1 DEF OwnInv
    <2>3. changes' = changes + 1 /\ changes' \in 0..MaxChanges
      BY CallCounts
    <2>5. Sides(bids, asks)'
      BY <1>1, <1>7 DEF Sides, Side, Sorted, Above, Farther
    <2>6. updateID' \in 0..changes' /\ refused' \in BOOLEAN
      BY <1>1, <1>7, <2>3 DEF CountsInv
    <2> QED BY <1>7, <2>2, <2>3, <2>5, <2>6
  <1>8. \/ Commit(bids, asks) /\ UNCHANGED crashed
        \/ \E g \in 1..2 : /\ side = "BUY" /\ Len(asks) > 1 /\ UNCHANGED crashed
                           /\ Commit(bids, Replaced(asks, Last(asks) + g))
        \/ \E g \in 1..2 : /\ side = "SELL" /\ Len(bids) > 1 /\ UNCHANGED crashed
                           /\ Commit(Replaced(bids, AtLeastOne(Last(bids) - g)), asks)
        \/ /\ Len(IF side = "BUY" THEN asks ELSE bids) = 1
           /\ crashed' = TRUE /\ UNCHANGED <<bids, asks, updateID, refused>>
    BY Zenon DEF Consume
  <1> HIDE DEF Goal
  <1>9. Goal
    BY <1>4, <1>5, <1>6, <1>7, <1>8
  <1> QED BY <1>9 DEF Goal

LEMMA TradeKeeps ==
    ASSUME LevelsInv, Trade
    PROVE  LevelsInv'
  <1>1. PICK step \in -MaxStep..MaxStep :
          /\ price' = Clamp(price + step) /\ last' = price'
          /\ IF bids = <<>> \/ asks = <<>>
             THEN UNCHANGED <<bids, asks, updateID, refused, crashed>>
             ELSE \E side \in SidesFor(price' - price) : Consume(side)
    BY DEF Trade
  <1>2. Call /\ boot' = boot /\ foreign' = foreign
    BY DEF Trade
  <1>3. /\ price' \in Anchor - Deviation..Anchor + Deviation
        /\ last' \in Nat /\ last' >= Anchor - Deviation
    <2>1. /\ price \in Int /\ step \in Int /\ Anchor \in Nat /\ Deviation \in Nat
          /\ Anchor - Deviation > 0
      <3>1. /\ price \in Int /\ Anchor \in Nat /\ Deviation \in Nat /\ MaxStep \in Nat
            /\ Deviation < Anchor
        BY LevelsAssumption DEF LevelsInv, CountsInv
      <3> QED BY <3>1
    <2>2. price' \in Anchor - Deviation..Anchor + Deviation
      BY <1>1, <2>1 DEF Clamp
    <2> QED BY <1>1, <2>1, <2>2
  <1>4. /\ Sides(bids, asks)' /\ OwnInv'
        /\ changes' \in 0..MaxChanges /\ updateID' \in 0..changes'
        /\ refused' \in BOOLEAN /\ crashed' \in BOOLEAN
    <2>1. CASE bids = <<>> \/ asks = <<>>
      <3>1. UNCHANGED <<bids, asks, updateID, refused, crashed>>
        BY <1>1, <2>1
      <3>2. changes' = changes + 1 /\ changes \in Nat /\ changes' \in 0..MaxChanges /\ Sides(bids, asks)
        BY <1>2, CallCounts DEF LevelsInv
      <3>4. Sides(bids, asks)'
        BY <3>1, <3>2 DEF Sides, Side, Sorted, Above, Farther
      <3>5. OwnInv'
        BY <1>2, <3>1 DEF LevelsInv, OwnInv, Whole, DeepBids, Descending, Last
      <3>6. updateID' \in 0..changes'
        BY <3>1, <3>2 DEF LevelsInv, CountsInv
      <3>7. refused' \in BOOLEAN /\ crashed' \in BOOLEAN
        BY <3>1 DEF LevelsInv, CountsInv
      <3> QED BY <3>2, <3>4, <3>5, <3>6, <3>7
    <2>2. CASE ~(bids = <<>> \/ asks = <<>>)
      <3>1. PICK side \in SidesFor(price' - price) : Consume(side)
        BY <1>1, <2>2
      <3>2. side \in {"BUY", "SELL"}
        BY DEF SidesFor
      <3> QED BY <1>2, <3>1, <3>2, ConsumeKeeps
    <2> QED BY <2>1, <2>2
  <1>5. BootInv'
    <2>1. BootInv
      BY DEF LevelsInv
    <2> QED BY <1>2, <2>1 DEF BootInv, Sides, Whole, DeepBids, Last, Side, Sorted, Above, Farther
  <1>6. CountsInv'
    <2>1. foreign' \in BOOLEAN
      BY <1>2 DEF LevelsInv, CountsInv
    <2> QED BY <1>3, <1>4, <2>1 DEF CountsInv
  <1> QED BY <1>4, <1>5, <1>6 DEF LevelsInv

LEMMA InstallKeeps ==
    ASSUME LevelsInv, Install
    PROVE  LevelsInv'
  <1>1. /\ Call /\ bids' = boot[1] /\ asks' = boot[2] /\ updateID' = 0 /\ last' = 0
        /\ foreign' = FALSE /\ refused' = FALSE
        /\ boot' = boot /\ price' = price /\ crashed' = crashed
    BY DEF Install
  <1>2. changes' \in 0..MaxChanges /\ Sides(boot[1], boot[2])
    BY <1>1, CallCounts DEF LevelsInv, BootInv
  <1>4. Sides(bids, asks)'
    BY <1>1, <1>2 DEF Sides, Side, Sorted, Above, Farther
  <1>5. BootInv'
    <2>1. BootInv
      BY DEF LevelsInv
    <2> QED BY <1>1, <2>1 DEF BootInv, Sides, Whole, DeepBids, Last, Side, Sorted, Above, Farther
  <1>6. OwnInv'
    <2>1. Whole(boot[1], boot[2]) /\ ~crashed
      BY <1>1 DEF LevelsInv, BootInv, Call
    <2> QED BY <1>1, <2>1 DEF OwnInv, Whole, DeepBids, Last
  <1>7. CountsInv'
    <2>1. foreign' \in BOOLEAN /\ refused' \in BOOLEAN /\ crashed' \in BOOLEAN
      BY <1>1, Zenon DEF LevelsInv, CountsInv
    <2>2. 0 \in Nat /\ 0 \in 0..changes'
      BY <1>2
    <2>3. /\ updateID' \in 0..changes' /\ last' \in Nat /\ last' = 0
          /\ price' \in Anchor - Deviation..Anchor + Deviation
      BY <1>1, <2>2, Zenon DEF LevelsInv, CountsInv
    <2> QED BY <1>2, <2>1, <2>3, Zenon DEF CountsInv
  <1> QED BY <1>4, <1>5, <1>6, <1>7 DEF LevelsInv

\* Recenter makes a full book around the mid.
LEMMA Recentred ==
    ASSUME NEW mid \in Int, mid >= 1, Recenter(mid)
    PROVE  \E b, a : /\ Commit(b, a) /\ Sides(b, a) /\ Whole(b, a)
                     /\ b[1] <= mid /\ mid <= a[1]
  <1> DEFINE steps == [i \in 1..MaxLevels |->
                          IF i = 1 THEN 1 + (mid % 2) ELSE 1 + ((i - 1) \div WidenEvery)]
             below == Outward(mid, -1, steps)
             b == [i \in 1..MaxLevels |-> AtLeastOne(below[i])]
             a == Outward(mid, 1, steps)
             low == mid - MaxLevels * Widest
  <1>1. Commit(b, a)
    BY DEF Recenter
  <1>2. MaxLevels \in Nat \ {0, 1} /\ Widest \in Nat /\ Widest >= 2
    BY LevelsAssumption, WidestIs
  <1>3. steps \in [1..MaxLevels -> 1..Widest]
    <2>1. 1 + (mid % 2) \in 1..Widest
      BY <1>2
    <2>2. \A i \in 1..MaxLevels : i # 1 => 1 + ((i - 1) \div WidenEvery) \in 1..Widest
      <3>1. \A i \in 1..MaxLevels : i # 1 => i \in 2..MaxLevels
        BY <1>2
      <3> QED BY <3>1, WidestIs
    <2> QED BY <2>1, <2>2
  <1> HIDE DEF steps
  <1>4. low \in Int /\ low <= mid - MaxLevels * Widest
    BY <1>2
  <1> HIDE DEF low
  <1>5. -1 \in Directions /\ 1 \in Directions /\ MaxLevels \in Nat /\ 1 \in Int
    BY <1>2 DEF Directions
  <1>6. /\ Side(below, -1, low) /\ Len(below) = MaxLevels
        /\ \A i \in 1..MaxLevels : Farther(-1, mid, below[i])
    BY <1>2, <1>3, <1>4, <1>5, OutwardSide
  <1>7. Side(a, 1, 1) /\ Len(a) = MaxLevels /\ \A i \in 1..MaxLevels : mid < a[i]
    BY <1>2, <1>3, <1>5, OutwardUp
  <1> HIDE DEF below, a
  <1>8. Side(b, -1, 1) /\ Len(b) = MaxLevels
    <2>1. b = [i \in 1..Len(below) |-> AtLeastOne(below[i])]
      BY <1>6
    <2> HIDE DEF b
    <2> QED BY <1>6, <2>1, ClampedSide
  <1>9. 1 \in 1..MaxLevels /\ b[1] = AtLeastOne(below[1]) /\ below[1] \in Int /\ a[1] \in Int
    BY <1>2, <1>6, <1>7 DEF Side
  <1> HIDE DEF b
  <1>10. b[1] < a[1] /\ b[1] <= mid /\ mid <= a[1] /\ MaxLevels <= MaxLevels /\ MaxLevels > 1
    <2>1. below[1] <= mid /\ mid < a[1]
      BY <1>6, <1>7, <1>9, FartherIs
    <2> QED BY <1>2, <1>9, <2>1 DEF AtLeastOne
  <1>11. Sides(b, a) /\ Whole(b, a)
    BY <1>7, <1>8, <1>10 DEF Sides, Whole, DeepBids
  <1> QED BY <1>1, <1>10, <1>11

\* Churn and replenishment of one side: it is as deep as it can be, and its touch is
\* no better.
LEMMA RefreshedSide ==
    ASSUME NEW dir \in Directions, NEW s, Side(s, dir, 1), s # <<>>,
           Len(s) <= MaxLevels, NEW c \in Churned(s), NEW t \in Replenished(c, dir)
    PROVE  /\ Side(t, dir, 1) /\ Len(t) \in 1..MaxLevels
           /\ Len(t) = MaxLevels \/ (dir = -1 /\ Last(t) <= 2)
           /\ Len(s) > 1 => Len(t) > 1
           /\ t[1] = s[1] \/ Farther(dir, s[1], t[1])
  <1>1. /\ Side(c, dir, 1) /\ Len(c) \in 1..Len(s) /\ c # <<>>
        /\ Len(s) > 1 => Len(c) > 1
        /\ c[1] = s[1] \/ Farther(dir, s[1], c[1])
    BY ChurnedSide
  <1>2. Len(s) \in Nat /\ MaxLevels \in Nat
    BY LevelsAssumption DEF Side
  <1>3. Len(c) <= MaxLevels
    BY <1>1, <1>2
  <1>4. /\ Side(t, dir, 1) /\ t[1] = c[1] /\ Len(t) \in Len(c)..MaxLevels
        /\ Len(t) = MaxLevels \/ (dir = -1 /\ Last(t) <= 2)
    BY <1>1, <1>3, ReplenishedSide
  <1>5. Len(t) \in 1..MaxLevels /\ (Len(s) > 1 => Len(t) > 1)
    BY <1>1, <1>2, <1>4
  <1> QED BY <1>1, <1>4, <1>5

\* What a refresh commits: two sides as deep as they can be around the mid, and, if the
\* book's touches did not cross, a whole book.
LEMMA RefreshCommits ==
    ASSUME LevelsInv, Refresh
    PROVE  \E b, a : /\ Commit(b, a) /\ Sides(b, a)
                     /\ Len(a) = MaxLevels /\ Len(b) > 0
                     /\ Len(b) = MaxLevels \/ Last(b) <= 2
                     /\ b[1] <= Mid /\ Mid <= a[1]
                     /\ ~foreign => Whole(b, a)
  <1>1. /\ Call
        /\ IF bids = <<>> \/ asks = <<>> \/ NeedsRecenter(Mid)
           THEN Recenter(Mid)
           ELSE \E b \in Churned(bids), a \in Churned(asks) :
                   \E fb \in Replenished(b, -1), fa \in Replenished(a, 1) : Commit(fb, fa)
    BY DEF Refresh
  <1>2. MaxLevels \in Nat \ {0, 1}
    BY LevelsAssumption
  <1>3. /\ Side(bids, -1, 1) /\ Side(asks, 1, 1) /\ bids \in Seq(Int) /\ asks \in Seq(Int)
        /\ Len(bids) <= MaxLevels /\ Len(asks) <= MaxLevels
    BY DEF LevelsInv, Sides, Side
  <1>4. CASE bids = <<>> \/ asks = <<>> \/ NeedsRecenter(Mid)
    <2>1. Mid \in Int /\ Mid >= 1
      <3>1. Mid > 0
        BY DEF Refresh
      <3>2. Mid \in Int
        <4>1. last \in Nat
          BY DEF LevelsInv, CountsInv
        <4>2. bids # <<>> => bids[1] \in Int
          BY <1>3
        <4> QED BY <4>1, <4>2 DEF Mid
      <3> QED BY <3>1, <3>2
    <2>2. Recenter(Mid)
      BY <1>1, <1>4
    <2>3. PICK b, a : /\ Commit(b, a) /\ Sides(b, a) /\ Whole(b, a)
                      /\ b[1] <= Mid /\ Mid <= a[1]
      BY <2>1, <2>2, Recentred
    <2>4. Len(b) \in Nat
      BY <2>3 DEF Sides, Side
    <2>5. Len(a) = MaxLevels /\ Len(b) > 0 /\ (Len(b) = MaxLevels \/ Last(b) <= 2)
      BY <2>3, <2>4 DEF Whole, DeepBids
    <2> QED BY <2>3, <2>5
  <1>5. CASE ~(bids = <<>> \/ asks = <<>> \/ NeedsRecenter(Mid))
    <2>1. PICK cb \in Churned(bids), ca \in Churned(asks) :
             \E fb \in Replenished(cb, -1), fa \in Replenished(ca, 1) : Commit(fb, fa)
      BY <1>1, <1>5
    <2>2. PICK b \in Replenished(cb, -1), a \in Replenished(ca, 1) : Commit(b, a)
      BY <2>1
    <2>3. -1 \in Directions /\ 1 \in Directions /\ bids # <<>> /\ asks # <<>>
      BY <1>5 DEF Directions
    <2>4. /\ Side(b, -1, 1) /\ Len(b) \in 1..MaxLevels
          /\ Len(b) = MaxLevels \/ Last(b) <= 2
          /\ Len(bids) > 1 => Len(b) > 1
          /\ b[1] = bids[1] \/ Farther(-1, bids[1], b[1])
      BY <1>3, <2>3, RefreshedSide
    <2>5. /\ Side(a, 1, 1) /\ Len(a) \in 1..MaxLevels /\ Len(a) = MaxLevels
          /\ a[1] = asks[1] \/ Farther(1, asks[1], a[1])
      <3>1. /\ Side(a, 1, 1) /\ Len(a) \in 1..MaxLevels /\ (Len(a) = MaxLevels \/ 1 = -1)
            /\ a[1] = asks[1] \/ Farther(1, asks[1], a[1])
        BY <1>3, <2>3, RefreshedSide
      <3> QED BY <3>1
    <2>6. Sides(b, a)
      BY <1>2, <2>4, <2>5 DEF Sides
    <2>7. bids[1] \in Int /\ asks[1] \in Int /\ b[1] \in Int /\ a[1] \in Int
      <3>1. b \in Seq(Int) /\ a \in Seq(Int)
        BY <2>4, <2>5 DEF Side
      <3>2. b[1] \in Int /\ a[1] \in Int
        BY <2>4, <2>5, <3>1
      <3>3. bids[1] \in Int /\ asks[1] \in Int
        BY <1>3, <2>3
      <3> QED BY <3>2, <3>3
    <2>8. b[1] <= bids[1] /\ asks[1] <= a[1]
      BY <2>4, <2>5, <2>7, FartherIs
    <2>9. ~(bids[1] > Mid) /\ ~(asks[1] < Mid)
      BY <1>5 DEF NeedsRecenter
    <2>10. b[1] <= Mid /\ Mid <= a[1]
      <3>1. Mid \in Int
        <4>1. last \in Nat
          BY DEF LevelsInv, CountsInv
        <4> QED BY <2>7, <4>1 DEF Mid
      <3> QED BY <2>7, <2>8, <2>9, <3>1
    <2>11. ~foreign => Whole(b, a)
      <3> SUFFICES ASSUME ~foreign PROVE Whole(b, a)
        OBVIOUS
      <3>1. bids[1] < asks[1] /\ Len(bids) > 1
        BY DEF LevelsInv, OwnInv, Whole, DeepBids
      <3>2. b[1] < a[1]
        BY <2>7, <2>8, <3>1
      <3> QED BY <2>4, <2>5, <3>1, <3>2 DEF Whole, DeepBids
    <2>12. Len(b) > 0
      BY <1>2, <2>4
    <2> QED BY <2>2, <2>4, <2>5, <2>6, <2>10, <2>11, <2>12
  <1> QED BY <1>4, <1>5

\* A call that commits and leaves the ladder, the last trade and the process alone.
LEMMA CommittedKeeps ==
    ASSUME LevelsInv, Call, NEW b, NEW a, Commit(b, a), Sides(b, a),
           ~foreign' => Whole(b, a), foreign' \in BOOLEAN,
           UNCHANGED <<boot, price, last, crashed>>
    PROVE  LevelsInv'
  <1>1. /\ Sides(bids, asks)'
        /\ ~foreign' => Whole(bids, asks)' /\ (refused' => ~Descending(bids)')
        /\ changes' \in 0..MaxChanges /\ updateID' \in 0..changes' /\ refused' \in BOOLEAN
    BY CommitKeeps DEF LevelsInv
  <1>2. BootInv'
    <2>1. BootInv
      BY DEF LevelsInv
    <2> QED BY <2>1 DEF BootInv, Sides, Whole, DeepBids, Last, Side, Sorted, Above, Farther
  <1>3. OwnInv'
    BY <1>1 DEF OwnInv, Call
  <1>4. CountsInv'
    <2>1. /\ price' \in Anchor - Deviation..Anchor + Deviation
          /\ last' \in Nat /\ (last' = 0 \/ last' >= Anchor - Deviation) /\ crashed' \in BOOLEAN
      BY DEF LevelsInv, CountsInv
    <2> QED BY <1>1, <2>1 DEF CountsInv
  <1> QED BY <1>1, <1>2, <1>3, <1>4 DEF LevelsInv

LEMMA RefreshKeeps ==
    ASSUME LevelsInv, Refresh
    PROVE  LevelsInv'
  <1>1. PICK b, a : /\ Commit(b, a) /\ Sides(b, a)
                    /\ ~foreign => Whole(b, a)
    BY RefreshCommits
  <1>2. Call /\ UNCHANGED <<boot, price, last, foreign, crashed>>
    BY DEF Refresh
  <1>3. foreign' \in BOOLEAN
    BY <1>2 DEF LevelsInv, CountsInv
  <1> QED BY <1>1, <1>2, <1>3, CommittedKeeps

LEMMA DeltaKeeps ==
    ASSUME LevelsInv, ApplyDelta
    PROVE  LevelsInv'
  <1>1. PICK p \in Range(bids) \cup Range(asks) \cup {price}, delete \in BOOLEAN :
          \/ Commit(ApplyBid(bids, p, delete), asks)
          \/ Commit(bids, ApplyAsk(asks, p, delete))
    BY DEF ApplyDelta
  <1>2. Call /\ foreign' = TRUE /\ UNCHANGED <<boot, price, last, crashed>>
    BY DEF ApplyDelta
  <1>3. Sides(bids, asks)
    BY DEF LevelsInv
  <1>5. p \in Int /\ p >= 1
    <2>1. CASE p = price
      <3>1. price \in Anchor - Deviation..Anchor + Deviation
        BY DEF LevelsInv, CountsInv
      <3>2. Anchor \in Nat /\ Deviation \in Nat /\ Deviation < Anchor
        BY LevelsAssumption
      <3> QED BY <2>1, <3>1, <3>2
    <2>2. ASSUME NEW s, NEW dir, Side(s, dir, 1), p \in Range(s) PROVE p \in Int /\ p >= 1
      <3>1. s \in Seq(Int)
        BY <2>2 DEF Side
      <3>2. PICK i \in 1..Len(s) : p = s[i]
        BY <2>2, <3>1 DEF Range
      <3> QED BY <2>2, <3>1, <3>2 DEF Side, Above
    <2>3. Side(bids, -1, 1) /\ Side(asks, 1, 1)
      BY <1>3 DEF Sides
    <2> QED BY <2>1, <2>2, <2>3
  <1>6. -1 \in Directions /\ 1 \in Directions
    BY DEF Directions
  <1>7. Sides(ApplyBid(bids, p, delete), asks)
    BY <1>3, <1>5, <1>6, AppliedSide DEF Sides, ApplyBid
  <1>8. Sides(bids, ApplyAsk(asks, p, delete))
    BY <1>3, <1>5, <1>6, AppliedSide DEF Sides, ApplyAsk
  <1>9. foreign' \in BOOLEAN /\ foreign'
    BY <1>2
  <1> QED BY <1>1, <1>2, <1>7, <1>8, <1>9, CommittedKeeps

LEMMA NextLevels == LevelsInv /\ [LevelsNext]_levelVars => LevelsInv'
  <1> SUFFICES ASSUME LevelsInv, [LevelsNext]_levelVars PROVE LevelsInv'
    OBVIOUS
  <1>1. CASE Trade
    BY <1>1, TradeKeeps
  <1>2. CASE Refresh
    BY <1>2, RefreshKeeps
  <1>3. CASE Install
    BY <1>3, InstallKeeps
  <1>4. CASE ApplyDelta
    BY <1>4, DeltaKeeps
  <1>5. CASE UNCHANGED levelVars
    BY <1>5 DEF levelVars, LevelsInv, CountsInv, BootInv, OwnInv, Sides, Whole, DeepBids,
                Last, Descending, Side, Sorted, Above, Farther
  <1> QED BY <1>1, <1>2, <1>3, <1>4, <1>5 DEF LevelsNext

LEMMA SpecLevels == LevelsSpec => []LevelsInv
  BY InitLevels, NextLevels, PTL DEF LevelsSpec

\* Through any sequence of trades, refreshes, resets and deltas, the book is within its
\* cap, of positive prices and sorted, strictly but for bids that share the lowest price;
\* until a delta comes it is as deep as it can be, no trade finds a side empty, and a
\* change is refused only when two bids share the lowest price.
THEOREM BookStaysSound == LevelsSpec => []BookSound
  BY SpecLevels, InvSound, PTL

\* A refresh that is accepted leaves a book around the mid, full but for bids that have
\* no room below, from any state that trades, a reset or deltas can leave.
THEOREM RefreshAlwaysRestores == LevelsSpec => RefreshRestores
  <1> DEFINE Restored == /\ Len(asks') = MaxLevels
                         /\ Len(bids') = MaxLevels \/ (bids' # <<>> /\ Last(bids') <= 2)
                         /\ bids'[1] <= Mid /\ Mid <= asks'[1] /\ bids'[1] < asks'[1]
  <1>1. LevelsInv /\ [LevelsNext]_levelVars =>
          [Refresh /\ updateID' = updateID + 1 => Restored]_levelVars
    <2> SUFFICES ASSUME LevelsInv, Refresh, updateID' = updateID + 1
                 PROVE  Restored
      OBVIOUS
    <2>1. PICK b, a : /\ Commit(b, a) /\ Sides(b, a)
                      /\ Len(a) = MaxLevels /\ Len(b) > 0
                      /\ Len(b) = MaxLevels \/ Last(b) <= 2
                      /\ b[1] <= Mid /\ Mid <= a[1]
      BY RefreshCommits
    <2>2. Ordered(b, a)
      <3>1. updateID \in Int /\ updateID' = IF Ordered(b, a) THEN updateID + 1 ELSE updateID
        BY <2>1 DEF Commit, LevelsInv, CountsInv
      <3> QED BY <3>1
    <2>3. b[1] < a[1] /\ b # <<>>
      <3>1. Len(a) > 0
        BY <2>1, LevelsAssumption
      <3> QED BY <2>1, <2>2, <3>1, WholeOrdered
    <2> QED BY <2>1, <2>3 DEF Commit
  <1> QED BY <1>1, SpecLevels, PTL DEF LevelsSpec, RefreshRestores

--------------------------------------------------------------------------------
(* From the engine to the socket: BookDelivery, for every set of prices and *)
(* quantities, every depth, mailbox capacity, choice of faults and bound.   *)

\* The order of stamps: epochs first, update ids within one.
NotAfter(a, b) == a.epoch < b.epoch \/ (a.epoch = b.epoch /\ a.id <= b.id)
Earlier(a, b) == a.epoch < b.epoch \/ (a.epoch = b.epoch /\ a.id < b.id)

\* Every reset shows as a new epoch of the book.
EpochInStep == book.epoch = engineEpoch

\* Windows are published in the order they were captured, none from the future.
QueueOrdered ==
    /\ \A i \in 1..Len(mailbox) : NotAfter(mailbox[i], book)
    /\ \A i, j \in 1..Len(mailbox) : i < j => Earlier(mailbox[i], mailbox[j])
    /\ captured # <<>> =>
        /\ NotAfter(captured[1], book)
        /\ \A i \in 1..Len(mailbox) : Earlier(mailbox[i], captured[1])

\* The coalescer's position is one the engine has reached.
CursorBehind ==
    /\ cApplied <= cId
    /\ NotAfter([epoch |-> cEpoch, id |-> cId], book)

\* While something is undelivered the coalescer has the newest window it was
\* given, and every window still on its way is newer.
Undelivered ==
    cId > cApplied =>
        /\ win.epoch = cEpoch /\ win.id = cId
        /\ \A i \in 1..Len(mailbox) : mailbox[i].epoch = cEpoch => mailbox[i].id > cId
        /\ captured # <<>> => (captured[1].epoch = cEpoch => captured[1].id > cId)

\* A right base is what the client holds.
BaseKnown == following /\ coherent /\ based => told.levels = sent


--------------------------------------------------------------------------------
(* The parts of TypeOK, each for the prover that suits it. *)

EngineOK ==
    /\ engineEpoch \in Nat /\ book \in Stamped
    /\ captured \in Seq(Stamped) /\ Len(captured) <= 1
    /\ mailbox \in Seq(Stamped) /\ Len(mailbox) <= MailboxCap
CursorOK ==
    /\ win \in Stamped /\ sent \in Levels
    /\ cEpoch \in Nat /\ cId \in Nat /\ cApplied \in Nat
    /\ told \in Stamped /\ truth \in Stamped
FlagsOK ==
    /\ dirty \in BOOLEAN
    /\ following \in BOOLEAN /\ based \in BOOLEAN /\ coherent \in BOOLEAN
FaultsOK == Len(held) <= 1 /\ faults \subseteq FaultKinds

\* The engine's side of the inductive invariant.
EngineInv == EngineOK /\ EpochInStep /\ QueueOrdered

\* The session's side: what the coalescer and the client's history keep true of
\* each other and of the engine.
SessionInv ==
    /\ CursorOK /\ CursorBehind /\ Undelivered
    /\ PositionKnown /\ BaseKnown /\ ExactWhenCoherent

\* The inductive invariant.
IInv == EngineInv /\ SessionInv /\ FlagsOK /\ FaultsOK

\* TypeOK follows from the parts.
LEMMA TypeParts == EngineOK /\ CursorOK /\ FlagsOK /\ FaultsOK => TypeOK
  BY Zenon DEF TypeOK, EngineOK, CursorOK, FlagsOK, FaultsOK

--------------------------------------------------------------------------------
(* The operators. *)

\* Truncating a book to its best levels gives a book.
LEMMA WindowType ==
    ASSUME NEW b \in Levels PROVE Window(b) \in Levels
  BY BookAssumption DEF BookAssumption, Window, Levels

\* Applying the difference of two books to the older gives the newer: the
\* deletions diffLevels adds make the overlay exact.
LEMMA OverlayDiff ==
    ASSUME NEW w \in Levels, NEW b \in Levels
    PROVE  Overlay(b, Diff(w, b)) = w
  BY DEF Overlay, Diff, Levels

\* The overlay of a difference is a book, whatever book it is applied to.
LEMMA OverlayType ==
    ASSUME NEW t \in Levels, NEW w \in Levels, NEW b \in Levels
    PROVE  Overlay(t, Diff(w, b)) \in Levels
  BY DEF Overlay, Diff, Levels

\* The stamp before any window.
LEMMA NothingType == Nothing \in Stamped /\ Empty \in Levels
  BY BookAssumption DEF BookAssumption, Nothing, Empty, Stamped, Levels

\* The image of the live book carries the book's own stamp.
LEMMA LiveImage ==
    ASSUME book \in Stamped
    PROVE  LET live == [book EXCEPT !.levels = Window(@)]
           IN  /\ live \in Stamped
               /\ live.epoch = book.epoch /\ live.id = book.id
               /\ live.levels = Window(book.levels) /\ live.levels \in Levels
  <1>1. book.levels \in Levels
    BY DEF Stamped
  <1>2. Window(book.levels) \in Levels
    BY <1>1, WindowType
  <1>3. QED
    BY <1>2 DEF Stamped

--------------------------------------------------------------------------------
(* The engine and the mailbox. *)

\* What a step of anything but the engine does to the engine and the mailbox.
MailboxShrinks ==
    /\ UNCHANGED engine
    /\ \/ mailbox' = mailbox
       \/ mailbox # <<>> /\ mailbox' = Tail(mailbox)
       \/ mailbox' = <<>>

\* Only Mutate, Publish and Reset touch the engine or add to the mailbox.
LEMMA OthersShrink ==
    ASSUME ApplyFaults \/ DeliveryNext \/ Reconnect \/ Write \/ UNCHANGED vars
    PROVE  MailboxShrinks
  BY DEF MailboxShrinks, ApplyFaults, DeliveryNext, Reconnect, Write, vars, HandleWindow,
     Subscribe, Rebind, FlushGap, FlushIdle, Flush, FlushHold, FlushReversed

\* A sequence of one element.
LEMMA Singleton ==
    ASSUME NEW S, NEW x \in S PROVE <<x>> \in Seq(S) /\ Len(<<x>>) = 1 /\ <<x>>[1] = x
  OBVIOUS

\* A window taken from the book is stamped like the book.
LEMMA MutateEngine ==
    ASSUME EngineInv, Mutate
    PROVE  EngineInv'
  <1> DEFINE w == captured'[1]
  <1>1. PICK b \in Books :
            /\ book' = [book EXCEPT !.id = @ + 1, !.levels = b]
            /\ captured' = <<[book' EXCEPT !.levels = Window(b)]>>
    BY DEF Mutate
  <1>2. b \in Levels /\ Window(b) \in Levels
    BY WindowType DEF Books
  <1>3. book' \in Stamped /\ book'.epoch = book.epoch /\ book'.id = book.id + 1
    <2>1. book \in [epoch : Nat, id : Nat, levels : Levels]
      BY DEF EngineInv, EngineOK, Stamped
    <2>2. book' = [epoch |-> book.epoch, id |-> book.id + 1, levels |-> b]
      BY <1>1, <2>1
    <2>3. QED
      BY <1>2, <2>1, <2>2 DEF Stamped
  <1>4. w \in Stamped /\ w.epoch = book'.epoch /\ w.id = book'.id /\ captured' = <<w>>
    BY <1>1, <1>2, <1>3 DEF Stamped
  <1>5. UNCHANGED <<mailbox, engineEpoch>>
    BY DEF Mutate
  <1>6. EngineOK'
    <2>1. captured' \in Seq(Stamped) /\ Len(captured') = 1
      BY <1>4, Singleton
    <2>2. QED
      BY <1>3, <1>5, <2>1 DEF EngineInv, EngineOK
  <1>7. EpochInStep'
    BY <1>3, <1>5 DEF EngineInv, EpochInStep
  <1>8. \A i \in 1..Len(mailbox) :
            mailbox[i] \in Stamped /\ NotAfter(mailbox[i], book)
    BY DEF EngineInv, EngineOK, QueueOrdered
  <1>9. \A i \in 1..Len(mailbox) : NotAfter(mailbox[i], book') /\ Earlier(mailbox[i], w)
    BY <1>3, <1>4, <1>8 DEF EngineInv, EngineOK, NotAfter, Earlier, Stamped
  <1>10. NotAfter(w, book')
    BY <1>3, <1>4 DEF NotAfter, Stamped
  <1>11. QueueOrdered'
    BY <1>5, <1>9, <1>10 DEF EngineInv, QueueOrdered
  <1>12. QED
    BY <1>6, <1>7, <1>11 DEF EngineInv

\* A published window joins the end of the mailbox or is lost.
LEMMA PublishEngine ==
    ASSUME EngineInv, Publish
    PROVE  EngineInv'
  <1> DEFINE w == Head(captured)
  <1>1. captured # <<>> /\ w = captured[1] /\ w \in Stamped
    BY DEF EngineInv, EngineOK, Publish
  <1>2. UNCHANGED <<book, engineEpoch>> /\ captured' = <<>>
    BY DEF Publish
  <1>3. CASE Len(mailbox) < MailboxCap /\ mailbox' = Append(mailbox, w)
    <2>1. /\ mailbox' \in Seq(Stamped) /\ Len(mailbox') = Len(mailbox) + 1
          /\ \A i \in 1..Len(mailbox) : mailbox'[i] = mailbox[i]
          /\ mailbox'[Len(mailbox) + 1] = w
      BY <1>1, <1>3, AppendProperties DEF EngineInv, EngineOK
    <2>2. EngineOK'
      BY <1>2, <1>3, <2>1, BookAssumption, EmptySeq DEF BookAssumption, EngineInv, EngineOK
    <2>3. Len(mailbox) \in Nat
      BY DEF EngineInv, EngineOK
    <2>4. \A i \in 1..Len(mailbox') : NotAfter(mailbox'[i], book')
      BY <1>1, <1>2, <2>1, <2>3 DEF EngineInv, QueueOrdered
    <2>5. \A i, j \in 1..Len(mailbox') : i < j => Earlier(mailbox'[i], mailbox'[j])
      BY <1>1, <2>1, <2>3 DEF EngineInv, QueueOrdered
    <2>6. QED
      BY <1>2, <2>2, <2>4, <2>5 DEF EngineInv, EpochInStep, QueueOrdered
  <1>4. CASE UNCHANGED mailbox
    BY <1>2, <1>4, EmptySeq DEF EngineInv, EngineOK, EpochInStep, QueueOrdered
  <1>5. QED
    BY <1>3, <1>4 DEF Publish

\* A reset puts the book in an epoch of its own, after every window.
LEMMA ResetEngine ==
    ASSUME EngineInv, Reset
    PROVE  EngineInv'
  <1>1. PICK b \in Books : book' = [epoch |-> engineEpoch', id |-> BootId, levels |-> b]
    BY DEF Reset
  <1>2. engineEpoch' = engineEpoch + 1 /\ UNCHANGED <<captured, mailbox>>
    BY DEF Reset
  <1>3. /\ book' \in Stamped /\ book'.epoch = engineEpoch' /\ book'.epoch = book.epoch + 1
        /\ engineEpoch' \in Nat
    BY <1>1, <1>2, BookAssumption
       DEF BookAssumption, Books, EngineInv, EngineOK, EpochInStep, Stamped
  <1>4. \A w \in Stamped : NotAfter(w, book) => NotAfter(w, book')
    BY <1>3 DEF EngineInv, EngineOK, NotAfter, Stamped
  <1>5. \A i \in 1..Len(mailbox) : mailbox[i] \in Stamped
    BY DEF EngineInv, EngineOK
  <1>6. captured # <<>> => captured[1] \in Stamped
    BY DEF EngineInv, EngineOK
  <1>7. QueueOrdered'
    BY <1>2, <1>4, <1>5, <1>6 DEF EngineInv, QueueOrdered
  <1>8. EngineOK' /\ EpochInStep'
    BY <1>2, <1>3 DEF EngineInv, EngineOK, EpochInStep
  <1>9. QED
    BY <1>7, <1>8 DEF EngineInv

\* Taking windows out of the mailbox keeps the rest in order.
LEMMA ShrinkEngine ==
    ASSUME EngineInv, MailboxShrinks
    PROVE  EngineInv'
  <1>1. UNCHANGED <<engineEpoch, book, captured>>
    BY DEF MailboxShrinks, engine
  <1>2. CASE mailbox' = mailbox
    BY <1>1, <1>2 DEF EngineInv, EngineOK, EpochInStep, QueueOrdered
  <1>3. CASE mailbox # <<>> /\ mailbox' = Tail(mailbox)
    <2>1. /\ mailbox' \in Seq(Stamped) /\ Len(mailbox') = Len(mailbox) - 1
          /\ \A i \in 1..Len(mailbox') : mailbox'[i] = mailbox[i + 1]
          /\ Len(mailbox) \in Nat
      BY <1>3, HeadTailProperties DEF EngineInv, EngineOK
    <2>2. EngineOK'
      BY <1>1, <2>1, BookAssumption DEF BookAssumption, EngineInv, EngineOK
    <2>3. \A i \in 1..Len(mailbox') : i + 1 \in 1..Len(mailbox)
      BY <2>1
    <2>4. QueueOrdered'
      BY <1>1, <2>1, <2>3 DEF EngineInv, QueueOrdered
    <2>5. QED
      BY <1>1, <2>2, <2>4 DEF EngineInv, EpochInStep
  <1>4. CASE mailbox' = <<>>
    BY <1>1, <1>4, EmptySeq, BookAssumption
       DEF BookAssumption, EngineInv, EngineOK, EpochInStep, QueueOrdered
  <1>5. QED
    BY <1>2, <1>3, <1>4 DEF MailboxShrinks

\* Every step keeps the engine's side of the invariant.
LEMMA NextEngine ==
    ASSUME EngineInv, [Next]_vars
    PROVE  EngineInv'
  BY MutateEngine, PublishEngine, ResetEngine, OthersShrink, ShrinkEngine DEF Next, EngineNext

--------------------------------------------------------------------------------
(* The coalescer and the client that follows it. *)

\* sendSnapshot puts the cursor on the live book with nothing undelivered, and
\* the client, if the frame got through, on the image.
LEMMA SnapshotSession ==
    ASSUME EngineInv, SessionInv, NEW w \in Stamped, SendSnapshot(w),
           UNCHANGED book
    PROVE  SessionInv'
  <1> DEFINE live == [book EXCEPT !.levels = Window(@)]
  <1>1. book \in Stamped /\ book.epoch \in Nat /\ book.id \in Nat
    BY DEF EngineInv, EngineOK, Stamped
  <1>2. /\ live \in Stamped
        /\ live.epoch = book.epoch /\ live.id = book.id
        /\ live.levels \in Levels
    BY <1>1, LiveImage
  <1>3. /\ win' = w /\ sent' = w.levels
        /\ cEpoch' = live.epoch /\ cId' = live.id /\ cApplied' = live.id
        /\ based' = (w.levels = live.levels)
        /\ \/ told' = live /\ truth' = live
           \/ following' = FALSE /\ UNCHANGED <<told, truth>>
    BY DEF SendSnapshot
  <1> HIDE DEF live
  <1>4. w.levels \in Levels
    BY DEF Stamped
  <1>5. CursorOK'
    BY <1>1, <1>2, <1>3, <1>4 DEF SessionInv, CursorOK
  <1>6. CursorBehind' /\ Undelivered'
    BY <1>1, <1>2, <1>3 DEF CursorBehind, Undelivered, NotAfter
  <1>7. PositionKnown' /\ BaseKnown' /\ ExactWhenCoherent'
    BY <1>2, <1>3 DEF PositionKnown, BaseKnown, ExactWhenCoherent
  <1>8. QED
    BY <1>5, <1>6, <1>7 DEF SessionInv

\* OnBookWindow: a window of the coalescer's epoch is either the newest it has
\* seen, or older than a client that has everything.
LEMMA WindowSession ==
    ASSUME EngineInv, SessionInv, mailbox # <<>>, mailbox' = Tail(mailbox), UNCHANGED engine,
           Head(mailbox).epoch = cEpoch, OnBookWindow(Head(mailbox))
    PROVE  SessionInv'
  <1> DEFINE w == Head(mailbox)
  <1>1. /\ w \in Stamped /\ w = mailbox[1] /\ 1 \in 1..Len(mailbox)
        /\ Len(mailbox') = Len(mailbox) - 1 /\ Len(mailbox) \in Nat
        /\ \A i \in 1..Len(mailbox') : mailbox'[i] = mailbox[i + 1] /\ i + 1 \in 1..Len(mailbox)
        /\ \A i \in 1..Len(mailbox) : mailbox[i] \in Stamped
    BY HeadTailProperties DEF EngineInv, EngineOK
  <1>2. UNCHANGED <<book, captured>>
    BY DEF engine
  <1>3. /\ win' = w /\ cId' = Larger(cId, w.id)
        /\ UNCHANGED <<sent, cEpoch, cApplied, told, truth, following, based, coherent>>
    BY DEF OnBookWindow, client
  <1>4. w.epoch = cEpoch /\ w.epoch \in Nat /\ w.id \in Nat
    BY <1>1 DEF Stamped
  <1>5. NotAfter(w, book)
    BY <1>1 DEF EngineInv, QueueOrdered
  <1>6. \A i \in 1..Len(mailbox') : Earlier(w, mailbox'[i])
    BY <1>1 DEF EngineInv, QueueOrdered
  <1>7. captured # <<>> => Earlier(w, captured[1]) /\ captured[1] \in Stamped
    BY <1>1 DEF EngineInv, EngineOK, QueueOrdered
  <1>8. cId > cApplied => w.id > cId
    BY <1>1, <1>4 DEF SessionInv, Undelivered
  <1>9. \A i \in 1..Len(mailbox') : mailbox'[i] \in Stamped
    BY <1>1
  <1> HIDE DEF w
  <1>10. CursorOK'
    BY <1>1, <1>3, <1>4 DEF SessionInv, CursorOK, Larger
  <1>11. cId \in Nat /\ cApplied \in Nat /\ cEpoch \in Nat /\ cApplied <= cId
    BY DEF SessionInv, CursorOK, CursorBehind
  <1>12. CursorBehind'
    BY <1>2, <1>3, <1>4, <1>5, <1>11 DEF SessionInv, CursorBehind, NotAfter, Larger
  <1>13. cId' > cApplied' => cId' = w.id
    BY <1>3, <1>4, <1>8, <1>11 DEF Larger
  <1>14. Undelivered'
    BY <1>2, <1>3, <1>4, <1>6, <1>7, <1>9, <1>13 DEF Undelivered, Earlier, Stamped
  <1>15. PositionKnown' /\ BaseKnown' /\ ExactWhenCoherent'
    BY <1>3 DEF SessionInv, PositionKnown, BaseKnown, ExactWhenCoherent
  <1>16. QED
    BY <1>10, <1>12, <1>14, <1>15 DEF SessionInv

\* TakeBookDelta leaves nothing undelivered; only the client's history is open.
LEMMA TakeSession ==
    ASSUME EngineInv, SessionInv, TakeBookDelta, UNCHANGED <<book, captured, mailbox>>
    PROVE  /\ CursorBehind' /\ Undelivered'
           /\ told' \in Stamped /\ truth' \in Stamped => CursorOK'
  <1>1. /\ win \in Stamped /\ cId \in Nat /\ cApplied \in Nat /\ cEpoch \in Nat
        /\ win.levels \in Levels
    BY DEF SessionInv, CursorOK, Stamped
  <1>2. sent' = win.levels /\ cApplied' = cId /\ UNCHANGED <<win, cEpoch, cId>>
    BY DEF TakeBookDelta
  <1>3. QED
    BY <1>1, <1>2 DEF SessionInv, CursorOK, CursorBehind, Undelivered, NotAfter

\* A delta that goes out takes a client that had the base to the window.
LEMMA ToldSession ==
    ASSUME EngineInv, SessionInv, HasDelta, TakeBookDelta, Told,
           UNCHANGED <<book, captured, mailbox>>
    PROVE  SessionInv'
  <1>1. /\ win \in Stamped /\ win.levels \in Levels /\ sent \in Levels
        /\ told \in Stamped /\ told.levels \in Levels
        /\ cEpoch \in Nat /\ cId \in Nat
    BY DEF SessionInv, CursorOK, Stamped
  <1>2. win.epoch = cEpoch /\ win.id = cId
    BY DEF HasDelta, SessionInv, Undelivered
  <1> DEFINE l == Overlay(told.levels, Diff(win.levels, sent))
  <1>3. l \in Levels /\ (told.levels = sent => l = win.levels)
    BY <1>1, OverlayType, OverlayDiff
  <1>4. /\ told' = [epoch |-> cEpoch, id |-> cId, levels |-> l]
        /\ truth' = win /\ coherent' = (coherent /\ based) /\ UNCHANGED following
    BY DEF Told, NextDelta, Delta
  <1>5. sent' = win.levels /\ cApplied' = cId /\ UNCHANGED <<win, cEpoch, cId>>
    BY DEF TakeBookDelta
  <1> HIDE DEF l
  <1>6. told' \in Stamped /\ truth' \in Stamped
    BY <1>1, <1>3, <1>4 DEF Stamped
  <1>7. CursorOK' /\ CursorBehind' /\ Undelivered'
    BY <1>6, TakeSession
  <1>8. PositionKnown'
    BY <1>4, <1>5 DEF PositionKnown
  <1>9. following' /\ coherent' => l = win.levels
    BY <1>3, <1>4 DEF SessionInv, BaseKnown
  <1>10. l = win.levels => told' = win
    BY <1>1, <1>2, <1>4 DEF Stamped
  <1>11. BaseKnown' /\ ExactWhenCoherent'
    BY <1>4, <1>5, <1>9, <1>10 DEF BaseKnown, ExactWhenCoherent
  <1>12. QED
    BY <1>7, <1>8, <1>11 DEF SessionInv

\* A delta that is kept back or lost ends what is known of the client.
LEMMA LostSession ==
    ASSUME EngineInv, SessionInv, TakeBookDelta, following' = FALSE,
           UNCHANGED <<book, captured, mailbox, told, truth>>
    PROVE  SessionInv'
  <1>1. CursorOK' /\ CursorBehind' /\ Undelivered'
    BY TakeSession DEF SessionInv, CursorOK
  <1>2. QED
    BY <1>1 DEF SessionInv, PositionKnown, BaseKnown, ExactWhenCoherent

\* An engine step leaves the session alone, and whatever it captures, publishes
\* or resets is newer than the cursor.
LEMMA EngineSession ==
    ASSUME EngineInv, EngineInv', SessionInv, EngineNext
    PROVE  SessionInv'
  <1>1. UNCHANGED <<win, sent, cEpoch, cId, cApplied, told, truth, following, based, coherent>>
    BY DEF EngineNext, Mutate, Publish, Reset, coalescer, client
  <1>2. CursorOK' /\ PositionKnown' /\ BaseKnown' /\ ExactWhenCoherent'
    BY <1>1 DEF SessionInv, CursorOK, PositionKnown, BaseKnown, ExactWhenCoherent
  <1>3. cEpoch \in Nat /\ cId \in Nat /\ cApplied \in Nat
    BY DEF SessionInv, CursorOK
  <1>4. /\ book \in [epoch : Nat, id : Nat, levels : Levels]
        /\ book' \in [epoch : Nat, id : Nat, levels : Levels]
    BY DEF EngineInv, EngineOK, Stamped
  <1>5. CASE Mutate
    <2>1. PICK b \in Books :
              /\ book' = [book EXCEPT !.id = @ + 1, !.levels = b]
              /\ captured' = <<[book' EXCEPT !.levels = Window(b)]>>
      BY <1>5 DEF Mutate
    <2>2. book' = [epoch |-> book.epoch, id |-> book.id + 1, levels |-> b]
      BY <1>4, <2>1
    <2>3. captured'[1].epoch = book.epoch /\ captured'[1].id = book.id + 1
      BY <2>1, <2>2
    <2>4. UNCHANGED mailbox
      BY <1>5 DEF Mutate
    <2>5. CursorBehind'
      BY <1>1, <1>3, <1>4, <2>2 DEF SessionInv, CursorBehind, NotAfter
    <2>6. Undelivered'
      BY <1>1, <1>3, <1>4, <2>3, <2>4 DEF SessionInv, CursorBehind, Undelivered, NotAfter
    <2>7. QED
      BY <1>2, <2>5, <2>6 DEF SessionInv
  <1>6. CASE Publish
    <2>1. captured # <<>> /\ captured' = <<>> /\ UNCHANGED book
      BY <1>6 DEF Publish
    <2>2. CursorBehind'
      BY <1>1, <2>1 DEF SessionInv, CursorBehind
    <2>3. CASE mailbox' = Append(mailbox, Head(captured))
      <3>1. /\ Len(mailbox') = Len(mailbox) + 1 /\ Len(mailbox) \in Nat
            /\ \A i \in 1..Len(mailbox) : mailbox'[i] = mailbox[i]
            /\ mailbox'[Len(mailbox) + 1] = captured[1]
        BY <2>1, <2>3, AppendProperties DEF EngineInv, EngineOK
      <3>2. \A i \in 1..Len(mailbox') : i \in 1..Len(mailbox) \/ i = Len(mailbox) + 1
        BY <3>1
      <3>3. Undelivered'
        BY <1>1, <2>1, <3>1, <3>2 DEF SessionInv, Undelivered
      <3>4. QED
        BY <1>2, <2>2, <3>3 DEF SessionInv
    <2>4. CASE UNCHANGED mailbox
      BY <1>1, <1>2, <2>1, <2>2, <2>4 DEF SessionInv, Undelivered
    <2>5. QED
      BY <1>6, <2>3, <2>4 DEF Publish
  <1>7. CASE Reset
    <2>1. book'.epoch = book.epoch + 1 /\ UNCHANGED <<captured, mailbox>>
      BY <1>7 DEF Reset, EngineInv, EpochInStep
    <2>2. CursorBehind'
      BY <1>1, <1>3, <1>4, <2>1 DEF SessionInv, CursorBehind, NotAfter
    <2>3. Undelivered'
      BY <1>1, <2>1 DEF SessionInv, Undelivered
    <2>4. QED
      BY <1>2, <2>2, <2>3 DEF SessionInv
  <1>8. QED
    BY <1>5, <1>6, <1>7 DEF EngineNext

\* A delivery step, a reconnection or a write keeps the session's invariant.
LEMMA DeliverySession ==
    ASSUME EngineInv, SessionInv,
           ApplyFaults \/ DeliveryNext \/ Reconnect \/ Write \/ UNCHANGED vars
    PROVE  SessionInv'
  <1>1. UNCHANGED <<engineEpoch, book, captured>>
    BY OthersShrink DEF MailboxShrinks, engine
  <1>2. CASE ApplyFaults \/ Write \/ UNCHANGED vars
    <2>1. UNCHANGED <<mailbox, win, sent, cEpoch, cId, cApplied,
                      told, truth, following, based, coherent>>
      BY <1>2 DEF ApplyFaults, Write, vars, coalescer, client
    <2>2. QED
      BY <1>1, <2>1 DEF SessionInv, CursorOK, CursorBehind, Undelivered,
         PositionKnown, BaseKnown, ExactWhenCoherent
  <1>3. CASE HandleWindow
    <2>1. Head(mailbox) \in Stamped /\ mailbox # <<>> /\ mailbox' = Tail(mailbox) /\ UNCHANGED engine
      BY <1>3, HeadTailProperties DEF HandleWindow, EngineInv, EngineOK
    <2>2. CASE Head(mailbox).epoch = cEpoch
      BY <1>3, <2>1, <2>2, WindowSession DEF HandleWindow
    <2>3. CASE Head(mailbox).epoch # cEpoch
      BY <1>1, <1>3, <2>1, <2>3, SnapshotSession DEF HandleWindow
    <2>4. QED
      BY <2>2, <2>3
  <1>4. CASE Subscribe
    BY <1>1, <1>4, SnapshotSession DEF Subscribe, SessionInv, CursorOK
  <1>5. CASE Rebind
    BY <1>1, <1>5, SnapshotSession, NothingType DEF Rebind
  <1>6. CASE FlushGap
    <2>1. /\ cApplied' = cId /\ UNCHANGED <<mailbox, win, sent, cEpoch, cId, told, truth, coherent>>
          /\ following' = (following /\ cId = cApplied)
          /\ based' = (based /\ cId = cApplied)
      BY <1>6 DEF FlushGap
    <2>2. CursorOK' /\ CursorBehind' /\ Undelivered'
      BY <1>1, <2>1 DEF SessionInv, CursorOK, CursorBehind, Undelivered
    <2>3. PositionKnown' /\ BaseKnown' /\ ExactWhenCoherent'
      BY <2>1 DEF SessionInv, PositionKnown, BaseKnown, ExactWhenCoherent
    <2>4. QED
      BY <2>2, <2>3 DEF SessionInv
  <1>7. CASE FlushIdle
    <2>1. UNCHANGED <<mailbox, win, sent, cEpoch, cId, cApplied,
                      told, truth, following, based, coherent>>
      BY <1>7 DEF FlushIdle, client
    <2>2. QED
      BY <1>1, <2>1 DEF SessionInv, CursorOK, CursorBehind, Undelivered,
         PositionKnown, BaseKnown, ExactWhenCoherent
  <1>8. CASE Flush
    <2>1. HasDelta /\ UNCHANGED mailbox
      BY <1>8 DEF Flush
    <2>2. CASE TakeBookDelta /\ Told
      BY <1>1, <2>1, <2>2, ToldSession
    <2>3. CASE SendSnapshot(Nothing)
      BY <1>1, <2>3, SnapshotSession, NothingType
    <2>4. QED
      BY <1>8, <2>2, <2>3 DEF Flush
  <1>9. CASE FlushHold \/ FlushReversed
    BY <1>1, <1>9, LostSession DEF FlushHold, FlushReversed
  <1>10. CASE Reconnect
    <2>1. /\ win' = Nothing /\ sent' = Empty /\ cEpoch' = 0 /\ cId' = 0 /\ cApplied' = 0
          /\ following' = FALSE /\ UNCHANGED <<told, truth>>
      BY <1>10 DEF Reconnect
    <2>2. book.epoch \in Nat /\ book.id \in Nat
      BY DEF EngineInv, EngineOK, Stamped
    <2>3. CursorOK' /\ CursorBehind' /\ Undelivered'
      BY <1>1, <2>1, <2>2, NothingType DEF SessionInv, CursorOK, CursorBehind, Undelivered, NotAfter
    <2>4. QED
      BY <2>1, <2>3 DEF SessionInv, PositionKnown, BaseKnown, ExactWhenCoherent
  <1>11. QED
    BY <1>2, <1>3, <1>4, <1>5, <1>6, <1>7, <1>8, <1>9, <1>10 DEF DeliveryNext

--------------------------------------------------------------------------------
(* Flags and faults, the initial state and the theorems. *)

\* The flags stay Boolean.
LEMMA NextFlags ==
    ASSUME FlagsOK, [Next]_vars
    PROVE  FlagsOK'
  <1>1. CASE Mutate \/ Publish \/ Reset \/ ApplyFaults \/ Write
    BY <1>1, Zenon DEF FlagsOK, Mutate, Publish, Reset, ApplyFaults, Write, coalescer, client
  <1>2. CASE UNCHANGED vars
    BY <1>2, Zenon DEF FlagsOK, vars, coalescer, client
  <1>3. ASSUME NEW w, SendSnapshot(w) PROVE FlagsOK'
    <2>1. dirty' \in BOOLEAN
      BY <1>3, Zenon DEF FlagsOK, SendSnapshot
    <2>2. following' \in BOOLEAN
      BY <1>3, Zenon DEF FlagsOK, SendSnapshot
    <2>3. based' \in BOOLEAN
      BY <1>3, Zenon DEF FlagsOK, SendSnapshot
    <2>4. coherent' \in BOOLEAN
      BY <1>3, Zenon DEF FlagsOK, SendSnapshot
    <2>5. QED
      BY <2>1, <2>2, <2>3, <2>4, Zenon DEF FlagsOK
  <1>4. ASSUME NEW w, OnBookWindow(w) PROVE FlagsOK'
    BY <1>4, Zenon DEF FlagsOK, OnBookWindow, client
  <1>5. CASE HandleWindow
    BY <1>3, <1>4, <1>5, Zenon DEF HandleWindow
  <1>6. CASE Subscribe \/ Rebind
    BY <1>3, <1>6, Zenon DEF Subscribe, Rebind
  <1>7. CASE FlushGap \/ FlushIdle
    BY <1>7, Zenon DEF FlagsOK, FlushGap, FlushIdle, client
  <1>8. CASE Flush
    <2>1. CASE TakeBookDelta /\ Told
      BY <2>1, Zenon DEF FlagsOK, TakeBookDelta, Told
    <2>2. QED
      BY <1>3, <1>8, <2>1, Zenon DEF Flush
  <1>9. CASE FlushHold \/ FlushReversed
    BY <1>9, Zenon DEF FlagsOK, FlushHold, FlushReversed, TakeBookDelta
  <1>10. CASE Reconnect
    BY <1>10, Zenon DEF FlagsOK, Reconnect
  <1>11. QED
    BY <1>1, <1>2, <1>5, <1>6, <1>7, <1>8, <1>9, <1>10, Zenon DEF Next, EngineNext, DeliveryNext

\* At most one frame is held, and only known faults are pending.
LEMMA NextFaults ==
    ASSUME FaultsOK, [Next]_vars
    PROVE  FaultsOK'
  <1>1. CASE held' = held /\ faults' \subseteq faults
    BY <1>1 DEF FaultsOK
  <1>2. CASE ApplyFaults
    BY <1>2 DEF FaultsOK, ApplyFaults
  <1>3. CASE FlushHold
    BY <1>3, Singleton DEF FaultsOK, FlushHold
  <1>4. CASE FlushReversed \/ Reconnect
    BY <1>4 DEF FaultsOK, FlushReversed, Reconnect
  <1>5. ApplyFaults \/ FlushHold \/ FlushReversed \/ Reconnect \/ (held' = held /\ faults' \subseteq faults)
    BY DEF Next, EngineNext, DeliveryNext, Mutate, Publish, Reset, HandleWindow, Subscribe,
       Rebind, FlushGap, FlushIdle, Flush, Write, vars
  <1>6. QED
    BY <1>1, <1>2, <1>3, <1>4, <1>5

\* Before anything happened the invariant holds, provided the provider's
\* snapshot carries the epoch the engine starts with.
LEMMA InitIInv == BootEpoch = 0 /\ Init => IInv
  <1> SUFFICES ASSUME BootEpoch = 0, Init PROVE IInv
    OBVIOUS
  <1>1. book \in Stamped /\ book.epoch = 0
    BY BookAssumption DEF BookAssumption, Init, Books, Stamped
  <1>2. captured = <<>> /\ mailbox = <<>> /\ engineEpoch = 0
    BY DEF Init
  <1>3. EngineInv
    BY <1>1, <1>2, EmptySeq, BookAssumption
       DEF BookAssumption, EngineInv, EngineOK, EpochInStep, QueueOrdered
  <1>4. CursorOK /\ CursorBehind /\ Undelivered
    BY <1>1, NothingType DEF Init, CursorOK, CursorBehind, Undelivered, NotAfter, Stamped
  <1>5. PositionKnown /\ BaseKnown /\ ExactWhenCoherent
    BY DEF Init, PositionKnown, BaseKnown, ExactWhenCoherent
  <1>6. FlagsOK
    BY Zenon DEF Init, FlagsOK
  <1>7. FaultsOK
    BY DEF Init, FaultsOK
  <1>8. QED
    BY <1>3, <1>4, <1>5, <1>6, <1>7 DEF IInv, SessionInv

\* Every step preserves the invariant.
LEMMA NextIInv == IInv /\ [Next]_vars => IInv'
  <1> SUFFICES ASSUME IInv, [Next]_vars PROVE IInv'
    OBVIOUS
  <1>1. EngineInv'
    BY NextEngine DEF IInv
  <1>2. SessionInv'
    BY <1>1, EngineSession, DeliverySession DEF IInv, Next
  <1>3. FlagsOK' /\ FaultsOK'
    BY NextFlags, NextFaults DEF IInv
  <1>4. QED
    BY <1>1, <1>2, <1>3 DEF IInv

\* The inductive invariant holds in every reachable state.
LEMMA SpecIInv == BootEpoch = 0 /\ Spec => []IInv
  BY InitIInv, NextIInv, PTL DEF Spec

\* The variables keep their types, the mailbox its capacity, and at most one
\* frame is held back, whatever the engine, the debug handlers and the delivery
\* loop do.
THEOREM Typed == BootEpoch = 0 /\ Spec => []TypeOK
  <1>1. IInv => TypeOK
    BY TypeParts DEF IInv, EngineInv, SessionInv
  <1>2. QED
    BY <1>1, SpecIInv, PTL

\* TakeBookDelta always starts its range one past the update the client has.
THEOREM KnowsPosition == BootEpoch = 0 /\ Spec => []PositionKnown
  <1>1. IInv => PositionKnown
    BY DEF IInv, SessionInv
  <1>2. QED
    BY <1>1, SpecIInv, PTL

\* The levels of a range are the engine's window at the update id it ends with.
THEOREM HonestRanges == BootEpoch = 0 /\ Spec => []RangeHonest
  <1>1. IInv => RangeHonest
    BY DEF IInv, SessionInv, Undelivered, RangeHonest
  <1>2. QED
    BY <1>1, SpecIInv, PTL

\* Applying every range, its deletions included, gives exactly the engine's
\* window, while the base of every diff since the snapshot was the image.
THEOREM DeltasExact == BootEpoch = 0 /\ Spec => []ExactWhenCoherent
  <1>1. IInv => ExactWhenCoherent
    BY DEF IInv, SessionInv
  <1>2. QED
    BY <1>1, SpecIInv, PTL

\* A reset of the engine always shows as a new epoch of its book.
THEOREM NoRewind == BootEpoch = 0 /\ Spec => UpdateIdsNeverRewind
  <1>1. IInv /\ [Next]_vars => [book'.epoch = book.epoch => book'.id >= book.id]_book
    <2> SUFFICES ASSUME IInv, [Next]_vars, book' # book, book'.epoch = book.epoch
                 PROVE  book'.id >= book.id
      OBVIOUS
    <2>1. book \in [epoch : Nat, id : Nat, levels : Levels]
      BY DEF IInv, EngineInv, EngineOK, Stamped
    <2>2. CASE Mutate
      BY <2>1, <2>2 DEF Mutate
    <2>3. CASE Publish
      BY <2>3 DEF Publish
    <2>4. CASE Reset
      BY <2>1, <2>4 DEF Reset, IInv, EngineInv, EpochInStep
    <2>5. CASE ApplyFaults \/ DeliveryNext \/ Reconnect \/ Write \/ UNCHANGED vars
      BY <2>5, OthersShrink DEF MailboxShrinks, engine
    <2>6. QED
      BY <2>2, <2>3, <2>4, <2>5 DEF Next, EngineNext
  <1>2. QED
    BY <1>1, SpecIInv, PTL DEF Spec, UpdateIdsNeverRewind

\* What NeverSentBack says of one step.
Forward == told'.epoch > told.epoch \/ (told'.epoch = told.epoch /\ told'.id >= told.id)

\* No resubscription, epoch change, resync or delta takes a client back.
THEOREM NoStepBack == BootEpoch = 0 /\ Spec => NeverSentBack
  <1>1. IInv /\ [Next]_vars => [following /\ following' => Forward]_vars
    <2> SUFFICES ASSUME IInv, [Next]_vars, following, following' PROVE Forward
      OBVIOUS
    <2>1. /\ told.epoch = cEpoch /\ told.id = cApplied
          /\ told.epoch \in Nat /\ told.id \in Nat /\ cId \in Nat
          /\ book \in Stamped /\ book.epoch \in Nat /\ book.id \in Nat
      BY DEF IInv, SessionInv, PositionKnown, CursorOK, EngineInv, EngineOK, Stamped
    <2>2. cApplied <= cId /\ NotAfter([epoch |-> cEpoch, id |-> cId], book)
      BY DEF IInv, SessionInv, CursorBehind
    <2>3. ASSUME NEW w, SendSnapshot(w) PROVE Forward
      <3>1. told' = [book EXCEPT !.levels = Window(@)]
        BY <2>3 DEF SendSnapshot
      <3>2. told'.epoch = book.epoch /\ told'.id = book.id
        BY <2>1, <3>1, LiveImage
      <3>3. QED
        BY <2>1, <2>2, <3>2 DEF Forward, NotAfter
    <2>4. CASE UNCHANGED told
      BY <2>1, <2>4 DEF Forward
    <2>5. CASE Flush
      <3>1. CASE Told
        BY <2>1, <2>2, <3>1 DEF Forward, Told
      <3>2. QED
        BY <2>3, <2>5, <3>1 DEF Flush
    <2>6. CASE HandleWindow
      BY <2>3, <2>4, <2>6 DEF HandleWindow, OnBookWindow, client
    <2>7. CASE Subscribe \/ Rebind
      BY <2>3, <2>7 DEF Subscribe, Rebind
    <2>8. Flush \/ HandleWindow \/ Subscribe \/ Rebind \/ UNCHANGED told
      BY DEF Next, EngineNext, DeliveryNext, Mutate, Publish, Reset, ApplyFaults, FlushGap,
         FlushIdle, FlushHold, FlushReversed, Reconnect, Write, vars, client
    <2>9. QED
      BY <2>4, <2>5, <2>6, <2>7, <2>8
  <1>2. QED
    BY <1>1, SpecIInv, PTL DEF Spec, NeverSentBack, Forward

\* The pipeline keeps its types and always knows where the client is.
THEOREM SoundDelivery == BootEpoch = 0 /\ Spec => []DeliverySound
  <1>1. TypeOK /\ PositionKnown => DeliverySound
    BY DEF DeliverySound
  <1>2. QED
    BY <1>1, Typed, KnowsPosition, PTL

\* Neither the book nor a client that follows it goes back.
THEOREM OnlyForward == BootEpoch = 0 /\ Spec => NothingGoesBack
  BY NoRewind, NoStepBack DEF NothingGoesBack

--------------------------------------------------------------------------------
(* The feed: its inductive invariant. *)

Changes == UNION {[D -> Quantities] : D \in SUBSET Prices}
Frames == [kind : {"snapshot", "delta"}, epoch : Nat, first : Nat, last : Nat,
           levels : Changes, truth : Levels, exact : BOOLEAN]

\* Histories: the engine's window at every epoch and update id.
Past == [Nat -> [Nat -> Levels]]

\* The engine's book has been at this stamp.
Reached(e, i, b) == e < b.epoch \/ (e = b.epoch /\ i <= b.id)

\* Windows the engine has had.
Windows(h, b) == {w \in Stamped : Reached(w.epoch, w.id, b) /\ w.levels = h[w.epoch][w.id]}

\* Frames that end at a stamp the engine has reached and name its window there;
\* an exact image is that window, and an exact range leads to it from the window
\* just before the range.
Truthful(h, b) == {f \in Frames : Reached(f.epoch, f.last, b) /\ f.truth = h[f.epoch][f.last]}
Images(h, b) == {f \in Truthful(h, b) : f.kind = "snapshot" /\ (f.exact => f.levels = f.truth)}
Ranges(h, b) ==
    {f \in Truthful(h, b) :
        /\ f.kind = "delta" /\ f.first \in 1..f.last
        /\ f.exact => f.levels = Diff(f.truth, h[f.epoch][f.first - 1])}
Wire(h, b) == Images(h, b) \cup Ranges(h, b)

\* Events of the bloc.
Mail(h, b) ==
    [kind : {"snapshot"}, frame : Images(h, b), cached : BOOLEAN] \cup
    [kind : {"delta"}, frame : Ranges(h, b), cached : BOOLEAN] \cup
    [kind : {"started", "retry", "lost"}, frame : {f \in Frames : f.epoch <= b.epoch}, cached : BOOLEAN]

\* The engine and the session agree with the history.
ServerTrue(h) ==
    /\ Window(book.levels) = h[book.epoch][book.id]
    /\ captured \in Seq(Windows(h, book)) /\ mailbox \in Seq(Windows(h, book))
    /\ win \in Windows(h, book) \cup {Nothing}
    /\ based => sent = h[cEpoch][cApplied]
    /\ outbound \in Seq(Wire(h, book)) /\ held \in Seq(Wire(h, book))

\* So does what the app received, cached and buffered.
ReceivedTrue(h) ==
    /\ inbox \in Seq(Mail(h, book)) /\ cache \in Seq(Images(h, book))
    /\ replies \in [Loads -> Seq(Images(h, book))]
    /\ buffer \in Seq(Ranges(h, book))
    /\ \A i, j \in 1..Len(buffer) : i < j => buffer[i].last < buffer[j].last

\* And what it shows.
ShownTrue(h) ==
    state = "live" /\ pure =>
        /\ epoch \in Nat /\ applied \in Nat /\ Reached(epoch, applied, book)
        /\ goal = h[epoch][applied] /\ view = goal

Faithful(h) == ServerTrue(h) /\ ReceivedTrue(h) /\ ShownTrue(h)
FeedInv == IInv /\ \E h \in Past : Faithful(h)

--------------------------------------------------------------------------------
(* Levels, frames and histories. *)

LEMMA LevelsAreChanges == Levels \subseteq Changes
  <1>1. Prices \in SUBSET Prices
    OBVIOUS
  <1>2. QED
    BY <1>1 DEF Levels, Changes

LEMMA DiffIsChange ==
    ASSUME NEW w \in Levels, NEW b \in Levels
    PROVE  Diff(w, b) \in Changes
  <1> DEFINE D == {q \in Prices : w[q] # b[q]}
  <1>1. D \in SUBSET Prices /\ Diff(w, b) \in [D -> Quantities]
    BY DEF Diff, Levels
  <1>2. QED
    BY <1>1 DEF Changes

LEMMA FrameFields ==
    ASSUME NEW f \in Frames
    PROVE  /\ f.epoch \in Nat /\ f.first \in Nat /\ f.last \in Nat
           /\ f.levels \in Changes /\ f.truth \in Levels /\ f.exact \in BOOLEAN
  BY DEF Frames

LEMMA StampFields ==
    ASSUME NEW b \in Stamped
    PROVE  b.epoch \in Nat /\ b.id \in Nat /\ b.levels \in Levels
  BY DEF Stamped

LEMMA PastLevels ==
    ASSUME NEW h \in Past, NEW e \in Nat, NEW i \in Nat
    PROVE  h[e][i] \in Levels
  BY DEF Past

LEMMA SeqGrows ==
    ASSUME NEW S, NEW T, S \subseteq T, NEW s \in Seq(S)
    PROVE  s \in Seq(T)
  OBVIOUS

\* Sequences stay sequences of the same things.
LEMMA SeqMoves ==
    ASSUME NEW S, NEW s \in Seq(S)
    PROVE  /\ <<>> \in Seq(S)
           /\ \A x \in S : Append(s, x) \in Seq(S)
           /\ \A t \in Seq(S) : s \o t \in Seq(S)
           /\ s # <<>> => Head(s) \in S /\ Tail(s) \in Seq(S)
  OBVIOUS

\* The history with one more window.
Written(h, e, i, w) == [h EXCEPT ![e] = [h[e] EXCEPT ![i] = w]]

\* A new window at a stamp not reached before leaves the past alone.
LEMMA PastGrows ==
    ASSUME NEW h \in Past, NEW b \in Stamped, NEW c \in Stamped, Earlier(b, c), NEW w \in Levels
    PROVE  /\ Written(h, c.epoch, c.id, w) \in Past
           /\ Written(h, c.epoch, c.id, w)[c.epoch][c.id] = w
           /\ \A e, i \in Nat : Reached(e, i, b) =>
                 Written(h, c.epoch, c.id, w)[e][i] = h[e][i] /\ Reached(e, i, c)
  <1>1. b.epoch \in Nat /\ b.id \in Nat /\ c.epoch \in Nat /\ c.id \in Nat
    BY StampFields
  <1>2. h[c.epoch] \in [Nat -> Levels]
    BY <1>1 DEF Past
  <1>3. [h[c.epoch] EXCEPT ![c.id] = w] \in [Nat -> Levels]
    BY <1>1, <1>2
  <1>4. Written(h, c.epoch, c.id, w) \in Past
    BY <1>1, <1>3 DEF Written, Past
  <1>5. Written(h, c.epoch, c.id, w)[c.epoch][c.id] = w
    BY <1>1, <1>2 DEF Written, Past
  <1>6. ASSUME NEW e \in Nat, NEW i \in Nat, Reached(e, i, b)
        PROVE  Written(h, c.epoch, c.id, w)[e][i] = h[e][i] /\ Reached(e, i, c)
    <2>1. Reached(e, i, c) /\ (e # c.epoch \/ i # c.id)
      BY <1>1, <1>6 DEF Reached, Earlier
    <2>2. QED
      BY <1>1, <1>2, <2>1 DEF Written, Past
  <1>7. QED
    BY <1>4, <1>5, <1>6

\* What agreed with the past still does.
LEMMA TruthLasts ==
    ASSUME NEW h \in Past, NEW g \in Past, NEW b \in Stamped, NEW c \in Stamped, b.epoch <= c.epoch,
           \A e, i \in Nat : Reached(e, i, b) => g[e][i] = h[e][i] /\ Reached(e, i, c)
    PROVE  /\ Windows(h, b) \subseteq Windows(g, c) /\ Images(h, b) \subseteq Images(g, c)
           /\ Ranges(h, b) \subseteq Ranges(g, c) /\ Wire(h, b) \subseteq Wire(g, c)
           /\ Mail(h, b) \subseteq Mail(g, c)
  <1>0. b.epoch \in Nat /\ b.id \in Nat /\ c.epoch \in Nat
    BY StampFields
  <1>1. Windows(h, b) \subseteq Windows(g, c)
    BY StampFields DEF Windows
  <1>2. Truthful(h, b) \subseteq Truthful(g, c)
    BY FrameFields DEF Truthful
  <1>3. Images(h, b) \subseteq Images(g, c)
    BY <1>2 DEF Images
  <1>4. ASSUME NEW f \in Ranges(h, b) PROVE f \in Ranges(g, c)
    <2>1. /\ f \in Truthful(h, b) /\ f \in Truthful(g, c) /\ f \in Frames /\ f.kind = "delta"
          /\ f.first \in 1..f.last /\ Reached(f.epoch, f.last, b)
          /\ f.exact => f.levels = Diff(f.truth, h[f.epoch][f.first - 1])
      BY <1>2, <1>4 DEF Ranges, Truthful
    <2>2. f.first - 1 \in Nat /\ f.epoch \in Nat /\ f.last \in Nat
      BY <2>1, FrameFields
    <2>3. Reached(f.epoch, f.first - 1, b)
      BY <1>0, <2>1, <2>2 DEF Reached
    <2>4. g[f.epoch][f.first - 1] = h[f.epoch][f.first - 1]
      BY <2>2, <2>3
    <2>5. QED
      BY <2>1, <2>4 DEF Ranges
  <1>5. {f \in Frames : f.epoch <= b.epoch} \subseteq {f \in Frames : f.epoch <= c.epoch}
    BY <1>0, FrameFields
  <1>6. Mail(h, b) \subseteq Mail(g, c)
    BY <1>3, <1>4, <1>5 DEF Mail
  <1>7. QED
    BY <1>1, <1>3, <1>4, <1>6 DEF Wire

--------------------------------------------------------------------------------
(* The engine. *)

\* The app and what is under way to it agree with a longer history.
LEMMA AppKeepsUp ==
    ASSUME NEW h \in Past, NEW g \in Past, book \in Stamped, book' \in Stamped,
           book.epoch <= book'.epoch,
           \A e, i \in Nat : Reached(e, i, book) => g[e][i] = h[e][i] /\ Reached(e, i, book'),
           ReceivedTrue(h), ShownTrue(h), UNCHANGED <<app, replies>>
    PROVE  ReceivedTrue(g)' /\ ShownTrue(g)'
  <1>1. /\ Images(h, book) \subseteq Images(g, book') /\ Ranges(h, book) \subseteq Ranges(g, book')
        /\ Mail(h, book) \subseteq Mail(g, book')
    BY TruthLasts
  <1>2. /\ inbox' = inbox /\ cache' = cache /\ buffer' = buffer /\ replies' = replies
        /\ state' = state /\ pure' = pure /\ epoch' = epoch /\ applied' = applied
        /\ goal' = goal /\ view' = view
    BY DEF app
  <1>3. /\ inbox \in Seq(Mail(h, book)) /\ cache \in Seq(Images(h, book))
        /\ buffer \in Seq(Ranges(h, book)) /\ replies \in [Loads -> Seq(Images(h, book))]
        /\ \A i, j \in 1..Len(buffer) : i < j => buffer[i].last < buffer[j].last
    BY DEF ReceivedTrue
  <1>4. /\ inbox \in Seq(Mail(g, book')) /\ cache \in Seq(Images(g, book'))
        /\ buffer \in Seq(Ranges(g, book'))
    BY <1>1, <1>3, SeqGrows
  <1>5. replies \in [Loads -> Seq(Images(g, book'))]
    <2>1. Seq(Images(h, book)) \subseteq Seq(Images(g, book'))
      BY <1>1, SeqGrows
    <2>2. QED
      BY <1>3, <2>1
  <1>6. ReceivedTrue(g)'
    BY <1>2, <1>3, <1>4, <1>5 DEF ReceivedTrue
  <1>7. ShownTrue(g)'
    BY <1>2 DEF ShownTrue
  <1>8. QED
    BY <1>6, <1>7

\* A mutation or a reset stamps the book with a stamp no one has seen, and its
\* window joins the history.
LEMMA EngineMoves ==
    ASSUME IInv, IInv', NEW h \in Past, Faithful(h), Mutate \/ Reset, UNCHANGED <<app, replies>>
    PROVE  \E g \in Past : Faithful(g)'
  <1> DEFINE w == Window(book'.levels)
  <1>1. /\ book \in Stamped /\ book' \in Stamped /\ book.epoch = engineEpoch
        /\ engineEpoch \in Nat /\ book'.levels \in Levels
    BY DEF IInv, EngineInv, EngineOK, EpochInStep, Stamped
  <1>2. Earlier(book, book')
    <2>1. CASE Mutate
      <3>1. PICK b \in Books : book' = [book EXCEPT !.id = @ + 1, !.levels = b]
        BY <2>1 DEF Mutate
      <3>2. book'.id = book.id + 1 /\ book'.epoch = book.epoch /\ book.id \in Nat
        BY <1>1, <3>1 DEF Stamped
      <3>3. QED
        BY <3>2 DEF Earlier
    <2>2. CASE Reset
      <3>1. PICK b \in Books : book' = [epoch |-> engineEpoch', id |-> BootId, levels |-> b]
        BY <2>2 DEF Reset
      <3>2. book'.epoch = engineEpoch + 1
        BY <2>2, <3>1 DEF Reset
      <3>3. QED
        BY <1>1, <3>2 DEF Earlier
    <2>3. QED
      BY <2>1, <2>2
  <1>3. w \in Levels
    BY <1>1, WindowType
  <1>4. PICK g \in Past :
            /\ g[book'.epoch][book'.id] = w
            /\ \A e, i \in Nat : Reached(e, i, book) => g[e][i] = h[e][i] /\ Reached(e, i, book')
    <2> HIDE DEF w
    <2>1. QED
      BY <1>1, <1>2, <1>3, PastGrows
  <1>5. book.epoch <= book'.epoch
    <2>1. book.epoch \in Nat /\ book'.epoch \in Nat
      BY <1>1, StampFields
    <2>2. QED
      BY <1>2, <2>1 DEF Earlier
  <1>6. ReceivedTrue(g)' /\ ShownTrue(g)'
    BY <1>1, <1>4, <1>5, AppKeepsUp DEF Faithful
  <1>7. Windows(h, book) \subseteq Windows(g, book') /\ Wire(h, book) \subseteq Wire(g, book')
    BY <1>1, <1>4, <1>5, TruthLasts
  <1>8. /\ mailbox' = mailbox /\ outbound' = outbound /\ held' = held /\ win' = win
        /\ based' = based /\ sent' = sent /\ cEpoch' = cEpoch /\ cApplied' = cApplied
    BY DEF Mutate, Reset, coalescer, client
  <1>9. /\ mailbox \in Seq(Windows(g, book')) /\ outbound \in Seq(Wire(g, book'))
        /\ held \in Seq(Wire(g, book')) /\ win \in Windows(g, book') \cup {Nothing}
    <2>1. /\ mailbox \in Seq(Windows(h, book)) /\ outbound \in Seq(Wire(h, book))
          /\ held \in Seq(Wire(h, book)) /\ win \in Windows(h, book) \cup {Nothing}
      BY DEF Faithful, ServerTrue
    <2>2. QED
      BY <1>7, <2>1, SeqGrows
  <1>10. captured' \in Seq(Windows(g, book'))
    <2>1. CASE Mutate
      <3>1. PICK b \in Books : /\ book' = [book EXCEPT !.id = @ + 1, !.levels = b]
                               /\ captured' = <<[book' EXCEPT !.levels = Window(b)]>>
        BY <2>1 DEF Mutate
      <3> DEFINE c == [book' EXCEPT !.levels = Window(b)]
      <3>2. b = book'.levels /\ Window(b) = w
        BY <1>1, <3>1 DEF Stamped
      <3>3. c.epoch = book'.epoch /\ c.id = book'.id /\ c.levels = w /\ c \in Stamped
        BY <1>1, <1>3, <3>2 DEF Stamped
      <3>4. book'.epoch \in Nat /\ book'.id \in Nat
        BY <1>1, StampFields
      <3>5. Reached(book'.epoch, book'.id, book')
        BY <3>4 DEF Reached
      <3>6. c \in Windows(g, book')
        BY <1>4, <3>3, <3>5 DEF Windows
      <3> HIDE DEF c
      <3>7. <<c>> \in Seq(Windows(g, book'))
        BY <3>6, Singleton
      <3>8. QED
        BY <3>1, <3>7 DEF c
    <2>2. CASE Reset
      <3>1. captured' = captured /\ captured \in Seq(Windows(h, book))
        BY <2>2 DEF Reset, Faithful, ServerTrue
      <3>2. QED
        BY <1>7, <3>1, SeqGrows
    <2>3. QED
      BY <2>1, <2>2
  <1>11. based => sent = g[cEpoch][cApplied]
    <2>1. /\ cEpoch \in Nat /\ cId \in Nat /\ cApplied \in Nat /\ cApplied <= cId
          /\ NotAfter([epoch |-> cEpoch, id |-> cId], book)
      BY DEF IInv, SessionInv, CursorOK, CursorBehind
    <2>2. book.epoch \in Nat /\ book.id \in Nat
      BY <1>1, StampFields
    <2>3. Reached(cEpoch, cApplied, book)
      BY <2>1, <2>2 DEF NotAfter, Reached
    <2>4. g[cEpoch][cApplied] = h[cEpoch][cApplied]
      BY <1>4, <2>1, <2>3
    <2>5. QED
      BY <2>4 DEF Faithful, ServerTrue
  <1>12. ServerTrue(g)'
    BY <1>4, <1>8, <1>9, <1>10, <1>11 DEF ServerTrue
  <1>13. QED
    BY <1>4, <1>6, <1>12 DEF Faithful

--------------------------------------------------------------------------------
(* The session.  The book does not move, and the history stays. *)

\* The book itself has been reached.
LEMMA BookReached ==
    ASSUME IInv
    PROVE  /\ book \in Stamped /\ book.epoch \in Nat /\ book.id \in Nat /\ book.levels \in Levels
           /\ Window(book.levels) \in Levels /\ Reached(book.epoch, book.id, book)
  <1>1. book \in Stamped
    BY DEF IInv, EngineInv, EngineOK
  <1>2. book.epoch \in Nat /\ book.id \in Nat /\ book.levels \in Levels
    BY <1>1, StampFields
  <1>3. QED
    BY <1>1, <1>2, WindowType DEF Reached

\* sendSnapshot sends the engine's window.
LEMMA SnapshotTrue ==
    ASSUME IInv, NEW h \in Past, ServerTrue(h)
    PROVE  Snapshot(book.epoch, book.id, Window(book.levels)) \in Images(h, book)
  <1> DEFINE f == Snapshot(book.epoch, book.id, Window(book.levels))
  <1>1. /\ f.kind = "snapshot" /\ f.epoch = book.epoch /\ f.last = book.id
        /\ f.levels = Window(book.levels) /\ f.truth = Window(book.levels)
    BY DEF Snapshot
  <1>2. f \in Frames
    BY BookReached, LevelsAreChanges DEF Snapshot, Frames
  <1>3. f \in Images(h, book)
    <2> HIDE DEF f
    <2>1. QED
      BY <1>1, <1>2, BookReached DEF Images, Truthful, ServerTrue
  <1>4. QED
    BY <1>3

\* The base of the next range, while something is undelivered.
LEMMA Undeliv ==
    ASSUME IInv, NEW h \in Past, ServerTrue(h), HasDelta
    PROVE  /\ cEpoch \in Nat /\ cId \in Nat /\ cApplied \in Nat /\ cApplied < cId
           /\ sent \in Levels /\ win \in Windows(h, book) /\ win.levels \in Levels
           /\ Reached(cEpoch, cId, book) /\ win.levels = h[cEpoch][cId]
  <1>1. /\ cEpoch \in Nat /\ cId \in Nat /\ cApplied \in Nat /\ sent \in Levels
        /\ cApplied < cId /\ win.epoch = cEpoch /\ win.id = cId
    BY DEF IInv, SessionInv, CursorOK, Undelivered, HasDelta
  <1>2. win # Nothing
    BY <1>1 DEF Nothing
  <1>3. win \in Windows(h, book)
    BY <1>2 DEF ServerTrue
  <1>4. QED
    BY <1>1, <1>3, StampFields DEF Windows

\* TakeBookDelta's range leads from the base to the engine's window at its end.
LEMMA RangeTrue ==
    ASSUME IInv, NEW h \in Past, ServerTrue(h), HasDelta
    PROVE  NextDelta \in Wire(h, book)
  <1> DEFINE f == NextDelta
  <1>1. /\ f.kind = "delta" /\ f.epoch = cEpoch /\ f.first = cApplied + 1 /\ f.last = cId
        /\ f.levels = Diff(win.levels, sent) /\ f.truth = win.levels
    BY DEF NextDelta, Delta
  <1>2. f.exact => based
    BY Zenon DEF NextDelta, Delta
  <1>3. f \in Frames
    <2>1. based \in BOOLEAN
      BY DEF IInv, FlagsOK
    <2>2. /\ cEpoch \in Nat /\ cApplied + 1 \in Nat /\ cId \in Nat /\ win.levels \in Levels
          /\ Diff(win.levels, sent) \in Changes
      BY Undeliv, DiffIsChange
    <2>3. QED
      BY <2>1, <2>2 DEF NextDelta, Delta, Frames
  <1>4. f.first \in 1..f.last /\ f.first - 1 = cApplied
    BY <1>1, Undeliv
  <1>5. f.exact => f.levels = Diff(f.truth, h[f.epoch][f.first - 1])
    <2>1. based => sent = h[cEpoch][cApplied]
      BY DEF ServerTrue
    <2>2. QED
      BY <1>1, <1>2, <1>4, <2>1
  <1>6. Reached(f.epoch, f.last, book) /\ f.truth = h[f.epoch][f.last]
    BY <1>1, Undeliv
  <1>7. f \in Wire(h, book)
    <2> HIDE DEF f
    <2>1. QED
      BY <1>1, <1>3, <1>4, <1>5, <1>6 DEF Wire, Ranges, Truthful
  <1>8. QED
    BY <1>7

\* A snapshot leaves, with w as the base of the next range.
LEMMA SendTrue ==
    ASSUME IInv, NEW h \in Past, ServerTrue(h), NEW w \in Windows(h, book) \cup {Nothing},
           SendSnapshot(w), UNCHANGED <<engine, held>>, mailbox' \in Seq(Windows(h, book))
    PROVE  ServerTrue(h)'
  <1> DEFINE live == [book EXCEPT !.levels = Window(@)]
  <1>1. /\ live.epoch = book.epoch /\ live.id = book.id /\ live.levels = Window(book.levels)
    BY BookReached, LiveImage
  <1>2. /\ win' = w /\ sent' = w.levels /\ cEpoch' = live.epoch /\ cApplied' = live.id
        /\ book' = book /\ captured' = captured /\ held' = held
    BY DEF SendSnapshot, engine
  <1>3. based' => w.levels = live.levels
    BY Zenon DEF SendSnapshot
  <1>4. outbound' \in Seq(Wire(h, book))
    <2>1. \/ outbound' = outbound
          \/ outbound' = Append(outbound, Snapshot(live.epoch, live.id, live.levels))
      BY DEF SendSnapshot
    <2>2. Snapshot(live.epoch, live.id, live.levels) \in Wire(h, book)
      BY <1>1, SnapshotTrue DEF Wire
    <2>3. outbound \in Seq(Wire(h, book))
      BY DEF ServerTrue
    <2> HIDE DEF live
    <2>4. QED
      BY <2>1, <2>2, <2>3
  <1>5. based' => sent' = h[cEpoch'][cApplied']
    BY <1>1, <1>2, <1>3 DEF ServerTrue
  <1>6. QED
    BY <1>2, <1>4, <1>5 DEF ServerTrue

\* A range is taken, whatever becomes of it.
LEMMA TakeTrue ==
    ASSUME IInv, NEW h \in Past, ServerTrue(h), HasDelta, TakeBookDelta, UNCHANGED <<engine, mailbox>>,
           outbound' \in Seq(Wire(h, book)), held' \in Seq(Wire(h, book))
    PROVE  ServerTrue(h)'
  <1>1. /\ sent' = win.levels /\ cApplied' = cId /\ cEpoch' = cEpoch /\ win' = win
        /\ book' = book /\ captured' = captured
    BY DEF TakeBookDelta, engine
  <1>2. sent' = h[cEpoch'][cApplied']
    BY <1>1, Undeliv
  <1>3. QED
    BY <1>1, <1>2 DEF ServerTrue

\* Every step that leaves the book alone.
LEMMA SessionKeeps ==
    ASSUME IInv, NEW h \in Past, ServerTrue(h),
           Publish \/ ApplyFaults \/ DeliveryNext \/ Reconnect \/ Write \/ UNCHANGED vars
    PROVE  ServerTrue(h)' /\ book' = book
  <1> DEFINE W == Windows(h, book)
             F == Wire(h, book)
  <1>0. /\ captured \in Seq(W) /\ mailbox \in Seq(W) /\ win \in W \cup {Nothing}
        /\ outbound \in Seq(F) /\ held \in Seq(F)
        /\ based => sent = h[cEpoch][cApplied]
        /\ Window(book.levels) = h[book.epoch][book.id]
    BY DEF ServerTrue
  <1> HIDE DEF W, F
  <1>1. CASE Publish
    <2>1. /\ captured # <<>> /\ captured' = <<>> /\ book' = book /\ win' = win /\ based' = based
          /\ sent' = sent /\ cEpoch' = cEpoch /\ cApplied' = cApplied
          /\ outbound' = outbound /\ held' = held
          /\ mailbox' = mailbox \/ mailbox' = Append(mailbox, Head(captured))
      BY <1>1 DEF Publish, coalescer, client
    <2>2. mailbox' \in Seq(W) /\ captured' \in Seq(W)
      BY <1>0, <2>1, SeqMoves
    <2>3. QED
      BY <1>0, <2>1, <2>2 DEF ServerTrue, W, F
  <1>2. CASE ApplyFaults \/ Write \/ UNCHANGED vars
    <2>1. /\ captured' = captured /\ book' = book /\ win' = win /\ based' = based
          /\ sent' = sent /\ cEpoch' = cEpoch /\ cApplied' = cApplied
          /\ mailbox' = mailbox /\ held' = held
          /\ outbound' = outbound \/ (outbound # <<>> /\ outbound' = Tail(outbound))
      BY <1>2 DEF ApplyFaults, Write, vars, engine, coalescer, client
    <2>2. outbound' \in Seq(F)
      BY <1>0, <2>1, SeqMoves
    <2>3. QED
      BY <1>0, <2>1, <2>2 DEF ServerTrue, W, F
  <1>3. CASE Reconnect
    <2>1. /\ captured' = captured /\ book' = book /\ win' = Nothing /\ ~based'
          /\ mailbox' = <<>> /\ held' = <<>> /\ outbound' = <<>>
      BY <1>3 DEF Reconnect, engine
    <2>2. QED
      BY <1>0, <2>1, EmptySeq DEF ServerTrue, W, F
  <1>4. CASE HandleWindow
    <2>1. mailbox # <<>> /\ mailbox' = Tail(mailbox) /\ UNCHANGED <<engine, held>> /\ book' = book
      BY <1>4 DEF HandleWindow, engine
    <2>2. Head(mailbox) \in W /\ mailbox' \in Seq(W)
      BY <1>0, <2>1
    <2>3. CASE Head(mailbox).epoch = cEpoch
      <3>1. OnBookWindow(Head(mailbox))
        BY <1>4, <2>3 DEF HandleWindow
      <3>2. /\ win' = Head(mailbox) /\ sent' = sent /\ cEpoch' = cEpoch /\ cApplied' = cApplied
            /\ outbound' = outbound /\ based' = based /\ held' = held /\ captured' = captured
        BY <2>1, <3>1 DEF OnBookWindow, client, engine
      <3>3. QED
        BY <1>0, <2>1, <2>2, <3>2 DEF ServerTrue, W, F
    <2>4. CASE Head(mailbox).epoch # cEpoch
      <3>1. SendSnapshot(Head(mailbox))
        BY <1>4, <2>4 DEF HandleWindow
      <3>2. QED
        BY <2>1, <2>2, <3>1, SendTrue DEF W
    <2>5. QED
      BY <2>3, <2>4
  <1>5. CASE Subscribe \/ Rebind
    <2>1. SendSnapshot(win) \/ SendSnapshot(Nothing)
      BY <1>5 DEF Subscribe, Rebind
    <2>2. UNCHANGED <<engine, held>> /\ book' = book /\ (mailbox' = mailbox \/ mailbox' = <<>>)
      BY <1>5 DEF Subscribe, Rebind, engine
    <2>3. mailbox' \in Seq(W)
      BY <1>0, <2>2, EmptySeq
    <2>4. Nothing \in Windows(h, book) \cup {Nothing}
      OBVIOUS
    <2>5. QED
      BY <1>0, <2>1, <2>2, <2>3, <2>4, SendTrue DEF W
  <1>6. CASE FlushGap \/ FlushIdle
    <2>1. /\ captured' = captured /\ book' = book /\ win' = win
          /\ sent' = sent /\ cEpoch' = cEpoch
          /\ mailbox' = mailbox /\ held' = held /\ outbound' = outbound
      BY <1>6 DEF FlushGap, FlushIdle, engine
    <2>2. based' => based /\ cApplied' = cApplied
      BY <1>6, Zenon DEF FlushGap, FlushIdle, client
    <2>3. QED
      BY <1>0, <2>1, <2>2 DEF ServerTrue, W, F
  <1>7. CASE Flush
    <2>1. HasDelta /\ UNCHANGED <<engine, mailbox, held>> /\ book' = book /\ held' = held
      BY <1>7 DEF Flush, engine
    <2>2. CASE SendSnapshot(Nothing)
      <3>1. Nothing \in Windows(h, book) \cup {Nothing} /\ mailbox' \in Seq(Windows(h, book))
        BY <1>0, <2>1 DEF W
      <3>2. QED
        BY <2>1, <2>2, <3>1, SendTrue
    <2>3. CASE ~SendSnapshot(Nothing)
      <3>1. /\ TakeBookDelta
            /\ outbound' = Append(outbound, NextDelta) \/ outbound' = outbound \o <<NextDelta, NextDelta>>
        BY <1>7, <2>3 DEF Flush
      <3>2. NextDelta \in F
        BY <2>1, RangeTrue DEF F
      <3>3. outbound' \in Seq(F)
        <4> DEFINE d == NextDelta
        <4> HIDE DEF d
        <4>1. <<d, d>> \in Seq(F) /\ d \in F
          BY <3>2 DEF d
        <4>2. outbound' = Append(outbound, d) \/ outbound' = outbound \o <<d, d>>
          BY <3>1 DEF d
        <4>3. QED
          BY <1>0, <4>1, <4>2, SeqMoves
      <3>4. QED
        BY <1>0, <2>1, <3>1, <3>3, TakeTrue DEF W, F
    <2>4. QED
      BY <2>2, <2>3
  <1>8. CASE FlushHold
    <2>1. /\ HasDelta /\ TakeBookDelta /\ UNCHANGED <<engine, mailbox>> /\ book' = book
          /\ outbound' = outbound /\ held' = <<NextDelta>>
      BY <1>8 DEF FlushHold, engine
    <2>2. held' \in Seq(F)
      BY <2>1, RangeTrue, Singleton DEF F
    <2>3. QED
      BY <1>0, <2>1, <2>2, TakeTrue DEF F
  <1>9. CASE FlushReversed
    <2>1. /\ HasDelta /\ TakeBookDelta /\ UNCHANGED <<engine, mailbox>> /\ book' = book
          /\ held' = <<>>
      BY <1>9 DEF FlushReversed, engine
    <2> DEFINE d == NextDelta
    <2>2. PICK first \in {<<>>, <<d>>}, second \in {<<>>, held} :
            outbound' = outbound \o first \o second
      BY <1>9 DEF FlushReversed
    <2>3. d \in F
      BY <2>1, RangeTrue DEF F
    <2> HIDE DEF d
    <2>4. first \in Seq(F) /\ second \in Seq(F)
      BY <1>0, <2>2, <2>3, SeqMoves, Singleton
    <2>5. outbound' \in Seq(F)
      <3>1. outbound \o first \in Seq(F)
        BY <1>0, <2>4, SeqMoves
      <3>2. QED
        BY <2>2, <2>4, <3>1, SeqMoves
    <2>6. QED
      BY <1>0, <2>1, <2>5, TakeTrue, EmptySeq DEF F
  <1>10. QED
    BY <1>1, <1>2, <1>3, <1>4, <1>5, <1>6, <1>7, <1>8, <1>9 DEF DeliveryNext

--------------------------------------------------------------------------------
(* Draining the buffer onto an image. *)

LEMMA LeastPosition ==
    ASSUME NEW T, T \subseteq Nat, T # {}
    PROVE  \E x \in T : \A y \in T : x <= y
  <1> DEFINE R == OpToRel(<, Nat)
  <1>1. IsWellFoundedOn(R, Nat)
    BY NatLessThanWellFounded, Zenon
  <1>2. \A x, y \in Nat : <<x, y>> \in R <=> x < y
    BY DEF OpToRel
  <1> HIDE DEF R
  <1>3. PICK x \in T : \A y \in T : ~ (<<y, x>> \in R)
    BY <1>1, WFMin
  <1>4. \A y \in T : y \in Nat /\ x \in Nat /\ ~ (y < x)
    BY <1>2, <1>3
  <1>5. QED
    BY <1>4

LEMMA LastPosition ==
    ASSUME NEW n \in Nat, NEW S, S \subseteq 1..n, S # {}
    PROVE  App!LastOf(S) \in S /\ \A j \in S : j <= App!LastOf(S)
  <1> DEFINE T == {n - i : i \in S}
  <1>1. \A i \in S : i \in Nat /\ n - i \in Nat /\ n - i \in T
    <2>1. \A i \in 1..n : i \in Nat /\ n - i \in Nat
      OBVIOUS
    <2>2. QED
      BY <2>1
  <1>2. PICK x \in T : \A y \in T : x <= y
    <2>1. T \subseteq Nat /\ T # {}
      BY <1>1
    <2> HIDE DEF T
    <2>2. QED
      BY <2>1, LeastPosition
  <1>3. PICK i \in S : x = n - i
    BY <1>2
  <1> HIDE DEF T
  <1>4. \A j \in S : j <= i
    BY <1>1, <1>2, <1>3
  <1>5. QED
    BY <1>4 DEF App!LastOf

\* A buffer whose ranges agree with the history and end in increasing order.
OrderedRanges(h) ==
    /\ buffer \in Seq(Ranges(h, book))
    /\ \A i, j \in 1..Len(buffer) : i < j => buffer[i].last < buffer[j].last

\* A drained range starts behind the one drained before it; the first, behind
\* the image.
LEMMA DrainOrder ==
    ASSUME NEW h \in Past, OrderedRanges(h), NEW s \in Images(h, book)
    PROVE  /\ Len(buffer) \in Nat /\ App!Drained(s) \subseteq 1..Len(buffer)
           /\ \A i \in 1..Len(buffer) : buffer[i] \in Ranges(h, book)
           /\ \A i \in App!Drained(s) :
                \/ i - 1 \in App!Drained(s) /\ App!Before(s, i) = buffer[i - 1].last
                \/ App!Before(s, i) = s.last /\ \A j \in App!Drained(s) : i <= j
  <1>1. /\ buffer \in Seq(Ranges(h, book)) /\ Len(buffer) \in Nat /\ DOMAIN buffer = 1..Len(buffer)
        /\ \A i \in 1..Len(buffer) : buffer[i] \in Ranges(h, book)
        /\ \A i, j \in 1..Len(buffer) : i < j => buffer[i].last < buffer[j].last
    BY DEF OrderedRanges
  <1>2. s.last \in Nat /\ \A i \in 1..Len(buffer) : buffer[i].last \in Nat
    BY <1>1, FrameFields DEF Images, Ranges, Truthful
  <1>3. /\ App!Drained(s) \subseteq App!Kept(s) /\ App!Kept(s) \subseteq 1..Len(buffer)
        /\ App!Holes(s) \subseteq 1..Len(buffer)
    BY <1>1 DEF App!Drained, App!Holes, App!Kept
  <1>4. ASSUME NEW i \in App!Drained(s)
        PROVE  \/ i - 1 \in App!Drained(s) /\ App!Before(s, i) = buffer[i - 1].last
               \/ App!Before(s, i) = s.last /\ \A j \in App!Drained(s) : i <= j
    <2>1. i \in 1..Len(buffer) /\ i \in Int
      BY <1>3
    <2>2. CASE i - 1 \in App!Kept(s)
      <3>1. \A j \in App!Holes(s) : i < j /\ j \in 1..Len(buffer)
        BY <1>3 DEF App!Drained
      <3>2. \A j \in App!Holes(s) : i - 1 < j
        BY <2>1, <3>1
      <3>3. QED
        BY <2>2, <3>2 DEF App!Drained, App!Before
    <2>3. CASE i - 1 \notin App!Kept(s)
      <3>1. ASSUME NEW j \in App!Drained(s), ~ (i <= j) PROVE FALSE
        <4>1. j \in 1..Len(buffer) /\ j \in App!Kept(s) /\ j <= i - 1 /\ i - 1 \in 1..Len(buffer)
          BY <1>1, <1>3, <2>1, <3>1
        <4>2. buffer[j].last <= buffer[i - 1].last
          BY <1>1, <1>2, <4>1
        <4>3. s.last < buffer[j].last
          BY <1>2, <4>1 DEF App!Kept
        <4>4. s.last < buffer[i - 1].last
          BY <1>2, <4>1, <4>2, <4>3
        <4>5. QED
          BY <1>1, <2>3, <4>1, <4>4 DEF App!Kept
      <3>2. QED
        BY <2>3, <3>1 DEF App!Before
    <2>4. QED
      BY <2>2, <2>3
  <1>5. QED
    BY <1>1, <1>3, <1>4

\* What one exact range does to one price.
LEMMA RangeAtPrice ==
    ASSUME NEW h \in Past, NEW f \in Ranges(h, book), f.exact, NEW n \in Nat, f.first = n + 1,
           NEW p \in Prices
    PROVE  /\ p \in DOMAIN f.levels => f.levels[p] = h[f.epoch][f.last][p]
           /\ p \notin DOMAIN f.levels => h[f.epoch][f.last][p] = h[f.epoch][n][p]
  <1>1. /\ f \in Frames /\ f.truth = h[f.epoch][f.last] /\ f.first - 1 = n
        /\ f.levels = Diff(f.truth, h[f.epoch][f.first - 1])
    BY FrameFields DEF Ranges, Truthful
  <1>2. f.levels = Diff(h[f.epoch][f.last], h[f.epoch][n])
    BY <1>1
  <1>3. QED
    BY <1>2 DEF Diff

\* The image and the ranges drained onto it make up the engine's window at the
\* last update among them.
LEMMA DrainTrue ==
    ASSUME NEW h \in Past, book \in Stamped, OrderedRanges(h), NEW s \in Images(h, book), s.exact,
           \A i \in App!Drained(s) :
              buffer[i].exact /\ buffer[i].epoch = s.epoch /\ buffer[i].first = App!Before(s, i) + 1,
           NEW n, n = IF App!Drained(s) = {} THEN s.last ELSE buffer[App!LastOf(App!Drained(s))].last
    PROVE  n \in Nat /\ Reached(s.epoch, n, book) /\ App!DrainedLevels(s) = h[s.epoch][n]
  <1> DEFINE D == App!Drained(s)
  <1>1. /\ s \in Frames /\ s.last \in Nat /\ s.epoch \in Nat /\ Reached(s.epoch, s.last, book)
        /\ s.levels = h[s.epoch][s.last]
    BY FrameFields DEF Images, Truthful
  <1>2. /\ Len(buffer) \in Nat /\ D \subseteq 1..Len(buffer)
        /\ \A i \in D : /\ buffer[i] \in Ranges(h, book) /\ buffer[i].exact /\ buffer[i].epoch = s.epoch
                        /\ buffer[i].last \in Nat /\ Reached(s.epoch, buffer[i].last, book)
    BY DrainOrder, FrameFields DEF Ranges, Truthful
  <1>3. D # {} => App!LastOf(D) \in D /\ \A j \in D : j <= App!LastOf(D)
    <2> HIDE DEF D
    <2>1. QED
      BY <1>2, LastPosition
  <1>4. n \in Nat /\ Reached(s.epoch, n, book)
    BY <1>1, <1>2, <1>3
  <1>5. ASSUME NEW p \in Prices, NEW i \in D
        PROVE  /\ p \in DOMAIN buffer[i].levels => buffer[i].levels[p] = h[s.epoch][buffer[i].last][p]
               /\ p \notin DOMAIN buffer[i].levels =>
                    \/ i - 1 \in D /\ h[s.epoch][buffer[i].last][p] = h[s.epoch][buffer[i - 1].last][p]
                    \/ /\ h[s.epoch][buffer[i].last][p] = h[s.epoch][s.last][p]
                       /\ \A j \in D : i <= j
    <2>1. \/ i - 1 \in D /\ App!Before(s, i) = buffer[i - 1].last
          \/ App!Before(s, i) = s.last /\ \A j \in D : i <= j
      BY DrainOrder
    <2>2. App!Before(s, i) \in Nat
      BY <1>1, <1>2, <2>1
    <2>3. buffer[i].first = App!Before(s, i) + 1
      OBVIOUS
    <2>4. /\ p \in DOMAIN buffer[i].levels => buffer[i].levels[p] = h[s.epoch][buffer[i].last][p]
          /\ p \notin DOMAIN buffer[i].levels =>
                h[s.epoch][buffer[i].last][p] = h[s.epoch][App!Before(s, i)][p]
      <3> DEFINE f == buffer[i]
                 m == App!Before(s, i)
      <3>1. f \in Ranges(h, book) /\ f.exact /\ m \in Nat /\ f.first = m + 1 /\ f.epoch = s.epoch
        BY <1>2, <2>2, <2>3
      <3> HIDE DEF f, m
      <3>2. /\ p \in DOMAIN f.levels => f.levels[p] = h[f.epoch][f.last][p]
            /\ p \notin DOMAIN f.levels => h[f.epoch][f.last][p] = h[f.epoch][m][p]
        BY <3>1, RangeAtPrice
      <3>3. QED
        BY <3>1, <3>2 DEF f, m
    <2>5. QED
      BY <2>1, <2>4
  <1> HIDE DEF D
  <1>6. ASSUME NEW p \in Prices
        PROVE  App!DrainedLevels(s)[p] = h[s.epoch][n][p]
    <2> DEFINE on == {i \in D : p \in DOMAIN buffer[i].levels}
               from == IF on = {} THEN 0 ELSE App!LastOf(on)
               value == IF on = {} THEN s.levels[p] ELSE buffer[App!LastOf(on)].levels[p]
               T == {i \in D : from <= i /\ h[s.epoch][buffer[i].last][p] # value}
    <2>1. App!DrainedLevels(s)[p] = value
      BY DEF App!DrainedLevels, D
    <2>2. on \subseteq D /\ on \subseteq 1..Len(buffer)
      BY <1>2
    <2>3. on # {} => App!LastOf(on) \in on /\ \A j \in on : j <= App!LastOf(on)
      <3> HIDE DEF on
      <3>1. QED
        BY <1>2, <2>2, LastPosition
    <2>4. from \in Nat /\ \A i \in D : i \in Nat /\ (from < i => i \notin on)
      <3> HIDE DEF on
      <3>1. \A i \in D : i \in Nat
        BY <1>2
      <3>2. CASE on = {}
        BY <3>1, <3>2
      <3>3. CASE on # {}
        <4>1. from \in on /\ \A j \in on : j <= from
          BY <2>3, <3>3
        <4> HIDE DEF from
        <4>2. from \in Nat /\ \A j \in on : j \in Nat /\ ~ (from < j)
          BY <2>2, <3>1, <4>1
        <4>3. QED
          BY <3>1, <4>2
      <3>4. QED
        BY <3>2, <3>3
    <2>5. on # {} => from \in D /\ from \notin T
      <3>1. ASSUME on # {} PROVE App!LastOf(on) \in D /\ p \in DOMAIN buffer[App!LastOf(on)].levels
        BY <2>3, <3>1
      <3>2. ASSUME on # {}
            PROVE  buffer[App!LastOf(on)].levels[p] = h[s.epoch][buffer[App!LastOf(on)].last][p]
        BY <1>5, <3>1, <3>2
      <3> HIDE DEF on
      <3>3. QED
        BY <3>1, <3>2
    <2>6. T = {}
      <3>1. SUFFICES ASSUME T # {} PROVE FALSE
        OBVIOUS
      <3>2. PICK i \in T : \A j \in T : i <= j
        <4>1. T \subseteq Nat
          BY <2>4
        <4> HIDE DEF T
        <4>2. QED
          BY <3>1, <4>1, LeastPosition
      <3>3. i \in D /\ from <= i /\ i \in Nat /\ h[s.epoch][buffer[i].last][p] # value
        BY <2>4, <3>2
      <3>4. on = {} => value = h[s.epoch][s.last][p]
        BY <1>1
      <3>5. from # i
        <4>1. CASE on = {}
          BY <1>2, <3>3, <4>1
        <4>2. CASE on # {}
          BY <2>5, <3>2, <4>2
        <4>3. QED
          BY <4>1, <4>2
      <3>6. i \notin on /\ from < i
        BY <2>4, <3>3, <3>5
      <3>7. p \notin DOMAIN buffer[i].levels
        BY <3>3, <3>6
      <3>8. CASE i - 1 \in D /\ h[s.epoch][buffer[i].last][p] = h[s.epoch][buffer[i - 1].last][p]
        <4> HIDE DEF on, from, value
        <4>1. i - 1 \in T
          BY <2>4, <3>3, <3>6, <3>8
        <4>2. ~ (i <= i - 1)
          BY <3>3
        <4>3. QED
          BY <3>2, <4>1, <4>2
      <3>9. CASE h[s.epoch][buffer[i].last][p] = h[s.epoch][s.last][p] /\ \A j \in D : i <= j
        <4> HIDE DEF on, value
        <4>1. CASE on = {}
          BY <3>3, <3>4, <3>9, <4>1
        <4>2. CASE on # {}
          <5>1. from \in D /\ ~ (i <= from)
            BY <2>4, <2>5, <3>3, <3>6, <4>2
          <5> HIDE DEF from
          <5>2. QED
            BY <3>9, <5>1
        <4>3. QED
          BY <4>1, <4>2
      <3>10. QED
        BY <1>5, <3>3, <3>7, <3>8, <3>9
    <2>7. h[s.epoch][n][p] = value
      <3>1. CASE D = {}
        <4>1. on = {} /\ n = s.last
          BY <3>1 DEF D
        <4>2. QED
          BY <1>1, <4>1
      <3>2. CASE D # {}
        <4>1. n = buffer[App!LastOf(D)].last /\ App!LastOf(D) \in D
          BY <1>3, <3>2 DEF D
        <4>2. from <= App!LastOf(D)
          <5>1. CASE on = {}
            BY <2>4, <4>1, <5>1
          <5>2. CASE on # {}
            <6>1. from \in D
              BY <2>5, <5>2
            <6> HIDE DEF from
            <6>2. QED
              BY <1>3, <3>2, <6>1
          <5>3. QED
            BY <5>1, <5>2
        <4>3. App!LastOf(D) \notin T
          BY <2>6
        <4>4. QED
          BY <4>1, <4>2, <4>3
      <3>3. QED
        BY <3>1, <3>2
    <2>8. QED
      BY <2>1, <2>7
  <1>7. App!DrainedLevels(s) = h[s.epoch][n]
    <2>1. h[s.epoch][n] \in [Prices -> Quantities]
      BY <1>1, <1>4, PastLevels DEF Levels
    <2>2. DOMAIN App!DrainedLevels(s) = Prices
      BY DEF App!DrainedLevels
    <2>3. App!DrainedLevels(s) = [p \in Prices |-> App!DrainedLevels(s)[p]]
      BY DEF App!DrainedLevels
    <2>4. h[s.epoch][n] = [p \in Prices |-> h[s.epoch][n][p]]
      BY <2>1
    <2>5. QED
      BY <1>6, <2>3, <2>4
  <1>8. QED
    BY <1>4, <1>7

--------------------------------------------------------------------------------
(* The app.  Events arrive. *)

LEMMA MailMade ==
    ASSUME NEW h \in Past, NEW b \in Stamped
    PROVE  /\ \A f \in Wire(h, b) : App!Event(f.kind, f, FALSE) \in Mail(h, b)
           /\ \A f \in Images(h, b), c \in BOOLEAN : App!Event("snapshot", f, c) \in Mail(h, b)
           /\ \A k \in {"started", "retry", "lost"}, e \in Nat : e <= b.epoch =>
                App!Event(k, [App!NoFrame EXCEPT !.epoch = e], FALSE) \in Mail(h, b)
           /\ App!Event("lost", App!NoFrame, FALSE) \in Mail(h, b)
  <1>1. \A f \in Images(h, b) : f.kind = "snapshot"
    BY DEF Images
  <1>2. \A f \in Ranges(h, b) : f.kind = "delta"
    BY DEF Ranges
  <1>3. \A f \in Images(h, b), c \in BOOLEAN : App!Event("snapshot", f, c) \in Mail(h, b)
    BY DEF App!Event, Mail
  <1>4. \A f \in Ranges(h, b) : App!Event("delta", f, FALSE) \in Mail(h, b)
    BY DEF App!Event, Mail
  <1>5. App!NoFrame \in Frames
    <2>1. App!Empty \in Levels
      BY BookAssumption DEF BookAssumption, App!Empty, Levels
    <2>2. App!Empty \in Changes
      BY <2>1, LevelsAreChanges
    <2>3. QED
      BY <2>1, <2>2 DEF App!NoFrame, Frames
  <1>6. ASSUME NEW e \in Nat
        PROVE  [App!NoFrame EXCEPT !.epoch = e] \in Frames /\ [App!NoFrame EXCEPT !.epoch = e].epoch = e
    BY <1>5 DEF Frames
  <1>7. ASSUME NEW k \in {"started", "retry", "lost"}, NEW f \in Frames, f.epoch <= b.epoch
        PROVE  App!Event(k, f, FALSE) \in Mail(h, b)
    BY <1>7 DEF App!Event, Mail
  <1>8. App!NoFrame.epoch = 0 /\ 0 <= b.epoch
    BY StampFields DEF App!NoFrame
  <1>9. App!Event("lost", App!NoFrame, FALSE) \in Mail(h, b)
    BY <1>5, <1>7, <1>8
  <1>10. ASSUME NEW k \in {"started", "retry", "lost"}, NEW e \in Nat, e <= b.epoch
         PROVE  App!Event(k, [App!NoFrame EXCEPT !.epoch = e], FALSE) \in Mail(h, b)
    <2> DEFINE f == [App!NoFrame EXCEPT !.epoch = e]
    <2>1. f \in Frames /\ f.epoch <= b.epoch
      BY <1>6, <1>10
    <2> HIDE DEF f
    <2>2. App!Event(k, f, FALSE) \in Mail(h, b)
      BY <1>7, <2>1
    <2>3. QED
      BY <2>2 DEF f
  <1>11. QED
    BY <1>1, <1>2, <1>3, <1>4, <1>9, <1>10 DEF Wire

\* An event is queued and nothing that is shown or buffered moves.
LEMMA Arrives ==
    ASSUME NEW h \in Past, ReceivedTrue(h), ShownTrue(h), book' = book,
           NEW e \in Mail(h, book), inbox' = Append(inbox, e),
           cache' \in Seq(Images(h, book)), replies' \in [Loads -> Seq(Images(h, book))],
           UNCHANGED <<buffer, state, pure, epoch, applied, goal, view>>
    PROVE  ReceivedTrue(h)' /\ ShownTrue(h)'
  <1>1. inbox' \in Seq(Mail(h, book))
    BY SeqMoves DEF ReceivedTrue
  <1>2. ReceivedTrue(h)'
    BY <1>1 DEF ReceivedTrue
  <1>3. ShownTrue(h)'
    BY DEF ShownTrue
  <1>4. QED
    BY <1>2, <1>3

\* A frame off the socket, a lost connection, the user.
LEMMA SignalsTrue ==
    ASSUME IInv, NEW h \in Past, ServerTrue(h), ReceivedTrue(h), ShownTrue(h), book' = book,
           UNCHANGED replies,
           \/ outbound # <<>> /\ App!Receive(Head(outbound))
           \/ App!Signal("lost", 0) \/ App!Signal("started", engineEpoch) \/ App!Signal("retry", 0)
    PROVE  ReceivedTrue(h)' /\ ShownTrue(h)'
  <1>0. book \in Stamped /\ engineEpoch \in Nat /\ engineEpoch = book.epoch /\ 0 <= book.epoch
    BY BookReached DEF IInv, EngineInv, EngineOK, EpochInStep
  <1>1. /\ UNCHANGED <<buffer, state, pure, epoch, applied, goal, view>>
        /\ cache' \in Seq(Images(h, book)) /\ replies' \in [Loads -> Seq(Images(h, book))]
    <2>1. UNCHANGED <<buffer, state, pure, epoch, applied, goal, view, cache>>
      BY DEF App!Receive, App!Signal, App!sync
    <2>2. QED
      BY <2>1 DEF ReceivedTrue
  <1>2. PICK e \in Mail(h, book) : inbox' = Append(inbox, e)
    <2>1. CASE outbound # <<>> /\ App!Receive(Head(outbound))
      <3> DEFINE f == Head(outbound)
      <3>1. f \in Wire(h, book)
        BY <2>1, SeqMoves DEF ServerTrue
      <3>2. App!Event(f.kind, f, FALSE) \in Mail(h, book)
        <4> HIDE DEF f
        <4>1. QED
          BY <1>0, <3>1, MailMade
      <3>3. inbox' = Append(inbox, App!Event(f.kind, f, FALSE))
        BY <2>1 DEF App!Receive, App!Queue
      <3>4. QED
        BY <3>2, <3>3
    <2>2. CASE App!Signal("lost", 0) \/ App!Signal("started", engineEpoch) \/ App!Signal("retry", 0)
      <3>1. PICK k \in {"started", "retry", "lost"}, e \in {0, engineEpoch} : App!Signal(k, e)
        BY <2>2
      <3>2. inbox' = Append(inbox, App!Event(k, [App!NoFrame EXCEPT !.epoch = e], FALSE))
        BY <3>1 DEF App!Signal, App!Queue
      <3>3. e \in Nat /\ e <= book.epoch
        BY <1>0
      <3>4. App!Event(k, [App!NoFrame EXCEPT !.epoch = e], FALSE) \in Mail(h, book)
        BY <1>0, <3>3, MailMade
      <3>5. QED
        BY <3>2, <3>4
    <2>3. QED
      BY <2>1, <2>2
  <1>3. QED
    BY <1>1, <1>2, Arrives

\* The REST endpoint answers with the whole book; it is exact only when the book
\* fits into the window.
LEMMA ReplyTrue ==
    ASSUME IInv, NEW h \in Past, ServerTrue(h), ReceivedTrue(h), ShownTrue(h), NEW k \in Loads,
           OrderBook(k)
    PROVE  ServerTrue(h)' /\ ReceivedTrue(h)' /\ ShownTrue(h)'
  <1> DEFINE f == [Snapshot(book.epoch, book.id, book.levels)
                     EXCEPT !.truth = Window(book.levels), !.exact = (book.levels = Window(book.levels))]
  <1> DEFINE x == (book.levels = Window(book.levels))
  <1>0. x \in BOOLEAN /\ (x => book.levels = Window(book.levels))
    BY Zenon
  <1> HIDE DEF x
  <1>1. /\ f.kind = "snapshot" /\ f.epoch = book.epoch /\ f.first = book.id /\ f.last = book.id
        /\ f.levels = book.levels /\ f.truth = Window(book.levels) /\ f.exact = x
    BY DEF Snapshot, x
  <1>2. f.exact => book.levels = Window(book.levels)
    BY <1>0, <1>1
  <1>3. f \in Frames
    <2>1. book.levels \in Changes
      BY BookReached, LevelsAreChanges
    <2>2. QED
      BY <1>0, <2>1, BookReached DEF Frames, Snapshot, x
  <1>4. f \in Images(h, book)
    <2> HIDE DEF f
    <2>1. QED
      BY <1>1, <1>2, <1>3, BookReached DEF Images, Truthful, ServerTrue
  <1>5. replies' = [replies EXCEPT ![k] = <<f>>] /\ UNCHANGED <<vars, app>>
    BY DEF OrderBook
  <1> HIDE DEF f
  <1>6. replies' \in [Loads -> Seq(Images(h, book))]
    <2>1. <<f>> \in Seq(Images(h, book))
      BY <1>4, Singleton
    <2>2. QED
      BY <1>5, <2>1 DEF ReceivedTrue
  <1>7. book' = book
    BY <1>5 DEF vars, engine
  <1>8. UNCHANGED <<inbox, cache, buffer, state, pure, epoch, applied, goal, view>>
    BY <1>5 DEF app
  <1>9. ReceivedTrue(h)' /\ ShownTrue(h)'
    BY <1>6, <1>7, <1>8 DEF ReceivedTrue, ShownTrue
  <1>10. ServerTrue(h)'
    BY <1>5, SessionKeeps
  <1>11. QED
    BY <1>9, <1>10

\* A load ends with the server's answer, the cached image or a failure.
LEMMA LoadTrue ==
    ASSUME IInv, NEW h \in Past, ServerTrue(h), ReceivedTrue(h), ShownTrue(h), NEW k \in Loads,
           LoadEnds(k)
    PROVE  ServerTrue(h)' /\ ReceivedTrue(h)' /\ ShownTrue(h)'
  <1> DEFINE I == Images(h, book)
  <1>0. /\ cache \in Seq(I) /\ replies \in [Loads -> Seq(I)] /\ book \in Stamped
        /\ replies' = [replies EXCEPT ![k] = <<>>] /\ UNCHANGED vars
    BY BookReached DEF ReceivedTrue, LoadEnds
  <1>1. book' = book
    BY <1>0 DEF vars, engine
  <1>2. UNCHANGED <<buffer, state, pure, epoch, applied, goal, view>>
    BY DEF LoadEnds, App!AnswerFresh, App!AnswerCached, App!AnswerFailed, App!sync
  <1> HIDE DEF I
  <1>3. replies' \in [Loads -> Seq(I)]
    BY <1>0, EmptySeq
  <1>4. cache' \in Seq(I) /\ \E e \in Mail(h, book) : inbox' = Append(inbox, e)
    <2>1. CASE replies[k] # <<>> /\ App!AnswerFresh(k, replies[k][1])
      <3> DEFINE f == replies[k][1]
      <3>1. f \in I
        BY <1>0, <2>1
      <3>2. cache' = <<f>> /\ inbox' = Append(inbox, App!Event("snapshot", f, FALSE))
        BY <2>1 DEF App!AnswerFresh, App!Queue
      <3> HIDE DEF f
      <3>3. App!Event("snapshot", f, FALSE) \in Mail(h, book)
        BY <1>0, <3>1, MailMade DEF I
      <3>4. QED
        BY <3>1, <3>2, <3>3, Singleton
    <2>2. CASE App!AnswerCached(k)
      <3> DEFINE f == Head(cache)
      <3>1. f \in I
        BY <1>0, <2>2, SeqMoves DEF App!AnswerCached
      <3>2. cache' = cache /\ inbox' = Append(inbox, App!Event("snapshot", f, TRUE))
        BY <2>2 DEF App!AnswerCached, App!Queue
      <3> HIDE DEF f
      <3>3. App!Event("snapshot", f, TRUE) \in Mail(h, book)
        BY <1>0, <3>1, MailMade DEF I
      <3>4. QED
        BY <1>0, <3>2, <3>3
    <2>3. CASE App!AnswerFailed(k)
      <3>1. cache' = cache /\ inbox' = Append(inbox, App!Event("lost", App!NoFrame, FALSE))
        BY <2>3 DEF App!AnswerFailed, App!Queue
      <3>2. App!Event("lost", App!NoFrame, FALSE) \in Mail(h, book)
        BY <1>0, MailMade
      <3>3. QED
        BY <1>0, <3>1, <3>2
    <2>4. QED
      BY <2>1, <2>2, <2>3 DEF LoadEnds
  <1>5. ReceivedTrue(h)' /\ ShownTrue(h)'
    BY <1>1, <1>2, <1>3, <1>4, Arrives DEF I
  <1>6. ServerTrue(h)'
    BY <1>0, SessionKeeps
  <1>7. QED
    BY <1>5, <1>6

--------------------------------------------------------------------------------
(* Events are handled. *)

\* The event at the head of the queue.
LEMMA Taken ==
    ASSUME NEW h \in Past, ReceivedTrue(h), NEW k, App!Handles(k)
    PROVE  /\ inbox' \in Seq(Mail(h, book)) /\ App!Head1 \in Frames
           /\ k = "snapshot" => App!Head1 \in Images(h, book)
           /\ k = "delta" => App!Head1 \in Ranges(h, book)
           /\ k \in {"started", "retry", "lost"} => App!Head1.epoch <= book.epoch
  <1>1. inbox \in Seq(Mail(h, book)) /\ inbox # <<>> /\ inbox' = Tail(inbox) /\ inbox[1].kind = k
    BY DEF ReceivedTrue, App!Handles
  <1>2. inbox' \in Seq(Mail(h, book)) /\ inbox[1] \in Mail(h, book)
    <2> DEFINE M == Mail(h, book)
    <2> HIDE DEF M
    <2>1. inbox \in Seq(M)
      BY <1>1 DEF M
    <2>2. inbox' \in Seq(M) /\ inbox[1] \in M
      BY <1>1, <2>1, SeqMoves
    <2>3. QED
      BY <2>2 DEF M
  <1>3. \A e \in Mail(h, book) :
          /\ e.frame \in Frames
          /\ e.kind = "snapshot" => e.frame \in Images(h, book)
          /\ e.kind = "delta" => e.frame \in Ranges(h, book)
          /\ e.kind \in {"started", "retry", "lost"} => e.frame.epoch <= book.epoch
    BY DEF Mail, Images, Ranges, Truthful
  <1>4. QED
    BY <1>1, <1>2, <1>3 DEF App!Head1

\* A buffer of at most one range.
LEMMA ShortBuffer ==
    ASSUME NEW h \in Past, NEW b \in Seq(Ranges(h, book)), Len(b) <= 1, buffer' = b, book' = book
    PROVE  OrderedRanges(h)'
  <1>1. ~ \E i, j \in 1..Len(b) : i < j
    OBVIOUS
  <1>2. QED
    BY <1>1 DEF OrderedRanges

\* A range that ends behind the last one is buffered.
LEMMA LongerBuffer ==
    ASSUME NEW h \in Past, OrderedRanges(h), NEW f \in Ranges(h, book), f.last > App!Reference,
           buffer' = Append(buffer, f), book' = book
    PROVE  OrderedRanges(h)'
  <1> DEFINE n == Len(buffer)
  <1>1. /\ buffer \in Seq(Ranges(h, book)) /\ n \in Nat
        /\ \A i, j \in 1..n : i < j => buffer[i].last < buffer[j].last
    BY DEF OrderedRanges
  <1>2. /\ buffer' \in Seq(Ranges(h, book)) /\ Len(buffer') = n + 1
        /\ \A i \in 1..n : buffer'[i] = buffer[i]
        /\ buffer'[n + 1] = f
    BY <1>1, AppendProperties
  <1>3. f.last \in Nat /\ \A i \in 1..n : buffer[i].last \in Nat
    BY <1>1, FrameFields DEF Ranges, Truthful
  <1>4. \A i \in 1..n : buffer[i].last < f.last
    <2> SUFFICES ASSUME NEW i \in 1..n PROVE buffer[i].last < f.last
      OBVIOUS
    <2>1. buffer # <<>> /\ n \in 1..n
      BY <1>1
    <2>2. f.last > buffer[n].last
      BY <2>1 DEF App!Reference
    <2>3. i = n \/ buffer[i].last < buffer[n].last
      BY <1>1, <2>1
    <2>4. QED
      BY <1>3, <2>1, <2>2, <2>3
  <1> HIDE DEF n
  <1>5. ASSUME NEW i \in 1..n + 1, NEW j \in 1..n + 1, i < j
        PROVE  buffer'[i].last < buffer'[j].last
    <2>1. i \in 1..n /\ (j \in 1..n \/ j = n + 1)
      BY <1>1, <1>5
    <2>2. QED
      BY <1>1, <1>2, <1>4, <1>5, <2>1
  <1>6. QED
    BY <1>2, <1>5 DEF OrderedRanges

\* What a live, pure book shows after an exact range that starts right behind it.
LEMMA AppliedTrue ==
    ASSUME NEW h \in Past, ShownTrue(h), state = "live", pure, NEW f \in Ranges(h, book), f.exact,
           f.epoch = epoch, f.first = applied + 1
    PROVE  App!Overlay(view, f.levels) = h[epoch][f.last] /\ f.truth = h[epoch][f.last]
  <1>1. /\ epoch \in Nat /\ applied \in Nat /\ view = h[epoch][applied]
        /\ f \in Frames /\ f.last \in Nat /\ f.truth = h[epoch][f.last]
    BY FrameFields DEF ShownTrue, Ranges, Truthful
  <1>2. h[epoch][f.last] \in [Prices -> Quantities]
    BY <1>1, PastLevels DEF Levels
  <1>3. ASSUME NEW p \in Prices
        PROVE  (IF p \in DOMAIN f.levels THEN f.levels[p] ELSE view[p]) = h[epoch][f.last][p]
    BY <1>1, RangeAtPrice
  <1>4. h[epoch][f.last] = [p \in Prices |-> h[epoch][f.last][p]]
    BY <1>2
  <1>5. App!Overlay(view, f.levels) = [p \in Prices |-> h[epoch][f.last][p]]
    BY <1>3 DEF App!Overlay
  <1>6. QED
    BY <1>1, <1>4, <1>5

\* A handler runs.
LEMMA HandlerTrue ==
    ASSUME IInv, NEW h \in Past, ReceivedTrue(h), ShownTrue(h), App!HandleEvent, book' = book,
           replies' = NoReply \/ replies' = replies
    PROVE  ReceivedTrue(h)' /\ ShownTrue(h)'
  <1> DEFINE R == Ranges(h, book)
             f == App!Head1
  <1>0. book \in Stamped /\ OrderedRanges(h) /\ cache \in Seq(Images(h, book))
    BY BookReached DEF ReceivedTrue, OrderedRanges
  <1>1. inbox' \in Seq(Mail(h, book))
    BY Taken DEF App!HandleEvent, App!HandleStarted, App!HandleRetry, App!HandleLost, App!DropSnapshot,
       App!HandleSnapshot, App!DeltaOtherEpoch, App!DeltaIgnored, App!DeltaApplied, App!DeltaGap,
       App!DeltaBuffered
  <1>2. replies' \in [Loads -> Seq(Images(h, book))]
    <2>1. replies \in [Loads -> Seq(Images(h, book))]
      BY DEF ReceivedTrue
    <2>2. NoReply \in [Loads -> Seq(Images(h, book))]
      BY EmptySeq DEF NoReply
    <2>3. QED
      BY <2>1, <2>2
  <1>3. cache' = cache
    BY DEF App!HandleEvent, App!HandleStarted, App!HandleRetry, App!HandleLost, App!DropSnapshot,
       App!HandleSnapshot, App!DeltaOtherEpoch, App!DeltaIgnored, App!DeltaApplied, App!DeltaGap,
       App!DeltaBuffered
  <1>4. SUFFICES OrderedRanges(h)' /\ ShownTrue(h)'
    BY <1>0, <1>1, <1>2, <1>3 DEF ReceivedTrue, OrderedRanges
  <1>5. <<>> \in Seq(R) /\ Len(<<>>) <= 1
    OBVIOUS
  <1>6. ASSUME f \in R PROVE <<f>> \in Seq(R) /\ Len(<<f>>) <= 1
    <2> HIDE DEF f, R
    <2>1. QED
      BY <1>6
  <1>7. CASE App!HandleStarted \/ App!HandleRetry \/ App!DeltaOtherEpoch
    <2>1. buffer' = <<>> /\ state' = "syncing"
      BY <1>7 DEF App!HandleStarted, App!HandleRetry, App!DeltaOtherEpoch, App!ResetTo
    <2>2. QED
      BY <1>5, <2>1, ShortBuffer DEF ShownTrue
  <1>8. CASE App!HandleLost
    <2>1. buffer' = buffer /\ state' = "stale"
      BY <1>8 DEF App!HandleLost
    <2>2. QED
      BY <1>0, <2>1 DEF OrderedRanges, ShownTrue
  <1>9. CASE App!DropSnapshot \/ App!DeltaIgnored
    <2>1. UNCHANGED <<buffer, state, pure, epoch, applied, goal, view>>
      BY <1>9 DEF App!DropSnapshot, App!DeltaIgnored, App!sync
    <2>2. QED
      BY <1>0, <2>1 DEF OrderedRanges, ShownTrue
  <1>10. CASE App!HandleSnapshot
    <2>1. App!Install(f) /\ f \in Images(h, book)
      BY <1>10, Taken DEF App!HandleSnapshot
    <2>2. buffer' = <<>>
      BY <2>1 DEF App!Install, App!BeginRecovery
    <2>3. OrderedRanges(h)'
      BY <1>5, <2>2, ShortBuffer
    <2>4. ASSUME state' = "live", pure'
          PROVE  /\ epoch' \in Nat /\ applied' \in Nat /\ Reached(epoch', applied', book)
                 /\ goal' = h[epoch'][applied'] /\ view' = goal'
      <3> DEFINE n == IF App!Drained(f) = {} THEN f.last ELSE buffer[App!LastOf(App!Drained(f))].last
      <3>1. f.exact /\ \A i \in App!Drained(f) :
              buffer[i].exact /\ buffer[i].epoch = f.epoch /\ buffer[i].first = App!Before(f, i) + 1
        BY <2>1, <2>4, Zenon DEF App!Install
      <3>2. epoch' = f.epoch /\ view' = App!DrainedLevels(f) /\ applied' = n
        BY <2>1 DEF App!Install
      <3>3. n \in Nat /\ Reached(f.epoch, n, book) /\ App!DrainedLevels(f) = h[f.epoch][n]
        <4>1. n = IF App!Drained(f) = {} THEN f.last ELSE buffer[App!LastOf(App!Drained(f))].last
          OBVIOUS
        <4> HIDE DEF n, f
        <4>2. QED
          BY <1>0, <2>1, <3>1, <4>1, DrainTrue
      <3>4. f.epoch \in Nat /\ f.truth = h[f.epoch][f.last]
        BY <2>1, FrameFields DEF Images, Truthful
      <3>5. goal' = h[f.epoch][n]
        <4>1. CASE App!Drained(f) = {}
          BY <2>1, <3>4, <4>1 DEF App!Install
        <4>2. CASE App!Drained(f) # {}
          <5> DEFINE m == App!LastOf(App!Drained(f))
          <5>1. goal' = buffer[m].truth /\ n = buffer[m].last
            BY <2>1, <4>2 DEF App!Install
          <5>2. m \in App!Drained(f) /\ m \in 1..Len(buffer)
            <6>1. Len(buffer) \in Nat /\ App!Drained(f) \subseteq 1..Len(buffer)
              BY <1>0, <2>1, DrainOrder
            <6>2. QED
              BY <4>2, <6>1, LastPosition
          <5>3. buffer[m] \in Ranges(h, book)
            BY <1>0, <2>1, <5>2, DrainOrder
          <5>4. buffer[m].truth = h[f.epoch][buffer[m].last]
            BY <3>1, <5>2, <5>3 DEF Ranges, Truthful
          <5>5. QED
            BY <5>1, <5>4
        <4>3. QED
          BY <4>1, <4>2
      <3> HIDE DEF n
      <3>6. QED
        BY <3>2, <3>3, <3>4, <3>5
    <2>5. QED
      BY <2>3, <2>4 DEF ShownTrue
  <1>11. CASE App!DeltaApplied
    <2>1. /\ f \in R /\ state = "live" /\ f.epoch = epoch /\ epoch' = epoch
          /\ view' = App!Overlay(view, f.levels) /\ applied' = f.last /\ goal' = f.truth
          /\ buffer' = buffer
      BY <1>11, Taken DEF App!DeltaApplied, App!Fits
    <2>2. pure' => pure /\ f.exact /\ f.first = applied + 1
      BY <1>11, Zenon DEF App!DeltaApplied
    <2>3. OrderedRanges(h)'
      BY <1>0, <2>1 DEF OrderedRanges
    <2>4. f.last \in Nat /\ f.epoch \in Nat /\ Reached(f.epoch, f.last, book)
      BY <2>1, FrameFields DEF Ranges, Truthful
    <2>5. pure' => goal' = h[epoch'][applied'] /\ view' = goal'
      BY <2>1, <2>2, AppliedTrue
    <2>6. QED
      BY <2>1, <2>3, <2>4, <2>5 DEF ShownTrue
  <1>12. CASE App!DeltaGap
    <2>1. f \in R /\ buffer' = <<f>> /\ state' # "live"
      BY <1>12, Taken DEF App!DeltaGap, App!BeginRecovery
    <2>2. OrderedRanges(h)'
      BY <1>6, <2>1, ShortBuffer
    <2>3. QED
      BY <2>1, <2>2 DEF ShownTrue
  <1>13. CASE App!DeltaBuffered
    <2>1. f \in R /\ f.last > App!Reference /\ state # "live"
      BY <1>13, Taken DEF App!DeltaBuffered, App!Fits
    <2>2. \/ buffer' = Append(buffer, f) /\ state' = state
          \/ buffer' = <<>> /\ state' # "live"
      BY <1>13 DEF App!DeltaBuffered, App!BeginRecovery
    <2>3. OrderedRanges(h)'
      BY <1>0, <1>5, <2>1, <2>2, ShortBuffer, LongerBuffer
    <2>4. QED
      BY <2>1, <2>2, <2>3 DEF ShownTrue
  <1>14. QED
    BY <1>7, <1>8, <1>9, <1>10, <1>11, <1>12, <1>13 DEF App!HandleEvent

--------------------------------------------------------------------------------
(* The system. *)

LEMMA InitFeed == BootEpoch = 0 /\ FeedInit => FeedInv
  <1> SUFFICES ASSUME BootEpoch = 0, FeedInit PROVE FeedInv
    OBVIOUS
  <1>1. IInv
    BY InitIInv DEF FeedInit
  <1> DEFINE w == Window(book.levels)
             h == [e \in Nat |-> [i \in Nat |-> w]]
  <1>2. h \in Past
    BY <1>1, BookReached DEF Past
  <1>3. h[book.epoch][book.id] = w
    BY <1>1, BookReached
  <1>4. /\ captured = <<>> /\ mailbox = <<>> /\ outbound = <<>> /\ held = <<>>
        /\ win = Nothing /\ ~based
    BY DEF FeedInit, Init
  <1>5. /\ inbox = <<>> /\ cache = <<>> /\ buffer = <<>> /\ state = "initialLoading"
        /\ replies = [k \in Loads |-> <<>>]
    BY DEF FeedInit, App!Init, NoReply
  <1> HIDE DEF h
  <1>6. ServerTrue(h)
    BY <1>3, <1>4, EmptySeq DEF ServerTrue
  <1>7. ReceivedTrue(h)
    <2>1. \A S : <<>> \in Seq(S) /\ ~ \E i \in 1..Len(<<>>) : TRUE
      OBVIOUS
    <2>2. replies \in [Loads -> Seq(Images(h, book))]
      BY <1>5, <2>1
    <2>3. QED
      BY <1>5, <2>1, <2>2 DEF ReceivedTrue
  <1>8. ShownTrue(h)
    BY <1>5 DEF ShownTrue
  <1>9. QED
    BY <1>1, <1>2, <1>6, <1>7, <1>8 DEF FeedInv, Faithful

\* Every step of the feed is a step of the server or leaves the server alone.
LEMMA ServerMoves == [FeedNext]_feedVars => [Next]_vars
  BY DEF FeedNext, feedVars, ServerStep, Frame, Drop, User, Handler, OrderBook, LoadEnds, Next

LEMMA NextFeed == FeedInv /\ [FeedNext]_feedVars => FeedInv'
  <1> SUFFICES ASSUME FeedInv, [FeedNext]_feedVars PROVE FeedInv'
    OBVIOUS
  <1>1. IInv /\ IInv'
    BY ServerMoves, NextIInv DEF FeedInv
  <1>2. PICK h \in Past : Faithful(h)
    BY DEF FeedInv
  <1>3. ServerTrue(h) /\ ReceivedTrue(h) /\ ShownTrue(h) /\ book \in Stamped
    BY <1>1, <1>2, BookReached DEF Faithful
  <1>4. SUFFICES \E g \in Past : Faithful(g)'
    BY <1>1 DEF FeedInv
  <1>5. \A e, i \in Nat : Reached(e, i, book) => h[e][i] = h[e][i] /\ Reached(e, i, book)
    OBVIOUS
  <1>6. CASE ServerStep /\ (Mutate \/ Reset)
    BY <1>1, <1>2, <1>6, EngineMoves DEF ServerStep
  <1>7. CASE \/ ServerStep /\ ~ (Mutate \/ Reset)
             \/ (Write \/ Reconnect) /\ UNCHANGED <<app, replies>>
             \/ UNCHANGED feedVars
    <2>1. /\ Publish \/ ApplyFaults \/ DeliveryNext \/ Reconnect \/ Write \/ UNCHANGED vars
          /\ UNCHANGED <<app, replies>>
      BY <1>7 DEF ServerStep, EngineNext, feedVars
    <2>2. ServerTrue(h)' /\ book' = book
      BY <1>1, <1>3, <2>1, SessionKeeps
    <2>3. book.epoch <= book'.epoch
      BY <1>1, <2>2, BookReached
    <2>4. ReceivedTrue(h)' /\ ShownTrue(h)'
      BY <1>3, <1>5, <2>1, <2>2, <2>3, AppKeepsUp
    <2>5. QED
      BY <2>2, <2>4 DEF Faithful
  <1>8. CASE \/ Write /\ App!Receive(Head(outbound)) /\ UNCHANGED replies
             \/ Reconnect /\ App!Signal("lost", 0) /\ UNCHANGED replies
             \/ User
    <2>1. /\ Reconnect \/ Write \/ UNCHANGED vars
          /\ \/ outbound # <<>> /\ App!Receive(Head(outbound))
             \/ App!Signal("lost", 0) \/ App!Signal("started", engineEpoch) \/ App!Signal("retry", 0)
          /\ UNCHANGED replies
      BY <1>8 DEF User, Write
    <2>2. ServerTrue(h)' /\ book' = book
      BY <1>1, <1>3, <2>1, SessionKeeps
    <2>3. ReceivedTrue(h)' /\ ShownTrue(h)'
      BY <1>1, <1>3, <2>1, <2>2, SignalsTrue
    <2>4. QED
      BY <2>2, <2>3 DEF Faithful
  <1>9. CASE Handler
    <2>1. App!HandleEvent /\ UNCHANGED vars /\ (replies' = NoReply \/ replies' = replies)
      BY <1>9 DEF Handler
    <2>2. ServerTrue(h)' /\ book' = book
      BY <1>1, <1>3, <2>1, SessionKeeps
    <2>3. ReceivedTrue(h)' /\ ShownTrue(h)'
      BY <1>1, <1>3, <2>1, <2>2, HandlerTrue
    <2>4. QED
      BY <2>2, <2>3 DEF Faithful
  <1>10. CASE \E k \in Loads : OrderBook(k) \/ LoadEnds(k)
    <2>1. ServerTrue(h)' /\ ReceivedTrue(h)' /\ ShownTrue(h)'
      BY <1>1, <1>3, <1>10, ReplyTrue, LoadTrue
    <2>2. QED
      BY <2>1 DEF Faithful
  <1>11. QED
    BY <1>6, <1>7, <1>8, <1>9, <1>10 DEF FeedNext, Frame, Drop

LEMMA SpecFeed == BootEpoch = 0 /\ FeedSpec => []FeedInv
  BY InitFeed, NextFeed, PTL DEF FeedSpec

\* A live book in the app is exactly the engine's window at the update id it
\* reports, whatever the order of frames, answers, losses, retries and resets,
\* unless it was built with one of the three suspect inputs.
THEOREM LiveIsExact == BootEpoch = 0 /\ FeedSpec => []LiveExact
  <1>1. FeedInv => LiveExact
    BY DEF FeedInv, Faithful, ShownTrue, LiveExact
  <1>2. QED
    BY <1>1, SpecFeed, PTL

--------------------------------------------------------------------------------
(* The position the app reports. *)

Position == epoch \in Nat /\ applied \in Nat /\ Reached(epoch, applied, book)

\* Every range drained onto the image is of its epoch.
SameEpoch == App!HandleSnapshot => \A i \in App!Drained(App!Head1) : buffer[i].epoch = App!Head1.epoch

\* Without a reset all epochs are the first.
LEMMA OneEpoch ==
    ASSUME BootEpoch = 0, FeedInv, book.epoch = 0
    PROVE  SameEpoch
  <1> SUFFICES ASSUME App!HandleSnapshot, NEW i \in App!Drained(App!Head1)
               PROVE  buffer[i].epoch = App!Head1.epoch
    BY DEF SameEpoch
  <1> DEFINE f == App!Head1
  <1>1. PICK h \in Past : ReceivedTrue(h)
    BY DEF FeedInv, Faithful
  <1>2. OrderedRanges(h) /\ f \in Images(h, book)
    BY <1>1, Taken DEF ReceivedTrue, OrderedRanges, App!HandleSnapshot
  <1>3. buffer[i] \in Ranges(h, book)
    BY <1>2, DrainOrder
  <1>4. /\ f.epoch \in Nat /\ Reached(f.epoch, f.last, book)
        /\ buffer[i].epoch \in Nat /\ Reached(buffer[i].epoch, buffer[i].last, book)
    BY <1>2, <1>3, FrameFields DEF Images, Ranges, Truthful
  <1>5. f.epoch = 0 /\ buffer[i].epoch = 0
    BY <1>4 DEF Reached
  <1>6. QED
    BY <1>5

\* Where handlers take the position.
LEMMA HandlerPosition ==
    ASSUME FeedInv, Position, App!HandleEvent, SameEpoch, book' = book
    PROVE  Position'
  <1> DEFINE f == App!Head1
  <1>1. PICK h \in Past : ReceivedTrue(h)
    BY DEF FeedInv, Faithful
  <1>2. book.epoch \in Nat /\ book.id \in Nat
    BY BookReached DEF FeedInv
  <1>3. CASE App!HandleStarted
    <2>1. epoch' = f.epoch /\ applied' = 0 /\ f \in Frames /\ f.epoch <= book.epoch
      BY <1>1, <1>3, Taken DEF App!HandleStarted
    <2>2. f.epoch \in Nat
      BY <2>1, FrameFields
    <2>3. QED
      BY <1>2, <2>1, <2>2 DEF Position, Reached
  <1>4. CASE App!HandleRetry
    <2>1. epoch' = epoch /\ applied' = 0
      BY <1>4 DEF App!HandleRetry, App!ResetTo
    <2>2. QED
      BY <1>2, <2>1 DEF Position, Reached
  <1>5. CASE App!DeltaOtherEpoch
    <2>1. epoch' = f.epoch /\ applied' = 0 /\ f \in Ranges(h, book)
      BY <1>1, <1>5, Taken DEF App!DeltaOtherEpoch, App!ResetTo
    <2>2. f.epoch \in Nat /\ f.last \in Nat /\ Reached(f.epoch, f.last, book)
      BY <2>1, FrameFields DEF Ranges, Truthful
    <2>3. QED
      BY <1>2, <2>1, <2>2 DEF Position, Reached
  <1>6. CASE App!DeltaApplied
    <2>1. epoch' = epoch /\ f.epoch = epoch /\ applied' = f.last /\ f \in Ranges(h, book)
      BY <1>1, <1>6, Taken DEF App!DeltaApplied, App!Fits
    <2>2. f.epoch \in Nat /\ f.last \in Nat /\ Reached(f.epoch, f.last, book)
      BY <2>1, FrameFields DEF Ranges, Truthful
    <2>3. QED
      BY <2>1, <2>2 DEF Position
  <1>7. CASE App!HandleSnapshot
    <2> DEFINE m == App!LastOf(App!Drained(f))
    <2>1. /\ f \in Images(h, book) /\ OrderedRanges(h) /\ epoch' = f.epoch
          /\ applied' = IF App!Drained(f) = {} THEN f.last ELSE buffer[m].last
      BY <1>1, <1>7, Taken DEF App!HandleSnapshot, App!Install, ReceivedTrue, OrderedRanges
    <2>2. f.epoch \in Nat /\ f.last \in Nat /\ Reached(f.epoch, f.last, book)
      BY <2>1, FrameFields DEF Images, Truthful
    <2>3. CASE App!Drained(f) = {}
      BY <2>1, <2>2, <2>3 DEF Position
    <2>4. CASE App!Drained(f) # {}
      <3>1. /\ Len(buffer) \in Nat /\ App!Drained(f) \subseteq 1..Len(buffer)
            /\ \A i \in 1..Len(buffer) : buffer[i] \in Ranges(h, book)
        BY <2>1, DrainOrder
      <3>2. m \in App!Drained(f)
        BY <2>4, <3>1, LastPosition
      <3>3. buffer[m] \in Ranges(h, book) /\ buffer[m].epoch = f.epoch
        BY <1>7, <3>1, <3>2 DEF SameEpoch
      <3>4. buffer[m].last \in Nat /\ Reached(f.epoch, buffer[m].last, book)
        BY <3>3, FrameFields DEF Ranges, Truthful
      <3>5. QED
        BY <2>1, <2>2, <2>4, <3>4 DEF Position
    <2>5. QED
      BY <2>3, <2>4
  <1>8. CASE App!HandleLost \/ App!DropSnapshot \/ App!DeltaIgnored \/ App!DeltaGap \/ App!DeltaBuffered
    <2>1. epoch' = epoch /\ applied' = applied
      BY <1>8 DEF App!HandleLost, App!DropSnapshot, App!DeltaIgnored, App!DeltaGap, App!DeltaBuffered,
         App!sync
    <2>2. QED
      BY <2>1 DEF Position
  <1>9. QED
    BY <1>3, <1>4, <1>5, <1>6, <1>7, <1>8 DEF App!HandleEvent

LEMMA NextPosition ==
    ASSUME FeedInv, FeedInv', Position, [FeedNext]_feedVars, [SameEpoch]_(App!vars)
    PROVE  Position'
  <1>1. CASE Handler
    <2>1. App!HandleEvent /\ book' = book
      BY <1>1 DEF Handler, vars, engine
    <2>2. CASE UNCHANGED App!vars
      BY <2>1, <2>2 DEF Position, App!vars, App!sync
    <2>3. CASE SameEpoch
      BY <2>1, <2>3, HandlerPosition
    <2>4. QED
      BY <2>2, <2>3
  <1>2. CASE ~Handler
    <2>1. epoch' = epoch /\ applied' = applied
      BY <1>2 DEF FeedNext, feedVars, app, ServerStep, Frame, Drop, User, OrderBook, LoadEnds,
         App!Receive, App!Signal, App!AnswerFresh, App!AnswerCached, App!AnswerFailed, App!sync
    <2>2. NotAfter(book, book') /\ book \in Stamped /\ book' \in Stamped
      <3>1. IInv /\ IInv' /\ [Next]_vars
        BY ServerMoves DEF FeedInv
      <3>2. book \in Stamped /\ book' \in Stamped /\ book.epoch \in Nat /\ book.id \in Nat
            /\ book.epoch = engineEpoch
        BY <3>1, StampFields DEF IInv, EngineInv, EngineOK, EpochInStep
      <3>3. CASE Mutate
        <4>1. book'.epoch = book.epoch /\ book'.id = book.id + 1
          BY <3>2, <3>3 DEF Mutate, Stamped
        <4>2. QED
          BY <3>2, <4>1 DEF NotAfter
      <3>4. CASE Reset
        <4>1. book'.epoch = engineEpoch + 1
          BY <3>2, <3>4 DEF Reset, Stamped
        <4>2. QED
          BY <3>2, <4>1 DEF NotAfter
      <3>5. CASE ~Mutate /\ ~Reset
        <4>1. book' = book
          BY <3>1, <3>5, OthersShrink DEF Next, EngineNext, Publish, MailboxShrinks, engine
        <4>2. QED
          BY <3>2, <4>1 DEF NotAfter
      <3>6. QED
        BY <3>2, <3>3, <3>4, <3>5
    <2>3. book.epoch \in Nat /\ book.id \in Nat /\ book'.epoch \in Nat /\ book'.id \in Nat
      BY <2>2, StampFields
    <2>4. QED
      BY <2>1, <2>2, <2>3 DEF Position, NotAfter, Reached
  <1>3. QED
    BY <1>1, <1>2

LEMMA InitPosition == FeedInv /\ FeedInit => Position
  BY BookReached DEF FeedInv, FeedInit, App!Init, Position, Reached

\* The app reports an update the engine has not made only if ranges of another
\* epoch are drained onto an image: where a fresh snapshot discards them, as the
\* comment of _handleConnectionLost has it, the app is never ahead.
THEOREM NeverAhead == BootEpoch = 0 /\ FeedSpec /\ OldEpochDiscarded => []NotAhead
  <1>1. FeedInv /\ FeedInv' /\ Position /\ [FeedNext]_feedVars /\ [SameEpoch]_(App!vars) => Position'
    BY NextPosition
  <1>2. Position => NotAhead
    <2> SUFFICES ASSUME Position, epoch = book.epoch PROVE applied <= book.id
      BY DEF NotAhead
    <2>1. QED
      BY DEF Position, Reached
  <1>3. QED
    BY <1>1, <1>2, InitPosition, SpecFeed, PTL DEF FeedSpec, OldEpochDiscarded, App!DrainKeepsEpoch, SameEpoch

\* As long as the market is not reset, the app is never ahead of the engine.
THEOREM NeverAheadUnreset == BootEpoch = 0 /\ MaxEpoch = 0 /\ FeedSpec => []NotAhead
  <1> SUFFICES ASSUME BootEpoch = 0, MaxEpoch = 0 PROVE FeedSpec => []NotAhead
    OBVIOUS
  <1>1. FeedInit => engineEpoch = 0
    BY DEF FeedInit, Init
  <1>2. engineEpoch = 0 /\ [FeedNext]_feedVars => (engineEpoch = 0)'
    <2> SUFFICES ASSUME engineEpoch = 0, [Next]_vars PROVE engineEpoch' = 0
      BY ServerMoves
    <2>1. ~Reset
      BY DEF Reset
    <2>2. QED
      BY <2>1, OthersShrink DEF Next, EngineNext, Mutate, Publish, MailboxShrinks, engine
  <1>3. FeedInv /\ engineEpoch = 0 => SameEpoch
    <2> SUFFICES ASSUME FeedInv, engineEpoch = 0 PROVE SameEpoch
      OBVIOUS
    <2>1. book.epoch = 0
      BY DEF FeedInv, IInv, EngineInv, EpochInStep
    <2>2. QED
      BY <2>1, OneEpoch
  <1>4. FeedSpec => []FeedInv
    BY SpecFeed
  <1>5. FeedSpec /\ OldEpochDiscarded => []NotAhead
    BY NeverAhead
  <1>6. QED
    BY <1>1, <1>2, <1>3, <1>4, <1>5, PTL DEF FeedSpec, OldEpochDiscarded, App!DrainKeepsEpoch, SameEpoch
================================================================================
