--------------------------- MODULE MetricsStoreProofs --------------------------
(***************************************************************************)
(* Proofs about MetricsStore, for every set of producers and callers, every *)
(* capacity, batch size and drain limit, and every number of records.      *)
(***************************************************************************)
EXTENDS MetricsStore, SequenceTheorems, FiniteSetTheorems, TLAPS

Records == 1..MaxRecords

--------------------------------------------------------------------------------
(* Sequences of records: what is in them, and that they are in order. *)

Sorted(s) == \A i, j \in 1..Len(s) : i < j => s[i] < s[j]
Below(S, T) == \A x \in S, y \in T : x < y

LEMMA RowsRange ==
    ASSUME NEW S, NEW s \in Seq(S)
    PROVE  Rows(s) = {s[i] : i \in 1..Len(s)} /\ Rows(s) \subseteq S
  BY DEF Rows

LEMMA RowsEmpty == Rows(<<>>) = {} /\ Sorted(<<>>)
  BY DEF Rows, Sorted

LEMMA SomeRow ==
    ASSUME NEW S, NEW s \in Seq(S), s # <<>>
    PROVE  s[1] \in Rows(s)
  <1>1. 1 \in 1..Len(s)
    OBVIOUS
  <1>2. QED
    BY <1>1, RowsRange

\* Records behind records: the rows of both, in order if both are and one is older.
LEMMA ConcatRows ==
    ASSUME NEW s \in Seq(Records), NEW t \in Seq(Records)
    PROVE  /\ s \o t \in Seq(Records)
           /\ Rows(s \o t) = Rows(s) \cup Rows(t)
           /\ Sorted(s) /\ Sorted(t) /\ Below(Rows(s), Rows(t)) => Sorted(s \o t)
  <1> DEFINE u == s \o t
  <1>1. /\ u \in Seq(Records) /\ Len(u) = Len(s) + Len(t)
        /\ \A i \in 1..Len(s) + Len(t) : u[i] = IF i <= Len(s) THEN s[i] ELSE t[i - Len(s)]
    BY ConcatProperties
  <1>2. Len(s) \in Nat /\ Len(t) \in Nat
    OBVIOUS
  <1> HIDE DEF u
  <1>3. \A i \in 1..Len(u) : (i \in 1..Len(s) /\ u[i] = s[i]) \/ (i - Len(s) \in 1..Len(t) /\ u[i] = t[i - Len(s)])
    BY <1>1, <1>2
  <1>4. \A i \in 1..Len(s) : i \in 1..Len(u) /\ u[i] = s[i]
    BY <1>1, <1>2
  <1>5. \A i \in 1..Len(t) : i + Len(s) \in 1..Len(u) /\ u[i + Len(s)] = t[i]
    BY <1>1, <1>2
  <1>6. Rows(u) = Rows(s) \cup Rows(t)
    <2>1. Rows(u) = {u[i] : i \in 1..Len(u)} /\ Rows(s) = {s[i] : i \in 1..Len(s)}
            /\ Rows(t) = {t[i] : i \in 1..Len(t)}
      BY <1>1, RowsRange
    <2>2. QED
      BY <2>1, <1>3, <1>4, <1>5
  <1>7. ASSUME Sorted(s), Sorted(t), Below(Rows(s), Rows(t)), NEW i \in 1..Len(u), NEW j \in 1..Len(u), i < j
        PROVE  u[i] < u[j]
    <2>1. CASE j <= Len(s)
      BY <1>1, <1>2, <1>7, <2>1 DEF Sorted
    <2>2. CASE i > Len(s)
      <3>1. /\ i - Len(s) \in 1..Len(t) /\ j - Len(s) \in 1..Len(t) /\ i - Len(s) < j - Len(s)
            /\ u[i] = t[i - Len(s)] /\ u[j] = t[j - Len(s)]
        BY <1>1, <1>2, <1>7, <2>2
      <3>2. QED
        BY <1>7, <3>1 DEF Sorted
    <2>3. CASE i <= Len(s) /\ j > Len(s)
      <3>1. i \in 1..Len(s) /\ j - Len(s) \in 1..Len(t) /\ u[i] = s[i] /\ u[j] = t[j - Len(s)]
        BY <1>1, <1>2, <2>3
      <3>2. s[i] \in Rows(s) /\ t[j - Len(s)] \in Rows(t)
        BY <3>1, RowsRange
      <3>3. QED
        BY <1>7, <3>1, <3>2 DEF Below
    <2>4. QED
      BY <1>2, <2>1, <2>2, <2>3
  <1>8. QED
    BY <1>1, <1>6, <1>7 DEF u, Sorted

\* Cutting a sequence in two.
LEMMA SplitRows ==
    ASSUME NEW s \in Seq(Records), NEW n \in 0..Len(s)
    PROVE  LET a == SubSeq(s, 1, n)
               b == SubSeq(s, n + 1, Len(s))
           IN  /\ a \in Seq(Records) /\ b \in Seq(Records) /\ Len(a) = n /\ Len(b) = Len(s) - n
               /\ Rows(s) = Rows(a) \cup Rows(b)
               /\ Sorted(s) => Sorted(a) /\ Sorted(b) /\ Below(Rows(a), Rows(b))
  <1> DEFINE a == SubSeq(s, 1, n)
             b == SubSeq(s, n + 1, Len(s))
  <1>1. Len(s) \in Nat /\ n \in Nat /\ n <= Len(s) /\ \A i \in 1..Len(s) : s[i] \in Records
    OBVIOUS
  <1>2. /\ a \in Seq(Records) /\ Len(a) = n /\ \A i \in 1..n : a[i] = s[i]
    BY <1>1, SubSeqProperties
  <1>3. /\ b \in Seq(Records) /\ Len(b) = Len(s) - n /\ \A i \in 1..Len(s) - n : b[i] = s[n + i]
    BY <1>1, SubSeqProperties
  <1> HIDE DEF a, b
  <1>4. Rows(a) = {s[i] : i \in 1..n}
    BY <1>2, RowsRange
  <1>5. Rows(b) = {s[i] : i \in n + 1..Len(s)}
    <2>1. Rows(b) = {b[i] : i \in 1..Len(s) - n}
      BY <1>3, RowsRange
    <2>2. \A i \in 1..Len(s) - n : n + i \in n + 1..Len(s) /\ b[i] = s[n + i]
      BY <1>1, <1>3
    <2>3. \A i \in n + 1..Len(s) : i - n \in 1..Len(s) - n /\ b[i - n] = s[i]
      BY <1>1, <1>3
    <2>4. \A i \in 1..Len(s) - n : b[i] \in {s[k] : k \in n + 1..Len(s)}
      BY <2>2
    <2>5. \A i \in n + 1..Len(s) : s[i] \in {b[k] : k \in 1..Len(s) - n}
      BY <2>3
    <2>6. QED
      BY <2>1, <2>4, <2>5
  <1>6. Rows(s) = Rows(a) \cup Rows(b)
    <2>1. Rows(s) = {s[i] : i \in 1..Len(s)}
      BY RowsRange
    <2>2. \A i \in 1..Len(s) : i \in 1..n \/ i \in n + 1..Len(s)
      BY <1>1
    <2>3. \A i \in 1..n \cup n + 1..Len(s) : i \in 1..Len(s)
      BY <1>1
    <2>4. QED
      BY <1>4, <1>5, <2>1, <2>2, <2>3
  <1>7. Sorted(s) => Sorted(a) /\ Sorted(b)
    <2>1. \A i \in 1..n : i \in 1..Len(s)
      BY <1>1
    <2>2. \A i \in 1..Len(s) - n : n + i \in 1..Len(s) /\ b[i] = s[n + i]
      BY <1>1, <1>3
    <2>3. Sorted(s) => Sorted(a)
      BY <1>2, <2>1 DEF Sorted
    <2>4. ASSUME Sorted(s), NEW i \in 1..Len(b), NEW j \in 1..Len(b), i < j
          PROVE  b[i] < b[j]
      <3>1. n + i \in 1..Len(s) /\ n + j \in 1..Len(s) /\ n + i < n + j /\ b[i] = s[n + i] /\ b[j] = s[n + j]
        BY <1>1, <1>3, <2>2, <2>4
      <3>2. QED
        BY <2>4, <3>1 DEF Sorted
    <2>5. QED
      BY <2>3, <2>4 DEF Sorted
  <1>8. Sorted(s) => Below(Rows(a), Rows(b))
    BY <1>1, <1>4, <1>5 DEF Sorted, Below
  <1>9. QED
    BY <1>2, <1>3, <1>6, <1>7, <1>8 DEF a, b

--------------------------------------------------------------------------------
(* The ring: slots, and what Push and Drain do to its contents. *)

Slot(h, i) == (h + i - 1) % Capacity

\* A ring with slots b, head h and k records, and the records in it.
OkRing(b, h, k) ==
    /\ b \in [Slots -> 0..MaxRecords] /\ h \in Slots /\ k \in 0..Capacity
    /\ \A s \in Slots : b[s] # 0 <=> (s - h) % Capacity < k
QueueOf(b, h, k) == [i \in 1..k |-> b[Slot(h, i)]]

\* Its slots with record r put behind the k others, and with the first n taken.
Put(b, h, k, r) == [b EXCEPT ![(h + k) % Capacity] = r]
Taken(b, h, n) == [s \in Slots |-> IF (s - h) % Capacity < n THEN 0 ELSE b[s]]

LEMMA Wrap ==
    ASSUME NEW c \in Nat \ {0}
    PROVE  /\ \A a \in 0..c - 1 : a % c = a
           /\ \A a \in c..2 * c - 1 : a % c = a - c
           /\ \A a \in -c..-1 : a % c = a + c
  OBVIOUS

\* The i-th record from the head is in a slot of its own.
LEMMA SlotFacts ==
    ASSUME NEW h \in Slots
    PROVE  /\ \A i \in 1..Capacity : /\ Slot(h, i) \in Slots
                                     /\ Slot(h, i) = IF h + i - 1 < Capacity THEN h + i - 1 ELSE h + i - 1 - Capacity
                                     /\ (Slot(h, i) - h) % Capacity = i - 1
           /\ \A s \in Slots : /\ (s - h) % Capacity \in 0..Capacity - 1
                               /\ s = Slot(h, ((s - h) % Capacity) + 1)
  <1>1. Capacity \in Nat \ {0} /\ h \in 0..Capacity - 1
    BY StoreAssumption DEF Slots
  <1>2. ASSUME NEW i \in 1..Capacity
        PROVE  Slot(h, i) = IF h + i - 1 < Capacity THEN h + i - 1 ELSE h + i - 1 - Capacity
    <2>1. h + i - 1 \in 0..Capacity - 1 \/ h + i - 1 \in Capacity..2 * Capacity - 1
      BY <1>1
    <2>2. Slot(h, i) = IF h + i - 1 \in 0..Capacity - 1 THEN h + i - 1 ELSE h + i - 1 - Capacity
      BY <1>1, <2>1, Wrap DEF Slot
    <2>3. QED
      BY <1>1, <2>1, <2>2
  <1>3. \A i \in 1..Capacity : Slot(h, i) \in Slots
    BY <1>1, <1>2 DEF Slots
  <1>4. ASSUME NEW s \in Slots
        PROVE  (s - h) % Capacity = IF s >= h THEN s - h ELSE s - h + Capacity
    <2>1. s - h \in 0..Capacity - 1 \/ s - h \in -Capacity..-1
      BY <1>1 DEF Slots
    <2>2. (s - h) % Capacity = IF s - h \in 0..Capacity - 1 THEN s - h ELSE s - h + Capacity
      BY <1>1, <2>1, Wrap
    <2>3. QED
      BY <1>1, <2>1, <2>2 DEF Slots
  <1>5. ASSUME NEW i \in 1..Capacity
        PROVE  (Slot(h, i) - h) % Capacity = i - 1
    BY <1>1, <1>2, <1>3, <1>4
  <1>6. ASSUME NEW s \in Slots
        PROVE  (s - h) % Capacity \in 0..Capacity - 1 /\ s = Slot(h, ((s - h) % Capacity) + 1)
    <2>1. (s - h) % Capacity \in 0..Capacity - 1 /\ ((s - h) % Capacity) + 1 \in 1..Capacity
      BY <1>1, <1>4 DEF Slots
    <2>2. QED
      BY <1>1, <1>2, <1>4, <2>1 DEF Slots
  <1>7. QED
    BY <1>2, <1>3, <1>5, <1>6

\* With the head n slots on, the i-th record is the one that was n + i-th.
LEMMA SlotShift ==
    ASSUME NEW h \in Slots, NEW n \in 0..Capacity
    PROVE  /\ (h + n) % Capacity \in Slots
           /\ \A i \in 1..Capacity : n + i <= Capacity => Slot((h + n) % Capacity, i) = Slot(h, n + i)
  <1>1. Capacity \in Nat \ {0} /\ h \in 0..Capacity - 1
    BY StoreAssumption DEF Slots
  <1> DEFINE g == (h + n) % Capacity
  <1>2. g \in Slots /\ g = IF h + n < Capacity THEN h + n ELSE h + n - Capacity
    BY <1>1, Wrap DEF Slots
  <1> HIDE DEF g
  <1>3. ASSUME NEW i \in 1..Capacity, n + i <= Capacity
        PROVE  Slot(g, i) = Slot(h, n + i)
    <2>1. n + i \in 1..Capacity
      BY <1>1, <1>3
    <2>2. Slot(g, i) = IF g + i - 1 < Capacity THEN g + i - 1 ELSE g + i - 1 - Capacity
      BY <1>2, SlotFacts
    <2>3. Slot(h, n + i) = IF h + (n + i) - 1 < Capacity THEN h + (n + i) - 1 ELSE h + (n + i) - 1 - Capacity
      BY <2>1, SlotFacts
    <2>4. QED
      BY <1>1, <1>2, <1>3, <2>2, <2>3
  <1>4. QED
    BY <1>2, <1>3 DEF g

LEMMA RingContents ==
    ASSUME NEW b, NEW h, NEW k, OkRing(b, h, k)
    PROVE  /\ QueueOf(b, h, k) \in Seq(Records) /\ Len(QueueOf(b, h, k)) = k
           /\ \A i \in 1..k : QueueOf(b, h, k)[i] = b[Slot(h, i)] /\ b[Slot(h, i)] \in Records
  <1>1. Capacity \in Nat \ {0} /\ MaxRecords \in Nat /\ k \in 0..Capacity /\ h \in Slots
    BY StoreAssumption DEF OkRing
  <1>2. ASSUME NEW i \in 1..k
        PROVE  b[Slot(h, i)] \in Records
    <2> i \in 1..Capacity
      BY <1>1
    <2>1. Slot(h, i) \in Slots /\ (Slot(h, i) - h) % Capacity = i - 1
      BY <1>1, SlotFacts
    <2>2. b[Slot(h, i)] \in 0..MaxRecords /\ b[Slot(h, i)] # 0
      BY <1>1, <2>1 DEF OkRing
    <2>3. QED
      BY <1>1, <2>2 DEF Records
  <1>3. QueueOf(b, h, k) = [i \in 1..k |-> b[Slot(h, i)]]
    BY DEF QueueOf
  <1>4. QueueOf(b, h, k) \in [1..k -> Records]
    BY <1>2, <1>3
  <1>5. k \in Nat
    BY <1>1
  <1>6. QueueOf(b, h, k) \in Seq(Records) /\ Len(QueueOf(b, h, k)) = k
    BY <1>4, <1>5
  <1>7. QED
    BY <1>2, <1>3, <1>6

\* A record put into a ring with room is behind all the others.
LEMMA RingAppend ==
    ASSUME NEW b, NEW h, NEW k, OkRing(b, h, k), k < Capacity, NEW r \in Records
    PROVE  /\ OkRing(Put(b, h, k, r), h, k + 1)
           /\ QueueOf(Put(b, h, k, r), h, k + 1) = Append(QueueOf(b, h, k), r)
  <1> DEFINE z == Slot(h, k + 1)
             c == [b EXCEPT ![z] = r]
             q == QueueOf(b, h, k)
             w == QueueOf(c, h, k + 1)
  <1>1. /\ Capacity \in Nat \ {0} /\ MaxRecords \in Nat /\ k \in 0..Capacity - 1 /\ h \in Slots
        /\ b \in [Slots -> 0..MaxRecords] /\ r \in 0..MaxRecords /\ r # 0 /\ h \in Int
    BY StoreAssumption DEF OkRing, Records, Slots
  <1>2. z = (h + k) % Capacity
    BY <1>1 DEF Slot
  <1>3. k + 1 \in 1..Capacity /\ z \in Slots /\ (z - h) % Capacity = k
    BY <1>1, SlotFacts
  <1>4. \A i \in 1..k : i \in 1..Capacity /\ Slot(h, i) \in Slots /\ (Slot(h, i) - h) % Capacity = i - 1 /\ i - 1 # k
    BY <1>1, SlotFacts
  <1>5. \A i \in 1..k : Slot(h, i) \in Slots /\ Slot(h, i) # z
    BY <1>3, <1>4
  <1>6. OkRing(c, h, k + 1)
    <2>1. c \in [Slots -> 0..MaxRecords] /\ k + 1 \in 0..Capacity
      BY <1>1, <1>3
    <2>2. ASSUME NEW s \in Slots
          PROVE  c[s] # 0 <=> (s - h) % Capacity < k + 1
      <3>1. (s - h) % Capacity \in 0..Capacity - 1 /\ s = Slot(h, ((s - h) % Capacity) + 1)
        BY <1>1, SlotFacts
      <3>2. CASE s = z
        BY <1>1, <1>3, <3>2
      <3>3. CASE s # z
        <4>1. (s - h) % Capacity # k
          BY <3>1, <3>3
        <4>2. c[s] = b[s] /\ (b[s] # 0 <=> (s - h) % Capacity < k)
          BY <1>1, <3>3 DEF OkRing
        <4>3. QED
          BY <1>1, <3>1, <4>1, <4>2
      <3>4. QED
        BY <3>2, <3>3
    <2>3. QED
      BY <1>1, <2>1, <2>2 DEF OkRing
  <1>7. \A i \in 1..k : c[Slot(h, i)] = b[Slot(h, i)]
    BY <1>1, <1>5
  <1>8. c[z] = r
    BY <1>1, <1>3
  <1> HIDE DEF c
  <1>9. /\ q \in Seq(Records) /\ Len(q) = k /\ \A i \in 1..k : q[i] = b[Slot(h, i)]
        /\ w \in Seq(Records) /\ Len(w) = k + 1 /\ \A i \in 1..k + 1 : w[i] = c[Slot(h, i)]
    BY <1>6, RingContents
  <1> HIDE DEF q, w, z
  <1>10. /\ Append(q, r) \in Seq(Records) /\ Len(Append(q, r)) = k + 1 /\ Append(q, r)[k + 1] = r
         /\ \A i \in 1..k : Append(q, r)[i] = q[i]
    BY <1>9, AppendProperties
  <1>11. \A i \in 1..k : i \in 1..k + 1
    BY <1>1
  <1>12. \A i \in 1..k + 1 : i \in 1..k \/ i = k + 1
    BY <1>1
  <1>13. \A i \in 1..k : w[i] = Append(q, r)[i]
    BY <1>7, <1>9, <1>10, <1>11
  <1>14. w[k + 1] = Append(q, r)[k + 1]
    BY <1>1, <1>8, <1>9, <1>10 DEF z
  <1>15. w = Append(q, r)
    BY <1>9, <1>10, <1>12, <1>13, <1>14, SeqEqual
  <1>16. c = Put(b, h, k, r)
    BY <1>2 DEF c, Put
  <1>17. QED
    BY <1>6, <1>15, <1>16 DEF q, w

\* Taking n records from the ring leaves the others, in order.
LEMMA RingTake ==
    ASSUME NEW b, NEW h, NEW k, OkRing(b, h, k), NEW n \in 0..k
    PROVE  /\ OkRing(Taken(b, h, n), (h + n) % Capacity, k - n)
           /\ QueueOf(Taken(b, h, n), (h + n) % Capacity, k - n) = SubSeq(QueueOf(b, h, k), n + 1, k)
  <1> DEFINE c == [s \in Slots |-> IF (s - h) % Capacity < n THEN 0 ELSE b[s]]
             g == (h + n) % Capacity
             q == QueueOf(b, h, k)
             w == QueueOf(c, g, k - n)
  <1>1. /\ Capacity \in Nat \ {0} /\ MaxRecords \in Nat /\ k \in 0..Capacity /\ h \in Slots /\ n \in 0..Capacity
        /\ b \in [Slots -> 0..MaxRecords] /\ k - n \in 0..Capacity
    BY StoreAssumption DEF OkRing
  <1>2. g \in Slots /\ \A i \in 1..Capacity : n + i <= Capacity => Slot(g, i) = Slot(h, n + i)
    BY <1>1, SlotShift
  <1> HIDE DEF g
  <1>3. OkRing(c, g, k - n)
    <2>1. c \in [Slots -> 0..MaxRecords]
      BY <1>1
    <2>2. ASSUME NEW s \in Slots
          PROVE  c[s] # 0 <=> (s - g) % Capacity < k - n
      <3> DEFINE j == (s - h) % Capacity
      <3>1. j \in 0..Capacity - 1 /\ s = Slot(h, j + 1) /\ (b[s] # 0 <=> j < k) /\ c[s] = IF j < n THEN 0 ELSE b[s]
        BY <1>1, SlotFacts DEF OkRing
      <3> HIDE DEF j
      <3>2. CASE j >= n
        <4>1. j - n + 1 \in 1..Capacity /\ n + (j - n + 1) <= Capacity /\ n + (j - n + 1) = j + 1
          BY <1>1, <3>1, <3>2
        <4>2. s = Slot(g, j - n + 1)
          BY <1>2, <3>1, <4>1
        <4>3. (s - g) % Capacity = j - n
          <5>1. (Slot(g, j - n + 1) - g) % Capacity = (j - n + 1) - 1
            BY <1>2, <4>1, SlotFacts
          <5>2. QED
            BY <1>1, <3>1, <4>2, <5>1
        <4>4. QED
          BY <1>1, <3>1, <3>2, <4>3
      <3>3. CASE j < n
        <4> DEFINE i == (s - g) % Capacity
        <4>1. i \in 0..Capacity - 1 /\ s = Slot(g, i + 1)
          BY <1>2, SlotFacts
        <4> HIDE DEF i
        <4>2. ASSUME i < k - n
              PROVE  FALSE
          <5>1. i + 1 \in 1..Capacity /\ n + (i + 1) <= Capacity /\ n + (i + 1) \in 1..Capacity
            BY <1>1, <4>1, <4>2
          <5>2. s = Slot(h, n + (i + 1))
            BY <1>2, <4>1, <5>1
          <5>3. j = n + (i + 1) - 1
            BY <1>1, <5>1, <5>2, SlotFacts DEF j
          <5>4. QED
            BY <1>1, <3>1, <3>3, <4>1, <5>3
        <4>3. c[s] = 0
          BY <3>1, <3>3
        <4>4. QED
          BY <4>2, <4>3 DEF i
      <3>4. QED
        BY <1>1, <3>1, <3>2, <3>3
    <2>3. QED
      BY <1>1, <1>2, <2>1, <2>2 DEF OkRing
  <1>4. ASSUME NEW i \in 1..k - n
        PROVE  c[Slot(g, i)] = b[Slot(h, n + i)]
    <2>1. i \in 1..Capacity /\ n + i <= Capacity /\ n + i \in 1..Capacity
      BY <1>1
    <2>2. Slot(g, i) = Slot(h, n + i)
      BY <1>2, <2>1
    <2>3. Slot(h, n + i) \in Slots /\ (Slot(h, n + i) - h) % Capacity = n + i - 1
      <3> DEFINE m == n + i
      <3>1. m \in 1..Capacity
        BY <2>1
      <3> HIDE DEF m
      <3>2. Slot(h, m) \in Slots /\ (Slot(h, m) - h) % Capacity = m - 1
        BY <1>1, <3>1, SlotFacts
      <3>3. QED
        BY <3>2 DEF m
    <2>4. ~ (n + i - 1 < n)
      BY <1>1, <2>1
    <2>5. QED
      BY <2>2, <2>3, <2>4
  <1> HIDE DEF c
  <1>5. /\ q \in Seq(Records) /\ Len(q) = k /\ \A i \in 1..k : q[i] = b[Slot(h, i)]
        /\ w \in Seq(Records) /\ Len(w) = k - n /\ \A i \in 1..k - n : w[i] = c[Slot(g, i)]
    <2>1. q \in Seq(Records) /\ Len(q) = k /\ \A i \in 1..k : q[i] = b[Slot(h, i)]
      BY RingContents
    <2>2. w \in Seq(Records) /\ Len(w) = k - n /\ \A i \in 1..k - n : w[i] = c[Slot(g, i)]
      BY <1>3, RingContents
    <2>3. QED
      BY <2>1, <2>2
  <1> HIDE DEF q, w
  <1> DEFINE t == SubSeq(q, n + 1, k)
  <1>6. t \in Seq(Records) /\ Len(t) = k - n /\ \A i \in 1..k - n : t[i] = q[n + i]
    BY <1>1, <1>5, SubSeqProperties
  <1> HIDE DEF t
  <1>7. \A i \in 1..k - n : n + i \in 1..k
    BY <1>1
  <1>8. \A i \in 1..k - n : w[i] = t[i]
    BY <1>4, <1>5, <1>6, <1>7
  <1>9. w = t
    BY <1>5, <1>6, <1>8, SeqEqual
  <1>10. c = Taken(b, h, n)
    BY DEF c, Taken
  <1>11. QED
    BY <1>3, <1>9, <1>10 DEF g, q, w, t

\* recordQueue.push, full or not.
LEMMA RingPush ==
    ASSUME NEW b, NEW h, NEW k, OkRing(b, h, k), NEW r \in Records
    PROVE  LET full == k = Capacity
               first == IF full THEN (h + 1) % Capacity ELSE h
               size == IF full THEN k - 1 ELSE k
               c == Put(b, first, size, r)
               q == QueueOf(b, h, k)
           IN  /\ OkRing(c, first, size + 1)
               /\ QueueOf(c, first, size + 1) = Append(IF full THEN Tail(q) ELSE q, r)
               /\ full => q # <<>> /\ b[h] = Head(q)
  <1>1. /\ Capacity \in Nat \ {0} /\ k \in 0..Capacity /\ h \in Slots /\ h \in Int
        /\ b \in [Slots -> 0..MaxRecords]
    BY StoreAssumption DEF OkRing, Slots
  <1>2. CASE k # Capacity
    <2>1. k < Capacity
      BY <1>1, <1>2
    <2>2. QED
      BY <1>2, <2>1, RingAppend
  <1>3. CASE k = Capacity
    <2> DEFINE g == (h + 1) % Capacity
               e == Taken(b, h, 1)
               c == Put(b, g, k - 1, r)
               q == QueueOf(b, h, k)
    <2>1. OkRing(e, g, k - 1) /\ QueueOf(e, g, k - 1) = SubSeq(q, 2, k)
      <3>1. 1 \in 0..k
        BY <1>1, <1>3
      <3>2. QED
        BY <3>1, RingTake
    <2>2. /\ OkRing(Put(e, g, k - 1, r), g, (k - 1) + 1)
          /\ QueueOf(Put(e, g, k - 1, r), g, (k - 1) + 1) = Append(SubSeq(q, 2, k), r)
      <3> DEFINE m == k - 1
      <3>1. m < Capacity
        BY <1>1, <1>3
      <3>2. OkRing(e, g, m)
        BY <2>1
      <3>3. QueueOf(e, g, m) = SubSeq(q, 2, k)
        BY <2>1
      <3> HIDE DEF e, g, m, q
      <3>4. /\ OkRing(Put(e, g, m, r), g, m + 1)
            /\ QueueOf(Put(e, g, m, r), g, m + 1) = Append(QueueOf(e, g, m), r)
        BY <3>1, <3>2, RingAppend
      <3>5. QED
        BY <3>3, <3>4 DEF m
    <2>3. (g + (k - 1)) % Capacity = h
      <3>1. h \in 0..Capacity - 1 /\ h + k \in Capacity..2 * Capacity - 1 /\ h + k - Capacity = h
        BY <1>1, <1>3 DEF Slots
      <3>2. CASE h + 1 = Capacity
        <4>1. h + 1 \in Capacity..2 * Capacity - 1 /\ h + 1 - Capacity = 0 /\ 0 + (k - 1) = h
          BY <1>1, <1>3, <3>2, <3>1
        <4>2. g = 0
          BY <1>1, <4>1, Wrap
        <4> HIDE DEF g
        <4>3. g + (k - 1) = h
          BY <4>1, <4>2
        <4>4. h % Capacity = h
          BY <1>1, <3>1, Wrap
        <4>5. QED
          BY <4>3, <4>4
      <3>3. CASE h + 1 # Capacity
        <4>1. h + 1 \in 0..Capacity - 1 /\ (h + 1) + (k - 1) = h + k
          BY <1>1, <1>3, <3>3, <3>1
        <4>2. g = h + 1
          BY <1>1, <4>1, Wrap
        <4> HIDE DEF g
        <4>3. g + (k - 1) = h + k
          BY <4>1, <4>2
        <4>4. (h + k) % Capacity = h
          BY <1>1, <3>1, Wrap
        <4>5. QED
          BY <4>3, <4>4
      <3>4. QED
        BY <3>2, <3>3
    <2>4. [e EXCEPT ![h] = r] = [b EXCEPT ![h] = r]
      <3>1. ASSUME NEW s \in Slots, s # h
            PROVE  ~ ((s - h) % Capacity < 1)
        <4>1. (s - h) % Capacity \in 0..Capacity - 1 /\ s = Slot(h, ((s - h) % Capacity) + 1)
          BY <1>1, SlotFacts
        <4>2. Slot(h, 0 + 1) = h
          <5>1. 0 + 1 \in 1..Capacity /\ h + 1 - 1 = h /\ 0 + 1 = 1 /\ h < Capacity
            BY <1>1 DEF Slots
          <5>2. QED
            BY <1>1, <5>1, SlotFacts
        <4>3. (s - h) % Capacity # 0
          BY <3>1, <4>1, <4>2
        <4>4. QED
          BY <1>1, <4>1, <4>3
      <3>2. QED
        BY <1>1, <3>1 DEF Taken
    <2>5. q # <<>> /\ b[h] = Head(q) /\ Tail(q) = SubSeq(q, 2, k)
      <3>1. q \in Seq(Records) /\ Len(q) = k /\ q[1] = b[Slot(h, 1)]
        <4>1. 1 \in 1..k
          BY <1>1, <1>3
        <4>2. QED
          BY <4>1, RingContents
      <3>2. Slot(h, 1) = h
        <4>1. 1 \in 1..Capacity /\ h + 1 - 1 = h /\ h < Capacity
          BY <1>1 DEF Slots
        <4>2. QED
          BY <1>1, <4>1, SlotFacts
      <3> HIDE DEF q
      <3>3. QED
        BY <1>1, <1>3, <3>1, <3>2
    <2>6. (k - 1) + 1 = k
      BY <1>1, <1>3
    <2> HIDE DEF g, e, q
    <2>7. /\ OkRing(c, g, (k - 1) + 1)
          /\ QueueOf(c, g, (k - 1) + 1) = Append(Tail(q), r)
      BY <2>2, <2>3, <2>4, <2>5 DEF Put
    <2>8. QED
      BY <1>3, <2>5, <2>7 DEF g, q
  <1>4. QED
    BY <1>2, <1>3

--------------------------------------------------------------------------------
(* The line of records, as sets: those in the tables, in the batch, pending  *)
(* and in the ring, and those given up and pushed out.                       *)

Line(P, B, D, Q, F, L, n) ==
    /\ 1..n = P \cup B \cup D \cup Q \cup F \cup L
    /\ F \cap L = {} /\ (F \cup L) \cap (P \cup B \cup D \cup Q) = {}
    /\ Below(P \cup F, B) /\ Below(P \cup F, D) /\ Below(P \cup F, Q)
    /\ Below(B, D) /\ Below(B, Q) /\ Below(D, Q)

LEMMA LineStart == Line({}, {}, {}, {}, {}, {}, 0)
  BY DEF Line, Below

\* A new record is the newest of the ring.
LEMMA LinePush ==
    ASSUME NEW P, NEW B, NEW D, NEW Q, NEW F, NEW L, NEW n \in Nat, Line(P, B, D, Q, F, L, n)
    PROVE  Line(P, B, D, Q \cup {n + 1}, F, L, n + 1)
  <1>1. 1..n + 1 = 1..n \cup {n + 1} /\ n + 1 \notin 1..n /\ \A x \in 1..n : x < n + 1
    OBVIOUS
  <1>2. \A x \in P \cup B \cup D \cup Q \cup F \cup L : x < n + 1 /\ x # n + 1
    BY <1>1 DEF Line
  <1>3. QED
    BY <1>1, <1>2 DEF Line, Below

\* A record pushed out of the ring.
LEMMA LineDrop ==
    ASSUME NEW P, NEW B, NEW D, NEW Q, NEW F, NEW L, NEW n \in Nat, NEW x, NEW R,
           Line(P, B, D, Q, F, L, n), Q = {x} \cup R, Below({x}, R)
    PROVE  Line(P, B, D, R, F, L \cup {x}, n)
  <1>1. x \in 1..n /\ \A y \in 1..n : ~ (y < y)
    BY DEF Line
  <1>2. x \notin R /\ x \notin P /\ x \notin B /\ x \notin D /\ x \notin F
    BY <1>1 DEF Line, Below
  <1>3. QED
    BY <1>2 DEF Line, Below

\* The oldest part A of the ring goes behind what is pending.
LEMMA LinePull ==
    ASSUME NEW P, NEW B, NEW D, NEW Q, NEW F, NEW L, NEW n, NEW A, NEW R,
           Line(P, B, D, Q, F, L, n), Q = A \cup R, Below(A, R)
    PROVE  Line(P, B, D \cup A, R, F, L, n)
  BY DEF Line, Below

\* The oldest part A of what is pending becomes the batch.
LEMMA LineCommit ==
    ASSUME NEW P, NEW D, NEW Q, NEW F, NEW L, NEW n, NEW A, NEW R,
           Line(P, {}, D, Q, F, L, n), D = A \cup R, Below(A, R)
    PROVE  Line(P, A, R, Q, F, L, n)
  BY DEF Line, Below

\* The batch is written, or given up.
LEMMA LineWrite ==
    ASSUME NEW P, NEW B, NEW D, NEW Q, NEW F, NEW L, NEW n \in Nat, Line(P, B, D, Q, F, L, n)
    PROVE  Line(P \cup B, {}, D, Q, F, L, n) /\ Line(P, {}, D, Q, F \cup B, L, n)
  <1>1. \A y \in 1..n : ~ (y < y)
    OBVIOUS
  <1>2. P \cap B = {} /\ B \cap D = {} /\ B \cap Q = {}
    BY <1>1 DEF Line, Below
  <1>3. QED
    BY <1>2 DEF Line, Below

--------------------------------------------------------------------------------
(* The same line, as the sequences of the model. *)

LineOf(per, bat, pen, q, F, L, n) ==
    /\ per \in Seq(Records) /\ bat \in Seq(Records) /\ pen \in Seq(Records) /\ q \in Seq(Records)
    /\ Line(Rows(per), Rows(bat), Rows(pen), Rows(q), F, L, n)
    /\ Sorted(per) /\ Sorted(bat) /\ Sorted(pen) /\ Sorted(q)

LEMMA OneRow ==
    ASSUME NEW r \in Records
    PROVE  <<r>> \in Seq(Records) /\ Rows(<<r>>) = {r} /\ Sorted(<<r>>)
  <1>1. <<r>> \in Seq(Records) /\ Len(<<r>>) = 1 /\ <<r>>[1] = r
    OBVIOUS
  <1>2. Rows(<<r>>) = {<<r>>[i] : i \in 1..Len(<<r>>)}
    BY <1>1, RowsRange
  <1>3. 1..1 = {1}
    OBVIOUS
  <1>4. QED
    BY <1>1, <1>2, <1>3 DEF Sorted

LEMMA StreamPush ==
    ASSUME NEW per, NEW bat, NEW pen, NEW q, NEW F, NEW L, NEW n \in Nat,
           LineOf(per, bat, pen, q, F, L, n), n + 1 \in Records
    PROVE  LineOf(per, bat, pen, Append(q, n + 1), F, L, n + 1)
  <1> DEFINE r == n + 1
  <1>1. r \in Records /\ q \in Seq(Records)
    BY DEF LineOf
  <1>2. Line(Rows(per), Rows(bat), Rows(pen), Rows(q) \cup {r}, F, L, r)
    BY LinePush DEF LineOf
  <1>3. Below(Rows(q), {r})
    <2>1. \A x \in 1..n : x < r
      OBVIOUS
    <2>2. QED
      BY <2>1 DEF LineOf, Line, Below
  <1> HIDE DEF r
  <1>4. Append(q, r) = q \o <<r>>
    BY <1>1, AppendIsConcat
  <1>5. q \o <<r>> \in Seq(Records) /\ Rows(q \o <<r>>) = Rows(q) \cup {r} /\ Sorted(q \o <<r>>)
    BY <1>1, <1>3, OneRow, ConcatRows DEF LineOf
  <1>6. LineOf(per, bat, pen, Append(q, r), F, L, r)
    BY <1>2, <1>4, <1>5 DEF LineOf
  <1>7. QED
    BY <1>6 DEF r

LEMMA StreamDrop ==
    ASSUME NEW per, NEW bat, NEW pen, NEW q, NEW F, NEW L, NEW n \in Nat,
           LineOf(per, bat, pen, q, F, L, n), q # <<>>
    PROVE  /\ LineOf(per, bat, pen, Tail(q), F, L \cup {Head(q)}, n)
           /\ Head(q) \in Rows(q) /\ Head(q) \notin L /\ Rows(Tail(q)) \subseteq Rows(q)
  <1>1. q \in Seq(Records) /\ Len(q) \in Nat /\ 1 \in 0..Len(q) /\ 1 \in 1..Len(q) /\ Head(q) \in Records
    BY DEF LineOf
  <1> DEFINE k == 1
             a == SubSeq(q, 1, k)
             b == SubSeq(q, k + 1, Len(q))
  <1>2. /\ a \in Seq(Records) /\ b \in Seq(Records) /\ Len(a) = 1 /\ Rows(q) = Rows(a) \cup Rows(b)
        /\ Sorted(b) /\ Below(Rows(a), Rows(b))
    <2>1. k \in 0..Len(q) /\ Sorted(q)
      BY <1>1 DEF LineOf
    <2> HIDE DEF k
    <2>2. Len(a) = k
      BY <1>1, <2>1, SplitRows
    <2>3. QED
      BY <1>1, <2>1, <2>2, SplitRows DEF k
  <1>3. b = Tail(q) /\ a[1] = Head(q)
    <2>1. Tail(q) = SubSeq(q, 2, Len(q))
      BY <1>1, TailIsSubSeq
    <2>2. k + 1 = 2
      OBVIOUS
    <2>3. a[1] = q[1]
      BY <1>1
    <2>4. QED
      BY <1>1, <2>1, <2>2, <2>3
  <1> HIDE DEF a, b
  <1>4. Rows(a) = {Head(q)} /\ Tail(q) \in Seq(Records) /\ Sorted(Tail(q)) /\ Rows(q) = {Head(q)} \cup Rows(Tail(q))
          /\ Below({Head(q)}, Rows(Tail(q)))
    <2>1. Rows(a) = {a[i] : i \in 1..1}
      BY <1>2, RowsRange
    <2>2. 1..1 = {1}
      OBVIOUS
    <2>3. Rows(a) = {Head(q)}
      BY <2>1, <2>2, <1>3
    <2>4. QED
      BY <2>3, <1>2, <1>3
  <1>5. Line(Rows(per), Rows(bat), Rows(pen), Rows(Tail(q)), F, L \cup {Head(q)}, n)
    BY <1>4, LineDrop DEF LineOf
  <1>6. Head(q) \in Rows(q) /\ Head(q) \notin L
    BY <1>4 DEF LineOf, Line
  <1>7. QED
    BY <1>4, <1>5, <1>6 DEF LineOf

LEMMA StreamPull ==
    ASSUME NEW per, NEW bat, NEW pen, NEW q, NEW F, NEW L, NEW n,
           LineOf(per, bat, pen, q, F, L, n), NEW k \in 0..Len(q)
    PROVE  /\ LineOf(per, bat, pen \o SubSeq(q, 1, k), SubSeq(q, k + 1, Len(q)), F, L, n)
           /\ Rows(SubSeq(q, k + 1, Len(q))) \subseteq Rows(q)
  <1> DEFINE a == SubSeq(q, 1, k)
             b == SubSeq(q, k + 1, Len(q))
  <1>1. pen \in Seq(Records) /\ q \in Seq(Records) /\ Sorted(pen) /\ Sorted(q)
    BY DEF LineOf
  <1>2. /\ a \in Seq(Records) /\ b \in Seq(Records) /\ Rows(q) = Rows(a) \cup Rows(b)
        /\ Sorted(a) /\ Sorted(b) /\ Below(Rows(a), Rows(b))
    BY <1>1, SplitRows
  <1> HIDE DEF a, b
  <1>3. Below(Rows(pen), Rows(a))
    BY <1>2 DEF LineOf, Line, Below
  <1>4. pen \o a \in Seq(Records) /\ Rows(pen \o a) = Rows(pen) \cup Rows(a) /\ Sorted(pen \o a)
    BY <1>1, <1>2, <1>3, ConcatRows
  <1>5. Line(Rows(per), Rows(bat), Rows(pen) \cup Rows(a), Rows(b), F, L, n)
    BY <1>2, LinePull DEF LineOf
  <1>6. LineOf(per, bat, pen \o a, b, F, L, n) /\ Rows(b) \subseteq Rows(q)
    BY <1>2, <1>4, <1>5 DEF LineOf
  <1>7. QED
    BY <1>6 DEF a, b

LEMMA StreamCommit ==
    ASSUME NEW per, NEW pen, NEW q, NEW F, NEW L, NEW n,
           LineOf(per, <<>>, pen, q, F, L, n), NEW k \in 0..Len(pen)
    PROVE  LineOf(per, SubSeq(pen, 1, k), SubSeq(pen, k + 1, Len(pen)), q, F, L, n)
  <1> DEFINE a == SubSeq(pen, 1, k)
             b == SubSeq(pen, k + 1, Len(pen))
  <1>1. pen \in Seq(Records) /\ Sorted(pen)
    BY DEF LineOf
  <1>2. /\ a \in Seq(Records) /\ b \in Seq(Records) /\ Rows(pen) = Rows(a) \cup Rows(b)
        /\ Sorted(a) /\ Sorted(b) /\ Below(Rows(a), Rows(b))
    BY <1>1, SplitRows
  <1> HIDE DEF a, b
  <1>3. Line(Rows(per), {}, Rows(pen), Rows(q), F, L, n)
    BY RowsEmpty DEF LineOf
  <1>4. Line(Rows(per), Rows(a), Rows(b), Rows(q), F, L, n)
    BY <1>2, <1>3, LineCommit
  <1>5. LineOf(per, a, b, q, F, L, n)
    BY <1>2, <1>4 DEF LineOf
  <1>6. QED
    BY <1>5 DEF a, b

LEMMA StreamWrite ==
    ASSUME NEW per, NEW bat, NEW pen, NEW q, NEW F, NEW L, NEW n \in Nat, LineOf(per, bat, pen, q, F, L, n)
    PROVE  /\ LineOf(per \o bat, <<>>, pen, q, F, L, n) /\ LineOf(per, <<>>, pen, q, F \cup Rows(bat), L, n)
           /\ Rows(per \o bat) = Rows(per) \cup Rows(bat)
  <1>1. per \in Seq(Records) /\ bat \in Seq(Records) /\ <<>> \in Seq(Records)
    BY DEF LineOf
  <1>2. Below(Rows(per), Rows(bat))
    BY DEF LineOf, Line, Below
  <1>3. per \o bat \in Seq(Records) /\ Rows(per \o bat) = Rows(per) \cup Rows(bat) /\ Sorted(per \o bat)
    BY <1>1, <1>2, ConcatRows DEF LineOf
  <1>4. /\ Line(Rows(per) \cup Rows(bat), {}, Rows(pen), Rows(q), F, L, n)
        /\ Line(Rows(per), {}, Rows(pen), Rows(q), F \cup Rows(bat), L, n)
    BY LineWrite DEF LineOf
  <1>5. QED
    BY <1>1, <1>3, <1>4, RowsEmpty DEF LineOf

--------------------------------------------------------------------------------
(* The inductive invariant. *)

ControlInv ==
    /\ prod \in [Producers -> {"idle", "open", "counting"}]
    /\ wpc \in {"pull", "poll", "wait", "drain", "rest", "write", "retry", "answer", "finish", "done"}
    /\ back \in {"pull", "drain", "answer", "finish"} /\ serving \in Callers \cup {None}
    /\ call \in [Callers -> {"idle", "ok", "error"} \cup Asking] /\ expired \subseteq Callers
    /\ written \in Nat

FlagInv ==
    /\ closed \in BOOLEAN /\ stopped \in BOOLEAN /\ repoOpen \in BOOLEAN
    /\ failure \in BOOLEAN /\ degraded \in BOOLEAN

\* The records that were offered and are not settled yet are bounded, and so the
\* sets that are counted are finite.
CountInv ==
    /\ pushed \in Nat /\ refused \in Nat /\ dropped \in Nat
    /\ IsFiniteSet({p \in Producers : prod[p] = "open"})
    /\ IsFiniteSet({p \in Producers : prod[p] = "counting"})
    /\ IsFiniteSet(lost)
    /\ Offered <= MaxRecords
    /\ DropsCounted

\* Where every record is.
LineInv == LineOf(persisted, batch, pending, Contents, failed, lost, pushed)

\* A batch is at hand exactly while it is being written.
BatchInv == wpc \in {"write", "retry"} <=> batch # <<>>

IInv ==
    /\ OkRing(buf, head, count)
    /\ ControlInv /\ FlagInv /\ CountInv /\ LineInv /\ BatchInv
    /\ HealthShowsLoss /\ RepoOutlivesWriter

\* Past the last look of a flush at the ring.
Looked == wpc \in {"rest", "answer"} \/ (wpc \in {"write", "retry"} /\ back = "answer")

\* Only the caller the writer serves waits, and only while a drain goes on.
Served ==
    /\ \A c \in Callers : call[c] = "waiting" => serving = c
    /\ serving # None => \/ wpc \in {"drain", "rest", "answer"}
                         \/ wpc \in {"write", "retry"} /\ back \in {"drain", "answer"}

\* Nothing pushed before the call is in the ring after the last look at it.
Beyond ==
    /\ mark \in [Callers -> Nat] /\ \A c \in Callers : mark[c] <= pushed
    /\ \A c \in Callers : call[c] = "waiting" /\ Looked => \A i \in Rows(Contents) : mark[c] < i

\* The last batch of a drain takes everything that is pending.
Emptied == wpc = "answer" \/ (wpc \in {"write", "retry"} /\ back = "answer") => pending = <<>>

\* An answer is given when the records of its caller are settled.
Answered == \A c \in Callers : call[c] \in {"failed", "done"} => \A i \in 1..mark[c] : Settled(i)

FlushInv == Served /\ Beyond /\ Emptied /\ Answered

--------------------------------------------------------------------------------
(* What the steps do to the ring and to the line of records. *)

stream == <<ring, pending, batch, persisted, failed, lost, pushed>>

LEMMA ContentsAre ==
    Contents = QueueOf(buf, head, count) /\ Contents' = QueueOf(buf', head', count')
  BY DEF Contents, QueueOf, Slot

LEMMA StreamSame ==
    ASSUME IInv, UNCHANGED stream
    PROVE  OkRing(buf', head', count') /\ Contents' = Contents /\ LineInv'
  <1>1. buf' = buf /\ head' = head /\ count' = count
    BY DEF stream, ring
  <1>2. Contents' = Contents
    BY <1>1, ContentsAre
  <1>3. QED
    BY <1>1, <1>2 DEF stream, IInv, LineInv

LEMMA ContentsFacts ==
    ASSUME IInv
    PROVE  Contents \in Seq(Records) /\ Len(Contents) = count /\ count \in Nat /\ count <= Capacity
             /\ pushed \in Nat
  BY StoreAssumption, ContentsAre, RingContents DEF IInv, OkRing, CountInv

LEMMA PullEffect ==
    ASSUME IInv, PullRing
    PROVE  /\ OkRing(buf', head', count')
           /\ LineOf(persisted, batch, Pulled(pending), Contents', failed, lost, pushed)
           /\ Rows(Contents') \subseteq Rows(Contents)
           /\ \E n \in 0..Len(Contents) : Contents' = SubSeq(Contents, n + 1, Len(Contents))
           /\ Capacity <= MaxDrain => count' = 0 /\ Contents' = <<>>
  <1> DEFINE n == Least(count, MaxDrain)
  <1>1. Contents \in Seq(Records) /\ Len(Contents) = count /\ count \in Nat /\ count <= Capacity
    BY ContentsFacts
  <1>2. n \in 0..count /\ (Capacity <= MaxDrain => n = count)
    BY <1>1, StoreAssumption DEF Least
  <1>3. buf' = Taken(buf, head, n) /\ head' = (head + n) % Capacity /\ count' = count - n
    BY DEF PullRing, Taken
  <1>4. Pulled(pending) = pending \o SubSeq(Contents, 1, n)
    BY DEF Pulled
  <1> HIDE DEF n
  <1>5. OkRing(buf', head', count') /\ Contents' = SubSeq(Contents, n + 1, count)
    BY <1>2, <1>3, RingTake, ContentsAre DEF IInv
  <1>6. LineOf(persisted, batch, Pulled(pending), Contents', failed, lost, pushed) /\ Rows(Contents') \subseteq Rows(Contents)
    BY <1>1, <1>2, <1>4, <1>5, StreamPull DEF IInv, LineInv
  <1>7. ASSUME Capacity <= MaxDrain
        PROVE  count' = 0 /\ Contents' = <<>>
    <2>1. count' = 0
      BY <1>1, <1>2, <1>3, <1>7
    <2>2. Len(Contents') = 0 /\ Contents' \in Seq(Records)
      <3>1. QueueOf(buf', head', count') \in Seq(Records) /\ Len(QueueOf(buf', head', count')) = count'
        BY <1>5, RingContents
      <3>2. QED
        BY <2>1, <3>1, ContentsAre
    <2>3. QED
      BY <2>1, <2>2
  <1>8. QED
    BY <1>1, <1>2, <1>5, <1>6, <1>7

\* A producer past the check of closed has a record in the bound to push.
LEMMA RoomToPush ==
    ASSUME IInv, NEW p \in Producers, prod[p] = "open"
    PROVE  pushed + 1 \in Records
  <1> DEFINE O == {q \in Producers : prod[q] = "open"}
  <1>1. IsFiniteSet(O) /\ p \in O /\ pushed \in Nat /\ refused \in Nat /\ pushed + refused + Cardinality(O) <= MaxRecords
    BY DEF IInv, CountInv, Offered
  <1> HIDE DEF O
  <1>2. Cardinality(O) \in Nat /\ Cardinality(O) # 0
    BY <1>1, FS_CardinalityType, FS_EmptySet
  <1>3. QED
    BY <1>1, <1>2, StoreAssumption DEF Records

LEMMA PushEffect ==
    ASSUME IInv, NEW p \in Producers, Push(p)
    PROVE  /\ OkRing(buf', head', count') /\ LineInv'
           /\ Contents' = Append(IF Len(Contents) = Capacity THEN Tail(Contents) ELSE Contents, pushed + 1)
           /\ Rows(Contents') \subseteq Rows(Contents) \cup {pushed + 1}
           /\ count = Capacity => buf[head] \notin lost
  <1> DEFINE r == pushed + 1
             full == count = Capacity
             first == IF full THEN (head + 1) % Capacity ELSE head
             size == IF full THEN count - 1 ELSE count
             q == Contents
             w == IF full THEN Tail(q) ELSE q
             gone == IF full THEN lost \cup {buf[head]} ELSE lost
  <1>1. q \in Seq(Records) /\ Len(q) = count /\ count \in Nat /\ count <= Capacity /\ pushed \in Nat
    BY ContentsFacts
  <1>2. r \in Records
    BY RoomToPush DEF Push
  <1>3. /\ buf' = Put(buf, first, size, r) /\ head' = first /\ count' = size + 1 /\ lost' = gone /\ pushed' = r
        /\ UNCHANGED <<pending, batch, persisted, failed>>
    BY DEF Push, Put, writer
  <1>4. /\ OkRing(buf', head', count') /\ Contents' = Append(w, r)
        /\ full => q # <<>> /\ buf[head] = Head(q)
    BY <1>2, <1>3, RingPush, ContentsAre DEF IInv
  <1>5. LineOf(persisted, batch, pending, w, failed, gone, pushed) /\ Rows(w) \subseteq Rows(q) /\ (full => buf[head] \notin lost)
    <2>1. CASE full
      <3>1. w = Tail(q) /\ gone = lost \cup {Head(q)} /\ q # <<>> /\ buf[head] = Head(q)
        BY <1>4, <2>1
      <3>2. LineOf(persisted, batch, pending, q, failed, lost, pushed)
        BY DEF IInv, LineInv
      <3> HIDE DEF w, gone, q
      <3>3. /\ LineOf(persisted, batch, pending, Tail(q), failed, lost \cup {Head(q)}, pushed)
            /\ Head(q) \notin lost /\ Rows(Tail(q)) \subseteq Rows(q)
        BY <1>1, <3>1, <3>2, StreamDrop
      <3>4. QED
        BY <3>1, <3>3
    <2>2. CASE ~full
      BY <2>2 DEF IInv, LineInv
    <2>3. QED
      BY <2>1, <2>2
  <1> HIDE DEF w, gone
  <1>6. LineOf(persisted, batch, pending, Append(w, r), failed, gone, r)
    BY <1>1, <1>2, <1>5, StreamPush
  <1>7. Rows(Append(w, r)) \subseteq Rows(q) \cup {r}
    <2>1. w \in Seq(Records)
      BY <1>5 DEF LineOf
    <2> HIDE DEF r
    <2>2. Append(w, r) = w \o <<r>> /\ Rows(w \o <<r>>) = Rows(w) \cup {r}
      BY <1>2, <2>1, AppendIsConcat, ConcatRows, OneRow
    <2>3. QED
      BY <1>5, <2>2
  <1>8. LineInv'
    BY <1>3, <1>4, <1>6 DEF LineInv
  <1>9. QED
    BY <1>1, <1>4, <1>5, <1>7, <1>8 DEF w

LEMMA CommitEffect ==
    ASSUME NEW s \in Seq(Records), NEW n \in 1..Len(s), NEW return, Commit(s, n, return),
           LineOf(persisted, <<>>, s, Contents', failed, lost, pushed), UNCHANGED <<lost, pushed>>
    PROVE  LineInv' /\ batch' # <<>>
  <1>1. n \in 0..Len(s)
    OBVIOUS
  <1>2. LineOf(persisted, batch', pending', Contents', failed, lost, pushed)
    BY <1>1, StreamCommit DEF Commit
  <1>3. Len(batch') = n
    BY <1>1, SplitRows DEF Commit
  <1>4. QED
    BY <1>2, <1>3 DEF LineInv, Commit

--------------------------------------------------------------------------------
(* The invariant is inductive. *)

Standing == OkRing(buf, head, count) /\ LineInv /\ BatchInv /\ HealthShowsLoss

\* Steps that leave the line of records and the health of the store alone.
LEMMA QuietStep ==
    ASSUME IInv, UNCHANGED <<stream, degraded>>, wpc' \in {"write", "retry"} <=> wpc \in {"write", "retry"}
    PROVE  Standing'
  <1>1. UNCHANGED stream /\ degraded' = degraded /\ batch' = batch /\ persisted' = persisted /\ failed' = failed
    BY DEF stream
  <1>2. OkRing(buf', head', count') /\ LineInv'
    BY <1>1, StreamSame
  <1>3. BatchInv'
    BY <1>1 DEF IInv, BatchInv
  <1>4. HealthShowsLoss'
    BY <1>1 DEF IInv, HealthShowsLoss
  <1>5. QED
    BY <1>2, <1>3, <1>4 DEF Standing

LEMMA StandingStep ==
    ASSUME IInv, [Next]_vars
    PROVE  Standing'
  <1> USE DEF ring, aside
  <1>0. BatchInv /\ HealthShowsLoss /\ LineInv /\ pending \in Seq(Records) /\ Len(pending) \in Nat
    BY DEF IInv, LineInv, LineOf
  <1>1. ASSUME NEW p \in Producers, Enqueue(p) \/ NoteDrop(p)
        PROVE  Standing'
    BY <1>1, QuietStep DEF Enqueue, NoteDrop, stream, writer
  <1>2. ASSUME NEW p \in Producers, Push(p)
        PROVE  Standing'
    <2>1. OkRing(buf', head', count') /\ LineInv'
      BY <1>2, PushEffect
    <2>2. UNCHANGED <<wpc, batch, degraded, persisted, failed>>
      BY <1>2 DEF Push, writer
    <2>3. QED
      BY <1>0, <2>1, <2>2 DEF Standing, BatchInv, HealthShowsLoss
  <1>3. CASE PollNone \/ FlushTimer \/ Housekeep \/ WriteFails \/ Stop \/ FinishEnds \/ Answer
    <2>1. CASE PollNone
      BY <2>1, QuietStep DEF PollNone, StartDrain, stream
    <2>2. CASE FlushTimer \/ Housekeep \/ WriteFails
      BY <2>2, QuietStep DEF FlushTimer, Housekeep, WriteFails, StartDrain, stream
    <2>3. CASE Stop \/ FinishEnds \/ Answer
      BY <2>3, QuietStep DEF Stop, FinishEnds, Answer, stream
    <2>4. QED
      BY <1>3, <2>1, <2>2, <2>3
  <1>4. ASSUME NEW c \in Callers, TakeRequest(c)
        PROVE  Standing'
    BY <1>4, QuietStep DEF TakeRequest, StartDrain, stream
  <1>5. CASE Caller \/ (\E c \in Flushers : Flush(c)) \/ UNCHANGED vars
    BY <1>5, QuietStep DEF Caller, Close, CloseStop, CloseRepo, Flush, rest, writer, stream, vars
  <1>6. ASSUME NEW c \in Callers, Receive(c) \/ Expire(c) \/ GiveUp(c) \/ WriterGone(c)
        PROVE  Standing'
    BY <1>6, QuietStep DEF Receive, Expire, GiveUp, WriterGone, rest, writer, stream
  <1>7. CASE Pull
    <2>1. OkRing(buf', head', count') /\ LineOf(persisted, batch, Pulled(pending), Contents', failed, lost, pushed)
      BY <1>7, PullEffect DEF Pull
    <2>2. UNCHANGED <<batch, degraded, persisted, failed, lost, pushed>> /\ pending' = Pulled(pending)
            /\ wpc = "pull" /\ wpc' = "poll"
      BY <1>7 DEF Pull
    <2>3. QED
      BY <1>0, <2>1, <2>2 DEF Standing, LineInv, BatchInv, HealthShowsLoss
  <1>8. CASE DrainBatch
    <2>1. UNCHANGED <<ring, lost, pushed, degraded, persisted, failed>> /\ wpc = "drain" /\ wpc' = "write"
      BY <1>8 DEF DrainBatch, Commit
    <2>2. batch = <<>> /\ BatchSize \in 1..Len(pending) /\ Commit(pending, BatchSize, "drain")
      BY <1>0, <1>8, StoreAssumption DEF DrainBatch, BatchInv
    <2>3. OkRing(buf', head', count') /\ Contents' = Contents
      BY <2>1, ContentsAre DEF IInv
    <2>4. LineInv' /\ batch' # <<>>
      BY <1>0, <2>1, <2>2, <2>3, CommitEffect DEF LineInv
    <2>5. QED
      BY <1>0, <2>1, <2>3, <2>4 DEF Standing, BatchInv, HealthShowsLoss
  <1>9. CASE DrainMore
    <2>1. UNCHANGED <<batch, degraded, persisted, failed, lost, pushed>> /\ wpc = "drain" /\ wpc' \in {"rest", "drain"}
      BY <1>9 DEF DrainMore
    <2>2. CASE serving = None
      BY <1>9, <2>1, <2>2, QuietStep DEF DrainMore, stream
    <2>3. CASE serving # None
      <3>1. PullRing /\ pending' = Pulled(pending)
        BY <1>9, <2>3 DEF DrainMore
      <3>2. OkRing(buf', head', count') /\ LineOf(persisted, batch, Pulled(pending), Contents', failed, lost, pushed)
        BY <3>1, PullEffect
      <3>3. QED
        BY <1>0, <2>1, <3>1, <3>2 DEF Standing, LineInv, BatchInv, HealthShowsLoss
    <2>4. QED
      BY <2>2, <2>3
  <1>10. CASE DrainRest
    <2>1. CASE pending = <<>>
      BY <1>10, <2>1, QuietStep DEF DrainRest, stream
    <2>2. CASE pending # <<>>
      <3>1. UNCHANGED <<ring, lost, pushed, degraded, persisted, failed>> /\ wpc = "rest" /\ wpc' = "write"
        BY <1>10, <2>2 DEF DrainRest, Commit
      <3>2. batch = <<>> /\ Len(pending) \in 1..Len(pending) /\ Commit(pending, Len(pending), "answer")
        BY <1>0, <1>10, <2>2 DEF DrainRest, BatchInv
      <3>3. OkRing(buf', head', count') /\ Contents' = Contents
        BY <3>1, ContentsAre DEF IInv
      <3>4. LineInv' /\ batch' # <<>>
        BY <1>0, <3>1, <3>2, <3>3, CommitEffect DEF LineInv
      <3>5. QED
        BY <1>0, <3>1, <3>3, <3>4 DEF Standing, BatchInv, HealthShowsLoss
    <2>3. QED
      BY <2>1, <2>2
  <1>11. CASE WriteOk
    <2>1. /\ UNCHANGED <<ring, pending, failed, lost, pushed>> /\ wpc \in {"write", "retry"} /\ wpc' = back
          /\ persisted' = persisted \o batch /\ degraded' = FALSE /\ batch' = <<>>
      BY <1>11 DEF WriteOk
    <2>2. back \notin {"write", "retry"} /\ pushed \in Nat
      BY DEF IInv, ControlInv, CountInv
    <2>3. OkRing(buf', head', count') /\ Contents' = Contents
      BY <2>1, ContentsAre DEF IInv
    <2>4. LineInv' /\ Rows(persisted') = Rows(persisted) \cup Rows(batch)
      BY <1>0, <2>1, <2>2, <2>3, StreamWrite DEF LineInv
    <2>5. PICK r : r \in Rows(batch)
      <3>1. batch # <<>> /\ batch \in Seq(Records)
        BY <1>0, <2>1 DEF BatchInv, LineInv, LineOf
      <3>2. QED
        BY <3>1, SomeRow
    <2>6. \A i \in failed : i < r /\ i \in Int /\ r \in Int
      BY <1>0, <2>5 DEF LineInv, LineOf, Line, Below
    <2>7. ~ \E i \in failed : \A j \in Rows(persisted') : j < i
      BY <2>4, <2>5, <2>6
    <2>8. HealthShowsLoss'
      BY <2>1, <2>7 DEF HealthShowsLoss
    <2>9. QED
      BY <2>1, <2>2, <2>3, <2>4, <2>8 DEF Standing, BatchInv
  <1>12. CASE RetryFails
    <2>1. /\ UNCHANGED <<ring, pending, persisted, lost, pushed>> /\ wpc = "retry"
          /\ wpc' = (IF back = "finish" THEN "done" ELSE back)
          /\ failed' = failed \cup Rows(batch) /\ degraded' = TRUE /\ batch' = <<>>
      BY <1>12 DEF RetryFails
    <2>2. back \notin {"write", "retry"} /\ pushed \in Nat
      BY DEF IInv, ControlInv, CountInv
    <2>3. OkRing(buf', head', count') /\ Contents' = Contents
      BY <2>1, ContentsAre DEF IInv
    <2>4. LineInv'
      BY <1>0, <2>1, <2>2, <2>3, StreamWrite DEF LineInv
    <2>5. PICK r : r \in Rows(batch)
      <3>1. batch # <<>> /\ batch \in Seq(Records)
        BY <1>0, <2>1 DEF BatchInv, LineInv, LineOf
      <3>2. QED
        BY <3>1, SomeRow
    <2>6. r \in failed' /\ \A j \in Rows(persisted) : j < r
      BY <1>0, <2>1, <2>5 DEF LineInv, LineOf, Line, Below
    <2>7. HealthShowsLoss'
      BY <2>1, <2>6 DEF HealthShowsLoss
    <2>8. QED
      BY <2>1, <2>2, <2>3, <2>4, <2>7 DEF Standing, BatchInv
  <1>13. CASE Finish
    <2> DEFINE s == Pulled(pending)
    <2>1. UNCHANGED <<lost, pushed, degraded, persisted, failed>> /\ wpc = "finish" /\ PullRing
      BY <1>13 DEF Finish, Commit
    <2>2. batch = <<>>
      BY <1>0, <2>1 DEF BatchInv
    <2>3. OkRing(buf', head', count') /\ LineOf(persisted, <<>>, s, Contents', failed, lost, pushed) /\ s \in Seq(Records)
      BY <2>1, <2>2, PullEffect DEF LineOf
    <2>4. CASE s = <<>>
      <3>1. batch' = batch /\ pending' = pending /\ wpc' = "done"
        BY <1>13, <2>4 DEF Finish
      <3>2. pending = <<>>
        <4>1. Rows(s) = Rows(pending) \cup Rows(SubSeq(Contents, 1, Least(count, MaxDrain))) /\ pending \in Seq(Records)
          <5>1. Contents \in Seq(Records) /\ Len(Contents) = count /\ count \in Nat /\ Least(count, MaxDrain) \in 0..Len(Contents)
            BY ContentsFacts, StoreAssumption DEF Least
          <5>2. SubSeq(Contents, 1, Least(count, MaxDrain)) \in Seq(Records)
            BY <5>1, SplitRows
          <5>3. QED
            BY <1>0, <5>2, ConcatRows DEF Pulled
        <4>2. Rows(pending) = {}
          BY <2>4, <4>1, RowsEmpty
        <4>3. QED
          BY <4>1, <4>2, SomeRow
      <3>3. LineInv'
        BY <2>1, <2>2, <2>3, <2>4, <3>1, <3>2 DEF LineInv
      <3>4. QED
        BY <1>0, <2>1, <2>2, <2>3, <3>1, <3>3 DEF Standing, BatchInv, HealthShowsLoss
    <2>5. CASE s # <<>>
      <3> HIDE DEF s
      <3>1. Commit(s, Len(s), "finish") /\ wpc' = "write"
        BY <1>13, <2>5 DEF Finish, Commit, s
      <3>2. Len(s) \in 1..Len(s)
        BY <2>3, <2>5
      <3>3. LineInv' /\ batch' # <<>>
        BY <2>1, <2>3, <3>1, <3>2, CommitEffect
      <3>4. QED
        BY <1>0, <2>1, <2>3, <3>1, <3>3 DEF Standing, BatchInv, HealthShowsLoss
    <2>6. QED
      BY <2>4, <2>5
  <1>14. QED
    BY <1>1, <1>2, <1>3, <1>4, <1>5, <1>6, <1>7, <1>8, <1>9, <1>10, <1>11, <1>12, <1>13 DEF Next, Writer, vars

LEMMA FlagStep ==
    ASSUME IInv, [Next]_vars
    PROVE  FlagInv' /\ RepoOutlivesWriter'
  <1>1. FlagInv /\ RepoOutlivesWriter
    BY DEF IInv
  <1>2. FlagInv'
    <2>1. ASSUME NEW p \in Producers, Enqueue(p) \/ Push(p) \/ NoteDrop(p)
          PROVE  FlagInv'
      BY <1>1, <2>1, Zenon DEF FlagInv, Enqueue, Push, NoteDrop, writer, callers
    <2>2. CASE Pull \/ PollNone \/ FlushTimer \/ Housekeep \/ DrainBatch \/ DrainMore \/ DrainRest
      BY <1>1, <2>2, Zenon
         DEF FlagInv, Pull, PollNone, FlushTimer, Housekeep, DrainBatch, DrainMore, DrainRest, StartDrain, Commit, callers
    <2>3. CASE Answer \/ WriteOk \/ WriteFails \/ RetryFails \/ Stop \/ Finish \/ FinishEnds
      BY <1>1, <2>3, Zenon DEF FlagInv, Answer, WriteOk, WriteFails, RetryFails, Stop, Finish, FinishEnds, Commit, callers
    <2>4. ASSUME NEW c \in Callers, TakeRequest(c) \/ Receive(c) \/ Expire(c) \/ GiveUp(c) \/ WriterGone(c)
          PROVE  FlagInv'
      BY <1>1, <2>4, Zenon DEF FlagInv, TakeRequest, StartDrain, Receive, Expire, GiveUp, WriterGone, rest, writer
    <2>5. CASE Caller \/ (\E c \in Flushers : Flush(c)) \/ UNCHANGED vars
      BY <1>1, <2>5, Zenon DEF FlagInv, Caller, Close, CloseStop, CloseRepo, Flush, rest, writer, callers, vars
    <2>6. QED
      BY <2>1, <2>2, <2>3, <2>4, <2>5 DEF Next, Writer
  <1>3. RepoOutlivesWriter'
    <2>1. ASSUME NEW p \in Producers, Enqueue(p) \/ Push(p) \/ NoteDrop(p)
          PROVE  RepoOutlivesWriter'
      BY <1>1, <2>1 DEF RepoOutlivesWriter, Enqueue, Push, NoteDrop, writer, callers
    <2>2. CASE Writer
      <3>1. wpc # "done" /\ repoOpen' = repoOpen
        BY <2>2 DEF Writer, Pull, PollNone, FlushTimer, Housekeep, DrainBatch, DrainMore, DrainRest, Answer, WriteOk,
                    WriteFails, RetryFails, Stop, Finish, FinishEnds, TakeRequest, callers
      <3>2. QED
        BY <1>1, <3>1 DEF RepoOutlivesWriter
    <2>3. ASSUME NEW c \in Callers, Receive(c) \/ Expire(c) \/ GiveUp(c) \/ WriterGone(c)
          PROVE  RepoOutlivesWriter'
      BY <1>1, <2>3 DEF RepoOutlivesWriter, Receive, Expire, GiveUp, WriterGone, rest, writer
    <2>4. CASE Caller \/ (\E c \in Flushers : Flush(c)) \/ UNCHANGED vars
      BY <1>1, <2>4 DEF RepoOutlivesWriter, Caller, Close, CloseStop, CloseRepo, Flush, rest, writer, callers, vars
    <2>5. QED
      BY <2>1, <2>2, <2>3, <2>4 DEF Next
  <1>4. QED
    BY <1>2, <1>3

LEMMA ControlStep ==
    ASSUME IInv, [Next]_vars
    PROVE  ControlInv'
  <1>1. ControlInv
    BY DEF IInv
  <1>2. ASSUME NEW p \in Producers, Enqueue(p) \/ Push(p) \/ NoteDrop(p)
        PROVE  ControlInv'
    BY <1>1, <1>2 DEF ControlInv, Enqueue, Push, NoteDrop, writer, callers
  <1>3. CASE Pull \/ PollNone \/ FlushTimer \/ Housekeep \/ DrainMore
    BY <1>1, <1>3 DEF ControlInv, Pull, PollNone, FlushTimer, Housekeep, DrainMore, StartDrain, callers, aside
  <1>4. CASE DrainBatch \/ DrainRest
    BY <1>1, <1>4, StoreAssumption DEF ControlInv, DrainBatch, DrainRest, Commit, callers, aside
  <1>5. CASE WriteOk \/ WriteFails \/ RetryFails \/ Stop \/ FinishEnds
    BY <1>1, <1>5 DEF ControlInv, WriteOk, WriteFails, RetryFails, Stop, FinishEnds, callers, aside
  <1>6. CASE Answer
    BY <1>1, <1>6 DEF ControlInv, Answer, Asking, aside
  <1>7. CASE Finish
    <2>1. PullRing
      BY <1>7 DEF Finish
    <2>2. Len(Pulled(pending)) \in Nat
      <3>1. Pulled(pending) \in Seq(Records)
        BY <2>1, PullEffect DEF LineOf
      <3>2. QED
        BY <3>1
    <2>3. QED
      BY <1>1, <1>7, <2>2 DEF ControlInv, Finish, Commit, callers, aside
  <1>8. ASSUME NEW c \in Callers, TakeRequest(c) \/ Receive(c) \/ Expire(c) \/ GiveUp(c) \/ WriterGone(c)
        PROVE  ControlInv'
    <2>1. CASE TakeRequest(c)
      BY <1>1, <2>1 DEF ControlInv, TakeRequest, StartDrain, Asking, aside
    <2>2. CASE Receive(c) \/ Expire(c) \/ GiveUp(c) \/ WriterGone(c)
      BY <1>1, <2>2 DEF ControlInv, Receive, Expire, GiveUp, WriterGone, rest, writer, aside
    <2>3. QED
      BY <1>8, <2>1, <2>2
  <1>9. CASE Caller \/ (\E c \in Flushers : Flush(c)) \/ UNCHANGED vars
    BY <1>1, <1>9 DEF ControlInv, Caller, Close, CloseStop, CloseRepo, Flush, Offer, Asking, rest, writer, callers, aside, vars
  <1>10. QED
    BY <1>2, <1>3, <1>4, <1>5, <1>6, <1>7, <1>8, <1>9 DEF Next, Writer

LEMMA CountStep ==
    ASSUME IInv, [Next]_vars
    PROVE  CountInv'
  <1> DEFINE O == {p \in Producers : prod[p] = "open"}
             K == {p \in Producers : prod[p] = "counting"}
  <1>1. /\ pushed \in Nat /\ refused \in Nat /\ dropped \in Nat /\ MaxRecords \in Nat
        /\ IsFiniteSet(O) /\ IsFiniteSet(K) /\ IsFiniteSet(lost)
        /\ Cardinality(O) \in Nat /\ Cardinality(K) \in Nat /\ Cardinality(lost) \in Nat
        /\ pushed + refused + Cardinality(O) <= MaxRecords
        /\ dropped + Cardinality(K) = Cardinality(lost) + refused
    BY FS_CardinalityType, StoreAssumption DEF IInv, CountInv, Offered, DropsCounted
  <1>2. prod \in [Producers -> {"idle", "open", "counting"}]
    BY DEF IInv, ControlInv
  <1>3. ASSUME UNCHANGED <<dropped, prod, pushed, lost, refused>>
        PROVE  CountInv'
    BY <1>3 DEF IInv, CountInv, Offered, DropsCounted
  <1>4. ASSUME NEW p \in Producers, Enqueue(p)
        PROVE  CountInv'
    <2>1. CASE closed
      <3>1. dropped' = dropped + 1 /\ refused' = refused + 1 /\ UNCHANGED <<prod, pushed, lost>>
              /\ pushed + refused + Cardinality(O) < MaxRecords
        BY <1>4, <2>1 DEF Enqueue, Offered
      <3> HIDE DEF O, K
      <3>2. pushed' + refused' + Cardinality(O) <= MaxRecords /\ dropped' + Cardinality(K) = Cardinality(lost') + refused'
              /\ dropped' \in Nat /\ refused' \in Nat
        BY <1>1, <3>1
      <3>3. QED
        BY <1>1, <3>1, <3>2 DEF CountInv, Offered, DropsCounted, O, K
    <2>2. CASE ~closed
      <3>1. prod' = [prod EXCEPT ![p] = "open"] /\ UNCHANGED <<dropped, refused, pushed, lost>> /\ prod[p] = "idle"
              /\ pushed + refused + Cardinality(O) < MaxRecords
        BY <1>4, <2>2 DEF Enqueue, Offered
      <3>2. {q \in Producers : prod'[q] = "open"} = O \cup {p} /\ {q \in Producers : prod'[q] = "counting"} = K /\ p \notin O
        BY <1>2, <3>1
      <3> HIDE DEF O, K
      <3>3. IsFiniteSet(O \cup {p}) /\ Cardinality(O \cup {p}) = Cardinality(O) + 1
        BY <1>1, <3>2, FS_AddElement
      <3>4. pushed' + refused' + Cardinality(O \cup {p}) <= MaxRecords
        BY <1>1, <3>1, <3>3
      <3>5. QED
        BY <1>1, <3>1, <3>2, <3>3, <3>4 DEF CountInv, Offered, DropsCounted
    <2>3. QED
      BY <2>1, <2>2
  <1>5. ASSUME NEW p \in Producers, Push(p)
        PROVE  CountInv'
    <2>1. prod[p] = "open" /\ pushed' = pushed + 1 /\ UNCHANGED <<dropped, refused>>
      BY <1>5 DEF Push
    <2>2. p \in O /\ p \notin K
      BY <2>1
    <2>3. IsFiniteSet(O \ {p}) /\ Cardinality(O \ {p}) = Cardinality(O) - 1
      <3> HIDE DEF O
      <3>1. QED
        BY <1>1, <2>2, FS_RemoveElement
    <2>4. CASE count = Capacity
      <3>1. prod' = [prod EXCEPT ![p] = "counting"] /\ lost' = lost \cup {buf[head]} /\ buf[head] \notin lost
        BY <1>5, <2>4, PushEffect DEF Push
      <3>2. {q \in Producers : prod'[q] = "open"} = O \ {p} /\ {q \in Producers : prod'[q] = "counting"} = K \cup {p}
        BY <1>2, <3>1
      <3> HIDE DEF O, K
      <3>3. /\ IsFiniteSet(K \cup {p}) /\ Cardinality(K \cup {p}) = Cardinality(K) + 1
            /\ IsFiniteSet(lost') /\ Cardinality(lost') = Cardinality(lost) + 1
        BY <1>1, <2>2, <3>1, FS_AddElement
      <3>4. /\ pushed' + refused' + Cardinality(O \ {p}) <= MaxRecords /\ pushed' \in Nat
            /\ dropped' + Cardinality(K \cup {p}) = Cardinality(lost') + refused'
        BY <1>1, <2>1, <2>3, <3>3
      <3>5. QED
        BY <1>1, <2>1, <2>3, <3>2, <3>3, <3>4 DEF CountInv, Offered, DropsCounted
    <2>5. CASE count # Capacity
      <3>1. prod' = [prod EXCEPT ![p] = "idle"] /\ lost' = lost
        BY <1>5, <2>5 DEF Push
      <3>2. {q \in Producers : prod'[q] = "open"} = O \ {p} /\ {q \in Producers : prod'[q] = "counting"} = K
        BY <1>2, <2>1, <3>1
      <3> HIDE DEF O, K
      <3>3. pushed' + refused' + Cardinality(O \ {p}) <= MaxRecords /\ pushed' \in Nat
        BY <1>1, <2>1, <2>3
      <3>4. QED
        BY <1>1, <2>1, <2>3, <3>1, <3>2, <3>3 DEF CountInv, Offered, DropsCounted
    <2>6. QED
      BY <2>4, <2>5
  <1>6. ASSUME NEW p \in Producers, NoteDrop(p)
        PROVE  CountInv'
    <2>1. prod[p] = "counting" /\ prod' = [prod EXCEPT ![p] = "idle"] /\ dropped' = dropped + 1
            /\ UNCHANGED <<pushed, lost, refused>>
      BY <1>6 DEF NoteDrop
    <2>2. p \in K /\ {q \in Producers : prod'[q] = "open"} = O /\ {q \in Producers : prod'[q] = "counting"} = K \ {p}
      BY <1>2, <2>1
    <2> HIDE DEF O, K
    <2>3. IsFiniteSet(K \ {p}) /\ Cardinality(K \ {p}) = Cardinality(K) - 1
      BY <1>1, <2>2, FS_RemoveElement
    <2>4. dropped' + Cardinality(K \ {p}) = Cardinality(lost') + refused' /\ dropped' \in Nat
      BY <1>1, <2>1, <2>3
    <2>5. QED
      BY <1>1, <2>1, <2>2, <2>3, <2>4 DEF CountInv, Offered, DropsCounted
  <1>7. CASE Writer
    BY <1>3, <1>7 DEF Writer, Pull, PollNone, FlushTimer, Housekeep, DrainBatch, DrainMore, DrainRest, Answer, WriteOk,
                      WriteFails, RetryFails, Stop, Finish, FinishEnds, TakeRequest, aside
  <1>8. ASSUME NEW c \in Callers, Receive(c) \/ Expire(c) \/ GiveUp(c) \/ WriterGone(c)
        PROVE  CountInv'
    BY <1>3, <1>8 DEF Receive, Expire, GiveUp, WriterGone, rest, aside
  <1>9. CASE Caller \/ (\E c \in Flushers : Flush(c)) \/ UNCHANGED vars
    BY <1>3, <1>9 DEF Caller, Close, CloseStop, CloseRepo, Flush, rest, aside, vars
  <1>10. QED
    BY <1>4, <1>5, <1>6, <1>7, <1>8, <1>9 DEF Next

LEMMA InitIInv == Init => IInv
  <1> SUFFICES ASSUME Init
               PROVE  IInv
    OBVIOUS
  <1> USE DEF Init
  <1>1. OkRing(buf, head, count) /\ Contents = <<>>
    <2>1. Capacity \in Nat \ {0} /\ MaxRecords \in Nat /\ 0 \in Slots /\ 0 \in 0..Capacity /\ 0 \in 0..MaxRecords
      BY StoreAssumption DEF Slots
    <2>2. \A s \in Slots : ~ ((s - 0) % Capacity < 0)
      <3>1. \A s \in Slots : (s - 0) % Capacity \in 0..Capacity - 1
        BY <2>1, SlotFacts
      <3>2. QED
        BY <2>1, <3>1
    <2>3. buf \in [Slots -> 0..MaxRecords] /\ \A s \in Slots : buf[s] = 0
      BY <2>1
    <2>4. OkRing(buf, head, count)
      BY <2>1, <2>2, <2>3 DEF OkRing
    <2>5. Contents \in Seq(Records) /\ Len(Contents) = 0
      BY <2>4, RingContents, ContentsAre
    <2>6. QED
      BY <2>4, <2>5
  <1>2. ControlInv
    BY DEF ControlInv, Asking
  <1>3. FlagInv
    BY Zenon DEF FlagInv
  <1>4. CountInv
    <2>1. {p \in Producers : prod[p] = "open"} = {} /\ {p \in Producers : prod[p] = "counting"} = {}
      OBVIOUS
    <2>2. IsFiniteSet({}) /\ Cardinality({}) = 0
      BY FS_EmptySet
    <2> pushed = 0 /\ refused = 0 /\ dropped = 0 /\ lost = {}
      OBVIOUS
    <2> HIDE DEF Init
    <2>3. Offered <= MaxRecords /\ DropsCounted
      BY <2>1, <2>2, StoreAssumption DEF Offered, DropsCounted
    <2>4. IsFiniteSet({p \in Producers : prod[p] = "open"}) /\ IsFiniteSet({p \in Producers : prod[p] = "counting"})
      BY <2>1, <2>2
    <2>5. QED
      BY <2>2, <2>3, <2>4 DEF CountInv
  <1>5. LineInv
    <2>1. <<>> \in Seq(Records)
      OBVIOUS
    <2>2. QED
      BY <1>1, <2>1, RowsEmpty, LineStart DEF LineInv, LineOf
  <1>6. BatchInv /\ HealthShowsLoss /\ RepoOutlivesWriter
    BY DEF BatchInv, HealthShowsLoss, RepoOutlivesWriter
  <1>7. QED
    BY <1>1, <1>2, <1>3, <1>4, <1>5, <1>6 DEF IInv

LEMMA StepIInv == IInv /\ [Next]_vars => IInv'
  <1> SUFFICES ASSUME IInv, [Next]_vars
               PROVE  IInv'
    OBVIOUS
  <1>1. Standing' /\ ControlInv' /\ FlagInv' /\ RepoOutlivesWriter' /\ CountInv'
    BY StandingStep, ControlStep, FlagStep, CountStep
  <1>2. QED
    BY <1>1 DEF IInv, Standing

LEMMA Inductive == Spec => []IInv
  BY InitIInv, StepIInv, PTL DEF Spec

\* What the invariant says of the records in the order of their rows.
LEMMA OrderFromLine == IInv => OrderKept /\ NothingVanishes
  <1> SUFFICES ASSUME IInv
               PROVE  OrderKept /\ NothingVanishes
    OBVIOUS
  <1> DEFINE P == Rows(persisted)
             B == Rows(batch)
             D == Rows(pending)
             Q == Rows(Contents)
             one == persisted \o batch
             two == one \o pending
             all == two \o Contents
  <1>1. /\ persisted \in Seq(Records) /\ batch \in Seq(Records) /\ pending \in Seq(Records) /\ Contents \in Seq(Records)
        /\ Sorted(persisted) /\ Sorted(batch) /\ Sorted(pending) /\ Sorted(Contents)
        /\ Line(P, B, D, Q, failed, lost, pushed)
    BY DEF IInv, LineInv, LineOf
  <1>2. Below(P, B) /\ Below(P \cup B, D) /\ Below(P \cup B \cup D, Q)
    BY <1>1 DEF Line, Below
  <1>3. one \in Seq(Records) /\ Rows(one) = P \cup B /\ Sorted(one)
    BY <1>1, <1>2, ConcatRows
  <1> HIDE DEF one
  <1>4. two \in Seq(Records) /\ Rows(two) = P \cup B \cup D /\ Sorted(two)
    BY <1>1, <1>2, <1>3, ConcatRows
  <1> HIDE DEF two
  <1>5. all \in Seq(Records) /\ Rows(all) = P \cup B \cup D \cup Q /\ Sorted(all)
    BY <1>1, <1>2, <1>4, ConcatRows
  <1>6. persisted \o batch \o pending \o Contents = all
    BY DEF one, two
  <1> HIDE DEF all, P, B, D, Q
  <1>7. DOMAIN all = 1..Len(all)
    BY <1>5
  <1>8. OrderKept
    BY <1>5, <1>6, <1>7 DEF OrderKept, Sorted
  <1>9. NothingVanishes
    BY <1>1, <1>5, <1>6 DEF NothingVanishes, Line, P, B, D, Q
  <1>10. QED
    BY <1>8, <1>9

LEMMA TypeFromInv == IInv => TypeOK
  BY DEF IInv, OkRing, ControlInv, FlagInv, LineInv, LineOf, TypeOK, Records

\* Rows are written in the order they were recorded and once, to a database that
\* is still open, whatever the sizes of ring, batch and drain and however many
\* producers push, flush and close at once (WritesSound).
THEOREM WritesAreSound == Spec => []WritesSound
  <1>1. IInv => WritesSound
    BY OrderFromLine, TypeFromInv DEF WritesSound, IInv
  <1>2. QED
    BY Inductive, <1>1, PTL

\* Every record pushed is on its way or settled in one way only, the drop counter
\* is the number of records lost or turned away but for the producers about to
\* count, and the store is degraded exactly when its newest batch was given up
\* (LossVisible).
THEOREM LossIsVisible == Spec => []LossVisible
  <1>1. IInv => LossVisible
    BY OrderFromLine DEF LossVisible, IInv, CountInv
  <1>2. QED
    BY Inductive, <1>1, PTL

--------------------------------------------------------------------------------
(* The ring implements the queue that drops its oldest record. *)

LEMMA FifoStep ==
    ASSUME IInv, [Next]_vars
    PROVE  [Fifo!Next]_Contents
  <1>1. ASSUME UNCHANGED ring
        PROVE  Contents' = Contents
    BY <1>1, ContentsAre DEF ring
  <1>2. ASSUME NEW p \in Producers, Push(p)
        PROVE  Fifo!Next
    <2>1. pushed + 1 \in 1..MaxRecords
      BY <1>2, RoomToPush DEF Push, Records
    <2>2. Fifo!Push(pushed + 1)
      BY <1>2, PushEffect DEF Fifo!Push
    <2>3. QED
      BY <2>1, <2>2 DEF Fifo!Next
  <1>3. ASSUME PullRing
        PROVE  [Fifo!Next]_Contents
    <2>1. PICK n \in 0..Len(Contents) : Contents' = SubSeq(Contents, n + 1, Len(Contents))
      BY <1>3, PullEffect
    <2>2. Contents \in Seq(Records) /\ Len(Contents) \in Nat
      BY ContentsFacts
    <2>3. CASE n = 0
      <3>1. SubSeq(Contents, 1, Len(Contents)) = Contents
        BY <2>2
      <3>2. n + 1 = 1
        BY <2>3
      <3>3. QED
        BY <2>1, <3>1, <3>2
    <2>4. CASE n # 0
      <3>1. n \in 1..Len(Contents)
        BY <2>2, <2>4
      <3>2. QED
        BY <2>1, <3>1 DEF Fifo!Next, Fifo!Take
    <2>5. QED
      BY <2>3, <2>4
  <1>4. ASSUME NEW p \in Producers, Enqueue(p) \/ NoteDrop(p)
        PROVE  UNCHANGED ring
    BY <1>4 DEF Enqueue, NoteDrop, ring
  <1>5. CASE Writer
    <2>1. UNCHANGED ring \/ PullRing
      BY <1>5 DEF Writer, Pull, PollNone, FlushTimer, Housekeep, DrainBatch, DrainMore, DrainRest, Answer, WriteOk,
                  WriteFails, RetryFails, Stop, Finish, FinishEnds, TakeRequest, ring
    <2>2. QED
      BY <1>1, <1>3, <2>1
  <1>6. ASSUME NEW c \in Callers, Receive(c) \/ Expire(c) \/ GiveUp(c) \/ WriterGone(c)
        PROVE  UNCHANGED ring
    BY <1>6 DEF Receive, Expire, GiveUp, WriterGone, rest
  <1>7. CASE Caller \/ (\E c \in Flushers : Flush(c)) \/ UNCHANGED vars
    <2>1. UNCHANGED ring
      BY <1>7 DEF Caller, Close, CloseStop, CloseRepo, Flush, rest, vars
    <2>2. QED
      BY <1>1, <2>1
  <1>8. QED
    BY <1>1, <1>2, <1>4, <1>5, <1>6, <1>7 DEF Next

\* The ring buffer with its wrapping head and its count implements a bounded
\* first-in first-out queue that gives up its oldest record (RingIsFifo).
THEOREM RingImplementsFifo == Spec => RingIsFifo
  <1>1. Init => Fifo!Init
    <2> SUFFICES ASSUME Init
                 PROVE  Contents = <<>>
      BY DEF Fifo!Init
    <2>1. IInv /\ count = 0
      BY InitIInv DEF Init
    <2>2. Contents \in Seq(Records) /\ Len(Contents) = 0
      BY <2>1, ContentsFacts
    <2>3. QED
      BY <2>2
  <1>2. IInv /\ [Next]_vars => [Fifo!Next]_Contents
    BY FifoStep
  <1>3. QED
    BY Inductive, <1>1, <1>2, PTL DEF Spec, RingIsFifo, Fifo!Spec

--------------------------------------------------------------------------------
(* Flush keeps its promise when one pull can empty the ring. *)

LEMMA InitFlush == Init => FlushInv
  <1>1. Init => Rows(pending) = {} /\ \A c \in Callers : call[c] = "idle" /\ mark[c] = 0 /\ mark \in [Callers -> Nat]
    BY RowsEmpty DEF Init
  <1>2. QED
    BY <1>1 DEF Init, FlushInv, Served, Beyond, Emptied, Answered, Looked

\* What is settled stays so.
LEMMA SettledStays ==
    ASSUME IInv, [Next]_vars, NEW i, Settled(i)
    PROVE  Settled(i)'
  <1> DEFINE Grows == Rows(persisted) \subseteq Rows(persisted') /\ failed \subseteq failed' /\ lost \subseteq lost'
  <1>1. Grows
    <2>1. ASSUME UNCHANGED <<persisted, failed, lost>>
          PROVE  Grows
      BY <2>1
    <2>2. ASSUME NEW p \in Producers, Enqueue(p) \/ Push(p) \/ NoteDrop(p)
          PROVE  Grows
      BY <2>2 DEF Enqueue, Push, NoteDrop, writer
    <2>3. CASE WriteOk
      <3>1. persisted' = persisted \o batch /\ UNCHANGED <<failed, lost>>
        BY <2>3 DEF WriteOk, aside
      <3>2. persisted \in Seq(Records) /\ batch \in Seq(Records)
        BY DEF IInv, LineInv, LineOf
      <3>3. QED
        BY <3>1, <3>2, ConcatRows
    <2>4. CASE RetryFails
      BY <2>4 DEF RetryFails, aside
    <2>5. CASE Writer /\ ~WriteOk /\ ~RetryFails
      BY <2>1, <2>5 DEF Writer, Pull, PollNone, FlushTimer, Housekeep, DrainBatch, DrainMore, DrainRest, Answer,
                        WriteFails, Stop, Finish, FinishEnds, TakeRequest, StartDrain, Commit, aside
    <2>6. ASSUME NEW c \in Callers, Receive(c) \/ Expire(c) \/ GiveUp(c) \/ WriterGone(c)
          PROVE  Grows
      BY <2>1, <2>6 DEF Receive, Expire, GiveUp, WriterGone, rest, writer, aside
    <2>7. CASE Caller \/ (\E c \in Flushers : Flush(c)) \/ UNCHANGED vars
      BY <2>1, <2>7 DEF Caller, Close, CloseStop, CloseRepo, Flush, rest, writer, aside, vars
    <2>8. QED
      BY <2>2, <2>3, <2>4, <2>5, <2>6, <2>7 DEF Next
  <1>2. QED
    BY <1>1 DEF Settled

LEMMA ServedStep ==
    ASSUME IInv, FlushInv, [Next]_vars
    PROVE  Served'
  <1>1. Served /\ ControlInv /\ None \notin Callers
    BY StoreAssumption DEF FlushInv, IInv, Callers
  <1>2. ASSUME NEW p \in Producers, Enqueue(p) \/ Push(p) \/ NoteDrop(p)
        PROVE  Served'
    BY <1>1, <1>2 DEF Served, Enqueue, Push, NoteDrop, writer, callers
  <1>3. CASE Pull \/ PollNone \/ FlushTimer \/ Housekeep \/ DrainMore
    <2>1. CASE Pull \/ Housekeep
      BY <1>1, <2>1 DEF Served, Pull, Housekeep, callers
    <2>2. CASE PollNone \/ FlushTimer
      BY <1>1, <2>2 DEF Served, PollNone, FlushTimer, StartDrain, callers
    <2>3. CASE DrainMore
      BY <1>1, <2>3 DEF Served, DrainMore, callers
    <2>4. QED
      BY <1>3, <2>1, <2>2, <2>3
  <1>4. CASE DrainBatch \/ DrainRest
    BY <1>1, <1>4 DEF Served, DrainBatch, DrainRest, Commit, callers
  <1>5. CASE WriteOk \/ WriteFails \/ RetryFails \/ Stop \/ FinishEnds
    <2>1. CASE WriteOk \/ RetryFails
      BY <1>1, <2>1 DEF Served, WriteOk, RetryFails, callers
    <2>2. CASE WriteFails \/ Stop \/ FinishEnds
      BY <1>1, <2>2 DEF Served, WriteFails, Stop, FinishEnds, callers
    <2>3. QED
      BY <1>5, <2>1, <2>2
  <1>6. CASE Answer
    BY <1>1, <1>6 DEF Served, Answer
  <1>7. CASE Finish
    BY <1>1, <1>7 DEF Served, Finish, Commit, callers
  <1>8. ASSUME NEW c \in Callers, TakeRequest(c) \/ Receive(c) \/ Expire(c) \/ GiveUp(c) \/ WriterGone(c)
        PROVE  Served'
    <2>1. CASE TakeRequest(c)
      BY <1>1, <2>1 DEF Served, ControlInv, TakeRequest, StartDrain
    <2>2. CASE Receive(c) \/ Expire(c) \/ GiveUp(c) \/ WriterGone(c)
      BY <1>1, <2>2 DEF Served, ControlInv, Receive, Expire, GiveUp, WriterGone, rest, writer
    <2>3. QED
      BY <1>8, <2>1, <2>2
  <1>9. CASE Caller \/ (\E c \in Flushers : Flush(c)) \/ UNCHANGED vars
    BY <1>1, <1>9 DEF Served, ControlInv, Caller, Close, CloseStop, CloseRepo, Flush, Offer, rest, writer, callers, vars
  <1>10. QED
    BY <1>2, <1>3, <1>4, <1>5, <1>6, <1>7, <1>8, <1>9 DEF Next, Writer

LEMMA EmptiedStep ==
    ASSUME IInv, FlushInv, [Next]_vars
    PROVE  Emptied'
  <1>1. Emptied /\ ControlInv /\ pending \in Seq(Records)
    BY DEF FlushInv, IInv, LineInv, LineOf
  <1>2. ASSUME NEW p \in Producers, Enqueue(p) \/ Push(p) \/ NoteDrop(p)
        PROVE  Emptied'
    BY <1>1, <1>2 DEF Emptied, Enqueue, Push, NoteDrop, writer
  <1>3. CASE Pull \/ PollNone \/ FlushTimer \/ Housekeep \/ DrainMore \/ DrainBatch \/ Answer \/ Stop \/ FinishEnds \/ Finish
    BY <1>1, <1>3 DEF Emptied, Pull, PollNone, FlushTimer, Housekeep, DrainMore, DrainBatch, Answer, Stop, FinishEnds,
                      Finish, StartDrain, Commit
  <1>4. CASE DrainRest
    <2>1. pending' = <<>>
      <3>1. SubSeq(pending, Len(pending) + 1, Len(pending)) = <<>>
        BY <1>1, SubSeqEmpty
      <3>2. QED
        BY <1>4, <3>1 DEF DrainRest, Commit
    <2>2. QED
      BY <2>1 DEF Emptied
  <1>5. CASE WriteOk \/ WriteFails \/ RetryFails
    BY <1>1, <1>5 DEF Emptied, WriteOk, WriteFails, RetryFails
  <1>6. ASSUME NEW c \in Callers, TakeRequest(c) \/ Receive(c) \/ Expire(c) \/ GiveUp(c) \/ WriterGone(c)
        PROVE  Emptied'
    BY <1>1, <1>6 DEF Emptied, TakeRequest, StartDrain, Receive, Expire, GiveUp, WriterGone, rest, writer
  <1>7. CASE Caller \/ (\E c \in Flushers : Flush(c)) \/ UNCHANGED vars
    BY <1>1, <1>7 DEF Emptied, Caller, Close, CloseStop, CloseRepo, Flush, rest, writer, vars
  <1>8. QED
    BY <1>2, <1>3, <1>4, <1>5, <1>6, <1>7 DEF Next, Writer

LEMMA BeyondStep ==
    ASSUME Capacity <= MaxDrain, IInv, FlushInv, [Next]_vars
    PROVE  Beyond'
  <1>1. Beyond /\ Served /\ ControlInv /\ None \notin Callers /\ pushed \in Nat
    BY StoreAssumption DEF FlushInv, IInv, Callers, CountInv
  \* Steps that look at the ring no later than before and wait for no one else.
  <1>2. ASSUME UNCHANGED <<mark, pushed>>, Rows(Contents') \subseteq Rows(Contents), Looked' => Looked,
               \A c \in Callers : call'[c] = "waiting" => call[c] = "waiting"
        PROVE  Beyond'
    BY <1>1, <1>2 DEF Beyond
  <1>3. ASSUME UNCHANGED <<mark, pushed>>, ~Looked'
        PROVE  Beyond'
    BY <1>1, <1>3 DEF Beyond
  <1>4. ASSUME UNCHANGED ring
        PROVE  Rows(Contents') \subseteq Rows(Contents)
    BY <1>4, ContentsAre DEF ring
  <1>5. ASSUME NEW p \in Producers, Enqueue(p) \/ NoteDrop(p)
        PROVE  Beyond'
    BY <1>2, <1>4, <1>5 DEF Enqueue, NoteDrop, writer, callers, Looked
  <1>6. ASSUME NEW p \in Producers, Push(p)
        PROVE  Beyond'
    <2>1. Rows(Contents') \subseteq Rows(Contents) \cup {pushed + 1}
      BY <1>6, PushEffect
    <2>2. pushed' = pushed + 1 /\ UNCHANGED <<mark, call, wpc, back>>
      BY <1>6 DEF Push, callers, writer
    <2>3. (Looked' <=> Looked) /\ \A c \in Callers : mark[c] \in Nat /\ mark[c] <= pushed /\ mark[c] < pushed + 1
      BY <1>1, <2>2 DEF Looked, Beyond
    <2>4. ASSUME NEW c \in Callers, call'[c] = "waiting", Looked', NEW i \in Rows(Contents')
          PROVE  mark'[c] < i
      BY <1>1, <2>1, <2>2, <2>3, <2>4 DEF Beyond
    <2>5. \A c \in Callers : mark'[c] <= pushed'
      BY <1>1, <2>2, <2>3
    <2>6. QED
      BY <1>1, <2>2, <2>4, <2>5 DEF Beyond
  <1>7. CASE Pull \/ PollNone \/ FlushTimer \/ Housekeep \/ DrainBatch \/ Stop \/ FinishEnds \/ Answer \/ Finish
    <2>1. UNCHANGED <<mark, pushed>> /\ ~Looked'
      BY <1>7 DEF Pull, PollNone, FlushTimer, Housekeep, DrainBatch, Stop, FinishEnds, Answer, Finish, StartDrain, Commit,
                  callers, aside, Looked
    <2>2. QED
      BY <1>3, <2>1
  <1>8. CASE DrainMore
    <2>1. UNCHANGED <<mark, pushed, call, serving>>
      BY <1>8 DEF DrainMore, callers, aside
    <2>2. CASE serving = None
      <3>1. \A c \in Callers : call'[c] # "waiting"
        BY <1>1, <2>1, <2>2 DEF Served
      <3>2. QED
        BY <1>1, <2>1, <3>1 DEF Beyond
    <2>3. CASE serving # None
      <3>1. Contents' = <<>>
        BY <1>8, <2>3, PullEffect DEF DrainMore
      <3>2. Rows(Contents') = {}
        BY <3>1, RowsEmpty
      <3>3. QED
        BY <1>1, <2>1, <3>2 DEF Beyond
    <2>4. QED
      BY <2>2, <2>3
  <1>9. CASE DrainRest \/ WriteOk \/ WriteFails \/ RetryFails
    <2>1. UNCHANGED <<ring, mark, pushed, call>> /\ (Looked' => Looked)
      BY <1>1, <1>9 DEF DrainRest, WriteOk, WriteFails, RetryFails, Commit, callers, aside, Looked, ControlInv
    <2>2. QED
      BY <1>2, <1>4, <2>1
  <1>10. ASSUME NEW c \in Callers, TakeRequest(c)
         PROVE  Beyond'
    BY <1>3, <1>10 DEF TakeRequest, StartDrain, aside, Looked
  <1>11. ASSUME NEW c \in Callers, Receive(c) \/ Expire(c) \/ GiveUp(c) \/ WriterGone(c)
         PROVE  Beyond'
    <2>1. UNCHANGED <<ring, mark, pushed>> /\ (Looked' => Looked)
      BY <1>11 DEF Receive, Expire, GiveUp, WriterGone, rest, writer, aside, Looked
    <2>2. \A d \in Callers : call'[d] = "waiting" => call[d] = "waiting"
      BY <1>1, <1>11 DEF ControlInv, Receive, Expire, GiveUp, WriterGone
    <2>3. QED
      BY <1>2, <1>4, <2>1, <2>2
  <1>12. ASSUME NEW c \in Callers, Offer(c), UNCHANGED rest
         PROVE  Beyond'
    <2>1. UNCHANGED <<ring, pushed>> /\ (Looked' <=> Looked)
      BY <1>12 DEF rest, writer, aside, Looked
    <2>2. mark' = [mark EXCEPT ![c] = pushed] /\ call' = [call EXCEPT ![c] = "sending"]
      BY <1>12 DEF Offer
    <2>3. mark' \in [Callers -> Nat] /\ \A d \in Callers : mark'[d] <= pushed'
      BY <1>1, <2>1, <2>2 DEF Beyond
    <2>4. \A d \in Callers : call'[d] = "waiting" => call[d] = "waiting" /\ mark'[d] = mark[d]
      BY <1>1, <2>2 DEF ControlInv, Beyond
    <2>5. QED
      BY <1>1, <1>4, <2>1, <2>3, <2>4 DEF Beyond
  <1>13. CASE Close \/ (\E c \in Flushers : Flush(c))
    BY <1>12, <1>13 DEF Close, Flush, Callers
  <1>14. CASE CloseStop \/ CloseRepo \/ UNCHANGED vars
    BY <1>2, <1>4, <1>14 DEF CloseStop, CloseRepo, rest, writer, aside, callers, vars, Looked
  <1>15. QED
    BY <1>5, <1>6, <1>7, <1>8, <1>9, <1>10, <1>11, <1>13, <1>14 DEF Next, Writer, Caller

\* When the writer answers, nothing of the caller is on its way any more.
LEMMA AnswerSettles ==
    ASSUME IInv, FlushInv, wpc = "answer", NEW c \in Callers, call[c] = "waiting", NEW i \in 1..mark[c]
    PROVE  Settled(i)
  <1>1. batch = <<>> /\ pending = <<>> /\ Rows(batch) = {} /\ Rows(pending) = {}
    BY RowsEmpty DEF IInv, BatchInv, FlushInv, Emptied
  <1>2. i \in 1..pushed
    BY DEF FlushInv, Beyond, IInv, CountInv
  <1>3. i \notin Rows(Contents)
    <2>1. \A j \in Rows(Contents) : mark[c] < j
      BY DEF FlushInv, Beyond, Looked
    <2>2. mark[c] \in Nat
      BY DEF FlushInv, Beyond
    <2>3. ~ (mark[c] < i)
      BY <2>2
    <2>4. QED
      BY <2>1, <2>3
  <1>4. QED
    BY <1>1, <1>2, <1>3 DEF IInv, LineInv, LineOf, Line, Settled

LEMMA AnsweredStep ==
    ASSUME IInv, FlushInv, [Next]_vars
    PROVE  Answered'
  <1>1. Answered /\ ControlInv /\ mark \in [Callers -> Nat]
    BY DEF FlushInv, IInv, Beyond
  <1>2. ASSUME NEW c \in Callers, mark'[c] = mark[c], call[c] \in {"failed", "done"}, NEW i \in 1..mark'[c]
        PROVE  Settled(i)'
    <2>1. Settled(i)
      BY <1>1, <1>2 DEF Answered
    <2>2. QED
      BY <2>1, SettledStays
  <1>3. ASSUME UNCHANGED <<call, mark>>
        PROVE  Answered'
    BY <1>2, <1>3 DEF Answered
  <1>4. ASSUME NEW p \in Producers, Enqueue(p) \/ Push(p) \/ NoteDrop(p)
        PROVE  Answered'
    BY <1>3, <1>4 DEF Enqueue, Push, NoteDrop, callers
  <1>5. CASE Writer /\ ~Answer /\ ~(\E c \in Callers : TakeRequest(c))
    BY <1>3, <1>5 DEF Writer, Pull, PollNone, FlushTimer, Housekeep, DrainBatch, DrainMore, DrainRest, WriteOk,
                      WriteFails, RetryFails, Stop, Finish, FinishEnds, callers
  <1>6. CASE Answer
    <2>1. wpc = "answer" /\ mark' = mark
      BY <1>6 DEF Answer
    <2>2. ASSUME NEW c \in Callers, call'[c] \in {"failed", "done"}
          PROVE  call[c] \in {"waiting", "failed", "done"}
      BY <1>1, <1>6, <2>2 DEF Answer, ControlInv
    <2>3. ASSUME NEW c \in Callers, call'[c] \in {"failed", "done"}, NEW i \in 1..mark'[c]
          PROVE  Settled(i)'
      <3>1. CASE call[c] = "waiting"
        <4>1. Settled(i)
          BY <2>1, <2>3, <3>1, AnswerSettles
        <4>2. QED
          BY <4>1, SettledStays
      <3>2. CASE call[c] # "waiting"
        BY <1>2, <2>1, <2>2, <2>3, <3>2
      <3>3. QED
        BY <3>1, <3>2
    <2>4. QED
      BY <2>3 DEF Answered
  <1>7. ASSUME NEW c \in Callers, TakeRequest(c) \/ Receive(c) \/ Expire(c) \/ GiveUp(c) \/ WriterGone(c)
        PROVE  Answered'
    <2>1. mark' = mark
      BY <1>7 DEF TakeRequest, Receive, Expire, GiveUp, WriterGone
    <2>2. \A d \in Callers : call'[d] \in {"failed", "done"} => call[d] \in {"failed", "done"}
      BY <1>1, <1>7 DEF ControlInv, TakeRequest, Receive, Expire, GiveUp, WriterGone
    <2>3. QED
      BY <1>2, <2>1, <2>2 DEF Answered
  <1>8. ASSUME NEW c \in Callers, Offer(c)
        PROVE  Answered'
    <2>1. \A d \in Callers : call'[d] \in {"failed", "done"} => call[d] \in {"failed", "done"} /\ mark'[d] = mark[d]
      BY <1>1, <1>8 DEF ControlInv, Offer
    <2>2. QED
      BY <1>2, <2>1 DEF Answered
  <1>9. CASE Close \/ (\E c \in Flushers : Flush(c))
    BY <1>8, <1>9 DEF Close, Flush, Callers
  <1>10. CASE CloseStop \/ CloseRepo \/ UNCHANGED vars
    BY <1>3, <1>10 DEF CloseStop, CloseRepo, callers, vars
  <1>11. QED
    BY <1>4, <1>5, <1>6, <1>7, <1>9, <1>10 DEF Next, Writer, Caller

\* After Flush returns without a timeout, to a caller whose request the writer took,
\* every record queued before the call is committed or counted as lost, for every
\* ring that one pull can empty: how records, other callers, the timer and failing
\* writes interleave does not matter (FlushHonest).
THEOREM FlushIsHonest ==
    ASSUME Capacity <= MaxDrain
    PROVE  Spec => FlushHonest
  <1> DEFINE Kept == \A c \in Callers :
               call[c] \in Asking \ {"sending"} /\ c \notin expired /\ call'[c] \in {"ok", "error"} =>
                   \A i \in 1..mark[c] : Settled(i)
  <1>1. Init => FlushInv
    BY InitFlush
  <1>2. IInv /\ FlushInv /\ [Next]_vars => FlushInv'
    BY ServedStep, EmptiedStep, BeyondStep, AnsweredStep DEF FlushInv
  <1>3. ASSUME IInv, FlushInv, Next
        PROVE  Kept
    <2>1. ControlInv /\ Served /\ Answered
      BY <1>3 DEF IInv, FlushInv
    <2>2. ASSUME NEW c \in Callers, call[c] \in Asking \ {"sending"}, c \notin expired, call'[c] \in {"ok", "error"}
          PROVE  call[c] \in {"failed", "done"}
      <3>1. call[c] \in {"waiting", "failed", "done"}
        BY <2>2 DEF Asking
      <3>2. ASSUME call[c] = "waiting"
            PROVE  FALSE
        <4>1. serving = c /\ c # None /\ wpc # "done"
          BY <2>1, <3>2, StoreAssumption DEF Served, Callers
        <4>2. call'[c] # call[c]
          BY <2>2, <3>2
        <4>3. ASSUME NEW d \in Callers, Receive(d) \/ Expire(d) \/ GiveUp(d) \/ WriterGone(d) \/ TakeRequest(d)
              PROVE  FALSE
          BY <2>1, <2>2, <3>2, <4>1, <4>2, <4>3
             DEF ControlInv, Receive, Expire, GiveUp, WriterGone, TakeRequest
        <4>4. CASE Answer
          BY <2>1, <2>2, <3>2, <4>4 DEF Answer
        <4>5. ASSUME NEW d \in Callers, call[d] = "idle", Offer(d)
              PROVE  FALSE
          BY <2>1, <2>2, <3>2, <4>2, <4>5 DEF Offer, ControlInv
        <4>6. CASE Close \/ \E d \in Flushers : Flush(d)
          BY <4>5, <4>6 DEF Close, Flush, Callers
        <4>7. CASE \E p \in Producers : Enqueue(p) \/ Push(p) \/ NoteDrop(p)
          BY <4>2, <4>7 DEF Enqueue, Push, NoteDrop, callers
        <4>8. CASE CloseStop \/ CloseRepo
          BY <4>2, <4>8 DEF CloseStop, CloseRepo
        <4>9. CASE Writer
          <5>1. \/ call' = call \/ Answer \/ \E d \in Callers : TakeRequest(d)
            BY <4>9 DEF Writer, Pull, PollNone, FlushTimer, Housekeep, DrainBatch, DrainMore, DrainRest, WriteOk,
                        WriteFails, RetryFails, Stop, Finish, FinishEnds, callers
          <5>2. QED
            BY <4>2, <4>3, <4>4, <5>1
        <4>10. QED
          BY <1>3, <4>3, <4>6, <4>7, <4>8, <4>9 DEF Next, Caller
      <3>3. QED
        BY <3>1, <3>2
    <2>3. QED
      BY <2>1, <2>2 DEF Answered
  <1>4. IInv /\ FlushInv /\ [Next]_vars => [Kept]_vars
    BY <1>3
  <1>5. QED
    BY Inductive, <1>1, <1>2, <1>4, PTL DEF Spec, FlushHonest
================================================================================
