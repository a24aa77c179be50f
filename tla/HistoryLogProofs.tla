-------------------------- MODULE HistoryLogProofs --------------------------
(***************************************************************************)
(* Theorems about the history log, for every capacity and every width of   *)
(* its counters that the capacity divides.                                 *)
(***************************************************************************)
EXTENDS HistoryLog, Integers, TLAPS

-----------------------------------------------------------------------------
(* Counters and slots                                                      *)

(* Multiplication distributes over sums.                                   *)
LEMMA Distributes ==
  ASSUME NEW c \in Int, NEW p \in Int, NEW q \in Int
  PROVE  c * (p + q) = c * p + c * q
  OBVIOUS

(* The remainder is determined by the sum it belongs to.                   *)
LEMMA RemainderUnique ==
  ASSUME NEW c \in Nat \ {0}, NEW q \in Int, NEW r \in 0..(c - 1)
  PROVE  (c * q + r) % c = r
  OBVIOUS

(* Division with remainder.                                                *)
LEMMA Division ==
  ASSUME NEW c \in Nat, c > 0, NEW x \in Nat
  PROVE  x = c * (x \div c) + (x % c)
  OBVIOUS

LEMMA Quotient ==
  ASSUME NEW c \in Nat \ {0}, NEW x \in Nat
  PROVE  \E q \in Int, r \in 0..(c - 1) : r = x % c /\ x = c * q + r
<1>1. x \div c \in Int /\ x % c \in 0..(c - 1)
  OBVIOUS
<1>2. x = c * (x \div c) + (x % c)
  BY Division
<1> WITNESS x \div c \in Int, x % c \in 0..(c - 1)
<1> QED
  BY <1>2, Zenon

(* A counter that wraps keeps its slot: the capacity divides its range.    *)
LEMMA WrapKeepsSlot ==
  ASSUME NEW x \in Nat
  PROVE  ringIndex(x + SizeMax) = ringIndex(x)
<1>0. Capacity \in Nat \ {0} /\ SizeMax \in Nat /\ SizeMax % Capacity = 0
  BY HistoryConstants
<1>1. PICK q \in Int, r \in 0..(Capacity - 1) :
        r = x % Capacity /\ x = Capacity * q + r
  BY <1>0, Quotient
<1>2. PICK p \in Int : SizeMax = Capacity * p
  <2>1. PICK p \in Int, z \in 0..(Capacity - 1) :
          z = SizeMax % Capacity /\ SizeMax = Capacity * p + z
    BY <1>0, Quotient
  <2>2. z = 0 /\ Capacity * p \in Int
    BY <1>0, <2>1
  <2> QED
    BY <2>1, <2>2
<1>3. x + SizeMax = Capacity * (q + p) + r
  <2>1. Capacity * (q + p) = Capacity * q + Capacity * p
    BY <1>0, Distributes
  <2> DEFINE a == Capacity * q
             b == Capacity * p
             s == Capacity * (q + p)
  <2>2. a \in Int /\ b \in Int /\ s = a + b /\ x = a + r /\ SizeMax = b
    BY <1>0, <1>1, <1>2, <2>1
  <2> HIDE DEF a, b
  <2>3. x + SizeMax = (a + b) + r
    BY <2>2
  <2> QED
    BY <2>2, <2>3
<1>4. (Capacity * (q + p) + r) % Capacity = r
  BY <1>0, RemainderUnique
<1> QED
  BY <1>1, <1>3, <1>4 DEF ringIndex

(* Counters less than a capacity apart have different slots.               *)
LEMMA SlotsDiffer ==
  ASSUME NEW x \in Nat, NEW d \in 1..(Capacity - 1)
  PROVE  ringIndex(x + d) # ringIndex(x)
<1>0. Capacity \in Nat \ {0}
  BY HistoryConstants
<1>1. PICK q \in Int, r \in 0..(Capacity - 1) :
        r = x % Capacity /\ x = Capacity * q + r
  BY <1>0, Quotient
<1>2. CASE r + d < Capacity
  <2>1. x + d = Capacity * q + (r + d)
    BY <1>0, <1>1
  <2>2. (Capacity * q + (r + d)) % Capacity = r + d
    <3>1. r + d \in 0..(Capacity - 1)
      BY <1>0, <1>2
    <3> QED
      BY <1>0, <3>1, RemainderUnique
  <2> QED
    BY <1>1, <2>1, <2>2 DEF ringIndex
<1>3. CASE r + d >= Capacity
  <2>1. x + d = Capacity * (q + 1) + (r + d - Capacity)
    <3>1. Capacity * (q + 1) = Capacity * q + Capacity * 1
      BY <1>0, <1>1, Distributes
    <3> QED
      BY <1>0, <1>1, <3>1
  <2>2. (Capacity * (q + 1) + (r + d - Capacity)) % Capacity = r + d - Capacity
    <3>1. r + d - Capacity \in 0..(Capacity - 1)
      BY <1>0, <1>1, <1>3
    <3>2. q + 1 \in Int
      BY <1>1
    <3> QED
      BY <1>0, <3>1, <3>2, RemainderUnique
  <2> QED
    BY <1>0, <1>1, <2>1, <2>2 DEF ringIndex
<1> QED
  BY <1>0, <1>1, <1>2, <1>3

(* The remainder of a number below twice the divisor.                      *)
LEMMA RemainderBelowTwice ==
  ASSUME NEW c \in Nat \ {0}, NEW x \in 0..(2 * c - 1)
  PROVE  x % c = IF x < c THEN x ELSE x - c
<1>1. CASE x < c
  <2>1. x \in 0..(c - 1) /\ x = c * 0 + x
    BY <1>1
  <2>2. (c * 0 + x) % c = x
    BY <2>1, RemainderUnique
  <2> QED
    BY <1>1, <2>1, <2>2
<1>2. CASE ~(x < c)
  <2>1. x - c \in 0..(c - 1) /\ x = c * 1 + (x - c)
    BY <1>2
  <2>2. (c * 1 + (x - c)) % c = x - c
    BY <2>1, RemainderUnique
  <2> QED
    BY <1>2, <2>1, <2>2
<1> QED
  BY <1>1, <1>2

Counters == 0..(SizeMax - 1)

(* The distance of two counters, and the two ways a counter moves.         *)
LEMMA DistanceIs ==
  ASSUME NEW h \in Counters, NEW t \in Counters
  PROVE  /\ Distance(h, t) = IF t <= h THEN h - t ELSE h + SizeMax - t
         /\ Distance(h, t) \in Counters
<1>0. SizeMax \in Nat \ {0}
  BY HistoryConstants
<1> DEFINE x == h + SizeMax - t
<1>1. x \in 0..(2 * SizeMax - 1)
  BY <1>0 DEF Counters
<1>2. x % SizeMax = IF x < SizeMax THEN x ELSE x - SizeMax
  <2> HIDE DEF x
  <2> QED
    BY <1>0, <1>1, RemainderBelowTwice
<1>3. Distance(h, t) = x % SizeMax
  BY DEF Distance
<1> QED
  BY <1>0, <1>2, <1>3 DEF Counters

LEMMA CounterAdvances ==
  ASSUME NEW h \in Counters, NEW n \in Counters
  PROVE  /\ (h + n) % SizeMax = IF h + n < SizeMax THEN h + n ELSE h + n - SizeMax
         /\ (h + n) % SizeMax \in Counters
<1>0. SizeMax \in Nat \ {0}
  BY HistoryConstants
<1>1. PICK x \in 0..(2 * SizeMax - 1) : x = h + n
  BY <1>0 DEF Counters
<1>2. x % SizeMax = IF x < SizeMax THEN x ELSE x - SizeMax
  BY <1>0, RemainderBelowTwice
<1> QED
  BY <1>0, <1>1, <1>2 DEF Counters

(* A lapped tail is corrected to the oldest record the ring still holds.   *)
LEMMA CorrectedDistance ==
  ASSUME NEW h \in Counters, NEW t \in Counters
  PROVE  /\ correctedTail(h, t) \in Counters
         /\ Distance(h, correctedTail(h, t)) = MinOf(Distance(h, t), Capacity)
<1>0. SizeMax \in Nat \ {0} /\ Capacity \in Nat \ {0} /\ Capacity < SizeMax
  BY HistoryConstants
<1>1. Distance(h, t) \in Nat
  BY <1>0, DistanceIs DEF Counters
<1>2. CASE Distance(h, t) <= Capacity
  <2>1. ~(Distance(h, t) > Capacity)
    BY <1>0, <1>1, <1>2
  <2>2. correctedTail(h, t) = t
    BY <2>1 DEF correctedTail
  <2>3. MinOf(Distance(h, t), Capacity) = Distance(h, t)
    BY <1>0, <1>1, <1>2 DEF MinOf
  <2> QED
    BY <2>2, <2>3
<1>3. CASE Distance(h, t) > Capacity
  <2> DEFINE n == SizeMax - Capacity
             c == (h + n) % SizeMax
  <2>1. n \in Counters
    BY <1>0 DEF Counters
  <2>2. /\ c = IF h < Capacity THEN h + n ELSE h - Capacity
        /\ c \in Counters
    <3>1. c = (IF h + n < SizeMax THEN h + n ELSE h + n - SizeMax) /\ c \in Counters
      <4> HIDE DEF n
      <4> QED
        BY <2>1, CounterAdvances
    <3> HIDE DEF c
    <3> QED
      BY <1>0, <3>1 DEF Counters
  <2>3. correctedTail(h, t) = c
    <3>1. h + SizeMax - Capacity = h + (SizeMax - Capacity)
      BY <1>0 DEF Counters
    <3> QED
      BY <1>3, <3>1 DEF correctedTail
  <2> HIDE DEF c
  <2>4. Distance(h, c) = IF c <= h THEN h - c ELSE h + SizeMax - c
    BY <2>2, DistanceIs
  <2>5. Distance(h, c) = Capacity
    BY <1>0, <2>2, <2>4 DEF Counters
  <2>6. MinOf(Distance(h, t), Capacity) = Capacity
    BY <1>0, <1>1, <1>3 DEF MinOf
  <2> QED
    BY <2>2, <2>3, <2>5, <2>6
<1> QED
  BY <1>0, <1>1, <1>2, <1>3

(* Stepping the head moves every distance from it by one.                  *)
LEMMA SlotBehindNext ==
  ASSUME NEW h \in Counters, NEW d \in 1..Capacity
  PROVE  ringIndex(((h + 1) % SizeMax) + SizeMax - d) = ringIndex(h + SizeMax - (d - 1))
<1>0. SizeMax \in Nat /\ Capacity \in Nat /\ Capacity < SizeMax /\ 1 \in Counters
  BY HistoryConstants DEF Counters
<1>1. PICK k \in Counters :
        k = (h + 1) % SizeMax /\ k = IF h + 1 < SizeMax THEN h + 1 ELSE h + 1 - SizeMax
  BY <1>0, CounterAdvances
<1>2. CASE h + 1 < SizeMax
  <2>1. k + SizeMax - d = h + SizeMax - (d - 1)
    BY <1>0, <1>1, <1>2 DEF Counters
  <2> QED
    BY <1>1, <2>1
<1>3. CASE ~(h + 1 < SizeMax)
  <2>1. PICK x \in Nat : x = k + SizeMax - d
    BY <1>0, <1>1 DEF Counters
  <2>2. h + SizeMax - (d - 1) = x + SizeMax
    BY <1>0, <1>1, <1>3, <2>1 DEF Counters
  <2> QED
    BY <1>1, <2>1, <2>2, WrapKeepsSlot
<1> QED
  BY <1>2, <1>3

(* The slot `i` after the tail is the slot `distance - i` before the head. *)
LEMMA SlotAfterTail ==
  ASSUME NEW h \in Counters, NEW t \in Counters,
         NEW i \in Nat, i < Distance(h, t)
  PROVE  ringIndex(t + i) = ringIndex(h + SizeMax - (Distance(h, t) - i))
<1>0. SizeMax \in Nat
  BY HistoryConstants
<1>1. PICK D \in Counters :
        D = Distance(h, t) /\ D = IF t <= h THEN h - t ELSE h + SizeMax - t
  BY DistanceIs
<1>2. CASE t <= h
  <2>1. PICK x \in Nat : x = t + i
    BY DEF Counters
  <2>2. h + SizeMax - (D - i) = x + SizeMax
    BY <1>0, <1>1, <1>2, <2>1 DEF Counters
  <2> QED
    BY <1>1, <2>1, <2>2, WrapKeepsSlot
<1>3. CASE ~(t <= h)
  <2>1. h + SizeMax - (D - i) = t + i
    BY <1>0, <1>1, <1>3 DEF Counters
  <2> QED
    BY <1>1, <2>1
<1> QED
  BY <1>2, <1>3

LEMMA SlotType == \A x \in Nat : ringIndex(x) \in 0..(Capacity - 1)
<1> SUFFICES ASSUME NEW x \in Nat PROVE ringIndex(x) \in 0..(Capacity - 1)
  OBVIOUS
<1> QED
  BY HistoryConstants, Quotient DEF ringIndex

-----------------------------------------------------------------------------
(* The inductive invariant.  The ring holds the newest records at their    *)
(* distance from the head; the tail is never behind the last confirmed     *)
(* record; a batch that is being copied, or is out, follows the tail.      *)
Held == Distance(s_head, s_tail)

RingHolds ==
  \A d \in 1..Capacity :
    d <= Held => s_ring[ringIndex(s_head + SizeMax - d)] = appended + 1 - d

BatchInv ==
  /\ tail = s_tail /\ batches < MaxBatches
  /\ 1 <= count /\ count <= Held
  /\ \A i \in 1..Len(out) : out[i] = appended - Held + i

LogInv ==
  /\ LogTypeOK
  /\ RingHolds
  /\ replayed + Held <= appended
  /\ rpPc \in {"copy", "await"} => BatchInv
  /\ rpPc = "copy" => Len(out) < count /\ Held <= Capacity
  /\ rpPc = "await" => Len(out) = count

LEMMA InitLog == LogInit => LogInv
<1> SUFFICES ASSUME LogInit PROVE LogInv
  OBVIOUS
<1>0. /\ Capacity \in Nat \ {0} /\ SizeMax \in Nat \ {0}
      /\ Batch \in Nat /\ MaxBatches \in Nat /\ 0 \in Counters
  BY HistoryConstants DEF Counters
<1>1. Held = 0
  BY <1>0, DistanceIs DEF LogInit, Held, Counters
<1>2. LogTypeOK
  BY <1>0 DEF LogInit, LogTypeOK
<1> QED
  BY <1>0, <1>1, <1>2 DEF LogInit, LogInv, RingHolds

LEMMA HeldType == LogTypeOK => Held \in Counters
  BY DistanceIs DEF LogTypeOK, Held, Counters

(* An append: the counters move apart by one record.                       *)
LEMMA AppendKeepsLog ==
  ASSUME ~Overlap, LogInv, HistoryAppend
  PROVE  LogInv' /\ Held' = Held + 1
<1>0. /\ Capacity \in Nat \ {0} /\ SizeMax \in Nat \ {0} /\ Capacity < SizeMax
      /\ 1 \in Counters
  BY HistoryConstants DEF Counters
<1>1. /\ s_head \in Counters /\ s_tail \in Counters /\ appended \in Nat
      /\ s_ring \in [0..(Capacity - 1) -> Nat] /\ Held \in Counters
  BY HeldType DEF LogInv, LogTypeOK, Counters
<1>2. /\ s_head' = (s_head + 1) % SizeMax
      /\ s_head' = IF s_head + 1 < SizeMax THEN s_head + 1 ELSE s_head + 1 - SizeMax
      /\ s_head' \in Counters
  BY <1>0, <1>1, CounterAdvances DEF HistoryAppend
<1>3. s_tail' = s_tail /\ appended' = appended + 1
  BY DEF HistoryAppend
<1>4. Held' = Held + 1
  <2>1. Held' = Distance(s_head', s_tail)
    BY <1>3 DEF Held
  <2>2. Distance(s_head', s_tail) =
          IF s_tail <= s_head' THEN s_head' - s_tail ELSE s_head' + SizeMax - s_tail
    BY <1>1, <1>2, DistanceIs
  <2>3. Held = IF s_tail <= s_head THEN s_head - s_tail ELSE s_head + SizeMax - s_tail
    BY <1>1, DistanceIs DEF Held
  <2>4. Held < SizeMax - 1
    BY DEF HistoryAppend, Held
  <2>5. s_head' = IF s_head + 1 < SizeMax THEN s_head + 1 ELSE 0
    <3>1. s_head' = IF s_head + 1 < SizeMax THEN s_head + 1 ELSE s_head + 1 - SizeMax
      BY <1>2
    <3> QED
      BY <1>0, <1>1, <3>1 DEF Counters
  <2>6. CASE s_head + 1 < SizeMax
    BY <1>0, <1>1, <2>1, <2>2, <2>3, <2>4, <2>5, <2>6 DEF Counters
  <2>7. CASE ~(s_head + 1 < SizeMax)
    BY <1>0, <1>1, <2>1, <2>2, <2>3, <2>4, <2>5, <2>7 DEF Counters
  <2> QED
    BY <2>6, <2>7
<1>5. s_ring' = [s_ring EXCEPT ![ringIndex(s_head)] = appended + 1]
  BY DEF HistoryAppend
<1>6. RingHolds'
  <2> SUFFICES ASSUME NEW d \in 1..Capacity, d <= Held'
               PROVE  s_ring'[ringIndex(s_head' + SizeMax - d)] = appended' + 1 - d
    BY DEF RingHolds, ringIndex
  <2>1. ringIndex(s_head' + SizeMax - d) = ringIndex(s_head + SizeMax - (d - 1))
    BY <1>1, <1>2, SlotBehindNext
  <2>2. CASE d = 1
    <3>1. s_head + SizeMax - (d - 1) = s_head + SizeMax
      BY <1>0, <1>1, <2>2 DEF Counters
    <3>2. ringIndex(s_head + SizeMax) = ringIndex(s_head)
      BY <1>1, WrapKeepsSlot DEF Counters
    <3>3. ringIndex(s_head) \in 0..(Capacity - 1)
      BY <1>1, SlotType DEF Counters
    <3> QED
      BY <1>1, <1>3, <1>5, <2>1, <2>2, <3>1, <3>2, <3>3
  <2>3. CASE d # 1
    <3>1. PICK e \in 1..(Capacity - 1) : e = d - 1
      BY <1>0, <2>3
    <3>2. PICK y \in Nat : y = s_head + SizeMax - e
      BY <1>0, <1>1, <3>1 DEF Counters
    <3>3. y + e = s_head + SizeMax
      BY <1>0, <1>1, <3>1, <3>2 DEF Counters
    <3>4. ringIndex(y) # ringIndex(s_head)
      <4>1. ringIndex(y + e) # ringIndex(y)
        BY SlotsDiffer
      <4>2. ringIndex(s_head + SizeMax) = ringIndex(s_head)
        BY <1>1, WrapKeepsSlot DEF Counters
      <4> QED
        BY <3>3, <4>1, <4>2
    <3>5. ringIndex(y) \in 0..(Capacity - 1)
      BY SlotType
    <3>6. s_ring[ringIndex(y)] = appended + 1 - e
      <4>1. e <= Held /\ e \in 1..Capacity
        BY <1>0, <1>1, <1>4, <3>1 DEF Counters
      <4> QED
        BY <3>2, <4>1 DEF LogInv, RingHolds
    <3>7. s_ring'[ringIndex(y)] = s_ring[ringIndex(y)]
      BY <1>1, <1>5, <3>4, <3>5
    <3> QED
      BY <1>1, <1>3, <2>1, <3>1, <3>2, <3>6, <3>7
  <2> QED
    BY <2>2, <2>3
<1>7. UNCHANGED <<rpPc, tail, count, out, batches, replayed>> /\ rpPc # "copy"
  BY DEF HistoryAppend, peekVars
<1>8. LogTypeOK'
  <2>1. s_ring' \in [0..(Capacity - 1) -> Nat]
    <3>1. appended + 1 \in Nat /\ s_ring \in [0..(Capacity - 1) -> Nat]
      BY <1>1
    <3> QED
      BY <1>5, <3>1
  <2>2. s_head' \in 0..(SizeMax - 1) /\ s_tail' \in 0..(SizeMax - 1) /\ appended' \in Nat
    BY <1>1, <1>2, <1>3 DEF Counters
  <2> QED
    BY <1>7, <2>1, <2>2 DEF LogInv, LogTypeOK
<1>9. rpPc = "await" => BatchInv'
  BY <1>1, <1>3, <1>4, <1>7 DEF LogInv, LogTypeOK, BatchInv, Counters
<1>10. replayed' + Held' <= appended'
  BY <1>1, <1>3, <1>4, <1>7 DEF LogInv, LogTypeOK, Counters
<1> QED
  BY <1>4, <1>6, <1>7, <1>8, <1>9, <1>10 DEF LogInv

(* The ring's contents survive what only moves the tail forward.           *)
LEMMA RingKept ==
  ASSUME LogTypeOK, RingHolds, UNCHANGED <<s_ring, s_head, appended>>,
         Held' \in Nat, Held' <= Held
  PROVE  RingHolds'
<1>1. Held \in Nat
  BY HeldType, HistoryConstants DEF Counters
<1> SUFFICES ASSUME NEW d \in 1..Capacity, d <= Held'
             PROVE  s_ring'[ringIndex(s_head' + SizeMax - d)] = appended' + 1 - d
  BY DEF RingHolds, ringIndex
<1>2. d <= Held
  BY <1>1, HistoryConstants
<1>3. s_ring[ringIndex(s_head + SizeMax - d)] = appended + 1 - d
  BY <1>2 DEF RingHolds
<1> QED
  BY <1>3

(* A peek corrects the tail and takes a batch that is not empty.           *)
LEMMA PeekKeepsLog ==
  ASSUME LogInv, PeekBatch
  PROVE  LogInv' /\ Held' = MinOf(Held, Capacity) /\ count' = MinOf(Held', Batch)
<1>0. /\ Capacity \in Nat \ {0} /\ SizeMax \in Nat \ {0} /\ Capacity < SizeMax
      /\ Batch \in Nat \ {0}
  BY HistoryConstants
<1>1. /\ s_head \in Counters /\ s_tail \in Counters /\ appended \in Nat
      /\ replayed \in Nat /\ Held \in Counters
  BY HeldType DEF LogInv, LogTypeOK, Counters
<1>2. /\ UNCHANGED <<s_ring, s_head, batches, appended, replayed>>
      /\ s_tail' = correctedTail(s_head, s_tail) /\ tail' = s_tail'
      /\ count' = MinOf(Distance(s_head, s_tail'), Batch)
      /\ out' = <<>> /\ rpPc' = "copy" /\ s_head # s_tail /\ batches < MaxBatches
  BY DEF PeekBatch, HasPending
<1>3. s_tail' \in Counters /\ Held' = MinOf(Held, Capacity)
  BY <1>1, <1>2, CorrectedDistance DEF Held
<1>4. count' = MinOf(Held', Batch)
  BY <1>2 DEF Held
<1>5. Held >= 1
  <2>1. Held = IF s_tail <= s_head THEN s_head - s_tail ELSE s_head + SizeMax - s_tail
    BY <1>1, DistanceIs DEF Held
  <2> QED
    BY <1>0, <1>1, <1>2, <2>1 DEF Counters
<1>6. /\ Held' \in Nat /\ Held' >= 1 /\ Held' <= Held /\ Held' <= Capacity
      /\ count' \in 0..Batch /\ 1 <= count' /\ count' <= Held'
  BY <1>0, <1>1, <1>3, <1>4, <1>5 DEF MinOf, Counters
<1>7. RingHolds'
  BY <1>2, <1>6, RingKept DEF LogInv
<1>8. Len(out') = 0 /\ out' \in Seq(Nat)
  BY <1>2
<1>9. LogTypeOK'
  BY <1>0, <1>2, <1>3, <1>6, <1>8, SMTT(30) DEF LogInv, LogTypeOK, Counters
<1>10. BatchInv'
  BY <1>2, <1>6, <1>8 DEF BatchInv
<1>11. replayed' + Held' <= appended'
  <2>1. replayed + Held <= appended /\ replayed' = replayed /\ appended' = appended
    BY <1>2 DEF LogInv
  <2>2. Held \in Nat /\ Held' \in Nat /\ Held' <= Held
    BY <1>0, <1>1, <1>6 DEF Counters
  <2>3. PICK h \in Nat, k \in Nat : h = Held /\ k = Held'
    BY <2>2
  <2>4. replayed \in Nat /\ appended \in Nat /\ replayed + h <= appended /\ k <= h
    BY <1>1, <2>1, <2>2, <2>3
  <2>5. replayed + k <= appended
    BY <2>4
  <2> QED
    BY <2>1, <2>3, <2>5
<1>12. Len(out') < count'
  BY <1>6, <1>8
<1> QED
  BY <1>2, <1>3, <1>4, <1>6, <1>7, <1>9, <1>10, <1>11, <1>12 DEF LogInv

(* A record is copied: it is the next one after the tail.                  *)
LEMMA CopyKeepsLog ==
  ASSUME LogInv, CopyRecord
  PROVE  LogInv' /\ Held' = Held
<1>0. /\ Capacity \in Nat \ {0} /\ SizeMax \in Nat \ {0} /\ Batch \in Nat
  BY HistoryConstants
<1>1. /\ s_head \in Counters /\ s_tail \in Counters /\ appended \in Nat
      /\ Held \in Nat /\ out \in Seq(Nat) /\ Len(out) \in Nat /\ count \in Nat
      /\ count <= Batch
      /\ s_ring \in [0..(Capacity - 1) -> Nat]
  BY <1>0, HeldType DEF LogInv, LogTypeOK, Counters
<1>2. /\ UNCHANGED <<s_ring, s_head, s_tail, tail, count, batches, appended, replayed>>
      /\ rpPc = "copy"
      /\ out' = Append(out, s_ring[ringIndex(tail + Len(out))])
      /\ rpPc' = IF Len(out) + 1 = count THEN "await" ELSE "copy"
  BY DEF CopyRecord, ringVars
<1>3. Held' = Held
  BY <1>2 DEF Held
<1>4. BatchInv /\ Len(out) < count /\ Held <= Capacity /\ count <= Held /\ tail = s_tail
  BY <1>2 DEF LogInv, BatchInv
<1> DEFINE r == s_ring[ringIndex(tail + Len(out))]
<1>5. r = appended - Held + (Len(out) + 1)
  <2>1. Len(out) < Held
    BY <1>1, <1>4
  <2>2. ringIndex(s_tail + Len(out)) = ringIndex(s_head + SizeMax - (Held - Len(out)))
    BY <1>1, <2>1, SlotAfterTail DEF Held
  <2>3. PICK d \in 1..Capacity : d = Held - Len(out)
    <3>1. Held - Len(out) \in 1..Capacity
      BY <1>0, <1>1, <1>4, <2>1
    <3> QED
      BY <3>1
  <2>4. s_ring[ringIndex(s_head + SizeMax - d)] = appended + 1 - d
    BY <1>1, <2>3 DEF LogInv, RingHolds
  <2>5. r = appended + 1 - d
    BY <1>4, <2>2, <2>3, <2>4
  <2> HIDE DEF r
  <2> QED
    BY <1>1, <2>3, <2>5
<1>6. r \in Nat
  <2>1. tail + Len(out) \in Nat
    BY <1>1, <1>4 DEF Counters
  <2> QED
    BY <1>1, <2>1, SlotType
<1>7. out' = Append(out, r)
  BY <1>2
<1> HIDE DEF r
<1>8. /\ out' \in Seq(Nat) /\ Len(out') = Len(out) + 1
      /\ \A i \in 1..Len(out) : out'[i] = out[i]
      /\ out'[Len(out) + 1] = r
  BY <1>1, <1>6, <1>7
<1>9. \A i \in 1..Len(out') : out'[i] = appended' - Held' + i
  <2> SUFFICES ASSUME NEW i \in 1..Len(out') PROVE out'[i] = appended - Held + i
    BY <1>2, <1>3
  <2>1. CASE i \in 1..Len(out)
    BY <1>4, <1>8, <2>1 DEF BatchInv
  <2>2. CASE i = Len(out) + 1
    BY <1>5, <1>8, <2>2
  <2> QED
    BY <1>1, <1>8, <2>1, <2>2
<1>10. BatchInv'
  BY <1>2, <1>3, <1>4, <1>9 DEF BatchInv
<1>11. RingHolds'
  BY <1>1, <1>2, <1>3, RingKept DEF LogInv
<1>12. Len(out') <= Batch
  BY <1>0, <1>1, <1>4, <1>8
<1>13. LogTypeOK'
  BY <1>2, <1>8, <1>12 DEF LogInv, LogTypeOK
<1>14. replayed' + Held' <= appended'
  BY <1>2, <1>3 DEF LogInv
<1>15. (rpPc' = "copy" => Len(out') < count' /\ Held' <= Capacity)
       /\ (rpPc' = "await" => Len(out') = count')
  BY <1>1, <1>2, <1>3, <1>4, <1>8
<1> QED
  BY <1>3, <1>10, <1>11, <1>13, <1>14, <1>15 DEF LogInv

(* A confirmed batch moves the tail behind the records it carried.         *)
LEMMA AckKeepsLog ==
  ASSUME LogInv, BatchAcked
  PROVE  LogInv' /\ Held' = Held - count /\ 1 <= count /\ count <= Held
<1>0. /\ SizeMax \in Nat \ {0} /\ MaxBatches \in Nat
  BY HistoryConstants
<1>1. /\ s_head \in Counters /\ s_tail \in Counters /\ appended \in Nat
      /\ Held \in Counters /\ out \in Seq(Nat) /\ count \in Nat /\ batches \in Nat
  BY HeldType DEF LogInv, LogTypeOK, Counters
<1>2. /\ UNCHANGED <<s_ring, s_head, tail, count, out, appended>>
      /\ rpPc = "await" /\ rpPc' = "next"
      /\ s_tail' = (s_tail + Len(out)) % SizeMax
      /\ replayed' = out[Len(out)]
      /\ batches' = batches + 1
  BY DEF BatchAcked, peekVars
<1>3. BatchInv /\ Len(out) = count /\ 1 <= count /\ count <= Held
  BY <1>2 DEF LogInv, BatchInv
<1>4. count \in Counters
  BY <1>0, <1>1, <1>3 DEF Counters
<1>5. /\ s_tail' = IF s_tail + count < SizeMax THEN s_tail + count
                   ELSE s_tail + count - SizeMax
      /\ s_tail' \in Counters
  BY <1>1, <1>2, <1>3, <1>4, CounterAdvances
<1>6. Held' = Held - count
  <2>1. Held' = IF s_tail' <= s_head THEN s_head - s_tail' ELSE s_head + SizeMax - s_tail'
    BY <1>1, <1>2, <1>5, DistanceIs DEF Held
  <2>2. Held = IF s_tail <= s_head THEN s_head - s_tail ELSE s_head + SizeMax - s_tail
    BY <1>1, DistanceIs DEF Held
  <2> QED
    BY <1>0, <1>1, <1>3, <1>4, <1>5, <2>1, <2>2 DEF Counters
<1>7. Held' \in Nat /\ Held' <= Held
  BY <1>0, <1>1, <1>3, <1>6 DEF Counters
<1>8. RingHolds'
  BY <1>2, <1>7, RingKept DEF LogInv
<1>9. replayed' = appended - Held + count /\ replayed' \in Nat
  <2>1. count \in 1..Len(out)
    BY <1>1, <1>3
  <2> QED
    BY <1>1, <1>2, <1>3, <2>1 DEF BatchInv
<1>10. replayed' + Held' <= appended'
  BY <1>0, <1>1, <1>2, <1>6, <1>9 DEF Counters
<1>11. batches' \in 0..MaxBatches
  BY <1>0, <1>1, <1>2, <1>3 DEF BatchInv
<1>12. s_tail' \in 0..(SizeMax - 1)
  BY <1>5 DEF Counters
<1>13. LogTypeOK'
  BY <1>2, <1>9, <1>11, <1>12 DEF LogInv, LogTypeOK
<1> QED
  BY <1>2, <1>3, <1>6, <1>8, <1>10, <1>13 DEF LogInv

(* What leaves the ring and the batch alone.                               *)
LEMMA LoopKeepsLog ==
  ASSUME LogInv, ReplayStart \/ ReplayDone \/ BatchNotAcked
  PROVE  LogInv'
<1>0. 0 \in 0..MaxBatches
  BY HistoryConstants
<1>1. /\ UNCHANGED <<s_ring, s_head, s_tail, tail, count, out, appended, replayed>>
      /\ rpPc' \in {"idle", "next"} /\ batches' \in {0, batches}
  BY DEF ReplayStart, ReplayDone, BatchNotAcked, ringVars, peekVars
<1>2. Held' = Held
  BY <1>1 DEF Held
<1>3. LogTypeOK'
  BY <1>0, <1>1 DEF LogInv, LogTypeOK
<1>4. RingHolds'
  <2>1. Held \in Nat
    BY HeldType, HistoryConstants DEF LogInv, Counters
  <2> QED
    BY <1>1, <1>2, <2>1, RingKept DEF LogInv
<1>5. replayed' + Held' <= appended'
  BY <1>1, <1>2 DEF LogInv
<1> QED
  BY <1>1, <1>3, <1>4, <1>5 DEF LogInv

LEMMA StutterKeepsLog ==
  ASSUME LogInv, UNCHANGED logVars
  PROVE  LogInv'
<1>1. UNCHANGED <<s_ring, s_head, s_tail, tail, count, out, rpPc, batches,
                  appended, replayed>>
  BY DEF logVars, ringVars, peekVars
<1>2. Held' = Held
  BY <1>1 DEF Held
<1>3. LogTypeOK'
  BY <1>1 DEF LogInv, LogTypeOK
<1>4. RingHolds'
  <2>1. Held \in Nat
    BY HeldType, HistoryConstants DEF LogInv, Counters
  <2> QED
    BY <1>1, <1>2, <2>1, RingKept DEF LogInv
<1>5. BatchInv' = BatchInv
  BY <1>1, <1>2 DEF BatchInv
<1> QED
  BY <1>1, <1>2, <1>3, <1>4, <1>5 DEF LogInv

LEMMA NextKeepsLog ==
  ASSUME ~Overlap, LogInv, [LogNext]_logVars
  PROVE  LogInv'
  BY AppendKeepsLog, PeekKeepsLog, CopyKeepsLog, AckKeepsLog, LoopKeepsLog,
     StutterKeepsLog DEF LogNext

(* Where no append interrupts a peek, every batch is in the order of the   *)
(* appends and starts after everything already replayed, however often the *)
(* counters wrap and the head laps the tail.                               *)
THEOREM ReplayInOrder == ~Overlap => (LogSpec => []ReplayOrdered)
<1> SUFFICES ASSUME ~Overlap PROVE LogSpec => []ReplayOrdered
  OBVIOUS
<1>1. LogInv /\ [LogNext]_logVars => LogInv'
  BY NextKeepsLog
<1>2. LogInv => ReplayOrdered
  <2> SUFFICES ASSUME LogInv, rpPc = "await"
               PROVE  /\ out[1] > replayed
                      /\ \A i \in 1..(Len(out) - 1) : out[i] < out[i + 1]
    BY DEF ReplayOrdered
  <2>1. PICK b \in Int : b = appended - Held
    BY HeldType, HistoryConstants DEF LogInv, LogTypeOK, Counters
  <2>2. Len(out) \in Nat /\ 1 <= Len(out) /\ \A i \in 1..Len(out) : out[i] = b + i
    BY <2>1 DEF LogInv, LogTypeOK, BatchInv
  <2>3. replayed <= b /\ replayed \in Nat
    <3>1. Held \in Nat /\ appended \in Nat /\ replayed \in Nat
      BY HeldType, HistoryConstants DEF LogInv, LogTypeOK, Counters
    <3>2. replayed + Held <= appended
      BY DEF LogInv
    <3> QED
      BY <2>1, <3>1, <3>2
  <2> QED
    BY <2>2, <2>3
<1> QED
  BY <1>1, <1>2, InitLog, PTL DEF LogSpec

-----------------------------------------------------------------------------
(* The refinement.  Records are numbered by their appends, so both the     *)
(* queue and the batch in flight are runs of consecutive numbers.          *)
Run(b, n) == [i \in 1..n |-> b + i]

LEMMA RunType ==
  ASSUME NEW b \in Int, NEW n \in Nat
  PROVE  Run(b, n) \in Seq(Int) /\ Len(Run(b, n)) = n
  BY DEF Run

LEMMA RunEmpty == \A b \in Int : Run(b, 0) = <<>>
  BY DEF Run

LEMMA RunAppend ==
  ASSUME NEW b \in Int, NEW n \in Nat
  PROVE  Append(Run(b, n), b + n + 1) = Run(b, n + 1)
  BY DEF Run

LEMMA RunSub ==
  ASSUME NEW b \in Int, NEW n \in Nat, NEW lo \in 1..(n + 1), NEW hi \in 0..n
  PROVE  lo <= hi + 1 => SubSeq(Run(b, n), lo, hi) = Run(b + lo - 1, hi - lo + 1)
  BY DEF Run

(* The pending records and the batch in flight.                            *)
Front == MinOf(Held, Capacity)

NumbersOK ==
  /\ Held \in Nat /\ appended \in Nat /\ count \in Nat
  /\ Front \in Nat /\ Front <= Held /\ Front <= Capacity

LEMMA LogNumbers == LogInv => NumbersOK
  BY HeldType, HistoryConstants
  DEF LogInv, LogTypeOK, NumbersOK, Front, MinOf, Counters

LEMMA LogFacts ==
  ASSUME LogInv
  PROVE  /\ Held \in Nat /\ appended \in Nat /\ count \in Nat
         /\ Front \in Nat /\ Front <= Held /\ Front <= Capacity
  BY LogNumbers DEF NumbersOK

PendingRun == Pending = Run(appended - Front, Front)

LEMMA PendingIs == LogInv => PendingRun
<1> SUFFICES ASSUME LogInv PROVE Pending = Run(appended - Front, Front)
  BY DEF PendingRun
<1>0. Capacity \in Nat /\ SizeMax \in Nat /\ s_head \in Nat
  BY HistoryConstants DEF LogInv, LogTypeOK
<1>1. \A i \in 1..Front :
        s_ring[ringIndex(s_head + SizeMax - Front + i - 1)] = appended - Front + i
  <2> SUFFICES ASSUME NEW i \in 1..Front
               PROVE  s_ring[ringIndex(s_head + SizeMax - Front + i - 1)]
                        = appended - Front + i
    OBVIOUS
  <2>1. PICK d \in 1..Capacity : d = Front - i + 1 /\ d <= Held
    <3>1. Front - i + 1 \in 1..Capacity /\ Front - i + 1 <= Held
      BY <1>0, LogFacts
    <3> QED
      BY <3>1
  <2>2. s_head + SizeMax - Front + i - 1 = s_head + SizeMax - d
    BY <1>0, <2>1, LogFacts
  <2>3. s_ring[ringIndex(s_head + SizeMax - d)] = appended + 1 - d
    BY <2>1 DEF LogInv, RingHolds
  <2> QED
    BY <2>1, <2>2, <2>3, LogFacts
<1> QED
  BY <1>1 DEF Pending, Run, Front, Held

BatchRun ==
  PeekedBatch = IF rpPc \in {"copy", "await"} THEN Run(appended - Held, count) ELSE <<>>

LEMMA PeekedBatchIs == LogInv => BatchRun
<1> SUFFICES ASSUME LogInv, rpPc \in {"copy", "await"}
             PROVE  PeekedBatch = Run(appended - Held, count)
  BY DEF PeekedBatch, BatchRun
<1>0. Capacity \in Nat /\ SizeMax \in Nat /\ s_head \in Counters /\ s_tail \in Counters
      /\ out \in Seq(Nat)
  BY HistoryConstants DEF LogInv, LogTypeOK, Counters
<1>1. BatchInv
  BY DEF LogInv
<1>2. \A i \in 1..count :
        (IF i <= Len(out) THEN out[i] ELSE s_ring[ringIndex(tail + i - 1)])
          = appended - Held + i
  <2> SUFFICES ASSUME NEW i \in 1..count
               PROVE  (IF i <= Len(out) THEN out[i] ELSE s_ring[ringIndex(tail + i - 1)])
                        = appended - Held + i
    OBVIOUS
  <2>1. CASE i <= Len(out)
    BY <1>0, <1>1, <2>1 DEF BatchInv
  <2>2. CASE ~(i <= Len(out))
    <3>1. Held <= Capacity /\ count <= Held /\ tail = s_tail
      BY <1>0, <1>1, <2>2 DEF LogInv, LogTypeOK, BatchInv
    <3>2. PICK k \in Nat : k = i - 1 /\ k < Held
      BY <3>1, LogFacts
    <3>3. ringIndex(s_tail + k) = ringIndex(s_head + SizeMax - (Held - k))
      BY <1>0, <3>2, SlotAfterTail DEF Held
    <3>4. PICK d \in 1..Capacity : d = Held - k
      <4>1. Held - k \in 1..Capacity
        BY <1>0, <3>1, <3>2, LogFacts
      <4> QED
        BY <4>1
    <3>5. s_ring[ringIndex(s_head + SizeMax - d)] = appended + 1 - d
      BY <3>2, <3>4, LogFacts DEF LogInv, RingHolds
    <3>6. tail + i - 1 = s_tail + k
      BY <1>0, <3>1, <3>2 DEF Counters
    <3>7. s_ring[ringIndex(tail + i - 1)] = appended + 1 - d
      BY <3>3, <3>4, <3>5, <3>6
    <3> QED
      BY <2>2, <3>2, <3>4, <3>7, LogFacts
  <2> QED
    BY <2>1, <2>2
<1> QED
  BY <1>2 DEF PeekedBatch, Run

(* The same of the state after a step.                                     *)
LEMMA NextReads == LogInv' => NumbersOK' /\ PendingRun' /\ BatchRun'
  BY LogNumbers, PendingIs, PeekedBatchIs, PTL

LEMMA Reads ==
  ASSUME LogInv, LogInv'
  PROVE  /\ Pending = Run(appended - Front, Front)
         /\ Pending' = Run(appended' - Front', Front')
         /\ Front \in Nat /\ Front = (IF Held < Capacity THEN Held ELSE Capacity)
         /\ Front' \in Nat /\ Front' = (IF Held' < Capacity THEN Held' ELSE Capacity)
         /\ Held \in Nat /\ Held' \in Nat /\ appended \in Nat /\ count \in Nat
<1>1. NumbersOK /\ PendingRun /\ NumbersOK' /\ PendingRun'
  BY NextReads, LogNumbers, PendingIs
<1>2. Front = (IF Held < Capacity THEN Held ELSE Capacity)
      /\ Front' = (IF Held' < Capacity THEN Held' ELSE Capacity)
  BY DEF Front, MinOf
<1> QED
  BY <1>1, <1>2 DEF NumbersOK, PendingRun, Run

(* The batch in flight, in each of the replay loop's states.               *)
LEMMA InFlight ==
  ASSUME LogInv, LogInv'
  PROVE  /\ rpPc \in {"copy", "await"} =>
              /\ PeekedBatch = Run(appended - Held, count)
              /\ 1 <= count /\ count <= Held /\ PeekedBatch # <<>>
         /\ rpPc \notin {"copy", "await"} => PeekedBatch = <<>>
         /\ rpPc' \in {"copy", "await"} => PeekedBatch' = Run(appended' - Held', count')
         /\ rpPc' \notin {"copy", "await"} => PeekedBatch' = <<>>
<1>1. BatchRun /\ BatchRun'
  BY NextReads, PeekedBatchIs
<1>2. rpPc \in {"copy", "await"} => 1 <= count /\ count <= Held
  BY DEF LogInv, BatchInv
<1>3. rpPc \in {"copy", "await"} => Len(PeekedBatch) # 0
  <2> SUFFICES ASSUME rpPc \in {"copy", "await"} PROVE Len(PeekedBatch) # 0
    OBVIOUS
  <2>1. PeekedBatch = Run(appended - Held, count)
    BY <1>1 DEF BatchRun
  <2>2. Len(Run(appended - Held, count)) = count
    BY LogFacts, RunType
  <2> QED
    BY <1>2, <2>1, <2>2, LogFacts
<1> QED
  BY <1>1, <1>2, <1>3 DEF BatchRun, Run

LEMMA AppendRefines ==
  ASSUME ~Overlap, LogInv, HistoryAppend
  PROVE  Queue!Append1
<1>0. Capacity \in Nat \ {0}
  BY HistoryConstants
<1>1. LogInv' /\ Held' = Held + 1
  BY AppendKeepsLog
<1>2. appended' = appended + 1 /\ rpPc' = rpPc /\ count' = count /\ out' = out
      /\ rpPc # "copy"
  BY DEF HistoryAppend, peekVars
<1>3. PeekedBatch' = PeekedBatch
  <2>1. CASE rpPc = "await"
    <3>1. appended' - Held' = appended - Held
      BY <1>1, <1>2, Reads
    <3> QED
      BY <1>1, <1>2, <2>1, <3>1, InFlight
  <2>2. CASE rpPc # "await"
    BY <1>1, <1>2, <2>2, InFlight
  <2> QED
    BY <2>1, <2>2
<1>4. Append(Pending, appended + 1) = Run(appended - Front, Front + 1)
  <2>1. PICK b \in Int : b = appended - Front
    BY <1>1, Reads
  <2>2. appended + 1 = b + Front + 1
    BY <1>1, <2>1, Reads
  <2> QED
    BY <1>1, <2>1, <2>2, Reads, RunAppend
<1>5. Pending' = Queue!LastOf(Append(Pending, appended + 1), Capacity)
  <2>1. PICK b \in Int : b = appended - Front
    BY <1>1, Reads
  <2>2. Len(Run(b, Front + 1)) = Front + 1
    <3>1. PICK n \in Nat : n = Front + 1
      BY <1>1, Reads
    <3> QED
      BY <3>1, RunType
  <2>3. CASE Held < Capacity
    <3>1. Front' = Front + 1 /\ appended' - Front' = b
      BY <1>0, <1>1, <1>2, <2>1, <2>3, Reads
    <3>2. Front + 1 <= Capacity
      BY <1>0, <1>1, <2>3, Reads
    <3>3. Pending' = Run(b, Front + 1)
      BY <1>1, <3>1, Reads
    <3> QED
      BY <1>4, <2>1, <2>2, <3>2, <3>3 DEF Queue!LastOf
  <2>4. CASE ~(Held < Capacity)
    <3>1. Front' = Capacity /\ Front = Capacity /\ appended' - Front' = b + 1
      BY <1>0, <1>1, <1>2, <2>1, <2>4, Reads
    <3>2. Pending' = Run(b + 1, Capacity)
      BY <1>1, <3>1, Reads
    <3>3. SubSeq(Run(b, Capacity + 1), 2, Capacity + 1) = Run(b + 1, Capacity)
      <4>1. PICK n \in Nat : n = Capacity + 1 /\ n >= 2
        BY <1>0
      <4>2. SubSeq(Run(b, n), 2, n) = Run(b + 2 - 1, n - 2 + 1)
        <5>1. 2 \in 1..(n + 1) /\ n \in 0..n /\ 2 <= n + 1
          BY <4>1
        <5> QED
          BY <5>1, RunSub
      <4>3. b + 2 - 1 = b + 1 /\ n - 2 + 1 = Capacity
        BY <1>0, <4>1
      <4> QED
        BY <4>1, <4>2, <4>3
    <3>4. ~(Capacity + 1 <= Capacity) /\ (Capacity + 1) - Capacity + 1 = 2
      BY <1>0
    <3> QED
      BY <1>4, <2>1, <2>2, <3>1, <3>2, <3>3, <3>4 DEF Queue!LastOf
  <2> QED
    BY <2>3, <2>4
<1> QED
  BY <1>2, <1>3, <1>5 DEF Queue!Append1

LEMMA PeekRefines ==
  ASSUME LogInv, PeekBatch
  PROVE  Queue!Send
<1>0. Capacity \in Nat \ {0} /\ Batch \in Nat \ {0}
  BY HistoryConstants
<1>1. LogInv' /\ Held' = MinOf(Held, Capacity) /\ count' = MinOf(Held', Batch)
  BY PeekKeepsLog
<1>2. appended' = appended /\ rpPc = "next" /\ rpPc' = "copy" /\ s_head # s_tail
  BY DEF PeekBatch, HasPending
<1>3. Front' = Front /\ Held' = Front
  BY <1>0, <1>1, Reads DEF Front, MinOf
<1>4. Pending' = Pending
  BY <1>1, <1>2, <1>3, Reads
<1>5. PeekedBatch = <<>> /\ PeekedBatch' = Run(appended - Front, count')
  BY <1>1, <1>2, <1>3, InFlight
<1>6. PICK b \in Int : b = appended - Front /\ Pending = Run(b, Front)
  BY <1>1, Reads
<1>7. Len(Pending) = Front
  BY <1>1, <1>6, Reads, RunType
<1>8. PeekedBatch' = Queue!FirstOf(Pending, Batch)
  <2>1. CASE Front <= Batch
    <3>1. count' = Front
      BY <1>0, <1>1, <1>3, <2>1, Reads DEF MinOf
    <3> QED
      BY <1>5, <1>6, <1>7, <2>1, <3>1 DEF Queue!FirstOf
  <2>2. CASE ~(Front <= Batch)
    <3>1. count' = Batch
      BY <1>0, <1>1, <1>3, <2>2, Reads DEF MinOf
    <3>2. 1 \in 1..(Front + 1) /\ Batch \in 0..Front /\ 1 <= Batch + 1
      BY <1>0, <1>1, <2>2, Reads
    <3>3. SubSeq(Run(b, Front), 1, Batch) = Run(b + 1 - 1, Batch - 1 + 1)
      BY <1>1, <3>2, Reads, RunSub
    <3>4. b + 1 - 1 = b /\ Batch - 1 + 1 = Batch
      BY <1>0
    <3> QED
      BY <1>5, <1>6, <1>7, <2>2, <3>1, <3>3, <3>4 DEF Queue!FirstOf
  <2> QED
    BY <2>1, <2>2
<1>9. Pending # <<>>
  <2>1. Front # 0
    <3>1. LogInv' /\ BatchInv' /\ 1 <= count' /\ count' <= Held'
      BY <1>1, <1>2 DEF LogInv, BatchInv
    <3>2. NumbersOK'
      BY <1>1, NextReads
    <3> QED
      BY <1>3, <3>1, <3>2 DEF NumbersOK
  <2>2. Len(Pending) # 0
    BY <1>7, <2>1
  <2> QED
    BY <2>2
<1> QED
  BY <1>2, <1>4, <1>5, <1>8, <1>9 DEF Queue!Send

LEMMA CopyStutters ==
  ASSUME LogInv, CopyRecord
  PROVE  UNCHANGED Queue!queueVars
<1>1. LogInv' /\ Held' = Held
  BY CopyKeepsLog
<1>2. /\ UNCHANGED <<appended, count>> /\ rpPc = "copy" /\ rpPc' \in {"copy", "await"}
  BY DEF CopyRecord
<1>3. Front' = Front
  BY <1>1, Reads
<1>4. Pending' = Pending
  BY <1>1, <1>2, <1>3, Reads
<1>5. PeekedBatch' = PeekedBatch
  BY <1>1, <1>2, InFlight
<1> QED
  BY <1>2, <1>4, <1>5 DEF Queue!queueVars

(* What a run contains.                                                    *)
LEMMA WithinRun ==
  ASSUME NEW b \in Int, NEW n \in Nat, NEW x \in Int
  PROVE  Queue!Within(x, Run(b, n)) <=> b < x /\ x <= b + n
<1>1. Len(Run(b, n)) = n
  BY RunType
<1>2. ASSUME b < x, x <= b + n PROVE Queue!Within(x, Run(b, n))
  <2>1. x - b \in 1..n /\ b + (x - b) = x
    BY <1>2
  <2> QED
    BY <1>1, <2>1 DEF Queue!Within, Run
<1>3. ASSUME Queue!Within(x, Run(b, n)) PROVE b < x /\ x <= b + n
  BY <1>1, <1>3 DEF Queue!Within, Run
<1> QED
  BY <1>2, <1>3

LEMMA AckRefines ==
  ASSUME LogInv, BatchAcked
  PROVE  Queue!Confirm
<1>0. Capacity \in Nat \ {0}
  BY HistoryConstants
<1>1. LogInv' /\ Held' = Held - count /\ 1 <= count /\ count <= Held
  BY AckKeepsLog
<1>2. appended' = appended /\ rpPc = "await" /\ rpPc' = "next"
  BY DEF BatchAcked
<1>3. /\ PeekedBatch # <<>> /\ PeekedBatch' = <<>>
      /\ PeekedBatch = Run(appended - Held, count)
  BY <1>1, <1>2, InFlight
<1>4. PICK b \in Int : b = appended - Front /\ Pending = Run(b, Front)
  BY <1>1, Reads
<1>5. PICK t \in Int : t = appended - Held
  BY <1>1, Reads
<1>6. Front \in Nat /\ Len(Pending) = Front
  BY <1>1, <1>4, Reads, RunType
<1>7. PICK n \in 0..Front : n = Front - Front'
  <2>1. Front - Front' \in 0..Front
    BY <1>0, <1>1, Reads
  <2> QED
    BY <2>1
<1>8. \A i \in 1..Front : Queue!Within(Pending[i], PeekedBatch) <=> i <= n
  <2> SUFFICES ASSUME NEW i \in 1..Front
               PROVE  Queue!Within(Pending[i], PeekedBatch) <=> i <= n
    OBVIOUS
  <2>1. PICK x \in Int : x = b + i /\ Pending[i] = x
    BY <1>4 DEF Run
  <2>2. Queue!Within(x, Run(t, count)) <=> t < x /\ x <= t + count
    BY <1>1, Reads, WithinRun
  <2>3. (t < x /\ x <= t + count) <=> i <= n
    BY <1>0, <1>1, <1>4, <1>5, <1>7, <2>1, Reads
  <2> QED
    BY <1>3, <1>5, <2>1, <2>2, <2>3
<1>9. Pending' = SubSeq(Pending, n + 1, Front)
  <2>1. PICK k \in Nat : k = n + 1
    BY <1>6
  <2>2. k \in 1..(Front + 1) /\ Front \in 0..Front /\ k <= Front + 1
    BY <1>6, <2>1
  <2>3. SubSeq(Run(b, Front), k, Front) = Run(b + k - 1, Front - k + 1)
    BY <1>6, <2>2, RunSub
  <2>4. b + k - 1 = appended' - Front' /\ Front - k + 1 = Front'
    <3>1. PICK f \in Nat, g \in Nat : f = Front /\ g = Front' /\ k = f - g + 1
      BY <1>1, <1>7, <2>1, Reads
    <3>2. PICK a \in Nat : a = appended /\ a = appended' /\ b = a - f
      BY <1>1, <1>2, <1>4, <3>1, Reads
    <3>3. k = f - g + 1 /\ b = a - f
      BY <3>1, <3>2
    <3>4. b + k - 1 = a - g /\ f - k + 1 = g
      BY <3>3
    <3> QED
      BY <3>1, <3>2, <3>4
  <2> QED
    <3>1. Pending' = Run(b + k - 1, Front - k + 1)
      BY <1>1, <2>4, Reads
    <3> QED
      BY <1>4, <2>1, <2>3, <3>1
<1> QED
  BY <1>2, <1>3, <1>6, <1>8, <1>9 DEF Queue!Confirm

(* The rest of the replay loop: a batch that is not acknowledged goes back *)
(* to the queue, and what leaves the ring alone is not seen.               *)
LEMMA LoopRefines ==
  ASSUME LogInv, ReplayStart \/ ReplayDone \/ BatchNotAcked
  PROVE  Queue!Resign \/ UNCHANGED Queue!queueVars
<1>1. LogInv'
  BY LoopKeepsLog
<1>2. UNCHANGED <<s_ring, s_head, s_tail, appended>>
  BY DEF ReplayStart, ReplayDone, BatchNotAcked, ringVars
<1>3. Pending' = Pending
  <2>1. Held' = Held
    BY <1>2 DEF Held
  <2>2. Front' = Front
    BY <1>1, <2>1, Reads
  <2> QED
    BY <1>1, <1>2, <2>2, Reads
<1>4. CASE BatchNotAcked
  <2>1. rpPc = "await" /\ rpPc' = "idle"
    BY <1>4 DEF BatchNotAcked
  <2> QED
    BY <1>1, <1>2, <1>3, <2>1, InFlight DEF Queue!Resign
<1>5. CASE ReplayStart \/ ReplayDone
  <2>1. rpPc \in {"idle", "next"} /\ rpPc' \in {"idle", "next"}
    BY <1>5 DEF ReplayStart, ReplayDone
  <2> QED
    BY <1>1, <1>2, <1>3, <2>1, InFlight DEF Queue!queueVars
<1> QED
  BY <1>4, <1>5

LEMMA StutterRefines ==
  ASSUME UNCHANGED logVars
  PROVE  UNCHANGED Queue!queueVars
<1>1. UNCHANGED <<s_ring, s_head, s_tail, tail, count, out, rpPc, appended>>
  BY DEF logVars, ringVars, peekVars
<1>2. Pending' = Pending
  BY <1>1 DEF Pending
<1>3. PeekedBatch' = PeekedBatch
  BY <1>1 DEF PeekedBatch
<1> QED
  BY <1>1, <1>2, <1>3 DEF Queue!queueVars

(* The ring implements the queue of history_log.h, where no append         *)
(* interrupts a peek: nothing pending is lost below capacity, a batch is   *)
(* the oldest pending records in order, and a record leaves only with the  *)
(* confirmation of the batch that carried it, for every capacity and every *)
(* width of the counters.                                                  *)
THEOREM RingImplementsQueue == ~Overlap => (LogSpec => ImplementsQueue)
<1> SUFFICES ASSUME ~Overlap PROVE LogSpec => ImplementsQueue
  OBVIOUS
<1>1. LogInv /\ [LogNext]_logVars => LogInv'
  BY NextKeepsLog
<1>2. LogInit => Queue!QueueInit
  <2> SUFFICES ASSUME LogInit PROVE Queue!QueueInit
    OBVIOUS
  <2>1. LogInv /\ rpPc = "idle" /\ appended = 0
    BY InitLog DEF LogInit
  <2>2. Held = 0
    BY HistoryConstants, DistanceIs DEF LogInit, Held, Counters
  <2>3. Front = 0
    BY <2>2, HistoryConstants DEF Front, MinOf
  <2>4. Pending = <<>>
    BY <2>1, <2>3, PendingIs, RunEmpty DEF PendingRun
  <2> QED
    BY <2>1, <2>4 DEF Queue!QueueInit, PeekedBatch
<1>3. LogInv /\ [LogNext]_logVars => [Queue!QueueNext]_(Queue!queueVars)
  BY AppendRefines, PeekRefines, CopyStutters, AckRefines, LoopRefines, StutterRefines
  DEF LogNext, Queue!QueueNext
<1> QED
  BY <1>1, <1>2, <1>3, InitLog, PTL DEF LogSpec, ImplementsQueue, Queue!QueueSpec
=============================================================================
