--------------------------- MODULE RingIndexProofs ---------------------------
(***************************************************************************)
(* Facts about the index arithmetic of the ring, for every capacity and    *)
(* every integer width.  The first four are about % alone.                 *)
(***************************************************************************)
EXTENDS RingIndex, TLAPS

(* x is its quotient times m plus its remainder. *)
LEMMA DivMod ==
  ASSUME NEW m \in Nat \ {0}, NEW x \in Int
  PROVE  /\ x \div m \in Int
         /\ x % m \in 0 .. (m - 1)
         /\ x = m * (x \div m) + (x % m)
  BY SMT

(* The remainder is the only r below m that differs from x by m * q. *)
LEMMA ModUnique ==
  ASSUME NEW m \in Nat \ {0}, NEW q \in Int, NEW r \in 0 .. (m - 1)
  PROVE  (m * q + r) % m = r
  BY SMT

(* Adding a multiple of m does not change the remainder. *)
LEMMA ModSame ==
  ASSUME NEW m \in Nat \ {0}, NEW x \in Int, NEW q \in Int
  PROVE  (m * q + x) % m = x % m
<1> DEFINE d == x \div m
           r == x % m
<1>1. d \in Int /\ r \in 0 .. (m - 1) /\ x = m * d + r
  BY DivMod
<1>2. m * d \in Int /\ m * q \in Int /\ d + q \in Int
  BY <1>1
<1>3. m * (d + q) = m * d + m * q
  BY <1>1, SMT
<1>4. m * q + x = m * (d + q) + r
  BY <1>1, <1>2, <1>3
<1>5. (m * (d + q) + r) % m = r
  BY <1>1, <1>2, ModUnique
<1> QED
  BY <1>4, <1>5

(* Reducing twice, first by a multiple of the second, is reducing once. *)
LEMMA ModMod ==
  ASSUME NEW m \in Nat \ {0}, NEW c \in Nat \ {0}, m % c = 0, NEW x \in Int
  PROVE  (x % m) % c = x % c
<1> DEFINE k == m \div c
           q == x \div m
           r == x % m
<1>1. k \in Int /\ m = c * k
  BY DivMod
<1>2. q \in Int /\ r \in Int /\ x = m * q + r
  BY DivMod
<1>3. k * q \in Int /\ m * q = c * (k * q)
  BY <1>1, <1>2, SMT
<1>4. x = c * (k * q) + r
  BY <1>2, <1>3, Zenon
<1>5. (c * (k * q) + r) % c = r % c
  BY <1>2, <1>3, ModSame, Zenon
<1> QED
  BY <1>4, <1>5

-----------------------------------------------------------------------------
(* An index is an unsigned int, a slot is inside the array. *)
LEMMA IndexType ==
  ASSUME NEW a \in Int, NEW b \in Int
  PROVE  /\ Plus(a, b) \in Index
         /\ Readable(a, b) \in Index
         /\ FreeSpace(a, b) \in Index
<1>1. \A x \in Int : x % Modulus \in 0 .. (Modulus - 1)
  BY RingAssumption, DivMod
<1>2. a + b \in Int /\ a - b \in Int /\ Capacity - a + b \in Int
  BY RingAssumption
<1> QED
  BY <1>1, <1>2 DEF Plus, Readable, FreeSpace, Index

LEMMA SlotType ==
  ASSUME NEW x \in Int
  PROVE  SlotOf(x) \in Slots
  BY RingAssumption, DivMod DEF SlotOf, Slots

(* Fewer than Capacity apart, two positions are in different slots. *)
LEMMA SlotsDiffer ==
  ASSUME NEW x \in Int, NEW i \in Int, NEW j \in Int,
         i - j < Capacity, j - i < Capacity,
         SlotOf(x + i) = SlotOf(x + j)
  PROVE  i = j
<1> USE RingAssumption
<1> DEFINE p == (x + i) \div Capacity
           q == (x + j) \div Capacity
           r == (x + i) % Capacity
<1>1. p \in Int /\ r \in Int /\ x + i = Capacity * p + r
  BY DivMod
<1>2. q \in Int /\ x + j = Capacity * q + r
  BY DivMod DEF SlotOf
<1>3. Capacity * (p - q) = i - j
  BY <1>1, <1>2, SMT
<1>4. p - q \in Int
  BY <1>1, <1>2
<1>5. p - q = 0
  BY <1>3, <1>4, SMT
<1> QED
  BY <1>3, <1>5

(* Wrapping the index at the integer width does not move the slot. *)
LEMMA SlotOfWrapped ==
  ASSUME NEW x \in Int, NEW k \in Int
  PROVE  SlotOf((x % Modulus) + k) = SlotOf(x + k)
<1> USE RingAssumption
<1> DEFINE c == Modulus \div Capacity
           q == x \div Modulus
           r == x % Modulus
<1>1. c \in Int /\ Modulus = Capacity * c
  BY DivMod
<1>2. q \in Int /\ r \in Int /\ x = Modulus * q + r
  BY DivMod
<1>3. c * q \in Int /\ Modulus * q = Capacity * (c * q)
  BY <1>1, <1>2, SMT
<1>4. r + k \in Int /\ x + k = Modulus * q + (r + k)
  BY <1>2
<1>5. x + k = Capacity * (c * q) + (r + k)
  BY <1>3, <1>4, Zenon
<1>6. (Capacity * (c * q) + (r + k)) % Capacity = (r + k) % Capacity
  BY <1>3, <1>4, ModSame, Zenon
<1> QED
  BY <1>5, <1>6, Zenon DEF SlotOf

LEMMA SlotOfPlus ==
  ASSUME NEW a \in Int, NEW n \in Int, NEW k \in Int
  PROVE  SlotOf(Plus(a, n) + k) = SlotOf(a + n + k)
  BY SlotOfWrapped DEF Plus

(* The producer's index is Readable positions after the consumer's. *)
LEMMA SlotOfIn ==
  ASSUME NEW i \in Int, NEW o \in Int, NEW k \in Int
  PROVE  SlotOf(i + k) = SlotOf(o + Readable(i, o) + k)
<1>1. i - o \in Int /\ o + k \in Int
  OBVIOUS
<1>2. SlotOf(((i - o) % Modulus) + (o + k)) = SlotOf((i - o) + (o + k))
  BY <1>1, SlotOfWrapped
<1>3. (i - o) + (o + k) = i + k
  OBVIOUS
<1>4. Readable(i, o) \in Int
  BY IndexType, RingAssumption DEF Index
<1>5. ((i - o) % Modulus) + (o + k) = o + Readable(i, o) + k
  BY <1>4 DEF Readable
<1> QED
  BY <1>2, <1>3, <1>5

-----------------------------------------------------------------------------
(* Publishing n entries that fit makes n more readable. *)
LEMMA ReadableAfterPublish ==
  ASSUME NEW i \in Index, NEW o \in Index, NEW n \in Nat,
         Readable(i, o) + n <= Capacity
  PROVE  Readable(Plus(i, n), o) = Readable(i, o) + n
<1> USE RingAssumption
<1> DEFINE q == (i - o) \div Modulus
           r == (i - o) % Modulus
           p == (i + n) \div Modulus
           s == (i + n) % Modulus
<1>1. i \in Int /\ o \in Int /\ i - o \in Int
  BY DEF Index
<1>2. q \in Int /\ r \in 0 .. (Modulus - 1) /\ i - o = Modulus * q + r
  BY <1>1, DivMod
<1>3. p \in Int /\ s \in Int /\ i + n = Modulus * p + s
  BY <1>1, DivMod
<1>4. q - p \in Int /\ Modulus * (q - p) = Modulus * q - Modulus * p
  BY <1>2, <1>3, SMT
<1>5. Modulus * q \in Int /\ Modulus * p \in Int
  BY <1>2, <1>3
<1>6. s - o = Modulus * (q - p) + (r + n)
  BY <1>1, <1>2, <1>3, <1>4, <1>5
<1>7. r + n \in 0 .. (Modulus - 1)
  BY <1>2 DEF Readable
<1>8. (Modulus * (q - p) + (r + n)) % Modulus = r + n
  BY <1>4, <1>7, ModUnique
<1> QED
  BY <1>6, <1>8 DEF Readable, Plus

(* Retiring n of the readable entries leaves the others. *)
LEMMA ReadableAfterRetire ==
  ASSUME NEW i \in Index, NEW o \in Index, NEW n \in Nat,
         n <= Readable(i, o)
  PROVE  Readable(i, Plus(o, n)) = Readable(i, o) - n
<1> USE RingAssumption
<1> DEFINE q == (i - o) \div Modulus
           r == (i - o) % Modulus
           p == (o + n) \div Modulus
           s == (o + n) % Modulus
<1>1. i \in Int /\ o \in Int /\ i - o \in Int
  BY DEF Index
<1>2. q \in Int /\ r \in 0 .. (Modulus - 1) /\ i - o = Modulus * q + r
  BY <1>1, DivMod
<1>3. p \in Int /\ s \in Int /\ o + n = Modulus * p + s
  BY <1>1, DivMod
<1>4. q + p \in Int /\ Modulus * (q + p) = Modulus * q + Modulus * p
  BY <1>2, <1>3, SMT
<1>5. Modulus * q \in Int /\ Modulus * p \in Int
  BY <1>2, <1>3
<1>6. i - s = Modulus * (q + p) + (r - n)
  BY <1>1, <1>2, <1>3, <1>4, <1>5
<1>7. r - n \in 0 .. (Modulus - 1)
  BY <1>2 DEF Readable
<1>8. (Modulus * (q + p) + (r - n)) % Modulus = r - n
  BY <1>4, <1>7, ModUnique
<1> QED
  BY <1>6, <1>8 DEF Readable, Plus

(* As long as at most Capacity entries are readable, the rest is free. *)
LEMMA FreeSpaceIsRest ==
  ASSUME NEW i \in Index, NEW o \in Index, Readable(i, o) <= Capacity
  PROVE  FreeSpace(i, o) = Capacity - Readable(i, o)
<1> USE RingAssumption
<1> DEFINE q == (i - o) \div Modulus
           r == (i - o) % Modulus
<1>1. i \in Int /\ o \in Int /\ i - o \in Int
  BY DEF Index
<1>2. q \in Int /\ r \in 0 .. (Modulus - 1) /\ i - o = Modulus * q + r
  BY <1>1, DivMod
<1>3. -q \in Int /\ Modulus * (-q) = -(Modulus * q) /\ Modulus * q \in Int
  BY <1>2, SMT
<1>4. Capacity - i + o = Modulus * (-q) + (Capacity - r)
  BY <1>1, <1>2, <1>3
<1>5. Capacity - r \in 0 .. (Modulus - 1)
  BY <1>2 DEF Readable
<1>6. (Modulus * (-q) + (Capacity - r)) % Modulus = Capacity - r
  BY <1>3, <1>5, ModUnique
<1> QED
  BY <1>4, <1>6 DEF Readable, FreeSpace

-----------------------------------------------------------------------------
(***************************************************************************)
(* The two runs of a batch copy (push and pop of n items) fill and empty   *)
(* consecutive slots, in order, around the end of the array.               *)
(***************************************************************************)
THEOREM BatchIsConsecutive ==
  ASSUME NEW x \in Index, NEW len \in 1 .. Capacity, NEW i \in 1 .. len
  PROVE  BatchSlot(x, len, i) = SlotOf(x + i - 1)
<1> USE RingAssumption
<1> DEFINE q == x \div Capacity
           r == x % Capacity
<1>1. x \in Int
  BY DEF Index
<1>2. q \in Int /\ r \in 0 .. (Capacity - 1) /\ x = Capacity * q + r
  BY <1>1, DivMod
<1>3. Capacity * q \in Int /\ q + 1 \in Int
  BY <1>2
<1>4. CASE r + (i - 1) < Capacity
  <2>1. r + (i - 1) \in 0 .. (Capacity - 1)
    BY <1>2, <1>4
  <2>2. (Capacity * q + (r + (i - 1))) % Capacity = r + (i - 1)
    BY <1>2, <2>1, ModUnique
  <2>3. x + i - 1 = Capacity * q + (r + (i - 1))
    BY <1>2, <1>3
  <2>4. i <= FirstRun(x, len)
    BY <1>2, <1>4 DEF FirstRun, min, SlotOf
  <2> QED
    BY <2>2, <2>3, <2>4 DEF BatchSlot, SlotOf
<1>5. CASE r + (i - 1) >= Capacity
  <2>1. r + (i - 1) - Capacity \in 0 .. (Capacity - 1)
    BY <1>2, <1>5
  <2>2. (Capacity * (q + 1) + (r + (i - 1) - Capacity)) % Capacity
          = r + (i - 1) - Capacity
    BY <1>3, <2>1, ModUnique
  <2>3. Capacity * (q + 1) = Capacity * q + Capacity
    BY <1>2, SMT
  <2>4. x + i - 1 = Capacity * (q + 1) + (r + (i - 1) - Capacity)
    BY <1>2, <1>3, <2>3
  <2>5. FirstRun(x, len) = Capacity - r /\ i > FirstRun(x, len)
    BY <1>2, <1>5 DEF FirstRun, min, SlotOf
  <2>6. BatchSlot(x, len, i) = r + (i - 1) - Capacity
    BY <1>2, <2>5 DEF BatchSlot
  <2> QED
    BY <2>2, <2>4, <2>6 DEF SlotOf
<1> QED
  BY <1>2, <1>4, <1>5

(* The walking pointer of the consumer moves to the next position's slot. *)
LEMMA NextSlotIsNext ==
  ASSUME NEW x \in Int
  PROVE  NextSlot(SlotOf(x)) = SlotOf(x + 1)
<1> USE RingAssumption
<1> DEFINE q == x \div Capacity
           r == x % Capacity
<1>1. q \in Int /\ r \in 0 .. (Capacity - 1) /\ x = Capacity * q + r
  BY DivMod
<1>2. Capacity * q \in Int /\ q + 1 \in Int
  BY <1>1
<1>3. CASE r + 1 = Capacity
  <2>1. Capacity * (q + 1) = Capacity * q + Capacity
    BY <1>1, SMT
  <2>2. x + 1 = Capacity * (q + 1) + 0
    BY <1>1, <1>2, <1>3, <2>1
  <2>3. (Capacity * (q + 1) + 0) % Capacity = 0
    BY <1>2, ModUnique
  <2> QED
    BY <1>3, <2>2, <2>3 DEF NextSlot, SlotOf
<1>4. CASE r + 1 # Capacity
  <2>1. r + 1 \in 0 .. (Capacity - 1)
    BY <1>1, <1>4
  <2>2. (Capacity * q + (r + 1)) % Capacity = r + 1
    BY <1>1, <2>1, ModUnique
  <2>3. x + 1 = Capacity * q + (r + 1)
    BY <1>1, <1>2
  <2> QED
    BY <1>4, <2>2, <2>3 DEF NextSlot, SlotOf
<1> QED
  BY <1>3, <1>4

=============================================================================
