--------------------------- MODULE RingMemoryProofs ---------------------------
(***************************************************************************)
(* The ring on x86 memory, for every capacity, width, set of values and    *)
(* batch size, whether or not the element stores may overtake one another: *)
(* what is on its way in the two store buffers never lets a thread see     *)
(* more than there is, nor an element before it has arrived.               *)
(***************************************************************************)
EXTENDS RingMemory, RingIndexProofs, SequenceTheorems, FiniteSetTheorems

(* How far an index lags behind in, and the slot d positions before in. *)
Lag(v) == Readable(in, v)
Pos(d) == SlotOf(in - d)

(* The slots that a push fills from in on; the entries copied, so far. *)
Filling == IF ppc = "store" THEN Len(batch) ELSE 0
Taken == IF cpc = "idle" THEN {} ELSE DOMAIN got

(* The item d positions before in; the batch being stored is beyond it. *)
Item(d) == IF d > 0 THEN queue[Len(queue) + 1 - d] ELSE batch[1 - d]

SlotStores == [kind : {"slot"}, slot : Slots, item : Values \cup {Moved}]
IndexStores == [kind : {"index"}, value : Index]
Stores == SlotStores \cup IndexStores \cup {sfence}

Types ==
  /\ in \in Index /\ out \in Index /\ memIn \in Index /\ memOut \in Index
  /\ arr \in [Slots -> Values \cup {Moved}]
  /\ pbuf \in Seq(Stores) /\ cbuf \in Seq(Stores)
  /\ ppc \in {"idle", "wait", "store"}
  /\ batch \in Seq(Values) /\ todo \subseteq 1 .. Filling
  /\ ppc = "wait" => Len(batch) = 1
  /\ ppc = "store" => Len(batch) > 0
  /\ cpc \in Calls \cup {"idle"}
  /\ got = [i \in DOMAIN got |-> got[i]]
  /\ clen \in Nat /\ Taken \subseteq 1 .. clen
  /\ cpc = "peek" => \E c \in 0 .. clen : DOMAIN got = 1 .. c
  /\ queue \in Seq(Values)

(* The indices in a buffer follow one another, oldest and farthest behind  *)
(* i first.                                                                *)
Chain(i, buf, newest, oldest) ==
  /\ \A k \in DOMAIN buf : buf[k].kind = "index" =>
       newest <= Readable(i, buf[k].value) /\ Readable(i, buf[k].value) <= oldest
  /\ \A j, k \in DOMAIN buf :
       j < k /\ buf[j].kind = "index" /\ buf[k].kind = "index" =>
         Readable(i, buf[k].value) <= Readable(i, buf[j].value)

(* The loads are safe: memOut, out, memIn and in follow one another, with  *)
(* what is pending in between, and no more than Capacity apart.            *)

Indices ==
  /\ Lag(out) = Len(queue)
  /\ Chain(in, pbuf, 0, Lag(memIn))
  /\ Lag(memIn) + (IF cpc = "idle" THEN 0 ELSE clen) <= Len(queue)
  /\ Chain(in, cbuf, Len(queue), Lag(memOut))
  /\ Len(queue) <= Lag(memOut) /\ Lag(memOut) + Filling <= Capacity

(* An index beyond the slot d positions before i waits for the fence       *)
(* behind the k-th store.                                                  *)
Fenced(i, buf, k, d) ==
  \A m \in DOMAIN buf :
    buf[m].kind = "index" /\ Readable(i, buf[m].value) < d =>
    \E f \in DOMAIN buf : k < f /\ f < m /\ buf[f].kind = "sfence"

ProducersStores ==
  \A k \in DOMAIN pbuf : pbuf[k].kind = "slot" =>
    \E d \in (1 - Filling) .. Lag(memIn) :
      /\ pbuf[k].slot = Pos(d) /\ pbuf[k].item = Item(d)
      /\ d <= 0 => 1 - d \notin todo
      /\ Fenced(in, pbuf, k, d)

ConsumersStores ==
  \A k \in DOMAIN cbuf : cbuf[k].kind = "slot" =>
    \E d \in 1 .. Lag(memOut) :
      /\ cbuf[k].slot = Pos(d) /\ cbuf[k].item = Moved
      /\ d > Len(queue) \/ Len(queue) + 1 - d \in Taken
      /\ Fenced(in, cbuf, k, d)

Contents ==
  \A d \in (1 - Filling) .. Len(queue) :
    (d > 0 => Len(queue) + 1 - d \notin Taken) /\ (d <= 0 => 1 - d \notin todo)
      => \/ arr[Pos(d)] = Item(d)
         \/ \E k \in DOMAIN pbuf : pbuf[k].kind = "slot" /\ pbuf[k].slot = Pos(d)

MInv == Types /\ Indices /\ ProducersStores /\ ConsumersStores /\ Contents

-----------------------------------------------------------------------------
(* Arithmetic. *)

(* An index between two others splits the distance of these. *)
LEMMA ReadableBetween ==
  ASSUME NEW i \in Index, NEW v \in Index, NEW o \in Index,
         Readable(i, v) <= Readable(i, o)
  PROVE  Readable(v, o) = Readable(i, o) - Readable(i, v)
<1> USE RingAssumption
<1> DEFINE q == (i - o) \div Modulus
           r == (i - o) % Modulus
           p == (i - v) \div Modulus
           s == (i - v) % Modulus
<1>1. i \in Int /\ o \in Int /\ v \in Int /\ i - o \in Int /\ i - v \in Int
  BY DEF Index
<1>2. q \in Int /\ r \in 0 .. (Modulus - 1) /\ i - o = Modulus * q + r
  BY <1>1, DivMod
<1>3. p \in Int /\ s \in 0 .. (Modulus - 1) /\ i - v = Modulus * p + s
  BY <1>1, DivMod
<1>4. q - p \in Int /\ Modulus * (q - p) = Modulus * q - Modulus * p
  BY <1>2, <1>3, SMT
<1>5. Modulus * q \in Int /\ Modulus * p \in Int
  BY <1>2, <1>3
<1>6. v - o = Modulus * (q - p) + (r - s)
  BY <1>1, <1>2, <1>3, <1>4, <1>5
<1>7. r - s \in 0 .. (Modulus - 1)
  BY <1>2, <1>3 DEF Readable
<1>8. (Modulus * (q - p) + (r - s)) % Modulus = r - s
  BY <1>4, <1>7, ModUnique
<1> QED
  BY <1>6, <1>8 DEF Readable

LEMMA NothingReadable == ASSUME NEW i \in Index PROVE Readable(i, i) = 0
<1>1. i - i = 0
  BY RingAssumption DEF Index
<1>2. (Modulus * 0 + 0) % Modulus = 0
  BY RingAssumption, ModUnique
<1> QED
  BY <1>1, <1>2, RingAssumption DEF Readable

(* The integers that occur. *)
LEMMA Numbers ==
  ASSUME Types
  PROVE  /\ in \in Int /\ out \in Int
         /\ Capacity \in Nat \ {0} /\ Modulus \in Nat /\ Capacity < Modulus
         /\ Len(queue) \in Nat /\ Len(batch) \in Nat /\ Filling \in Nat
         /\ \A v \in Index : Lag(v) \in Nat
<1>1. Index \subseteq Nat
  BY RingAssumption DEF Index
<1>2. ASSUME NEW v \in Index PROVE Lag(v) \in Nat
  <2>1. in \in Int /\ v \in Int
    BY <1>1 DEF Types
  <2>2. Readable(in, v) \in Index
    BY <2>1, IndexType
  <2> QED
    BY <1>1, <2>2 DEF Lag
<1>3. Len(queue) \in Nat /\ Len(batch) \in Nat
  BY DEF Types
<1>4. Filling \in Nat
  BY <1>3 DEF Filling
<1> QED
  BY <1>1, <1>2, <1>3, <1>4, RingAssumption DEF Types

LEMMA PosType == ASSUME Types, NEW d \in Int PROVE Pos(d) \in Slots
  BY Numbers, SlotType DEF Pos

(* Positions less than Capacity apart are in different slots. *)
LEMMA PosDiffer ==
  ASSUME Types, NEW d \in Int, NEW e \in Int,
         d - e < Capacity, e - d < Capacity, Pos(d) = Pos(e)
  PROVE  d = e
<1>1. -d \in Int /\ -e \in Int /\ in \in Int /\ in + -d = in - d /\ in + -e = in - e
  BY Numbers
<1>2. (-d) - (-e) < Capacity /\ (-e) - (-d) < Capacity
  BY RingAssumption
<1>3. SlotOf(in + -d) = SlotOf(in + -e)
  BY <1>1 DEF Pos
<1>4. -d = -e
  BY <1>1, <1>2, <1>3, SlotsDiffer
<1> QED
  BY <1>4

(* The slots of a call of either thread, seen from in. *)
LEMMA ConsumersSlot ==
  ASSUME Types, Indices, cpc # "idle", NEW i \in 1 .. clen
  PROVE  /\ BatchSlot(out, clen, i) = Pos(Len(queue) + 1 - i)
         /\ Len(queue) + 1 - i \in (Lag(memIn) + 1) .. Len(queue)
<1> DEFINE d == Len(queue) + 1 - i
<1>1. /\ clen \in Nat /\ Lag(memIn) + clen <= Len(queue) /\ Lag(memIn) \in Nat
      /\ Len(queue) \in Nat /\ Len(queue) <= Capacity /\ Lag(out) = Len(queue)
  BY Numbers DEF Types, Indices
<1>2. clen \in 1 .. Capacity /\ d \in Int
  BY <1>1, RingAssumption
<1>3. BatchSlot(out, clen, i) = SlotOf(out + i - 1)
  BY <1>2, BatchIsConsecutive DEF Types
<1>4. SlotOf(in + -d) = SlotOf(out + Readable(in, out) + -d)
  BY <1>2, Numbers, SlotOfIn
<1>5. in + -d = in - d /\ out + Readable(in, out) + -d = out + i - 1
  BY <1>1, <1>2, Numbers DEF Lag
<1>6. d \in (Lag(memIn) + 1) .. Len(queue)
  BY <1>1
<1> QED
  BY <1>3, <1>4, <1>5, <1>6 DEF Pos

LEMMA ProducersSlot ==
  ASSUME Types, Indices, ppc = "store", NEW i \in 1 .. Len(batch)
  PROVE  BatchSlot(in, Len(batch), i) = Pos(1 - i) /\ 1 - i \in (1 - Filling) .. 0
<1>1. Len(batch) \in 1 .. Capacity
  BY Numbers DEF Types, Indices, Filling
<1>2. BatchSlot(in, Len(batch), i) = SlotOf(in + i - 1)
  BY <1>1, BatchIsConsecutive DEF Types
<1>3. in + i - 1 = in - (1 - i)
  BY Numbers
<1>4. 1 - i \in (1 - Filling) .. 0
  BY <1>1 DEF Filling
<1> QED
  BY <1>2, <1>3, <1>4 DEF Pos

-----------------------------------------------------------------------------
(* The store buffers. *)

LEMMA StoreFields ==
  ASSUME NEW e \in Stores
  PROVE  /\ e.kind \in {"slot", "index", "sfence"}
         /\ e.kind = "slot" => e.slot \in Slots /\ e.item \in Values \cup {Moved}
         /\ e.kind = "index" => e.value \in Index
  BY DEF Stores, SlotStores, IndexStores, sfence

LEMMA NewStores ==
  /\ \A s \in Slots, x \in Values \cup {Moved} :
       /\ SlotStore(s, x) \in Stores
       /\ SlotStore(s, x).kind = "slot"
       /\ SlotStore(s, x).slot = s /\ SlotStore(s, x).item = x
  /\ \A v \in Index :
       /\ IndexStore(v) \in Stores
       /\ IndexStore(v).kind = "index" /\ IndexStore(v).value = v
  /\ sfence \in Stores /\ sfence.kind = "sfence"
  BY DEF SlotStore, IndexStore, Stores, SlotStores, IndexStores, sfence

(* Bump adds the index and, behind anything older, a fence before it. *)
LEMMA BumpAppends ==
  ASSUME NEW buf \in Seq(Stores), NEW v \in Index
  PROVE  LET w == Bump(buf, v)
         IN  /\ w \in Seq(Stores)
             /\ Len(w) = IF buf = <<>> THEN 1 ELSE Len(buf) + 2
             /\ \A k \in 1 .. Len(buf) : w[k] = buf[k]
             /\ buf # <<>> => w[Len(buf) + 1] = sfence
             /\ w[Len(w)] = IndexStore(v)
<1>1. IndexStore(v) \in Stores /\ sfence \in Stores
  BY NewStores
<1>2. CASE buf = <<>>
  BY <1>1, <1>2 DEF Bump
<1>3. CASE buf # <<>>
  <2> DEFINE a == Append(buf, sfence)
  <2>1. a \in Seq(Stores) /\ Len(a) = Len(buf) + 1 /\ a[Len(buf) + 1] = sfence
        /\ \A k \in 1 .. Len(buf) : a[k] = buf[k]
    BY <1>1
  <2>2. Bump(buf, v) = a \o <<IndexStore(v)>>
    BY <1>3 DEF Bump
  <2> HIDE DEF a
  <2> QED
    BY <1>1, <1>3, <2>1, <2>2
<1> QED
  BY <1>2, <1>3

(* What drains is no fence and has none before it; an index, no index. *)
LEMMA DrainsInOrder ==
  ASSUME NEW buf \in Seq(Stores), NEW k \in DOMAIN buf, MayDrain(buf, k)
  PROVE  /\ buf[k].kind \in {"slot", "index"}
         /\ \A j \in DOMAIN buf : j < k => buf[j].kind # "sfence"
         /\ \A j \in DOMAIN buf :
              j < k /\ buf[k].kind = "index" => buf[j].kind # "index"
         /\ \A j \in DOMAIN buf :
              j < k /\ buf[k].kind = "slot" /\ buf[j].kind = "slot"
                => buf[j].slot # buf[k].slot
<1>1. buf[k] \in Stores /\ DOMAIN buf = 1 .. Len(buf) /\ Len(buf) \in Nat
  OBVIOUS
<1>2. ASSUME NEW j \in DOMAIN buf, j < k PROVE ~Ordered(buf[j], buf[k])
  BY <1>1, <1>2 DEF MayDrain
<1>3. buf[k].kind \in {"slot", "index"}
  BY <1>1, StoreFields DEF MayDrain
<1> QED
  BY <1>2, <1>3 DEF Ordered

LEMMA RemovedAt ==
  ASSUME NEW S, NEW s \in Seq(S), NEW k \in 1 .. Len(s)
  PROVE  /\ RemoveAt(s, k) \in Seq(S) /\ Len(RemoveAt(s, k)) = Len(s) - 1
         /\ \A j \in 1 .. Len(s) - 1 :
              RemoveAt(s, k)[j] = IF j < k THEN s[j] ELSE s[j + 1]
<1> DEFINE a == SubSeq(s, 1, k - 1)
           b == SubSeq(s, k + 1, Len(s))
<1>1. a \in Seq(S) /\ Len(a) = k - 1 /\ \A j \in 1 .. k - 1 : a[j] = s[j]
  OBVIOUS
<1>2. /\ b \in Seq(S) /\ Len(b) = Len(s) - k
      /\ \A j \in 1 .. Len(s) - k : b[j] = s[j + k]
  OBVIOUS
<1>3. RemoveAt(s, k) = a \o b
  BY DEF RemoveAt
<1> HIDE DEF a, b
<1>4. a \o b \in Seq(S) /\ Len(a \o b) = Len(s) - 1
  <2>1. a \o b \in Seq(S) /\ Len(a \o b) = Len(a) + Len(b)
    BY <1>1, <1>2, ConcatProperties
  <2> QED
    BY <1>1, <1>2, <2>1
<1>5. ASSUME NEW j \in 1 .. Len(s) - 1
      PROVE  (a \o b)[j] = IF j < k THEN s[j] ELSE s[j + 1]
  <2>1. CASE j < k
    BY <1>1, <1>2, <2>1
  <2>2. CASE ~(j < k)
    <3>1. k \in Int /\ k >= 1 /\ Len(s) \in Nat /\ j - (k - 1) \in 1 .. Len(s) - k
      BY <2>2
    <3>2. (a \o b)[j] = b[j - Len(a)] /\ Len(a) = k - 1
      BY <1>1, <1>2, <2>2, <3>1, ConcatProperties
    <3>3. b[j - (k - 1)] = s[j - (k - 1) + k] /\ j - (k - 1) + k = j + 1
      BY <1>2, <3>1
    <3> QED
      BY <2>2, <3>2, <3>3
  <2> QED
    BY <2>1, <2>2
<1> QED
  BY <1>3, <1>4, <1>5

(* f tells where in the old buffer each store of the new one was. *)
Kept(buf, k, w, f) ==
  /\ f \in [DOMAIN w -> DOMAIN buf]
  /\ \A j \in DOMAIN w : w[j] = buf[f[j]] /\ f[j] # k
  /\ \A i, j \in DOMAIN w : i < j <=> f[i] < f[j]
  /\ \A m \in DOMAIN buf : m # k =>
       \/ \E j \in DOMAIN w : f[j] = m
       \/ buf[m].kind = "sfence" /\ \A j \in DOMAIN w : m < f[j]

LEMMA WithoutKeeps ==
  ASSUME NEW buf \in Seq(Stores), NEW k \in DOMAIN buf
  PROVE  /\ Without(buf, k) \in Seq(Stores)
         /\ \E f : Kept(buf, k, Without(buf, k), f)
<1> DEFINE rest == RemoveAt(buf, k)
<1>1. /\ rest \in Seq(Stores) /\ Len(rest) = Len(buf) - 1
      /\ \A j \in 1 .. Len(buf) - 1 :
           rest[j] = IF j < k THEN buf[j] ELSE buf[j + 1]
      /\ k \in 1 .. Len(buf)
  <2>1. k \in 1 .. Len(buf)
    OBVIOUS
  <2> QED
    BY <2>1, RemovedAt
<1> HIDE DEF rest
<1>2. CASE rest # <<>> /\ Head(rest).kind = "sfence"
  <2> DEFINE w == Tail(rest)
             f == [j \in 1 .. Len(buf) - 2 |-> IF j + 1 < k THEN j + 1 ELSE j + 2]
  <2>1. Without(buf, k) = w
    BY <1>2 DEF Without, rest
  <2>2. /\ w \in Seq(Stores) /\ DOMAIN w = 1 .. Len(buf) - 2
        /\ \A j \in 1 .. Len(buf) - 2 : w[j] = rest[j + 1]
    BY <1>1, <1>2
  <2>3. Len(buf) \in Nat /\ Len(buf) >= 2 /\ DOMAIN buf = 1 .. Len(buf)
    BY <1>1, <1>2
  <2>4. buf[IF 1 < k THEN 1 ELSE 2].kind = "sfence"
    BY <1>1, <1>2, <2>3
  <2> HIDE DEF w
  <2>5. f \in [DOMAIN w -> DOMAIN buf]
    BY <1>1, <2>2, <2>3
  <2>6. ASSUME NEW j \in DOMAIN w PROVE w[j] = buf[f[j]] /\ f[j] # k
    <3>1. j \in 1 .. Len(buf) - 2 /\ j + 1 \in 1 .. Len(buf) - 1 /\ w[j] = rest[j + 1]
      BY <2>2, <2>3
    <3>2. f[j] = IF j + 1 < k THEN j + 1 ELSE j + 2
      BY <3>1
    <3>3. rest[j + 1] = IF j + 1 < k THEN buf[j + 1] ELSE buf[(j + 1) + 1]
      BY <1>1, <3>1
    <3> QED
      BY <1>1, <3>1, <3>2, <3>3
  <2>7. \A i, j \in DOMAIN w : i < j <=> f[i] < f[j]
    BY <1>1, <2>2, <2>3
  <2>8. ASSUME NEW m \in DOMAIN buf, m # k
        PROVE  \/ \E j \in DOMAIN w : f[j] = m
               \/ buf[m].kind = "sfence" /\ \A j \in DOMAIN w : m < f[j]
    <3>1. CASE m = IF 1 < k THEN 1 ELSE 2
      BY <1>1, <2>2, <2>3, <2>4, <3>1
    <3>2. CASE m # IF 1 < k THEN 1 ELSE 2
      <4> DEFINE j == IF m < k THEN m - 1 ELSE m - 2
      <4>1. j \in DOMAIN w /\ f[j] = m
        BY <1>1, <2>2, <2>3, <2>8, <3>2
      <4> QED
        BY <4>1
    <3> QED
      BY <3>1, <3>2
  <2> HIDE DEF f
  <2>9. Kept(buf, k, w, f)
    BY <2>5, <2>6, <2>7, <2>8 DEF Kept
  <2> QED
    BY <2>1, <2>2, <2>9
<1>3. CASE ~(rest # <<>> /\ Head(rest).kind = "sfence")
  <2> DEFINE f == [j \in 1 .. Len(buf) - 1 |-> IF j < k THEN j ELSE j + 1]
  <2>1. Without(buf, k) = rest
    BY <1>3 DEF Without, rest
  <2>2. /\ DOMAIN rest = 1 .. Len(buf) - 1 /\ Len(buf) \in Nat
        /\ DOMAIN buf = 1 .. Len(buf)
    BY <1>1
  <2>3. f \in [DOMAIN rest -> DOMAIN buf]
    BY <1>1, <2>2
  <2>4. \A j \in DOMAIN rest : rest[j] = buf[f[j]] /\ f[j] # k
    BY <1>1, <2>2
  <2>5. \A i, j \in DOMAIN rest : i < j <=> f[i] < f[j]
    BY <1>1, <2>2
  <2>6. ASSUME NEW m \in DOMAIN buf, m # k
        PROVE  \E j \in DOMAIN rest : f[j] = m
    <3> DEFINE j == IF m < k THEN m ELSE m - 1
    <3>1. j \in DOMAIN rest /\ f[j] = m
      BY <1>1, <2>2, <2>6
    <3> QED
      BY <3>1
  <2> HIDE DEF f
  <2>7. Kept(buf, k, rest, f)
    BY <2>3, <2>4, <2>5, <2>6 DEF Kept
  <2> QED
    BY <1>1, <2>1, <2>7
<1> QED
  BY <1>2, <1>3

(* Draining leaves every fence where it is needed. *)
LEMMA FencedAfterDrain ==
  ASSUME NEW n, NEW buf \in Seq(Stores), NEW k \in DOMAIN buf, MayDrain(buf, k),
         NEW w, NEW f, Kept(buf, k, w, f), DOMAIN w \subseteq Nat,
         NEW j \in DOMAIN w, NEW d, Fenced(n, buf, f[j], d)
  PROVE  Fenced(n, w, j, d)
<1> SUFFICES ASSUME NEW m \in DOMAIN w, w[m].kind = "index", Readable(n, w[m].value) < d
             PROVE  \E g \in DOMAIN w : j < g /\ g < m /\ w[g].kind = "sfence"
  BY DEF Fenced
<1>1. f[m] \in DOMAIN buf /\ f[j] \in DOMAIN buf /\ w[m] = buf[f[m]]
  BY DEF Kept
<1>2. PICK h \in DOMAIN buf : f[j] < h /\ h < f[m] /\ buf[h].kind = "sfence"
  BY <1>1 DEF Fenced
<1>3. h # k
  BY <1>2 DEF MayDrain
<1>4. ~(h < f[j])
  BY <1>1, <1>2
<1>5. PICK g \in DOMAIN w : f[g] = h
  BY <1>3, <1>4 DEF Kept
<1>6. w[g] = buf[h] /\ j < g /\ g < m
  BY <1>2, <1>5 DEF Kept
<1> QED
  BY <1>2, <1>6

(* The indices left are still in order, and behind the one that drained.   *)
LEMMA ChainAfterDrain ==
  ASSUME NEW n, NEW buf \in Seq(Stores), NEW k \in DOMAIN buf, MayDrain(buf, k),
         NEW w, NEW f, Kept(buf, k, w, f), DOMAIN w \subseteq Nat,
         NEW newest, NEW oldest, Chain(n, buf, newest, oldest)
  PROVE  /\ buf[k].kind = "slot" => Chain(n, w, newest, oldest)
         /\ buf[k].kind = "index" => Chain(n, w, newest, Readable(n, buf[k].value))
<1>1. \A j \in DOMAIN w : w[j] = buf[f[j]] /\ f[j] \in DOMAIN buf
  BY DEF Kept
<1>2. ASSUME NEW i \in DOMAIN w, NEW j \in DOMAIN w, i < j,
             w[i].kind = "index", w[j].kind = "index"
      PROVE  Readable(n, w[j].value) <= Readable(n, w[i].value)
  BY <1>1, <1>2 DEF Kept, Chain
<1>3. ASSUME NEW i \in DOMAIN w, w[i].kind = "index"
      PROVE  newest <= Readable(n, w[i].value) /\ Readable(n, w[i].value) <= oldest
  BY <1>1, <1>3 DEF Chain
<1>4. ASSUME NEW i \in DOMAIN w, w[i].kind = "index", buf[k].kind = "index"
      PROVE  Readable(n, w[i].value) <= Readable(n, buf[k].value)
  <2>1. f[i] \in DOMAIN buf /\ f[i] # k /\ buf[f[i]].kind = "index"
    BY <1>1, <1>4 DEF Kept
  <2>2. ~(f[i] < k)
    BY <1>4, <2>1, DrainsInOrder
  <2>3. k < f[i]
    BY <2>1, <2>2
  <2> QED
    BY <1>1, <1>4, <2>1, <2>3 DEF Chain
<1> QED
  BY <1>2, <1>3, <1>4 DEF Chain

(* A store to a slot, appended: nothing changes for what is older. *)
LEMMA SlotAppends ==
  ASSUME NEW n, NEW buf \in Seq(Stores), NEW e \in Stores, e.kind = "slot"
  PROVE  LET w == Append(buf, e)
         IN  /\ w \in Seq(Stores) /\ DOMAIN w = DOMAIN buf \cup {Len(buf) + 1}
             /\ \A k \in DOMAIN buf : w[k] = buf[k] /\ k # Len(buf) + 1
             /\ w[Len(buf) + 1] = e
             /\ \A newest, oldest : Chain(n, buf, newest, oldest)
                                     => Chain(n, w, newest, oldest)
             /\ \A k \in DOMAIN buf : \A d : Fenced(n, buf, k, d) => Fenced(n, w, k, d)
             /\ \A d : (\A m \in DOMAIN buf :
                           buf[m].kind = "index" => ~(Readable(n, buf[m].value) < d))
                         => Fenced(n, w, Len(buf) + 1, d)
<1> DEFINE w == Append(buf, e)
<1>1. /\ w \in Seq(Stores) /\ DOMAIN w = DOMAIN buf \cup {Len(buf) + 1}
      /\ \A k \in DOMAIN buf : w[k] = buf[k] /\ k # Len(buf) + 1
      /\ w[Len(buf) + 1] = e
  OBVIOUS
<1> HIDE DEF w
<1>2. \A newest, oldest : Chain(n, buf, newest, oldest) => Chain(n, w, newest, oldest)
  BY <1>1 DEF Chain
<1>3. \A k \in DOMAIN buf : \A d : Fenced(n, buf, k, d) => Fenced(n, w, k, d)
  BY <1>1 DEF Fenced
<1>4. ASSUME NEW d, \A m \in DOMAIN buf :
                      buf[m].kind = "index" => ~(Readable(n, buf[m].value) < d)
      PROVE  Fenced(n, w, Len(buf) + 1, d)
  BY <1>1, <1>4 DEF Fenced
<1> QED
  BY <1>1, <1>2, <1>3, <1>4 DEF w

(* An index announced: whatever is older is fenced from it. *)
LEMMA BumpFences ==
  ASSUME NEW n, NEW buf \in Seq(Stores), NEW v \in Index
  PROVE  LET w == Bump(buf, v)
         IN  /\ w \in Seq(Stores) /\ DOMAIN buf \subseteq DOMAIN w
             /\ \A k \in DOMAIN w : w[k].kind = "slot" => k \in DOMAIN buf
             /\ \A k \in DOMAIN buf : w[k] = buf[k]
             /\ \A newest, oldest :
                  /\ Chain(n, buf, newest, oldest)
                  /\ newest \in Int /\ oldest \in Int /\ newest <= oldest
                  /\ Readable(n, v) \in Int /\ Readable(n, v) <= newest
                  /\ \A u \in Index : Readable(n, u) \in Int
                  => Chain(n, w, Readable(n, v), oldest)
             /\ \A k \in DOMAIN buf : \A d : Fenced(n, buf, k, d) => Fenced(n, w, k, d)
<1> DEFINE w == Bump(buf, v)
           L == Len(buf)
<1>0. L \in Nat /\ DOMAIN buf = 1 .. L /\ (buf = <<>> <=> L = 0)
  OBVIOUS
<1>1. /\ w \in Seq(Stores)
      /\ Len(w) = IF buf = <<>> THEN 1 ELSE L + 2
      /\ \A k \in 1 .. L : w[k] = buf[k]
      /\ buf # <<>> => w[L + 1] = sfence
      /\ w[Len(w)] = IndexStore(v)
  BY BumpAppends
<1> HIDE DEF w
<1>2. DOMAIN w = 1 .. Len(w) /\ Len(w) \in Nat /\ Len(w) > L
  BY <1>0, <1>1
<1>3. /\ w[Len(w)].kind = "index" /\ w[Len(w)].value = v
      /\ buf # <<>> => w[L + 1].kind = "sfence"
  BY <1>1, NewStores
<1>4. \A k \in DOMAIN w : \/ k \in DOMAIN buf /\ w[k] = buf[k]
                          \/ k = Len(w)
                          \/ buf # <<>> /\ k = L + 1 /\ L + 1 < Len(w)
  BY <1>0, <1>1, <1>2
<1>5. DOMAIN buf \subseteq DOMAIN w
  BY <1>0, <1>2
<1>6. \A k \in DOMAIN w : w[k].kind = "slot" => k \in DOMAIN buf
  BY <1>3, <1>4
<1>7. \A k \in DOMAIN w : w[k].kind = "index" =>
        (k \in DOMAIN buf /\ w[k] = buf[k]) \/ k = Len(w)
  BY <1>3, <1>4
<1>8. ASSUME NEW newest \in Int, NEW oldest \in Int, newest <= oldest,
             Chain(n, buf, newest, oldest), Readable(n, v) \in Int, Readable(n, v) <= newest,
             \A u \in Index : Readable(n, u) \in Int
      PROVE  Chain(n, w, Readable(n, v), oldest)
  <2>1. \A k \in DOMAIN buf : buf[k].kind = "index" =>
          /\ Readable(n, buf[k].value) \in Int /\ newest <= Readable(n, buf[k].value)
          /\ Readable(n, buf[k].value) <= oldest
    BY <1>8, StoreFields DEF Chain
  <2>2. ASSUME NEW k \in DOMAIN w, w[k].kind = "index"
        PROVE  /\ Readable(n, w[k].value) \in Int /\ Readable(n, v) <= Readable(n, w[k].value)
               /\ Readable(n, w[k].value) <= oldest
    BY <1>3, <1>7, <1>8, <2>1, <2>2
  <2>3. ASSUME NEW j \in DOMAIN w, NEW k \in DOMAIN w, j < k,
               w[j].kind = "index", w[k].kind = "index"
        PROVE  Readable(n, w[k].value) <= Readable(n, w[j].value)
    <3>1. CASE k = Len(w)
      BY <1>3, <2>2, <2>3, <3>1
    <3>2. CASE k # Len(w)
      <4>1. k \in DOMAIN buf /\ w[k] = buf[k]
        BY <1>7, <2>3, <3>2
      <4>2. j # Len(w)
        BY <1>0, <1>2, <2>3, <4>1
      <4>3. j \in DOMAIN buf /\ w[j] = buf[j]
        BY <1>7, <2>3, <4>2
      <4> QED
        BY <1>8, <2>3, <4>1, <4>3 DEF Chain
    <3> QED
      BY <3>1, <3>2
  <2> QED
    BY <2>2, <2>3 DEF Chain
<1>9. ASSUME NEW k \in DOMAIN buf, NEW d, Fenced(n, buf, k, d)
      PROVE  Fenced(n, w, k, d)
  <2>1. ASSUME NEW m \in DOMAIN w, w[m].kind = "index", Readable(n, w[m].value) < d
        PROVE  \E f \in DOMAIN w : k < f /\ f < m /\ w[f].kind = "sfence"
    <3>1. CASE m \in DOMAIN buf /\ w[m] = buf[m]
      <4>1. PICK f \in DOMAIN buf : k < f /\ f < m /\ buf[f].kind = "sfence"
        BY <1>9, <2>1, <3>1 DEF Fenced
      <4>2. w[f] = buf[f] /\ f \in DOMAIN w
        BY <1>0, <1>1, <1>5
      <4> QED
        BY <4>1, <4>2
    <3>2. CASE m = Len(w)
      <4>1. L > 0 /\ Len(w) = L + 2 /\ k <= L
        BY <1>0, <1>1
      <4>2. L + 1 \in DOMAIN w /\ k < L + 1 /\ L + 1 < m
        BY <1>0, <1>2, <3>2, <4>1
      <4> QED
        BY <1>0, <1>3, <4>1, <4>2
    <3> QED
      BY <1>7, <2>1, <3>1, <3>2
  <2> QED
    BY <2>1 DEF Fenced
<1> QED
  BY <1>1, <1>5, <1>6, <1>0, <1>8, <1>9 DEF w

-----------------------------------------------------------------------------
(* The steps.  First what most of them leave alone. *)

LEMMA ProducersStoresStay ==
  ASSUME ProducersStores, UNCHANGED <<in, memIn, pbuf, prodVars, queue>>
  PROVE  ProducersStores'
  BY DEF ProducersStores, prodVars, Filling, Item, Pos, Lag

LEMMA ConsumersStoresStay ==
  ASSUME ConsumersStores, UNCHANGED <<in, memOut, cbuf, consVars, queue>>
  PROVE  ConsumersStores'
  BY DEF ConsumersStores, consVars, Taken, Pos, Lag

LEMMA IndicesStay ==
  ASSUME Indices, UNCHANGED <<in, out, memIn, memOut, pbuf, cbuf, queue>>,
         Filling' = Filling, clen' = clen, (cpc = "idle") = (cpc' = "idle")
  PROVE  Indices'
  BY DEF Indices, Lag

LEMMA InitMInv == Init => MInv
<1> SUFFICES ASSUME Init PROVE MInv
  OBVIOUS
<1>1. 0 \in Index
  BY RingAssumption DEF Index
<1>2. Types
  BY <1>1, MemoryAssumption DEF Init, Types, Filling, Taken
<1>3. Lag(0) = 0
  BY <1>1, NothingReadable DEF Lag, Init
<1>4. Indices
  BY <1>3, RingAssumption DEF Init, Indices, Chain, Filling
<1>5. ProducersStores /\ ConsumersStores
  BY DEF Init, ProducersStores, ConsumersStores
<1>6. Contents
  BY DEF Init, Contents, Filling
<1> QED
  BY <1>2, <1>4, <1>5, <1>6 DEF MInv

(* A call of the producer begins, waits or is refused. *)
LEMMA ProducerToKeeps ==
  ASSUME MInv, NEW p \in {"idle", "wait", "store"}, NEW items \in Seq(Values),
         ProducerTo(p, items), ppc # "store",
         p = "wait" => Len(items) = 1,
         p = "store" => Len(items) > 0 /\ Lag(memOut) + Len(items) <= Capacity
  PROVE  MInv'
<1> USE DEF MInv
<1>1. /\ ppc' = p /\ batch' = items
      /\ todo' = IF p = "store" THEN 1 .. Len(items) ELSE {}
      /\ UNCHANGED <<in, memIn, memOut, arr, pbuf, cbuf, queue>>
      /\ UNCHANGED consVars
  BY DEF ProducerTo, memVars
<1>2. UNCHANGED <<out, cpc, clen, got>>
  BY <1>1 DEF consVars
<1>3. Filling = 0 /\ Filling' = (IF p = "store" THEN Len(items) ELSE 0)
      /\ Filling' \in Nat
  BY <1>1 DEF Filling
<1>4. Types'
  <2>1. todo' \subseteq 1 .. Filling'
    BY <1>1, <1>3
  <2> QED
    BY <1>1, <1>2, <2>1 DEF Types, Taken
<1>5. Indices'
  BY <1>1, <1>2, <1>3 DEF Indices, Lag
<1>6. \A d \in Int : d > 0 => Item(d)' = Item(d)
  BY <1>1 DEF Item
<1>7. ProducersStores'
  <2> SUFFICES ASSUME NEW k \in DOMAIN pbuf, pbuf[k].kind = "slot"
               PROVE  \E d \in (1 - Filling') .. Lag(memIn) :
                        /\ pbuf[k].slot = Pos(d) /\ pbuf[k].item = Item(d)'
                        /\ d <= 0 => 1 - d \notin todo'
                        /\ Fenced(in, pbuf, k, d)
    BY <1>1 DEF ProducersStores, Lag, Pos
  <2>1. PICK d \in (1 - Filling) .. Lag(memIn) :
          /\ pbuf[k].slot = Pos(d) /\ pbuf[k].item = Item(d)
          /\ Fenced(in, pbuf, k, d)
    BY DEF ProducersStores
  <2>2. Lag(memIn) \in Nat
    BY Numbers DEF Types
  <2>3. d \in (1 - Filling') .. Lag(memIn) /\ d > 0
    BY <1>3, <2>1, <2>2
  <2> QED
    BY <1>6, <2>1, <2>3
<1>8. ConsumersStores'
  BY <1>1, ConsumersStoresStay
<1>9. Contents'
  <2> SUFFICES ASSUME NEW d \in (1 - Filling') .. Len(queue),
                      d > 0 => Len(queue) + 1 - d \notin Taken,
                      d <= 0 => 1 - d \notin todo'
               PROVE  \/ arr[Pos(d)] = Item(d)'
                      \/ \E k \in DOMAIN pbuf :
                           pbuf[k].kind = "slot" /\ pbuf[k].slot = Pos(d)
    BY <1>1, <1>2 DEF Contents, Taken, Pos
  <2>1. Len(queue) \in Nat
    BY Numbers
  <2>2. d > 0
    BY <1>1, <1>3, <2>1
  <2>3. d \in (1 - Filling) .. Len(queue)
    BY <1>3, <2>1, <2>2
  <2> QED
    BY <1>6, <2>2, <2>3 DEF Contents
<1> QED
  BY <1>4, <1>5, <1>7, <1>8, <1>9

(* What a push may store fits behind the slots in use. *)
LEMMA RoomIsReal ==
  ASSUME MInv, Filling = 0
  PROVE  FreeSpace(in, memOut) = Capacity - Lag(memOut) /\ Lag(memOut) \in Nat
<1>1. Lag(memOut) \in Nat /\ Lag(memOut) <= Capacity
  BY Numbers DEF MInv, Types, Indices
<1> QED
  BY <1>1, FreeSpaceIsRest DEF MInv, Types, Lag

LEMMA BatchesAreSequences == Batches \subseteq Seq(Values)
<1> SUFFICES ASSUME NEW n \in 0 .. MaxBatch, NEW b \in [1 .. n -> Values]
             PROVE  b \in Seq(Values)
  BY DEF Batches
<1>1. n \in Nat
  BY MemoryAssumption
<1> QED
  BY <1>1

LEMMA PushKeeps ==
  ASSUME MInv, NEW items \in Batches, push(items) PROVE MInv'
<1> DEFINE len == min(Len(items), FreeSpace(in, memOut))
           part == SubSeq(items, 1, len)
<1>1. ppc = "idle" /\ ProducerTo(IF len = 0 THEN "idle" ELSE "store", part)
  BY DEF push
<1>2. items \in Seq(Values) /\ Len(items) \in Nat
  BY BatchesAreSequences
<1>3. FreeSpace(in, memOut) = Capacity - Lag(memOut) /\ Lag(memOut) \in Nat
      /\ Lag(memOut) <= Capacity
  BY <1>1, RoomIsReal DEF Filling, MInv, Indices
<1>4. len \in 0 .. Len(items) /\ Lag(memOut) + len <= Capacity
  BY <1>2, <1>3, RingAssumption DEF min
<1>5. part \in Seq(Values) /\ Len(part) = len
  BY <1>2, <1>4
<1> HIDE DEF len, part
<1> QED
  BY <1>1, <1>4, <1>5, ProducerToKeeps

LEMMA WaitPushKeeps ==
  ASSUME MInv, NEW t \in Values, wait_push(t) PROVE MInv'
<1>1. <<t>> \in Seq(Values) /\ Len(<<t>>) = 1
  OBVIOUS
<1> QED
  BY <1>1, ProducerToKeeps DEF wait_push

LEMMA WaitPushAgainKeeps == ASSUME MInv, wait_push_again PROVE MInv'
<1>1. batch \in Seq(Values) /\ Len(batch) = 1
  BY DEF wait_push_again, MInv, Types
<1>2. FreeSpace(in, memOut) = Capacity - Lag(memOut) /\ Lag(memOut) \in Nat
      /\ Lag(memOut) <= Capacity
  BY RoomIsReal DEF Filling, MInv, Indices, wait_push_again
<1>3. Lag(memOut) + Len(batch) <= Capacity
  BY <1>1, <1>2, RingAssumption DEF wait_push_again
<1>4. ProducerTo("store", batch) /\ ppc = "wait" /\ Len(batch) > 0
  BY <1>1 DEF wait_push_again
<1> QED
  BY <1>1, <1>3, <1>4, ProducerToKeeps

LEMMA StoreItemKeeps ==
  ASSUME MInv, NEW i \in todo, StoreItem(i) PROVE MInv'
<1> USE DEF MInv
<1> DEFINE s == BatchSlot(in, Len(batch), i)
           e == SlotStore(s, batch[i])
           L == Len(pbuf)
<1>1. /\ ppc = "store" /\ pbuf' = Append(pbuf, e) /\ todo' = todo \ {i}
      /\ UNCHANGED <<in, ppc, batch, memIn, memOut, arr, cbuf, queue>>
      /\ UNCHANGED consVars
  BY DEF StoreItem, memVars
<1>2. UNCHANGED <<out, cpc, clen, got>>
  BY <1>1 DEF consVars
<1>3. Filling' = Filling /\ Filling = Len(batch) /\ Filling \in Nat
  BY <1>1, Numbers DEF Filling
<1>4. i \in 1 .. Len(batch)
  BY <1>3 DEF Types
<1>5. s = Pos(1 - i) /\ 1 - i \in (1 - Filling) .. 0
  BY <1>1, <1>4, ProducersSlot
<1>6. batch[i] \in Values /\ Item(1 - i) = batch[i]
  BY <1>4 DEF Types, Item
<1>7. s \in Slots
  BY <1>4, <1>5, PosType
<1>8. e \in Stores /\ e.kind = "slot" /\ e.slot = s /\ e.item = batch[i]
  BY <1>6, <1>7, NewStores
<1>9. pbuf \in Seq(Stores)
  BY DEF Types
<1> HIDE DEF e, s
<1>10. /\ pbuf' \in Seq(Stores) /\ DOMAIN pbuf' = DOMAIN pbuf \cup {L + 1}
       /\ \A k \in DOMAIN pbuf : pbuf'[k] = pbuf[k] /\ k # L + 1
       /\ pbuf'[L + 1] = e
  BY <1>1, <1>8, <1>9, SlotAppends
<1>11. \A newest, oldest : Chain(in, pbuf, newest, oldest)
                           => Chain(in, pbuf', newest, oldest)
  BY <1>1, <1>8, <1>9, SlotAppends
<1>12. \A k \in DOMAIN pbuf : \A d : Fenced(in, pbuf, k, d) => Fenced(in, pbuf', k, d)
  BY <1>1, <1>8, <1>9, SlotAppends
<1>13. Fenced(in, pbuf', L + 1, 1 - i)
  <2>1. ASSUME NEW m \in DOMAIN pbuf, pbuf[m].kind = "index"
        PROVE  ~(Readable(in, pbuf[m].value) < 1 - i)
    <3>1. Lag(pbuf[m].value) \in Nat
      BY <1>9, <2>1, StoreFields, Numbers
    <3> QED
      BY <1>4, <3>1 DEF Lag
  <2> QED
    BY <1>1, <1>8, <1>9, <2>1, SlotAppends
<1>14. Types'
  <2>1. todo' \subseteq 1 .. Filling'
    BY <1>1, <1>3 DEF Types
  <2> QED
    BY <1>1, <1>2, <1>10, <2>1 DEF Types, Taken
<1>15. Indices'
  BY <1>1, <1>2, <1>3, <1>11 DEF Indices, Lag
<1>16. \A d : Item(d)' = Item(d)
  BY <1>1 DEF Item
<1>17. ProducersStores'
  <2> SUFFICES ASSUME NEW k \in DOMAIN pbuf', pbuf'[k].kind = "slot"
               PROVE  \E d \in (1 - Filling) .. Lag(memIn) :
                        /\ pbuf'[k].slot = Pos(d) /\ pbuf'[k].item = Item(d)
                        /\ d <= 0 => 1 - d \notin todo'
                        /\ Fenced(in, pbuf', k, d)
    BY <1>1, <1>3, <1>16 DEF ProducersStores, Lag, Pos
  <2>1. CASE k \in DOMAIN pbuf
    BY <1>1, <1>10, <1>12, <2>1 DEF ProducersStores
  <2>2. CASE k = L + 1
    <3>1. 1 - i \in (1 - Filling) .. Lag(memIn)
      <4>1. Lag(memIn) \in Nat
        BY Numbers DEF Types
      <4> QED
        BY <1>3, <1>5, <4>1
    <3>2. 1 - (1 - i) \notin todo'
      BY <1>1, <1>4
    <3> QED
      BY <1>5, <1>6, <1>8, <1>10, <1>13, <2>2, <3>1, <3>2
  <2> QED
    BY <1>10, <2>1, <2>2
<1>18. ConsumersStores'
  BY <1>1, ConsumersStoresStay
<1>19. Contents'
  <2> SUFFICES ASSUME NEW d \in (1 - Filling) .. Len(queue),
                      d > 0 => Len(queue) + 1 - d \notin Taken,
                      d <= 0 => 1 - d \notin todo'
               PROVE  \/ arr[Pos(d)] = Item(d)
                      \/ \E k \in DOMAIN pbuf' :
                           pbuf'[k].kind = "slot" /\ pbuf'[k].slot = Pos(d)
    BY <1>1, <1>2, <1>3, <1>16 DEF Contents, Taken, Pos
  <2>1. CASE d = 1 - i
    BY <1>5, <1>8, <1>10, <2>1
  <2>2. CASE d # 1 - i
    <3>1. d <= 0 => 1 - d \notin todo
      BY <1>1, <1>3, <1>4, <2>2, Numbers
    <3> QED
      BY <1>10, <3>1 DEF Contents
  <2> QED
    BY <2>1, <2>2
<1> QED
  BY <1>14, <1>15, <1>17, <1>18, <1>19

(* The index is bumped: all positions move by the length of the batch. *)
LEMMA PublishKeeps == ASSUME MInv, Publish PROVE MInv'
<1> USE DEF MInv
<1> DEFINE n == Len(batch)
           N == Len(queue)
<1>1. /\ ppc = "store" /\ todo = {} /\ in' = Plus(in, n)
      /\ pbuf' = Bump(pbuf, in') /\ ppc' = "idle" /\ queue' = queue \o batch
      /\ UNCHANGED <<batch, todo, memIn, memOut, arr, cbuf>>
      /\ UNCHANGED consVars
  BY DEF Publish, memVars
<1>2. UNCHANGED <<out, cpc, clen, got>>
  BY <1>1 DEF consVars
<1>3. /\ n \in Nat /\ N \in Nat /\ in \in Index /\ in \in Int
      /\ queue \in Seq(Values) /\ batch \in Seq(Values)
      /\ pbuf \in Seq(Stores) /\ cbuf \in Seq(Stores)
  BY Numbers DEF Types
<1>4. Filling = n /\ Filling' = 0 /\ n > 0
  BY <1>1 DEF Filling, Types
<1>5. in' \in Index
  BY <1>1, <1>3, IndexType
<1>6. /\ queue' \in Seq(Values) /\ Len(queue') = N + n
      /\ \A j \in 1 .. N + n :
           queue'[j] = IF j <= N THEN queue[j] ELSE batch[j - N]
  BY <1>1, <1>3, ConcatProperties
<1>7. ASSUME NEW v \in Index, Lag(v) <= Lag(memOut)
      PROVE  Readable(in', v) = Lag(v) + n
  <2>1. Lag(v) \in Nat /\ Lag(memOut) \in Nat /\ Lag(memOut) + n <= Capacity
    BY <1>4, Numbers DEF Types, Indices
  <2>2. Readable(in, v) + n <= Capacity
    BY <1>3, <1>7, <2>1, RingAssumption DEF Lag
  <2> QED
    BY <1>1, <1>3, <2>2, ReadableAfterPublish DEF Lag
<1>8. Readable(in', in') = 0
  BY <1>5, NothingReadable
<1>9. \A u \in Index : Readable(in', u) \in Int
  BY <1>5, IndexType, RingAssumption DEF Index
<1>10. ASSUME NEW d \in Int PROVE SlotOf(in' - (d + n)) = Pos(d)
  <2>1. -(d + n) \in Int /\ in' - (d + n) = in' + -(d + n)
        /\ in + n + -(d + n) = in - d
    BY <1>3, <1>5, RingAssumption DEF Index
  <2>2. SlotOf(in' + -(d + n)) = SlotOf(in + n + -(d + n))
    BY <1>1, <1>3, <2>1, SlotOfPlus
  <2> QED
    BY <2>1, <2>2 DEF Pos
<1>11. ASSUME NEW d \in (1 - n) .. N, NEW e \in Int, e = d + n
       PROVE  Item(e)' = Item(d)
  <2>1. e > 0 /\ N + n + 1 - e = N + 1 - d /\ N + 1 - d \in 1 .. N + n
    BY <1>3, <1>11
  <2>2. Item(e)' = queue'[N + 1 - d]
    BY <1>6, <2>1 DEF Item
  <2>3. queue'[N + 1 - d] = IF N + 1 - d <= N THEN queue[N + 1 - d]
                                              ELSE batch[(N + 1 - d) - N]
    BY <1>6, <2>1
  <2>4. (N + 1 - d <= N <=> d > 0) /\ (N + 1 - d) - N = 1 - d
    BY <1>3
  <2> QED
    BY <2>2, <2>3, <2>4 DEF Item
<1>12. /\ Lag(memIn) \in Nat /\ Lag(memOut) \in Nat /\ Lag(out) = N
       /\ Lag(memIn) <= N /\ N <= Lag(memOut) /\ Lag(memOut) + n <= Capacity
       /\ memIn \in Index /\ memOut \in Index /\ out \in Index
  BY <1>3, <1>4, Numbers DEF Types, Indices
<1>13. /\ Readable(in', memIn) = Lag(memIn) + n
       /\ Readable(in', memOut) = Lag(memOut) + n
       /\ Readable(in', out) = N + n
  BY <1>7, <1>12
<1>14. ASSUME NEW k \in DOMAIN pbuf, pbuf[k].kind = "index"
       PROVE  /\ pbuf[k].value \in Index
              /\ 0 <= Lag(pbuf[k].value) /\ Lag(pbuf[k].value) <= Lag(memIn)
              /\ Lag(pbuf[k].value) \in Nat
              /\ Readable(in', pbuf[k].value) = Lag(pbuf[k].value) + n
  <2>1. pbuf[k].value \in Index
    BY <1>3, <1>14, StoreFields
  <2>2. 0 <= Lag(pbuf[k].value) /\ Lag(pbuf[k].value) <= Lag(memIn)
    BY <1>14 DEF Indices, Chain, Lag
  <2>3. Lag(pbuf[k].value) \in Nat
    BY <2>1, Numbers
  <2> QED
    BY <1>7, <1>12, <2>1, <2>2, <2>3
<1>15. ASSUME NEW k \in DOMAIN cbuf, cbuf[k].kind = "index"
       PROVE  /\ cbuf[k].value \in Index
              /\ N <= Lag(cbuf[k].value) /\ Lag(cbuf[k].value) <= Lag(memOut)
              /\ Lag(cbuf[k].value) \in Nat
              /\ Readable(in', cbuf[k].value) = Lag(cbuf[k].value) + n
  <2>1. cbuf[k].value \in Index
    BY <1>3, <1>15, StoreFields
  <2>2. N <= Lag(cbuf[k].value) /\ Lag(cbuf[k].value) <= Lag(memOut)
    BY <1>15 DEF Indices, Chain, Lag
  <2>3. Lag(cbuf[k].value) \in Nat
    BY <2>1, Numbers
  <2> QED
    BY <1>7, <1>12, <2>1, <2>2, <2>3
<1>16. Chain(in', pbuf, n, Lag(memIn) + n)
  <2>1. \A k \in DOMAIN pbuf : pbuf[k].kind = "index" =>
          n <= Readable(in', pbuf[k].value)
          /\ Readable(in', pbuf[k].value) <= Lag(memIn) + n
    BY <1>3, <1>12, <1>14
  <2>2. ASSUME NEW j \in DOMAIN pbuf, NEW k \in DOMAIN pbuf, j < k,
               pbuf[j].kind = "index", pbuf[k].kind = "index"
        PROVE  Readable(in', pbuf[k].value) <= Readable(in', pbuf[j].value)
    <3>1. Lag(pbuf[k].value) <= Lag(pbuf[j].value)
      BY <2>2 DEF Indices, Chain, Lag
    <3> QED
      BY <1>3, <1>14, <2>2, <3>1
  <2> QED
    BY <2>1, <2>2 DEF Chain
<1>17. Chain(in', cbuf, N + n, Lag(memOut) + n)
  <2>1. \A k \in DOMAIN cbuf : cbuf[k].kind = "index" =>
          N + n <= Readable(in', cbuf[k].value)
          /\ Readable(in', cbuf[k].value) <= Lag(memOut) + n
    BY <1>3, <1>12, <1>15
  <2>2. ASSUME NEW j \in DOMAIN cbuf, NEW k \in DOMAIN cbuf, j < k,
               cbuf[j].kind = "index", cbuf[k].kind = "index"
        PROVE  Readable(in', cbuf[k].value) <= Readable(in', cbuf[j].value)
    <3>1. Lag(cbuf[k].value) <= Lag(cbuf[j].value)
      BY <2>2 DEF Indices, Chain, Lag
    <3> QED
      BY <1>3, <1>15, <2>2, <3>1
  <2> QED
    BY <2>1, <2>2 DEF Chain
<1>18. /\ pbuf' \in Seq(Stores) /\ DOMAIN pbuf \subseteq DOMAIN pbuf'
       /\ \A k \in DOMAIN pbuf' : pbuf'[k].kind = "slot" => k \in DOMAIN pbuf
       /\ \A k \in DOMAIN pbuf : pbuf'[k] = pbuf[k]
       /\ \A k \in DOMAIN pbuf : \A d : Fenced(in', pbuf, k, d)
                                   => Fenced(in', pbuf', k, d)
  BY <1>1, <1>3, <1>5, BumpFences
<1>19. Chain(in', pbuf', 0, Lag(memIn) + n)
  <2>1. n <= Lag(memIn) + n /\ 0 <= n /\ Lag(memIn) + n \in Int
    BY <1>3, <1>12
  <2>2. \A newest, oldest :
          /\ Chain(in', pbuf, newest, oldest)
          /\ newest \in Int /\ oldest \in Int /\ newest <= oldest
          /\ Readable(in', in') \in Int /\ Readable(in', in') <= newest
          /\ \A u \in Index : Readable(in', u) \in Int
          => Chain(in', pbuf', Readable(in', in'), oldest)
    BY <1>1, <1>3, <1>5, BumpFences
  <2>3. n \in Int /\ Readable(in', in') \in Int /\ Readable(in', in') <= n
    BY <1>3, <1>8
  <2>4. Chain(in', pbuf', Readable(in', in'), Lag(memIn) + n)
    BY <1>9, <1>16, <2>1, <2>2, <2>3
  <2> QED
    BY <1>8, <2>4
<1>20. Types'
  <2>1. todo' \subseteq 1 .. Filling'
    BY <1>1
  <2> QED
    BY <1>1, <1>2, <1>5, <1>6, <1>18, <2>1 DEF Types, Taken
<1>21. Indices'
  <2>1. Lag(memIn) + n + (IF cpc = "idle" THEN 0 ELSE clen) <= N + n
    BY <1>3, <1>12 DEF Indices, Types
  <2>2. N + n <= Lag(memOut) + n /\ Lag(memOut) + n + 0 <= Capacity
    BY <1>3, <1>12
  <2> QED
    BY <1>1, <1>2, <1>4, <1>6, <1>13, <1>17, <1>19, <2>1, <2>2 DEF Indices, Lag
<1>22. ProducersStores'
  <2> SUFFICES ASSUME NEW k \in DOMAIN pbuf', pbuf'[k].kind = "slot"
               PROVE  \E d \in 1 .. Lag(memIn) + n :
                        /\ pbuf'[k].slot = SlotOf(in' - d)
                        /\ pbuf'[k].item = Item(d)'
                        /\ Fenced(in', pbuf', k, d)
    BY <1>1, <1>4, <1>13 DEF ProducersStores, Lag, Pos
  <2>1. k \in DOMAIN pbuf /\ pbuf'[k] = pbuf[k]
    BY <1>18
  <2>2. PICK d \in (1 - n) .. Lag(memIn) :
          /\ pbuf[k].slot = Pos(d) /\ pbuf[k].item = Item(d)
          /\ Fenced(in, pbuf, k, d)
    BY <1>4, <2>1 DEF ProducersStores
  <2>3. d \in Int /\ d \in (1 - n) .. N /\ d + n \in 1 .. Lag(memIn) + n
    BY <1>3, <1>12
  <2>4. Fenced(in', pbuf, k, d + n)
    <3>1. ASSUME NEW m \in DOMAIN pbuf, pbuf[m].kind = "index",
                 Readable(in', pbuf[m].value) < d + n
          PROVE  Readable(in, pbuf[m].value) < d
      BY <1>3, <1>14, <2>3, <3>1 DEF Lag
    <3> QED
      BY <2>2, <3>1 DEF Fenced
  <2> QED
    BY <1>10, <1>11, <1>18, <2>1, <2>2, <2>3, <2>4
<1>23. ConsumersStores'
  <2> SUFFICES ASSUME NEW k \in DOMAIN cbuf, cbuf[k].kind = "slot"
               PROVE  \E d \in 1 .. Lag(memOut) + n :
                        /\ cbuf[k].slot = SlotOf(in' - d) /\ cbuf[k].item = Moved
                        /\ d > N + n \/ N + n + 1 - d \in Taken
                        /\ Fenced(in', cbuf, k, d)
    BY <1>1, <1>2, <1>6, <1>13 DEF ConsumersStores, Lag, Pos, Taken
  <2>1. PICK d \in 1 .. Lag(memOut) :
          /\ cbuf[k].slot = Pos(d) /\ cbuf[k].item = Moved
          /\ d > N \/ N + 1 - d \in Taken
          /\ Fenced(in, cbuf, k, d)
    BY DEF ConsumersStores
  <2>2. d \in Int /\ d + n \in 1 .. Lag(memOut) + n
        /\ N + n + 1 - (d + n) = N + 1 - d /\ (d > N => d + n > N + n)
    BY <1>3, <1>12
  <2>3. Fenced(in', cbuf, k, d + n)
    <3>1. ASSUME NEW m \in DOMAIN cbuf, cbuf[m].kind = "index",
                 Readable(in', cbuf[m].value) < d + n
          PROVE  Readable(in, cbuf[m].value) < d
      BY <1>3, <1>15, <2>2, <3>1 DEF Lag
    <3> QED
      BY <2>1, <3>1 DEF Fenced
  <2> QED
    BY <1>10, <2>1, <2>2, <2>3
<1>24. Contents'
  <2> SUFFICES ASSUME NEW d \in 1 .. N + n, N + n + 1 - d \notin Taken
               PROVE  \/ arr[SlotOf(in' - d)] = Item(d)'
                      \/ \E k \in DOMAIN pbuf' :
                           /\ pbuf'[k].kind = "slot"
                           /\ pbuf'[k].slot = SlotOf(in' - d)
    BY <1>1, <1>2, <1>4, <1>6 DEF Contents, Taken, Pos
  <2> DEFINE e == d - n
  <2>1. e \in (1 - n) .. N /\ e + n = d /\ e \in Int /\ N + 1 - e = N + n + 1 - d
        /\ d \in Int
    BY <1>3
  <2> HIDE DEF e
  <2>2. SlotOf(in' - d) = Pos(e) /\ Item(d)' = Item(e)
    <3>1. SlotOf(in' - (e + n)) = Pos(e)
      BY <1>10, <2>1
    <3>2. Item(d)' = Item(e)
      BY <1>11, <2>1
    <3> QED
      BY <2>1, <3>1, <3>2
  <2>3. \/ arr[Pos(e)] = Item(e)
        \/ \E k \in DOMAIN pbuf : pbuf[k].kind = "slot" /\ pbuf[k].slot = Pos(e)
    BY <1>1, <1>4, <2>1 DEF Contents
  <2> QED
    BY <1>18, <2>2, <2>3
<1> QED
  BY <1>20, <1>21, <1>22, <1>23, <1>24

LEMMA LoadAheadKeeps == ASSUME MInv, LoadAhead PROVE MInv'
<1> USE DEF MInv
<1>1. UNCHANGED <<in, out, memIn, memOut, arr, pbuf, cbuf, ppc, batch, todo,
                  cpc, clen, got, queue>>
  BY DEF LoadAhead, memVars, prodVars
<1>2. Filling' = Filling /\ Taken' = Taken
  BY <1>1 DEF Filling, Taken
<1>3. Types'
  BY <1>1, <1>2 DEF Types
<1>4. Indices'
  BY <1>1, <1>2, IndicesStay
<1>5. ProducersStores'
  BY <1>1, ProducersStoresStay DEF prodVars
<1>6. ConsumersStores'
  BY <1>1, <1>2 DEF ConsumersStores, Lag, Pos
<1>7. Contents'
  BY <1>1, <1>2 DEF Contents, Pos, Item
<1> QED
  BY <1>3, <1>4, <1>5, <1>6, <1>7

(* The consumer is told of no more entries than there are. *)
LEMMA AskKeeps ==
  ASSUME MInv, NEW call \in Calls, NEW n \in 0 .. MaxBatch, Ask(call, n)
  PROVE  MInv'
<1> USE DEF MInv
<1> DEFINE len == Takes(n)
<1>1. /\ cpc = "idle" /\ cpc' = (IF len = 0 THEN "idle" ELSE call) /\ clen' = len
      /\ got' = <<>>
      /\ UNCHANGED <<in, out, memIn, memOut, arr, pbuf, cbuf, ppc, batch, todo,
                     queue>>
  BY DEF Ask, memVars, prodVars
<1>2. /\ Filling' = Filling /\ Taken = {} /\ Taken' = {} /\ DOMAIN got' = {}
      /\ got' = [i \in DOMAIN got' |-> got'[i]]
  BY <1>1 DEF Filling, Taken
<1>3. Lag(memIn) \in Nat /\ Len(queue) \in Nat /\ Lag(memIn) <= Len(queue)
      /\ Lag(out) = Len(queue)
  BY <1>1, Numbers DEF Types, Indices
<1>4. Readable(memIn, out) = Len(queue) - Lag(memIn)
  BY <1>3, ReadableBetween DEF Types, Lag
<1>5. len \in Nat /\ Lag(memIn) + len <= Len(queue)
  BY <1>3, <1>4, MemoryAssumption DEF Takes, min
<1> HIDE DEF len
<1>6. Types'
  <2>1. cpc' = "peek" => \E c \in 0 .. clen' : DOMAIN got' = 1 .. c
    <3>1. 1 .. 0 = {} /\ 0 \in 0 .. clen'
      BY <1>1, <1>5
    <3> QED
      BY <1>2, <3>1
  <2>2. clen' \in Nat /\ Taken' \subseteq 1 .. clen' /\ cpc' \in Calls \cup {"idle"}
    BY <1>1, <1>2, <1>5
  <2> QED
    BY <1>1, <1>2, <2>1, <2>2 DEF Types
<1>7. Indices'
  <2>1. Lag(memIn) + (IF cpc' = "idle" THEN 0 ELSE clen') <= Len(queue)
    BY <1>1, <1>3, <1>5
  <2> QED
    BY <1>1, <1>2, <2>1 DEF Indices, Lag
<1>8. ProducersStores'
  BY <1>1, ProducersStoresStay DEF prodVars
<1>9. ConsumersStores'
  BY <1>1, <1>2 DEF ConsumersStores, Lag, Pos
<1>10. Contents'
  BY <1>1, <1>2 DEF Contents, Pos, Item
<1> QED
  BY <1>6, <1>7, <1>8, <1>9, <1>10

(* An entry is copied; a store that empties its slot may follow. *)
LEMMA CopyOutKeeps ==
  ASSUME MInv, NEW i \in 1 .. clen, CopyOut(i) PROVE MInv'
<1> USE DEF MInv
<1> DEFINE s == BatchSlot(out, clen, i)
           e == SlotStore(s, Moved)
           L == Len(cbuf)
           N == Len(queue)
<1>1. /\ cpc # "idle" /\ i \notin DOMAIN got
      /\ cpc = "peek" => i = Cardinality(DOMAIN got) + 1
      /\ cbuf' = cbuf \/ cbuf' = Append(cbuf, e)
      /\ UNCHANGED <<in, out, memIn, memOut, arr, pbuf, ppc, batch, todo,
                     cpc, clen, queue>>
  BY DEF CopyOut, memVars, prodVars
<1>2. DOMAIN got' = DOMAIN got \cup {i} /\ got' = [k \in DOMAIN got' |-> got'[k]]
  <2>1. PICK x : got' = [k \in DOMAIN got \cup {i} |-> IF k = i THEN x ELSE got[k]]
    BY DEF CopyOut
  <2>2. DOMAIN got' = DOMAIN got \cup {i}
    BY <2>1
  <2> QED
    BY <2>1, <2>2
<1>3. Filling' = Filling /\ Taken = DOMAIN got /\ Taken' = Taken \cup {i}
  BY <1>1, <1>2 DEF Filling, Taken
<1>4. s = Pos(N + 1 - i) /\ N + 1 - i \in (Lag(memIn) + 1) .. N
  BY <1>1, ConsumersSlot
<1>5. /\ Lag(memIn) \in Nat /\ N \in Nat /\ Lag(memOut) \in Nat
      /\ N <= Lag(memOut) /\ clen \in Nat
  BY Numbers DEF Types, Indices
<1>6. s \in Slots
  BY <1>4, <1>5, PosType
<1>7. e \in Stores /\ e.kind = "slot" /\ e.slot = s /\ e.item = Moved
  BY <1>6, NewStores
<1>8. cbuf \in Seq(Stores)
  BY DEF Types
<1> HIDE DEF e, s
<1>9. /\ cbuf' \in Seq(Stores)
      /\ \A k \in DOMAIN cbuf' : \/ k \in DOMAIN cbuf /\ cbuf'[k] = cbuf[k]
                                 \/ k = L + 1 /\ cbuf'[k] = e /\ cbuf' # cbuf
      /\ \A newest, oldest : Chain(in, cbuf, newest, oldest)
                              => Chain(in, cbuf', newest, oldest)
      /\ \A k \in DOMAIN cbuf : \A d : Fenced(in, cbuf, k, d)
                                  => Fenced(in, cbuf', k, d)
  <2>1. CASE cbuf' = cbuf
    BY <1>8, <2>1
  <2>2. CASE cbuf' = Append(cbuf, e)
    <3>1. cbuf' # cbuf
      BY <1>7, <1>8, <2>2
    <3>2. /\ cbuf' \in Seq(Stores) /\ DOMAIN cbuf' = DOMAIN cbuf \cup {L + 1}
          /\ \A k \in DOMAIN cbuf : cbuf'[k] = cbuf[k]
          /\ cbuf'[L + 1] = e
      BY <1>7, <1>8, <2>2, SlotAppends
    <3>3. /\ \A newest, oldest : Chain(in, cbuf, newest, oldest)
                                  => Chain(in, cbuf', newest, oldest)
          /\ \A k \in DOMAIN cbuf : \A d : Fenced(in, cbuf, k, d)
                                      => Fenced(in, cbuf', k, d)
      BY <1>7, <1>8, <2>2, SlotAppends
    <3> QED
      BY <3>1, <3>2, <3>3
  <2> QED
    BY <1>1, <2>1, <2>2
<1>10. ASSUME cbuf' # cbuf PROVE Fenced(in, cbuf', L + 1, N + 1 - i)
  <2>1. ASSUME NEW m \in DOMAIN cbuf, cbuf[m].kind = "index"
        PROVE  ~(Readable(in, cbuf[m].value) < N + 1 - i)
    <3>1. N <= Lag(cbuf[m].value)
      BY <2>1 DEF Indices, Chain, Lag
    <3>2. Lag(cbuf[m].value) \in Nat
      BY <1>8, <2>1, StoreFields, Numbers
    <3> QED
      BY <1>5, <3>1, <3>2 DEF Lag
  <2>2. cbuf' = Append(cbuf, e)
    BY <1>1, <1>10
  <2>3. \A d : (\A m \in DOMAIN cbuf :
                 cbuf[m].kind = "index" => ~(Readable(in, cbuf[m].value) < d))
               => Fenced(in, cbuf', L + 1, d)
    BY <1>7, <1>8, <2>2, SlotAppends
  <2> QED
    BY <2>1, <2>3
<1>11. Types'
  <2>1. ASSUME cpc = "peek" PROVE \E c \in 0 .. clen : DOMAIN got' = 1 .. c
    <3>1. PICK c \in 0 .. clen : DOMAIN got = 1 .. c
      BY <2>1 DEF Types
    <3>2. Cardinality(1 .. c) = c
      <4>1. c \in Int /\ c >= 0
        BY <1>5
      <4> QED
        BY <4>1, FS_Interval
    <3>3. i = c + 1 /\ DOMAIN got' = 1 .. i /\ i \in 0 .. clen
      BY <1>1, <1>2, <1>5, <2>1, <3>1, <3>2
    <3> QED
      BY <3>3
  <2>2. Taken' \subseteq 1 .. clen
    BY <1>3 DEF Types
  <2> QED
    BY <1>1, <1>2, <1>3, <1>9, <2>1, <2>2 DEF Types
<1>12. Indices'
  BY <1>1, <1>3, <1>9 DEF Indices, Lag
<1>13. ProducersStores'
  BY <1>1, ProducersStoresStay DEF prodVars
<1>14. ConsumersStores'
  <2> SUFFICES ASSUME NEW k \in DOMAIN cbuf', cbuf'[k].kind = "slot"
               PROVE  \E d \in 1 .. Lag(memOut) :
                        /\ cbuf'[k].slot = Pos(d) /\ cbuf'[k].item = Moved
                        /\ d > N \/ N + 1 - d \in Taken'
                        /\ Fenced(in, cbuf', k, d)
    BY <1>1 DEF ConsumersStores, Lag, Pos
  <2>1. CASE k \in DOMAIN cbuf /\ cbuf'[k] = cbuf[k]
    BY <1>3, <1>9, <2>1 DEF ConsumersStores
  <2>2. CASE k = L + 1 /\ cbuf'[k] = e /\ cbuf' # cbuf
    <3>1. N + 1 - i \in 1 .. Lag(memOut) /\ N + 1 - (N + 1 - i) \in Taken'
      BY <1>3, <1>4, <1>5
    <3> QED
      BY <1>4, <1>7, <1>10, <2>2, <3>1
  <2> QED
    BY <1>9, <2>1, <2>2
<1>15. Contents'
  BY <1>1, <1>3 DEF Contents, Pos, Item
<1> QED
  BY <1>11, <1>12, <1>13, <1>14, <1>15

(* A call that has copied all it took took the first entries. *)
LEMMA RetiresPrefix ==
  ASSUME MInv, Copied
  PROVE  /\ Cardinality(DOMAIN got) \in 1 .. clen
         /\ DOMAIN got = 1 .. Cardinality(DOMAIN got)
         /\ Cardinality(DOMAIN got) <= Len(queue)
<1> USE DEF MInv
<1>1. clen \in Nat /\ cpc # "idle"
  BY DEF Copied, Types
<1>2. PICK c \in 0 .. clen : DOMAIN got = 1 .. c
  <2>1. CASE cpc = "peek"
    BY <2>1 DEF Types
  <2>2. CASE cpc # "peek"
    BY <1>1, <2>2 DEF Copied
  <2> QED
    BY <2>1, <2>2
<1>3. c \in Int /\ c >= 0
  BY <1>1
<1>4. Cardinality(DOMAIN got) = c
  BY <1>2, <1>3, FS_Interval
<1>5. c # 0
  <2> SUFFICES ASSUME c = 0 PROVE FALSE
    OBVIOUS
  <2>1. DOMAIN got = {}
    BY <1>2
  <2>2. got = [i \in {} |-> got[i]]
    BY <2>1 DEF Types
  <2>3. got = <<>>
    BY <2>2
  <2> QED
    BY <2>3 DEF Copied
<1>6. clen <= Len(queue)
  BY <1>1, Numbers DEF Types, Indices
<1> QED
  BY <1>1, <1>2, <1>3, <1>4, <1>5, <1>6, Numbers

LEMMA RetireKeeps == ASSUME MInv, Retire PROVE MInv'
<1> USE DEF MInv
<1> DEFINE n == Cardinality(DOMAIN got)
           N == Len(queue)
<1>1. /\ Copied /\ out' = Plus(out, n) /\ cbuf' = Bump(cbuf, out')
      /\ cpc' = "idle" /\ clen' = 0 /\ got' = got
      /\ queue' = SubSeq(queue, n + 1, N)
      /\ UNCHANGED <<in, memIn, memOut, arr, pbuf, ppc, batch, todo>>
  BY DEF Retire, memVars, prodVars
<1>2. n \in 1 .. clen /\ DOMAIN got = 1 .. n /\ n <= N
  BY <1>1, RetiresPrefix
<1> HIDE DEF n
<1>3. /\ N \in Nat /\ n \in Nat /\ clen \in Nat /\ queue \in Seq(Values)
      /\ cbuf \in Seq(Stores) /\ in \in Index /\ out \in Index
      /\ Lag(memIn) \in Nat /\ Lag(memOut) \in Nat
  BY <1>2, Numbers DEF Types
<1>4. cpc # "idle" /\ Taken = 1 .. n /\ Taken' = {} /\ Filling' = Filling
  BY <1>1, <1>2 DEF Copied, Taken, Filling
<1>5. /\ queue' \in Seq(Values) /\ Len(queue') = N - n
      /\ \A j \in 1 .. N - n : queue'[j] = queue[j + n]
  BY <1>1, <1>2, <1>3
<1>6. out' \in Index /\ Readable(in, out') = N - n
  <2>1. Lag(out) = N /\ out \in Int
    BY <1>3, Numbers DEF Indices
  <2>2. Readable(in, Plus(out, n)) = N - n
    <3>1. Readable(in, out) = N /\ n <= Readable(in, out)
      BY <1>2, <2>1 DEF Lag
    <3> QED
      BY <1>3, <3>1, ReadableAfterRetire
  <2>3. Plus(out, n) \in Index
    BY <1>3, <2>1, IndexType
  <2> QED
    BY <1>1, <2>2, <2>3
<1>7. ASSUME NEW d \in Int, d <= N - n PROVE Item(d)' = Item(d)
  <2>1. CASE d > 0
    <3>1. N - n + 1 - d \in 1 .. N - n /\ N - n + 1 - d + n = N + 1 - d
      BY <1>3, <1>7, <2>1
    <3> QED
      BY <1>5, <2>1, <3>1 DEF Item
  <2>2. CASE ~(d > 0)
    BY <1>1, <2>2 DEF Item
  <2> QED
    BY <2>1, <2>2
<1>8. /\ cbuf' \in Seq(Stores) /\ DOMAIN cbuf \subseteq DOMAIN cbuf'
      /\ \A k \in DOMAIN cbuf' : cbuf'[k].kind = "slot" => k \in DOMAIN cbuf
      /\ \A k \in DOMAIN cbuf : cbuf'[k] = cbuf[k]
      /\ \A k \in DOMAIN cbuf : \A d : Fenced(in, cbuf, k, d)
                                  => Fenced(in, cbuf', k, d)
  BY <1>1, <1>3, <1>6, BumpFences
<1>9. Chain(in, cbuf', N - n, Lag(memOut))
  <2>1. \A newest, oldest :
          /\ Chain(in, cbuf, newest, oldest)
          /\ newest \in Int /\ oldest \in Int /\ newest <= oldest
          /\ Readable(in, out') \in Int /\ Readable(in, out') <= newest
          /\ \A u \in Index : Readable(in, u) \in Int
          => Chain(in, cbuf', Readable(in, out'), oldest)
    BY <1>1, <1>3, <1>6, BumpFences
  <2>2. Chain(in, cbuf, N, Lag(memOut)) /\ N <= Lag(memOut)
    BY DEF Indices
  <2>3. /\ N \in Int /\ Lag(memOut) \in Int
        /\ Readable(in, out') \in Int /\ Readable(in, out') <= N
    BY <1>3, <1>6
  <2>4. \A u \in Index : Readable(in, u) \in Int
    BY Numbers DEF Lag
  <2>5. Chain(in, cbuf', Readable(in, out'), Lag(memOut))
    BY <2>1, <2>2, <2>3, <2>4
  <2> QED
    BY <1>6, <2>5
<1>10. Lag(memIn) <= N - n
  BY <1>2, <1>3, <1>4 DEF Indices
<1>11. Types'
  BY <1>1, <1>4, <1>5, <1>6, <1>8 DEF Types
<1>12. Indices'
  <2>1. N - n <= Lag(memOut) /\ Lag(memIn) + 0 <= N - n
    BY <1>3, <1>10 DEF Indices
  <2> QED
    BY <1>1, <1>4, <1>5, <1>6, <1>9, <2>1 DEF Indices, Lag
<1>13. ProducersStores'
  <2> SUFFICES ASSUME NEW k \in DOMAIN pbuf, pbuf[k].kind = "slot"
               PROVE  \E d \in (1 - Filling) .. Lag(memIn) :
                        /\ pbuf[k].slot = Pos(d) /\ pbuf[k].item = Item(d)'
                        /\ d <= 0 => 1 - d \notin todo
                        /\ Fenced(in, pbuf, k, d)
    BY <1>1, <1>4 DEF ProducersStores, Lag, Pos
  <2>1. PICK d \in (1 - Filling) .. Lag(memIn) :
          /\ pbuf[k].slot = Pos(d) /\ pbuf[k].item = Item(d)
          /\ d <= 0 => 1 - d \notin todo
          /\ Fenced(in, pbuf, k, d)
    BY DEF ProducersStores
  <2>2. d \in Int /\ d <= N - n
    BY <1>3, <1>10, Numbers
  <2> QED
    BY <1>7, <2>1, <2>2
<1>14. ConsumersStores'
  <2> SUFFICES ASSUME NEW k \in DOMAIN cbuf', cbuf'[k].kind = "slot"
               PROVE  \E d \in 1 .. Lag(memOut) :
                        /\ cbuf'[k].slot = Pos(d) /\ cbuf'[k].item = Moved
                        /\ d > N - n
                        /\ Fenced(in, cbuf', k, d)
    BY <1>1, <1>5 DEF ConsumersStores, Lag, Pos
  <2>1. k \in DOMAIN cbuf /\ cbuf'[k] = cbuf[k]
    BY <1>8
  <2>2. PICK d \in 1 .. Lag(memOut) :
          /\ cbuf[k].slot = Pos(d) /\ cbuf[k].item = Moved
          /\ d > N \/ N + 1 - d \in Taken
          /\ Fenced(in, cbuf, k, d)
    BY <2>1 DEF ConsumersStores
  <2>3. d > N - n
    BY <1>3, <1>4, <2>2
  <2> QED
    BY <1>8, <2>1, <2>2, <2>3
<1>15. Contents'
  <2> SUFFICES ASSUME NEW d \in (1 - Filling) .. N - n, d <= 0 => 1 - d \notin todo
               PROVE  \/ arr[Pos(d)] = Item(d)'
                      \/ \E k \in DOMAIN pbuf :
                           pbuf[k].kind = "slot" /\ pbuf[k].slot = Pos(d)
    BY <1>1, <1>4, <1>5 DEF Contents, Pos
  <2>1. d \in (1 - Filling) .. N /\ d <= N - n /\ d \in Int
    BY <1>3, Numbers
  <2>2. N + 1 - d \notin Taken
    BY <1>3, <1>4, <2>1
  <2>3. Item(d)' = Item(d)
    BY <1>7, <2>1
  <2> QED
    BY <2>1, <2>2, <2>3 DEF Contents
<1> QED
  BY <1>11, <1>12, <1>13, <1>14, <1>15

(* A store of the producer arrives; an index does, only if all it announces*)
(* has.                                                                    *)
LEMMA DrainProducerKeeps ==
  ASSUME MInv, NEW k \in DOMAIN pbuf, DrainProducer(k) PROVE MInv'
<1> USE DEF MInv
<1> DEFINE e == pbuf[k]
<1>1. /\ MayDrain(pbuf, k) /\ pbuf' = Without(pbuf, k)
      /\ arr' = (IF e.kind = "slot" THEN [arr EXCEPT ![e.slot] = e.item] ELSE arr)
      /\ memIn' = (IF e.kind = "index" THEN e.value ELSE memIn)
      /\ UNCHANGED <<in, out, memOut, cbuf, ppc, batch, todo, cpc, clen, got, queue>>
      /\ UNCHANGED consVars
  BY DEF DrainProducer, WriteSlot, prodVars, consVars
<1>2. pbuf \in Seq(Stores)
  BY DEF Types
<1>3. pbuf' \in Seq(Stores)
  BY <1>1, <1>2, WithoutKeeps
<1>4. PICK f : Kept(pbuf, k, pbuf', f)
  BY <1>1, <1>2, WithoutKeeps
<1>5. DOMAIN pbuf' \subseteq Nat
  BY <1>3
<1>6. Filling' = Filling /\ Taken' = Taken /\ Filling \in Nat
  BY <1>1, Numbers DEF Filling, Taken
<1>7. /\ Lag(memIn) \in Nat /\ Lag(memOut) \in Nat /\ Len(queue) \in Nat
      /\ Lag(memIn) <= Len(queue) /\ Len(queue) <= Lag(memOut)
      /\ Lag(memOut) + Filling <= Capacity
  BY Numbers DEF Types, Indices
<1>8. /\ e.kind \in {"slot", "index"}
      /\ e.kind = "slot" => e.slot \in Slots /\ e.item \in Values \cup {Moved}
      /\ e.kind = "index" => e.value \in Index
  BY <1>1, <1>2, DrainsInOrder, StoreFields
<1> HIDE DEF e
<1>9. memIn' \in Index /\ Lag(memIn') \in Nat /\ Lag(memIn') <= Lag(memIn)
      /\ Chain(in, pbuf', 0, Lag(memIn'))
  <2>1. CASE e.kind = "index"
    <3>1. Lag(e.value) <= Lag(memIn)
      BY <2>1 DEF Indices, Chain, Lag, e
    <3>2. Chain(in, pbuf', 0, Lag(e.value))
      BY <1>1, <1>2, <1>4, <1>5, <2>1, ChainAfterDrain DEF Indices, Lag, e
    <3> QED
      BY <1>1, <1>8, <2>1, <3>1, <3>2, Numbers
  <2>2. CASE e.kind = "slot"
    <3>1. Chain(in, pbuf', 0, Lag(memIn))
      BY <1>1, <1>2, <1>4, <1>5, <2>2, ChainAfterDrain DEF Indices, e
    <3>2. memIn' = memIn
      BY <1>1, <2>2
    <3> QED
      BY <1>7, <3>1, <3>2 DEF Types
  <2> QED
    BY <1>8, <2>1, <2>2
<1>10. Types'
  <2>1. arr' \in [Slots -> Values \cup {Moved}]
    BY <1>1, <1>8 DEF Types
  <2> QED
    BY <1>1, <1>3, <1>6, <1>9, <2>1 DEF Types
<1>11. Indices'
  <2>1. Lag(memIn') + (IF cpc = "idle" THEN 0 ELSE clen) <= Len(queue)
    BY <1>7, <1>9 DEF Indices, Types
  <2> QED
    BY <1>1, <1>6, <1>9, <2>1 DEF Indices, Lag
<1>12. \A d : Item(d)' = Item(d)
  BY <1>1 DEF Item
<1>13. ProducersStores'
  <2> SUFFICES ASSUME NEW j \in DOMAIN pbuf', pbuf'[j].kind = "slot"
               PROVE  \E d \in (1 - Filling) .. Lag(memIn') :
                        /\ pbuf'[j].slot = Pos(d) /\ pbuf'[j].item = Item(d)
                        /\ d <= 0 => 1 - d \notin todo
                        /\ Fenced(in, pbuf', j, d)
    BY <1>1, <1>6, <1>12 DEF ProducersStores, Lag, Pos
  <2>1. f[j] \in DOMAIN pbuf /\ pbuf'[j] = pbuf[f[j]]
    BY <1>4 DEF Kept
  <2>2. PICK d \in (1 - Filling) .. Lag(memIn) :
          /\ pbuf'[j].slot = Pos(d) /\ pbuf'[j].item = Item(d)
          /\ d <= 0 => 1 - d \notin todo
          /\ Fenced(in, pbuf, f[j], d)
    BY <2>1 DEF ProducersStores
  <2>3. Fenced(in, pbuf', j, d)
    BY <1>1, <1>2, <1>4, <1>5, <2>2, FencedAfterDrain
  <2>4. d <= Lag(memIn')
    <3>1. CASE e.kind = "slot"
      BY <1>1, <2>2, <3>1
    <3>2. CASE e.kind = "index"
      <4> SUFFICES ASSUME ~(d <= Lag(memIn')) PROVE FALSE
        OBVIOUS
      <4>1. Readable(in, e.value) < d
        BY <1>1, <1>6, <1>7, <1>9, <2>2, <3>2 DEF Lag
      <4>2. PICK h \in DOMAIN pbuf : h < k /\ pbuf[h].kind = "sfence"
        BY <2>2, <3>2, <4>1 DEF Fenced, e
      <4> QED
        BY <1>1, <1>2, <4>2, DrainsInOrder
    <3> QED
      BY <1>8, <3>1, <3>2
  <2>5. d \in (1 - Filling) .. Lag(memIn')
    BY <1>6, <1>7, <1>9, <2>2, <2>4
  <2> QED
    BY <2>2, <2>3, <2>5
<1>14. ConsumersStores'
  BY <1>1, ConsumersStoresStay
<1>15. Contents'
  <2> SUFFICES ASSUME NEW d \in (1 - Filling) .. Len(queue),
                      d > 0 => Len(queue) + 1 - d \notin Taken,
                      d <= 0 => 1 - d \notin todo
               PROVE  \/ arr'[Pos(d)] = Item(d)
                      \/ \E j \in DOMAIN pbuf' :
                           pbuf'[j].kind = "slot" /\ pbuf'[j].slot = Pos(d)
    BY <1>1, <1>6, <1>12 DEF Contents, Pos
  <2>1. d \in Int /\ Pos(d) \in Slots
    BY <1>6, PosType
  <2>2. \/ arr[Pos(d)] = Item(d)
        \/ \E m \in DOMAIN pbuf : pbuf[m].kind = "slot" /\ pbuf[m].slot = Pos(d)
    BY DEF Contents
  <2>3. CASE e.kind = "slot" /\ e.slot = Pos(d)
    <3>1. PICK c \in (1 - Filling) .. Lag(memIn) : e.slot = Pos(c) /\ e.item = Item(c)
      BY <2>3 DEF ProducersStores, e
    <3>2. c \in Int /\ c - d < Capacity /\ d - c < Capacity
      BY <1>6, <1>7, Numbers
    <3>3. c = d
      BY <2>1, <2>3, <3>1, <3>2, PosDiffer
    <3>4. arr'[Pos(d)] = e.item
      BY <1>1, <2>1, <2>3 DEF Types
    <3> QED
      BY <3>1, <3>3, <3>4
  <2>4. CASE ~(e.kind = "slot" /\ e.slot = Pos(d))
    <3>1. CASE arr[Pos(d)] = Item(d)
      BY <1>1, <2>1, <2>4, <3>1 DEF Types
    <3>2. ASSUME NEW m \in DOMAIN pbuf, pbuf[m].kind = "slot", pbuf[m].slot = Pos(d)
          PROVE  \E j \in DOMAIN pbuf' :
                   pbuf'[j].kind = "slot" /\ pbuf'[j].slot = Pos(d)
      <4>1. m # k /\ pbuf[m].kind # "sfence"
        BY <2>4, <3>2 DEF e
      <4>2. PICK j \in DOMAIN pbuf' : f[j] = m
        BY <1>4, <4>1 DEF Kept
      <4>3. pbuf'[j] = pbuf[m]
        BY <1>4, <4>2 DEF Kept
      <4> QED
        BY <3>2, <4>3
    <3> QED
      BY <2>2, <3>1, <3>2
  <2> QED
    BY <2>3, <2>4
<1> QED
  BY <1>10, <1>11, <1>13, <1>14, <1>15

(* A store of the consumer arrives: it empties no slot that counts.        *)
LEMMA DrainConsumerKeeps ==
  ASSUME MInv, NEW k \in DOMAIN cbuf, DrainConsumer(k) PROVE MInv'
<1> USE DEF MInv
<1> DEFINE e == cbuf[k]
           N == Len(queue)
<1>1. /\ MayDrain(cbuf, k) /\ cbuf' = Without(cbuf, k)
      /\ arr' = (IF e.kind = "slot" THEN [arr EXCEPT ![e.slot] = e.item] ELSE arr)
      /\ memOut' = (IF e.kind = "index" THEN e.value ELSE memOut)
      /\ UNCHANGED <<in, out, memIn, pbuf, ppc, batch, todo, cpc, clen, got, queue>>
      /\ UNCHANGED prodVars
  BY DEF DrainConsumer, WriteSlot, prodVars, consVars
<1>2. cbuf \in Seq(Stores)
  BY DEF Types
<1>3. cbuf' \in Seq(Stores)
  BY <1>1, <1>2, WithoutKeeps
<1>4. PICK f : Kept(cbuf, k, cbuf', f)
  BY <1>1, <1>2, WithoutKeeps
<1>5. DOMAIN cbuf' \subseteq Nat
  BY <1>3
<1>6. Filling' = Filling /\ Taken' = Taken /\ Filling \in Nat
  BY <1>1, Numbers DEF Filling, Taken
<1>7. /\ Lag(memIn) \in Nat /\ Lag(memOut) \in Nat /\ N \in Nat
      /\ Lag(memIn) <= N /\ N <= Lag(memOut)
      /\ Lag(memOut) + Filling <= Capacity
  BY Numbers DEF Types, Indices
<1>8. /\ e.kind \in {"slot", "index"}
      /\ e.kind = "slot" => e.slot \in Slots /\ e.item \in Values \cup {Moved}
      /\ e.kind = "index" => e.value \in Index
  BY <1>1, <1>2, DrainsInOrder, StoreFields
<1> HIDE DEF e
<1>9. /\ memOut' \in Index /\ Lag(memOut') \in Nat
      /\ Lag(memOut') <= Lag(memOut) /\ N <= Lag(memOut')
      /\ Chain(in, cbuf', N, Lag(memOut'))
  <2>1. CASE e.kind = "index"
    <3>1. N <= Lag(e.value) /\ Lag(e.value) <= Lag(memOut)
      BY <2>1 DEF Indices, Chain, Lag, e
    <3>2. Chain(in, cbuf', N, Lag(e.value))
      BY <1>1, <1>2, <1>4, <1>5, <2>1, ChainAfterDrain DEF Indices, Lag, e
    <3> QED
      BY <1>1, <1>8, <2>1, <3>1, <3>2, Numbers
  <2>2. CASE e.kind = "slot"
    <3>1. Chain(in, cbuf', N, Lag(memOut))
      BY <1>1, <1>2, <1>4, <1>5, <2>2, ChainAfterDrain DEF Indices, e
    <3>2. memOut' = memOut
      BY <1>1, <2>2
    <3> QED
      BY <1>7, <3>1, <3>2 DEF Types
  <2> QED
    BY <1>8, <2>1, <2>2
<1>10. Types'
  <2>1. arr' \in [Slots -> Values \cup {Moved}]
    BY <1>1, <1>8 DEF Types
  <2> QED
    BY <1>1, <1>3, <1>6, <1>9, <2>1 DEF Types
<1>11. Indices'
  <2>1. Lag(memOut') + Filling <= Capacity
    BY <1>6, <1>7, <1>9, Numbers
  <2> QED
    BY <1>1, <1>6, <1>9, <2>1 DEF Indices, Lag
<1>12. ProducersStores'
  BY <1>1, ProducersStoresStay
<1>13. ConsumersStores'
  <2> SUFFICES ASSUME NEW j \in DOMAIN cbuf', cbuf'[j].kind = "slot"
               PROVE  \E d \in 1 .. Lag(memOut') :
                        /\ cbuf'[j].slot = Pos(d) /\ cbuf'[j].item = Moved
                        /\ d > N \/ N + 1 - d \in Taken
                        /\ Fenced(in, cbuf', j, d)
    BY <1>1, <1>6 DEF ConsumersStores, Lag, Pos
  <2>1. f[j] \in DOMAIN cbuf /\ cbuf'[j] = cbuf[f[j]]
    BY <1>4 DEF Kept
  <2>2. PICK d \in 1 .. Lag(memOut) :
          /\ cbuf'[j].slot = Pos(d) /\ cbuf'[j].item = Moved
          /\ d > N \/ N + 1 - d \in Taken
          /\ Fenced(in, cbuf, f[j], d)
    BY <2>1 DEF ConsumersStores
  <2>3. Fenced(in, cbuf', j, d)
    BY <1>1, <1>2, <1>4, <1>5, <2>2, FencedAfterDrain
  <2>4. d <= Lag(memOut')
    <3>1. CASE e.kind = "slot"
      BY <1>1, <2>2, <3>1
    <3>2. CASE e.kind = "index"
      <4> SUFFICES ASSUME ~(d <= Lag(memOut')) PROVE FALSE
        OBVIOUS
      <4>1. Readable(in, e.value) < d
        BY <1>1, <1>7, <1>9, <2>2, <3>2 DEF Lag
      <4>2. PICK h \in DOMAIN cbuf : h < k /\ cbuf[h].kind = "sfence"
        BY <2>2, <3>2, <4>1 DEF Fenced, e
      <4> QED
        BY <1>1, <1>2, <4>2, DrainsInOrder
    <3> QED
      BY <1>8, <3>1, <3>2
  <2>5. d \in 1 .. Lag(memOut')
    BY <1>7, <1>9, <2>2, <2>4
  <2> QED
    BY <2>2, <2>3, <2>5
<1>14. Contents'
  <2> SUFFICES ASSUME NEW d \in (1 - Filling) .. N,
                      d > 0 => N + 1 - d \notin Taken,
                      d <= 0 => 1 - d \notin todo,
                      arr[Pos(d)] = Item(d)
               PROVE  arr'[Pos(d)] = Item(d)
    BY <1>1, <1>6 DEF Contents, Pos, Item
  <2>1. d \in Int /\ Pos(d) \in Slots
    BY <1>6, PosType
  <2>2. ASSUME e.kind = "slot", e.slot = Pos(d) PROVE FALSE
    <3>1. PICK c \in 1 .. Lag(memOut) :
            e.slot = Pos(c) /\ (c > N \/ N + 1 - c \in Taken)
      BY <2>2 DEF ConsumersStores, e
    <3>2. c \in Int /\ c - d < Capacity /\ d - c < Capacity
      BY <1>6, <1>7, Numbers
    <3>3. c = d
      BY <2>1, <2>2, <3>1, <3>2, PosDiffer
    <3> QED
      BY <1>7, <3>1, <3>3
  <2> QED
    BY <1>1, <2>1, <2>2 DEF Types
<1> QED
  BY <1>10, <1>11, <1>12, <1>13, <1>14

LEMMA StepMInv == MInv /\ [Next]_vars => MInv'
<1> SUFFICES ASSUME MInv, [Next]_vars PROVE MInv'
  OBVIOUS
<1>1. CASE Producer
  BY <1>1, PushKeeps, WaitPushKeeps, WaitPushAgainKeeps, StoreItemKeeps,
     PublishKeeps DEF Producer
<1>2. CASE Consumer
  BY <1>2, LoadAheadKeeps, AskKeeps, CopyOutKeeps, RetireKeeps DEF Consumer
<1>3. CASE Drain
  BY <1>3, DrainProducerKeeps, DrainConsumerKeeps DEF Drain
<1>4. CASE UNCHANGED vars
  <2> USE <1>4 DEF MInv, vars, memVars, prodVars, consVars
  <2>1. Filling' = Filling /\ Taken' = Taken
    BY DEF Filling, Taken
  <2>2. Types'
    BY <2>1 DEF Types
  <2>3. Indices'
    BY <2>1, IndicesStay
  <2>4. ProducersStores' /\ ConsumersStores'
    BY ProducersStoresStay, ConsumersStoresStay
  <2>5. Contents'
    BY <2>1 DEF Contents, Pos, Item
  <2> QED
    BY <2>2, <2>3, <2>4, <2>5
<1> QED
  BY <1>1, <1>2, <1>3, <1>4 DEF Next

(***************************************************************************)
(* Whatever the buffers hold, the index words in memory are old values of  *)
(* the threads' own indices, at most Capacity apart, and every element     *)
(* store lies on the side of the slots that its thread holds, ahead of the *)
(* index that gives them away.                                             *)
(***************************************************************************)
THEOREM MemoryInvariance == Spec => []MInv
  BY InitMInv, StepMInv, PTL DEF Spec

-----------------------------------------------------------------------------
(* What the invariant says of the two threads' loads and stores. *)

LEMMA LoadsAreSafe == MInv => OldIsSafe
<1> SUFFICES ASSUME MInv PROVE OldIsSafe
  OBVIOUS
<1> USE DEF MInv
<1>1. /\ in \in Index /\ out \in Index /\ memIn \in Index /\ memOut \in Index
      /\ pbuf \in Seq(Stores) /\ cbuf \in Seq(Stores)
      /\ Len(queue) \in Nat /\ Lag(memIn) \in Nat /\ Lag(memOut) \in Nat
      /\ Lag(memIn) <= Len(queue) /\ Lag(out) = Len(queue)
      /\ Len(queue) <= Lag(memOut) /\ Lag(memOut) <= Capacity
  BY Numbers DEF Types, Indices
<1>2. ASSUME NEW v \in {memIn} \cup Unseen(pbuf)
      PROVE  Readable(v, out) <= Len(queue)
  <2>1. v \in Index /\ Lag(v) <= Lag(memIn)
    BY <1>1, StoreFields DEF Unseen, Indices, Chain, Lag
  <2>2. Lag(v) \in Nat /\ Lag(v) <= Lag(out)
    BY <1>1, <2>1, Numbers
  <2>3. Readable(v, out) = Lag(out) - Lag(v)
    BY <1>1, <2>1, <2>2, ReadableBetween DEF Lag
  <2> QED
    BY <1>1, <2>2, <2>3
<1>3. ASSUME NEW v \in {memOut} \cup Unseen(cbuf)
      PROVE  FreeSpace(in, v) <= Capacity - Len(queue)
  <2>1. v \in Index /\ Len(queue) <= Lag(v) /\ Lag(v) <= Lag(memOut)
    BY <1>1, StoreFields DEF Unseen, Indices, Chain, Lag
  <2>2. Lag(v) \in Nat /\ Lag(v) <= Capacity
    BY <1>1, <2>1, Numbers
  <2>3. FreeSpace(in, v) = Capacity - Lag(v)
    BY <1>1, <2>1, <2>2, FreeSpaceIsRest DEF Lag
  <2> QED
    BY <1>1, <2>1, <2>2, <2>3, RingAssumption
<1> QED
  BY <1>2, <1>3 DEF OldIsSafe

(* Where the stores of each thread, and the slots it is at, can be. *)
LEMMA ProducersSide ==
  ASSUME MInv,
         NEW s \in PendingSlots(pbuf) \cup {BatchSlot(in, Len(batch), i) : i \in todo}
  PROVE  \E d \in (1 - Filling) .. Lag(memIn) : s = Pos(d)
<1>1. Lag(memIn) \in Nat /\ Filling \in Nat
  BY Numbers DEF MInv, Types
<1>2. CASE s \in PendingSlots(pbuf)
  BY <1>2 DEF PendingSlots, MInv, ProducersStores
<1>3. ASSUME NEW i \in todo, s = BatchSlot(in, Len(batch), i)
      PROVE  \E d \in (1 - Filling) .. Lag(memIn) : s = Pos(d)
  <2>1. i \in 1 .. Filling
    BY DEF MInv, Types
  <2>2. ppc = "store" /\ Filling = Len(batch)
    BY <1>1, <2>1 DEF Filling
  <2>3. s = Pos(1 - i) /\ 1 - i \in (1 - Filling) .. 0
    BY <1>3, <2>1, <2>2, ProducersSlot DEF MInv
  <2> QED
    BY <1>1, <2>3
<1> QED
  BY <1>2, <1>3

LEMMA ConsumersSide ==
  ASSUME MInv,
         NEW s \in PendingSlots(cbuf) \cup
                     (IF cpc = "idle" THEN {}
                      ELSE {BatchSlot(out, clen, i) : i \in (1 .. clen)})
  PROVE  \E d \in (Lag(memIn) + 1) .. Lag(memOut) : s = Pos(d)
<1>1. /\ Lag(memIn) \in Nat /\ Lag(memOut) \in Nat /\ Len(queue) \in Nat
      /\ clen \in Nat /\ Lag(memIn) <= Len(queue) /\ Len(queue) <= Lag(memOut)
  BY Numbers DEF MInv, Types, Indices
<1>2. CASE s \in PendingSlots(cbuf)
  <2>1. PICK d \in 1 .. Lag(memOut) :
          s = Pos(d) /\ (d > Len(queue) \/ Len(queue) + 1 - d \in Taken)
    BY <1>2 DEF PendingSlots, MInv, ConsumersStores
  <2>2. CASE d > Len(queue)
    BY <1>1, <2>1, <2>2
  <2>3. CASE Len(queue) + 1 - d \in Taken
    <3>1. Len(queue) + 1 - d <= clen /\ cpc # "idle"
      BY <1>1, <2>3 DEF MInv, Types, Taken
    <3>2. Lag(memIn) + clen <= Len(queue)
      BY <3>1 DEF MInv, Indices
    <3> QED
      BY <1>1, <2>1, <3>1, <3>2
  <2> QED
    BY <2>1, <2>2, <2>3
<1>3. ASSUME cpc # "idle", NEW i \in 1 .. clen, s = BatchSlot(out, clen, i)
      PROVE  \E d \in (Lag(memIn) + 1) .. Lag(memOut) : s = Pos(d)
  <2>1. s = Pos(Len(queue) + 1 - i)
        /\ Len(queue) + 1 - i \in (Lag(memIn) + 1) .. Len(queue)
    BY <1>3, ConsumersSlot DEF MInv
  <2> QED
    BY <1>1, <2>1
<1> QED
  BY <1>2, <1>3

LEMMA SidesAreApart ==
  ASSUME MInv, NEW c \in (1 - Filling) .. Lag(memIn),
         NEW d \in (Lag(memIn) + 1) .. Lag(memOut)
  PROVE  Pos(c) # Pos(d)
<1>1. /\ Lag(memIn) \in Nat /\ Lag(memOut) \in Nat /\ Filling \in Nat
      /\ Lag(memOut) + Filling <= Capacity /\ Capacity \in Nat
  BY Numbers DEF MInv, Types, Indices
<1>2. c \in Int /\ d \in Int /\ c < d /\ c - d < Capacity /\ d - c < Capacity
  BY <1>1
<1> QED
  BY <1>2, PosDiffer DEF MInv

LEMMA NobodyClobbers == MInv => NoClobber
<1> SUFFICES ASSUME MInv PROVE NoClobber
  OBVIOUS
<1> DEFINE filling == PendingSlots(pbuf) \cup
                      {BatchSlot(in, Len(batch), i) : i \in todo}
           reading == IF cpc = "idle" THEN {}
                      ELSE {BatchSlot(out, clen, i) : i \in (1 .. clen)}
<1>1. ASSUME NEW s \in filling, s \in PendingSlots(cbuf) \cup reading PROVE FALSE
  <2>1. PICK c \in (1 - Filling) .. Lag(memIn) : s = Pos(c)
    BY ProducersSide
  <2>2. PICK d \in (Lag(memIn) + 1) .. Lag(memOut) : s = Pos(d)
    BY <1>1, ConsumersSide
  <2> QED
    BY <2>1, <2>2, SidesAreApart
<1> QED
  BY <1>1 DEF NoClobber

(***************************************************************************)
(* No thread ever loads, or will load, an index of the other that promises *)
(* it more entries or more room than there is.                             *)
(***************************************************************************)
THEOREM LoadedIndicesAreSafe == Spec => []OldIsSafe
  BY MemoryInvariance, LoadsAreSafe, PTL

(***************************************************************************)
(* The two threads are never at one slot, neither in what they do next nor *)
(* in what their buffers still hold.                                       *)
(***************************************************************************)
THEOREM SlotsAreExclusive == Spec => []NoClobber
  BY MemoryInvariance, NobodyClobbers, PTL

-----------------------------------------------------------------------------
(***************************************************************************)
(* What follows is said of a compiler that loads no element of pop(T&) or  *)
(* of a peek before the index: where it may, an element loaded early can   *)
(* be the one that was in the slot before.                                 *)
(***************************************************************************)
Early == cpc # "idle" => early = <<>>

CInv == Early /\ CopiesPublished

(* What is loaded at the next slot to be copied is the item published.     *)
LEMMA LoadsPublished ==
  ASSUME MInv, Early, cpc # "idle", NEW i \in (1 .. clen) \ DOMAIN got,
         NEW x \in Loaded(BatchSlot(out, clen, i))
  PROVE  x = queue[i]
<1> USE DEF MInv
<1> DEFINE s == BatchSlot(out, clen, i)
           d == Len(queue) + 1 - i
<1>1. s = Pos(d) /\ d \in (Lag(memIn) + 1) .. Len(queue)
  BY ConsumersSlot
<1>2. /\ Lag(memIn) \in Nat /\ Lag(memOut) \in Nat /\ Len(queue) \in Nat
      /\ Filling \in Nat /\ clen \in Nat /\ Len(queue) <= Lag(memOut)
      /\ Lag(memOut) + Filling <= Capacity /\ Capacity \in Nat
  BY Numbers DEF Types, Indices
<1>3. d \in (Lag(memIn) + 1) .. Lag(memOut) /\ d \in (1 - Filling) .. Len(queue)
      /\ d > 0 /\ d \in Int /\ Len(queue) + 1 - d = i
  BY <1>1, <1>2
<1> HIDE DEF s, d
<1>4. i \notin Taken
  BY DEF Taken
<1>5. s \notin PendingSlots(cbuf)
  <2> SUFFICES ASSUME s \in PendingSlots(cbuf) PROVE FALSE
    OBVIOUS
  <2>1. PICK c \in 1 .. Lag(memOut) :
          s = Pos(c) /\ (c > Len(queue) \/ Len(queue) + 1 - c \in Taken)
    BY DEF PendingSlots, ConsumersStores
  <2>2. c \in Int /\ c - d < Capacity /\ d - c < Capacity
    BY <1>2, <1>3
  <2>3. c = d
    BY <1>1, <1>3, <2>1, <2>2, PosDiffer
  <2> QED
    BY <1>1, <1>2, <1>3, <1>4, <2>1, <2>3
<1>6. x = arr[s]
  BY <1>5 DEF Loaded, Early, s
<1>7. s \notin PendingSlots(pbuf)
  <2> SUFFICES ASSUME s \in PendingSlots(pbuf) PROVE FALSE
    OBVIOUS
  <2>1. PICK c \in (1 - Filling) .. Lag(memIn) : s = Pos(c)
    BY ProducersSide
  <2> QED
    BY <1>1, <1>3, <2>1, SidesAreApart
<1>8. arr[Pos(d)] = Item(d)
  <2>1. ~\E k \in DOMAIN pbuf : pbuf[k].kind = "slot" /\ pbuf[k].slot = Pos(d)
    BY <1>1, <1>7 DEF PendingSlots
  <2> QED
    BY <1>3, <1>4, <2>1 DEF Contents
<1>9. Item(d) = queue[i]
  BY <1>3 DEF Item
<1> QED
  BY <1>1, <1>6, <1>8, <1>9

LEMMA InitCInv == Init => CInv
  BY DEF Init, CInv, Early, CopiesPublished

LEMMA StepCInv ==
  ASSUME MayHoist \subseteq {"pop_n"}
  PROVE  MInv /\ CInv /\ [Next]_vars => CInv'
<1> SUFFICES ASSUME MInv, CInv, [Next]_vars PROVE CInv'
  OBVIOUS
<1> USE DEF CInv
<1>1. ASSUME UNCHANGED <<cpc, got, early, queue>> PROVE CInv'
  BY <1>1 DEF Early, CopiesPublished
<1>2. ASSUME Producer, ~Publish PROVE UNCHANGED <<cpc, got, early, queue>>
  BY <1>2 DEF Producer, push, wait_push, wait_push_again, StoreItem, ProducerTo,
              consVars
<1>3. ASSUME Drain PROVE UNCHANGED <<cpc, got, early, queue>>
  BY <1>3 DEF Drain, DrainProducer, DrainConsumer, consVars
<1>4. ASSUME Publish PROVE CInv'
  <2>1. UNCHANGED <<cpc, got, early, clen>> /\ queue' = queue \o batch
    BY <1>4 DEF Publish, consVars
  <2>2. ASSUME cpc # "idle", NEW i \in DOMAIN got PROVE queue'[i] = queue[i]
    <3>1. i \in 1 .. clen /\ clen \in Nat /\ clen <= Len(queue)
          /\ Len(queue) \in Nat /\ Len(batch) \in Nat
          /\ queue \in Seq(Values) /\ batch \in Seq(Values)
      BY <2>2, Numbers DEF MInv, Types, Indices, Taken
    <3>2. i \in 1 .. Len(queue) + Len(batch) /\ i <= Len(queue)
      BY <3>1
    <3> QED
      BY <2>1, <3>1, <3>2, ConcatProperties
  <2> QED
    BY <2>1, <2>2 DEF Early, CopiesPublished
<1>5. ASSUME LoadAhead PROVE CInv'
  BY <1>5 DEF LoadAhead, Early, CopiesPublished
<1>6. ASSUME NEW call \in Calls, NEW n, Ask(call, n) PROVE CInv'
  <2>1. got' = <<>> /\ early' = <<>>
    BY <1>6 DEF Ask, Survives
  <2> QED
    BY <2>1 DEF Early, CopiesPublished
<1>7. ASSUME NEW i \in 1 .. clen, CopyOut(i) PROVE CInv'
  <2>1. cpc # "idle" /\ i \notin DOMAIN got /\ UNCHANGED <<cpc, early, queue>>
    BY <1>7 DEF CopyOut
  <2>2. PICK x \in Loaded(BatchSlot(out, clen, i)) :
          got' = [k \in DOMAIN got \cup {i} |-> IF k = i THEN x ELSE got[k]]
    BY <1>7 DEF CopyOut
  <2>3. x = queue[i]
    BY <2>1, LoadsPublished
  <2> QED
    BY <2>1, <2>2, <2>3 DEF Early, CopiesPublished
<1>8. ASSUME Retire PROVE CInv'
  BY <1>8 DEF Retire, Early, CopiesPublished
<1> QED
  BY <1>1, <1>2, <1>3, <1>4, <1>5, <1>6, <1>7, <1>8
     DEF Next, Consumer, vars, consVars

(***************************************************************************)
(* Every element that a call has copied is the one published at its place, *)
(* whatever order the element stores took: the fences suffice.             *)
(***************************************************************************)
THEOREM FencesSuffice ==
  ASSUME MayHoist \subseteq {"pop_n"}
  PROVE  Spec => []CopiesPublished
<1>1. Init => CInv
  BY InitCInv
<1>2. MInv /\ CInv /\ [Next]_vars => CInv'
  BY StepCInv
<1>3. CInv => CopiesPublished
  BY DEF CInv
<1> QED
  BY <1>1, <1>2, <1>3, MemoryInvariance, PTL DEF Spec

-----------------------------------------------------------------------------
LEMMA PublishEnqueues ==
  ASSUME MInv, Publish
  PROVE  batch \in Fifo!Batches /\ Fifo!Enqueue(batch)
<1>1. /\ batch \in Seq(Values) /\ Len(batch) \in Nat /\ Len(batch) > 0
      /\ Filling = Len(batch) /\ Len(queue) \in Nat /\ Lag(memOut) \in Nat
      /\ Len(queue) <= Lag(memOut) /\ Lag(memOut) + Filling <= Capacity
      /\ Capacity \in Nat
  BY Numbers DEF Publish, MInv, Types, Indices, Filling
<1>2. Len(batch) \in 1 .. Capacity /\ Len(queue) + Len(batch) <= Capacity
  BY <1>1
<1>3. batch \in [1 .. Len(batch) -> Values]
  BY <1>1
<1>4. batch \in Fifo!Batches
  BY <1>2, <1>3 DEF Fifo!Batches
<1>5. Fifo!Enqueue(batch)
  BY <1>2 DEF Publish, consVars, Fifo!Enqueue
<1> QED
  BY <1>4, <1>5

LEMMA RetireDequeues ==
  ASSUME MInv, CInv, Retire
  PROVE  \E n \in 1 .. Len(queue) : Fifo!Dequeue(n)
<1> DEFINE n == Cardinality(DOMAIN got)
<1>1. n \in 1 .. clen /\ DOMAIN got = 1 .. n /\ n <= Len(queue)
  BY RetiresPrefix DEF Retire
<1>2. /\ cpc # "idle" /\ cpc' = "idle" /\ got' = got
      /\ queue' = SubSeq(queue, n + 1, Len(queue)) /\ UNCHANGED <<ppc, batch>>
  BY DEF Retire, Copied, prodVars
<1> HIDE DEF n
<1>3. n \in 1 .. Len(queue) /\ queue \in Seq(Values)
  BY <1>1, Numbers DEF MInv, Types
<1>4. SubSeq(queue, 1, n) = [i \in 1 .. n |-> queue[i]]
  BY <1>3
<1>5. got = [i \in 1 .. n |-> got[i]]
  BY <1>1 DEF MInv, Types
<1>6. \A i \in 1 .. n : got[i] = queue[i]
  BY <1>1, <1>2 DEF CInv, CopiesPublished
<1>7. got = SubSeq(queue, 1, n)
  BY <1>4, <1>5, <1>6
<1>8. Fifo!Dequeue(n)
  BY <1>2, <1>7 DEF Fifo!Dequeue
<1> QED
  BY <1>3, <1>8

LEMMA FifoStep ==
  MInv /\ CInv /\ [Next]_vars => [Fifo!Next]_(Fifo!fifoVars)
<1> SUFFICES ASSUME MInv, CInv, [Next]_vars PROVE [Fifo!Next]_(Fifo!fifoVars)
  OBVIOUS
<1>1. ASSUME NEW p, NEW items, ProducerTo(p, items), p = "idle" => items = <<>>
      PROVE  Fifo!ForgetAccepted
  BY <1>1 DEF ProducerTo, consVars, Fifo!ForgetAccepted
<1>2. ASSUME NEW items \in Batches, push(items) PROVE Fifo!ForgetAccepted
  <2> DEFINE len == min(Len(items), FreeSpace(in, memOut))
  <2>1. ProducerTo(IF len = 0 THEN "idle" ELSE "store", SubSeq(items, 1, len))
    BY <1>2 DEF push
  <2>2. len = 0 => SubSeq(items, 1, len) = <<>>
    BY BatchesAreSequences
  <2> HIDE DEF len
  <2> QED
    BY <1>1, <2>1, <2>2
<1>3. ASSUME wait_push_again \/ \E t \in Values : wait_push(t)
      PROVE  Fifo!ForgetAccepted
  BY <1>1, <1>3 DEF wait_push, wait_push_again
<1>4. ASSUME \/ Drain \/ LoadAhead \/ UNCHANGED vars
             \/ \E i \in todo : StoreItem(i)
             \/ \E i \in 1 .. clen : CopyOut(i)
      PROVE  UNCHANGED Fifo!fifoVars
  BY <1>4 DEF Drain, DrainProducer, DrainConsumer, LoadAhead, StoreItem, CopyOut,
              vars, prodVars, consVars, Fifo!fifoVars
<1>5. ASSUME NEW call \in Calls, NEW n, Ask(call, n) PROVE Fifo!ForgetDelivered
  BY <1>5 DEF Ask, prodVars, Fifo!ForgetDelivered
<1>6. CASE Producer
  BY <1>2, <1>3, <1>4, <1>6, PublishEnqueues DEF Producer, Fifo!Next
<1>7. CASE Consumer
  BY <1>4, <1>5, <1>7, RetireDequeues DEF Consumer, Fifo!Next
<1> QED
  BY <1>4, <1>6, <1>7 DEF Next

(***************************************************************************)
(* On x86 memory too the ring is a bounded first-in first-out queue: an    *)
(* item enters it with the bump of in and leaves it with the bump of out.  *)
(***************************************************************************)
THEOREM MemoryRefinesFifo ==
  ASSUME MayHoist \subseteq {"pop_n"}
  PROVE  Spec => FifoSpec
<1>1. Init => CInv /\ Fifo!Init
  BY InitCInv DEF Init, Fifo!Init
<1>2. MInv /\ CInv /\ [Next]_vars => CInv'
  BY StepCInv
<1>3. MInv /\ CInv /\ [Next]_vars => [Fifo!Next]_(Fifo!fifoVars)
  BY FifoStep
<1> QED
  BY <1>1, <1>2, <1>3, MemoryInvariance, PTL DEF Spec, FifoSpec, Fifo!Spec

=============================================================================
