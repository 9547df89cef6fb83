--------------------------- MODULE RingQueueProofs ---------------------------
(***************************************************************************)
(* The safety of spsc_queue for every capacity, integer width, set of      *)
(* values and batch size: IInv is inductive, it implies the invariants of  *)
(* RingQueue, and every step is one of BoundedFifo or a stutter.           *)
(***************************************************************************)
EXTENDS RingQueue, RingIndexProofs

(* The integer facts about the variables that the steps below use. *)
LEMMA Numbers ==
  ASSUME IInv
  PROVE  /\ in \in Int /\ out \in Int
         /\ Len(queue) \in 0 .. Capacity
         /\ Readable(in, out) = Len(queue)
         /\ FreeSpace(in, out) = Capacity - Len(queue)
         /\ Len(batch) \in Nat
         /\ Capacity \in Nat \ {0}
  BY RingAssumption DEF IInv, TypeOK, IndexExact, Index

(* The producer's slots follow the window. *)
LEMMA SlotAfterWindow ==
  ASSUME IInv, NEW k \in Int
  PROVE  SlotOf(in + k) = SlotOf(out + Len(queue) + k)
<1>1. SlotOf(in + k) = SlotOf(out + Readable(in, out) + k)
  BY Numbers, SlotOfIn
<1> QED
  BY <1>1, Numbers

(* They are outside the window as long as no more than Capacity are used. *)
LEMMA SlotOutsideWindow ==
  ASSUME IInv, NEW k \in Nat, Len(queue) + k < Capacity,
         NEW j \in 1 .. Len(queue)
  PROVE  SlotOf(in + k) # SlotOf(out + j - 1)
<1>1. Len(queue) + k \in Int /\ j - 1 \in Int /\ out \in Int
  BY Numbers
<1>2. SlotOf(in + k) = SlotOf(out + (Len(queue) + k))
  BY SlotAfterWindow, Numbers
<1>3. SlotOf(out + j - 1) = SlotOf(out + (j - 1))
  BY <1>1
<1>4. /\ (Len(queue) + k) - (j - 1) < Capacity
      /\ (j - 1) - (Len(queue) + k) < Capacity
      /\ Len(queue) + k # j - 1
  BY Numbers
<1> QED
  BY <1>1, <1>2, <1>3, <1>4, SlotsDiffer

(* Two items of one batch, or of the window, have different slots. *)
LEMMA BatchSlotsDiffer ==
  ASSUME NEW x \in Int, NEW i \in 1 .. Capacity, NEW j \in 1 .. Capacity,
         SlotOf(x + i - 1) = SlotOf(x + j - 1)
  PROVE  i = j
<1>1. SlotOf(x + (i - 1)) = SlotOf(x + (j - 1))
  BY RingAssumption
<1>2. (i - 1) - (j - 1) < Capacity /\ (j - 1) - (i - 1) < Capacity
  BY RingAssumption
<1>3. i - 1 \in Int /\ j - 1 \in Int
  BY RingAssumption
<1>4. i - 1 = j - 1
  BY <1>1, <1>2, <1>3, SlotsDiffer
<1> QED
  BY <1>4, RingAssumption

-----------------------------------------------------------------------------
(* The initial state. *)
LEMMA InitIInv == Init => IInv
<1> SUFFICES ASSUME Init PROVE IInv
  OBVIOUS
<1> USE DEF Init
<1>1. in \in Index /\ out \in Index /\ cptr \in Slots
  BY RingAssumption DEF Index, Slots
<1>2. got \in Seq(Values) /\ DOMAIN got = {} /\ got \in [DOMAIN got -> Values \cup {Moved, Torn}]
  OBVIOUS
<1>3. TypeOK
  BY <1>1, <1>2 DEF TypeOK
<1>4. Readable(in, out) = 0
  <2>1. (Modulus * 0 + 0) % Modulus = 0
    BY RingAssumption, ModUnique
  <2> QED
    BY <2>1, RingAssumption DEF Readable
<1>5. IndexExact
  BY <1>1, <1>4, FreeSpaceIsRest, RingAssumption DEF IndexExact
<1> QED
  BY <1>3, <1>5
     DEF IInv, ChecksStayValid, StoredInPlace, WindowIsQueue, CopiesAreFifo,
         WalkInPlace

-----------------------------------------------------------------------------
(* What the producer's next place p asks of its items and indices. *)
GoodStart(p, items, indices) ==
  \/ p = "idle" /\ indices = {}
  \/ p = "wait_push" /\ Len(items) = 1 /\ indices = {}
  \/ p = "wait_reserve" /\ indices = {}
  \/ /\ p = "reserved" /\ items = <<>> /\ indices = {}
     /\ Len(queue) + 1 <= Capacity
  \/ /\ p = "store" /\ indices = 1 .. Len(items) /\ Len(items) # 0
     /\ Len(queue) + Len(items) <= Capacity

(* The producer begins, waits, claims slots or gives up. *)
LEMMA ProducerStarts ==
  ASSUME IInv, NEW p, NEW items \in Seq(Values), NEW indices,
         ProducerTo(p, items, indices), GoodStart(p, items, indices)
  PROVE  IInv'
<1> USE DEF ProducerTo, consVars
<1>1. TypeOK'
  BY DEF IInv, TypeOK, GoodStart
<1>2. IndexExact'
  BY DEF IInv, IndexExact
<1>3. ChecksStayValid'
  BY DEF IInv, ChecksStayValid, GoodStart
<1>4. StoredInPlace'
  <2>1. Len(items) \in Nat /\ (Len(<<>>) = 0)
    OBVIOUS
  <2> QED
    BY <2>1 DEF StoredInPlace, GoodStart
<1>5. WindowIsQueue' /\ CopiesAreFifo' /\ WalkInPlace'
  BY DEF IInv, WindowIsQueue, CopiesAreFifo, WalkInPlace
<1> QED
  BY <1>1, <1>2, <1>3, <1>4, <1>5 DEF IInv

(* A load that does not find the ring full finds room for one entry. *)
LEMMA NotFull ==
  ASSUME IInv, ~Full
  PROVE  Len(queue) + 1 <= Capacity
  BY Numbers DEF Full

LEMMA StoreOne ==
  ASSUME IInv, NEW items \in Seq(Values), Len(items) = 1, ~Full, Store(items)
  PROVE  IInv'
<1>1. GoodStart("store", items, 1 .. Len(items))
  BY NotFull DEF GoodStart
<1> QED
  BY <1>1, ProducerStarts DEF Store

LEMMA RefuseStep ==
  ASSUME IInv, Refuse
  PROVE  IInv'
<1>1. GoodStart("idle", <<>>, {}) /\ <<>> \in Seq(Values)
  BY DEF GoodStart
<1> QED
  BY <1>1, ProducerStarts DEF Refuse

LEMMA TryPushStep ==
  ASSUME IInv, NEW t \in Values, try_push(t)
  PROVE  IInv'
<1>1. <<t>> \in Seq(Values) /\ Len(<<t>>) = 1
  OBVIOUS
<1> QED
  BY <1>1, StoreOne, RefuseStep DEF try_push

LEMMA WaitPushStep ==
  ASSUME IInv, NEW t \in Values, wait_push(t)
  PROVE  IInv'
<1>1. <<t>> \in Seq(Values) /\ Len(<<t>>) = 1
  OBVIOUS
<1>2. GoodStart("wait_push", <<t>>, {})
  BY <1>1 DEF GoodStart
<1> QED
  BY <1>1, <1>2, StoreOne, ProducerStarts DEF wait_push

LEMMA WaitPushAgainStep ==
  ASSUME IInv, wait_push_again
  PROVE  IInv'
  BY StoreOne DEF wait_push_again, IInv, TypeOK, StoredInPlace

LEMMA PushStep ==
  ASSUME IInv, NEW items \in Batches, push(items)
  PROVE  IInv'
<1> DEFINE len == min(Len(items), FreeSpace(in, out))
<1>1. PICK n \in 0 .. MaxBatch : items \in [1 .. n -> Values]
  BY DEF Batches
<1>2. items \in Seq(Values) /\ Len(items) = n /\ n \in Nat
  BY <1>1, ValuesAssumption
<1>3. len \in Nat /\ len <= Len(items) /\ Len(queue) + len <= Capacity
  BY <1>2, Numbers DEF min
<1>4. CASE len # 0
  <2>1. SubSeq(items, 1, len) \in Seq(Values) /\ Len(SubSeq(items, 1, len)) = len
    BY <1>2, <1>3
  <2>2. GoodStart("store", SubSeq(items, 1, len), 1 .. Len(SubSeq(items, 1, len)))
    BY <1>3, <1>4, <2>1 DEF GoodStart
  <2>3. Store(SubSeq(items, 1, len))
    BY <1>4 DEF push
  <2> QED
    BY <2>1, <2>2, <2>3, ProducerStarts DEF Store
<1>5. CASE len = 0
  BY <1>5, RefuseStep DEF push
<1> QED
  BY <1>4, <1>5

LEMMA ReserveStep ==
  ASSUME IInv, try_reserve_1 \/ reserve_1 \/ reserve_1_again
  PROVE  IInv'
<1>1. <<>> \in Seq(Values)
  OBVIOUS
<1>2. ~Full => GoodStart("reserved", <<>>, {})
  BY NotFull DEF GoodStart
<1>3. GoodStart("wait_reserve", <<>>, {})
  BY DEF GoodStart
<1> QED
  BY <1>1, <1>2, <1>3, ProducerStarts, RefuseStep
     DEF try_reserve_1, reserve_1, reserve_1_again

-----------------------------------------------------------------------------
(* The slot of an item that is being stored is not another item's slot. *)
LEMMA StoreSlot ==
  ASSUME IInv, ppc = "store", NEW i \in 1 .. Len(batch)
  PROVE  /\ BatchSlot(in, Len(batch), i) = SlotOf(in + i - 1)
         /\ SlotOf(in + i - 1) \in Slots
         /\ \A j \in 1 .. Len(queue) : SlotOf(in + i - 1) # SlotOf(out + j - 1)
         /\ \A j \in 1 .. Len(batch) :
              SlotOf(in + i - 1) = SlotOf(in + j - 1) => i = j
<1>1. /\ Len(batch) \in 1 .. Capacity
      /\ Len(queue) + Len(batch) <= Capacity
      /\ in \in Index /\ in \in Int
  BY Numbers DEF IInv, TypeOK, ChecksStayValid
<1>2. i - 1 \in Nat /\ i \in Int /\ in + i - 1 = in + (i - 1)
      /\ Len(queue) + (i - 1) < Capacity
  BY <1>1, Numbers
<1>3. BatchSlot(in, Len(batch), i) = SlotOf(in + i - 1)
  BY <1>1, BatchIsConsecutive
<1>4. SlotOf(in + i - 1) \in Slots
  BY <1>1, <1>2, SlotType
<1>5. \A j \in 1 .. Len(queue) : SlotOf(in + i - 1) # SlotOf(out + j - 1)
  BY <1>2, SlotOutsideWindow
<1>6. ASSUME NEW j \in 1 .. Len(batch), SlotOf(in + i - 1) = SlotOf(in + j - 1)
      PROVE  i = j
  <2>1. i \in 1 .. Capacity /\ j \in 1 .. Capacity
    BY <1>1, RingAssumption
  <2> QED
    BY <1>1, <1>6, <2>1, BatchSlotsDiffer
<1> QED
  BY <1>3, <1>4, <1>5, <1>6

LEMMA StoreBeginStep ==
  ASSUME IInv, NEW i \in todo, StoreBegin(i)
  PROVE  IInv'
<1> USE DEF StoreBegin, prodVars, consVars
<1> DEFINE s == SlotOf(in + i - 1)
<1>1. i \in 1 .. Len(batch)
  BY DEF IInv, TypeOK
<1>2. /\ s \in Slots
      /\ arr' = [arr EXCEPT ![s] = Torn]
      /\ \A j \in 1 .. Len(queue) : s # SlotOf(out + j - 1)
      /\ \A j \in 1 .. Len(batch) : s = SlotOf(in + j - 1) => i = j
  BY <1>1, StoreSlot
<1> HIDE DEF s
<1>3. TypeOK'
  BY <1>2 DEF IInv, TypeOK
<1>4. StoredInPlace'
  BY <1>2 DEF IInv, TypeOK, StoredInPlace
<1>5. WindowIsQueue'
  BY <1>2 DEF IInv, TypeOK, WindowIsQueue
<1> QED
  BY <1>3, <1>4, <1>5
     DEF IInv, IndexExact, ChecksStayValid, CopiesAreFifo, WalkInPlace

LEMMA StoreEndStep ==
  ASSUME IInv, NEW i \in todo, StoreEnd(i)
  PROVE  IInv'
<1> USE DEF StoreEnd, consVars
<1> DEFINE s == SlotOf(in + i - 1)
<1>1. i \in 1 .. Len(batch) /\ batch[i] \in Values
  BY DEF IInv, TypeOK
<1>2. /\ s \in Slots
      /\ arr' = [arr EXCEPT ![s] = batch[i]]
      /\ \A j \in 1 .. Len(queue) : s # SlotOf(out + j - 1)
      /\ \A j \in 1 .. Len(batch) : s = SlotOf(in + j - 1) => i = j
  BY <1>1, StoreSlot
<1>3. s = SlotOf(in + i - 1)
  OBVIOUS
<1> HIDE DEF s
<1>4. TypeOK'
  BY <1>1, <1>2 DEF IInv, TypeOK
<1>5. StoredInPlace'
  BY <1>1, <1>2, <1>3 DEF IInv, TypeOK, StoredInPlace
<1>6. WindowIsQueue'
  BY <1>2 DEF IInv, TypeOK, WindowIsQueue
<1> QED
  BY <1>4, <1>5, <1>6
     DEF IInv, IndexExact, ChecksStayValid, CopiesAreFifo, WalkInPlace

(* The reserved slot is the one after the window. *)
LEMMA ReservedSlot ==
  ASSUME IInv, ppc = "reserved"
  PROVE  /\ SlotOf(in) \in Slots
         /\ \A j \in 1 .. Len(queue) : SlotOf(in) # SlotOf(out + j - 1)
<1>1. in \in Int /\ in + 0 = in
  BY Numbers
<1>2. Len(queue) + 0 < Capacity
  BY Numbers DEF IInv, ChecksStayValid
<1>3. \A j \in 1 .. Len(queue) : SlotOf(in + 0) # SlotOf(out + j - 1)
  BY <1>2, SlotOutsideWindow
<1> QED
  BY <1>1, <1>3, SlotType

LEMMA FillBeginStep ==
  ASSUME IInv, FillBegin
  PROVE  IInv'
<1> USE DEF FillBegin, consVars
<1> DEFINE s == SlotOf(in)
<1>1. /\ s \in Slots
      /\ \A j \in 1 .. Len(queue) : s # SlotOf(out + j - 1)
  BY ReservedSlot
<1>2. arr' = [arr EXCEPT ![s] = Torn]
  OBVIOUS
<1> HIDE DEF s
<1>3. batch' \in Seq(Values) /\ Len(batch') = 0
  OBVIOUS
<1>4. todo = {}
  BY DEF IInv, StoredInPlace
<1>5. TypeOK'
  BY <1>2, <1>3, <1>4 DEF IInv, TypeOK
<1>6. ChecksStayValid' /\ StoredInPlace'
  BY DEF IInv, ChecksStayValid, StoredInPlace
<1>7. WindowIsQueue'
  BY <1>1, <1>2 DEF IInv, TypeOK, WindowIsQueue
<1> QED
  BY <1>5, <1>6, <1>7 DEF IInv, IndexExact, CopiesAreFifo, WalkInPlace

LEMMA FillEndStep ==
  ASSUME IInv, NEW t \in Values, FillEnd(t)
  PROVE  IInv'
<1> USE DEF FillEnd, consVars
<1> DEFINE s == SlotOf(in)
<1>1. /\ s \in Slots
      /\ \A j \in 1 .. Len(queue) : s # SlotOf(out + j - 1)
  BY ReservedSlot
<1>2. arr' = [arr EXCEPT ![s] = t] /\ s = SlotOf(in)
  OBVIOUS
<1> HIDE DEF s
<1>3. batch' \in Seq(Values) /\ Len(batch') = 1 /\ batch'[1] = t
  OBVIOUS
<1>4. todo = {}
  BY DEF IInv, StoredInPlace
<1>5. TypeOK'
  BY <1>2, <1>3, <1>4 DEF IInv, TypeOK
<1>6. ChecksStayValid' /\ StoredInPlace'
  BY <1>1, <1>2, <1>3 DEF IInv, TypeOK, ChecksStayValid, StoredInPlace
<1>7. WindowIsQueue'
  BY <1>1, <1>2 DEF IInv, TypeOK, WindowIsQueue
<1> QED
  BY <1>5, <1>6, <1>7 DEF IInv, IndexExact, CopiesAreFifo, WalkInPlace

(* ++fifo_.in and fifo->in += len: the batch is at its place already. *)
LEMMA Publishes ==
  ASSUME IInv,
         Len(queue) + Len(batch) <= Capacity, todo = {},
         \A i \in 1 .. Len(batch) : arr[SlotOf(in + i - 1)] = batch[i],
         in' = Plus(in, Len(batch)), ppc' = "idle", queue' = queue \o batch,
         UNCHANGED <<out, arr, batch, todo, cpc, clen, cptr, got>>
  PROVE  IInv'
<1>1. /\ in \in Index /\ out \in Index /\ out \in Int
      /\ queue \in Seq(Values) /\ batch \in Seq(Values)
      /\ Len(batch) \in Nat /\ Len(queue) \in Nat
  BY Numbers DEF IInv, TypeOK
<1>2. /\ queue' \in Seq(Values)
      /\ Len(queue') = Len(queue) + Len(batch)
      /\ \A j \in 1 .. Len(queue) : queue'[j] = queue[j]
      /\ \A j \in (Len(queue) + 1) .. Len(queue') :
           queue'[j] = batch[j - Len(queue)]
  BY <1>1
<1>3. in' \in Index
  BY Numbers, IndexType
<1>4. TypeOK'
  BY <1>2, <1>3 DEF IInv, TypeOK
<1>5. IndexExact'
  <2>1. Readable(in', out) = Len(queue')
    BY <1>1, <1>2, Numbers, ReadableAfterPublish
  <2>2. FreeSpace(in', out) = Capacity - Len(queue')
    BY <1>1, <1>2, <1>3, <2>1, FreeSpaceIsRest
  <2> QED
    BY <1>2, <2>1, <2>2 DEF IndexExact
<1>6. ChecksStayValid'
  BY <1>1, <1>2 DEF IInv, TypeOK, ChecksStayValid
<1>7. StoredInPlace'
  BY DEF StoredInPlace
<1>8. WindowIsQueue'
  <2> SUFFICES ASSUME NEW j \in 1 .. Len(queue'),
                      ~(cpc = "copy" /\ j \in DOMAIN got)
               PROVE  arr[SlotOf(out + j - 1)] = queue'[j]
    BY DEF WindowIsQueue
  <2>1. CASE j \in 1 .. Len(queue)
    BY <1>2, <2>1 DEF IInv, WindowIsQueue
  <2>2. CASE j \notin 1 .. Len(queue)
    <3> DEFINE i == j - Len(queue)
    <3>1. i \in 1 .. Len(batch) /\ i - 1 \in Int /\ j \in (Len(queue) + 1) .. Len(queue')
      BY <1>1, <1>2, <2>2
    <3>2. SlotOf(in + (i - 1)) = SlotOf(out + Len(queue) + (i - 1))
      BY <3>1, SlotAfterWindow
    <3>3. /\ in + (i - 1) = in + i - 1
          /\ out + Len(queue) + (i - 1) = out + j - 1
      BY <1>1, <3>1, Numbers
    <3>4. arr[SlotOf(in + i - 1)] = batch[i]
      BY <3>1
    <3> QED
      BY <1>2, <3>1, <3>2, <3>3, <3>4
  <2> QED
    BY <2>1, <2>2
<1>9. CopiesAreFifo'
  <2>1. cpc # "idle" => /\ DOMAIN got \subseteq 1 .. Len(queue)
                        /\ clen \in Nat
    BY <1>1 DEF IInv, TypeOK, CopiesAreFifo, ChecksStayValid
  <2> QED
    BY <1>2, <2>1 DEF IInv, CopiesAreFifo
<1>10. WalkInPlace'
  BY DEF IInv, WalkInPlace
<1> QED
  BY <1>4, <1>5, <1>6, <1>7, <1>8, <1>9, <1>10 DEF IInv

LEMMA PublishStep ==
  ASSUME IInv, Publish
  PROVE  IInv'
<1>1. \A i \in 1 .. Len(batch) : arr[SlotOf(in + i - 1)] = batch[i]
  BY DEF Publish, IInv, StoredInPlace
<1>2. Len(queue) + Len(batch) <= Capacity
  BY DEF Publish, IInv, ChecksStayValid
<1> QED
  BY <1>1, <1>2, Publishes DEF Publish, consVars

LEMMA FinishStep ==
  ASSUME IInv, finish_1
  PROVE  IInv'
<1>1. ppc = "reserved" /\ Len(batch) = 1 /\ arr[SlotOf(in)] = batch[1] /\ todo = {}
  BY DEF finish_1, IInv, StoredInPlace
<1>2. in \in Int /\ in + 1 - 1 = in
  BY Numbers
<1>3. \A i \in 1 .. Len(batch) : arr[SlotOf(in + i - 1)] = batch[i]
  BY <1>1, <1>2
<1>4. Len(queue) + Len(batch) <= Capacity
  BY <1>1 DEF IInv, ChecksStayValid
<1> QED
  BY <1>1, <1>3, <1>4, Publishes DEF finish_1, consVars

-----------------------------------------------------------------------------
(* The consumer begins a call, or ends one that found nothing. *)
LEMMA ConsumerStarts ==
  ASSUME IInv, cpc = "idle",
         NEW p, NEW n \in Nat, NEW s, ConsumerTo(p, n, s),
         \/ p = "idle" /\ s = 0
         \/ p = "copy" /\ s = 0 /\ n # 0 /\ n <= Len(queue)
         \/ p = "peeked" /\ s = SlotOf(out) /\ n # 0 /\ n <= Len(queue)
  PROVE  IInv'
<1> USE DEF ConsumerTo, prodVars
<1>1. 0 \in Slots /\ SlotOf(out) \in Slots /\ out + 0 = out
  BY Numbers, SlotType, RingAssumption DEF Slots
<1>2. /\ got' \in Seq(Values) /\ Len(got') = 0 /\ DOMAIN got' = {}
      /\ got' \in [DOMAIN got' -> Values \cup {Moved, Torn}]
  OBVIOUS
<1>3. TypeOK'
  BY <1>1, <1>2 DEF IInv, TypeOK
<1>4. ChecksStayValid'
  BY DEF IInv, ChecksStayValid
<1>5. CopiesAreFifo' /\ WalkInPlace'
  BY <1>1, <1>2 DEF CopiesAreFifo, WalkInPlace
<1>6. WindowIsQueue'
  BY DEF IInv, WindowIsQueue
<1> QED
  BY <1>3, <1>4, <1>5, <1>6 DEF IInv, IndexExact, StoredInPlace

(* Taking min(n, readable) entries takes no more than there are. *)
LEMMA TakeWhatIsThere ==
  ASSUME IInv, NEW n \in Nat
  PROVE  /\ min(n, Readable(in, out)) \in Nat
         /\ min(n, Readable(in, out)) <= Len(queue)
  BY Numbers DEF min

LEMMA PopStep ==
  ASSUME IInv, pop
  PROVE  IInv'
<1>1. ~Empty => 1 <= Len(queue)
  BY Numbers DEF Empty
<1> QED
  BY <1>1, ConsumerStarts DEF pop

LEMMA PopNStep ==
  ASSUME IInv, NEW n \in Nat, pop_n(n)
  PROVE  IInv'
  BY TakeWhatIsThere, ConsumerStarts DEF pop_n

LEMMA PeekStep ==
  ASSUME IInv, NEW n \in Nat, peek(n)
  PROVE  IInv'
  BY TakeWhatIsThere, ConsumerStarts DEF peek

(* The entry a pop copies next is published and whole, at its own place. *)
LEMMA CopySlot ==
  ASSUME IInv, cpc = "copy", NEW i \in (1 .. clen) \ DOMAIN got
  PROVE  /\ BatchSlot(out, clen, i) = SlotOf(out + i - 1)
         /\ SlotOf(out + i - 1) \in Slots
         /\ i \in 1 .. Len(queue)
         /\ arr[SlotOf(out + i - 1)] = queue[i]
         /\ queue[i] \in Values
         /\ \A j \in 1 .. Len(queue) :
              SlotOf(out + i - 1) = SlotOf(out + j - 1) => i = j
<1>1. /\ clen \in 1 .. Capacity /\ clen <= Len(queue)
      /\ out \in Index /\ out \in Int /\ queue \in Seq(Values)
  BY Numbers DEF IInv, TypeOK, ChecksStayValid
<1>2. i \in 1 .. Len(queue) /\ i \in 1 .. clen /\ out + i - 1 \in Int
  BY <1>1, Numbers
<1>3. BatchSlot(out, clen, i) = SlotOf(out + i - 1)
  BY <1>1, <1>2, BatchIsConsecutive
<1>4. SlotOf(out + i - 1) \in Slots
  BY <1>2, SlotType
<1>5. arr[SlotOf(out + i - 1)] = queue[i]
  BY <1>2 DEF IInv, WindowIsQueue
<1>6. ASSUME NEW j \in 1 .. Len(queue), SlotOf(out + i - 1) = SlotOf(out + j - 1)
      PROVE  i = j
  <2>1. i \in 1 .. Capacity /\ j \in 1 .. Capacity
    BY <1>2, Numbers
  <2> QED
    BY <1>1, <1>6, <2>1, BatchSlotsDiffer
<1>7. queue[i] \in Values
  BY <1>1, <1>2
<1> QED
  BY <1>2, <1>3, <1>4, <1>5, <1>6, <1>7

LEMMA CopyOutStep ==
  ASSUME IInv, NEW i, CopyOut(i)
  PROVE  IInv'
<1> USE DEF CopyOut, prodVars
<1> DEFINE s == SlotOf(out + i - 1)
<1>1. cpc = "copy" /\ i \in (1 .. clen) \ DOMAIN got
  OBVIOUS
<1>2. /\ BatchSlot(out, clen, i) = s
      /\ s \in Slots
      /\ i \in 1 .. Len(queue)
      /\ arr[s] = queue[i]
      /\ queue[i] \in Values
      /\ \A j \in 1 .. Len(queue) : s = SlotOf(out + j - 1) => i = j
  BY <1>1, CopySlot
<1>3. got' = Record(i, queue[i])
  BY <1>2
<1>4. PICK left \in {arr[s], Moved} : arr' = [arr EXCEPT ![s] = left]
  BY <1>2
<1>5. s = SlotOf(out + i - 1)
  OBVIOUS
<1> HIDE DEF s
<1>6. /\ DOMAIN got' = DOMAIN got \cup {i}
      /\ got'[i] = queue[i]
      /\ \A j \in DOMAIN got : got'[j] = got[j]
  BY <1>1, <1>3 DEF Record
<1>7. got' \in [DOMAIN got' -> Values \cup {Moved, Torn}]
  BY <1>2, <1>3 DEF Record, IInv, TypeOK
<1>8. TypeOK'
  BY <1>2, <1>4, <1>7 DEF IInv, TypeOK
<1>9. ChecksStayValid' /\ IndexExact' /\ WalkInPlace'
  BY <1>1 DEF IInv, ChecksStayValid, IndexExact, WalkInPlace
<1>10. StoredInPlace'
  <2>1. ASSUME ppc = "store", NEW j \in (1 .. Len(batch)) \ todo
        PROVE  arr'[SlotOf(in + j - 1)] = batch[j]
    <3>1. SlotOf(in + j - 1) # s /\ SlotOf(in + j - 1) \in Slots
      BY <1>2, <1>5, <2>1, StoreSlot
    <3> QED
      BY <1>4, <2>1, <3>1 DEF IInv, TypeOK, StoredInPlace
  <2>2. ASSUME ppc = "reserved" PROVE arr'[SlotOf(in)] = arr[SlotOf(in)]
    <3>1. SlotOf(in) # s /\ SlotOf(in) \in Slots
      BY <1>2, <1>5, <2>2, ReservedSlot
    <3> QED
      BY <1>4, <3>1 DEF IInv, TypeOK
  <2> QED
    BY <2>1, <2>2 DEF IInv, StoredInPlace
<1>11. WindowIsQueue'
  <2> SUFFICES ASSUME NEW j \in 1 .. Len(queue), j \notin DOMAIN got'
               PROVE  arr'[SlotOf(out + j - 1)] = queue[j]
    BY <1>1 DEF WindowIsQueue
  <2>1. j # i /\ j \notin DOMAIN got
    BY <1>6
  <2>2. SlotOf(out + j - 1) # s
    BY <1>2, <2>1
  <2>3. arr'[SlotOf(out + j - 1)] = arr[SlotOf(out + j - 1)]
    <3>1. SlotOf(out + j - 1) \in Slots
      BY Numbers, SlotType
    <3> QED
      BY <1>4, <2>2, <3>1 DEF IInv, TypeOK
  <2> QED
    BY <2>1, <2>3 DEF IInv, WindowIsQueue
<1>12. CopiesAreFifo'
  BY <1>1, <1>6 DEF IInv, CopiesAreFifo
<1> QED
  BY <1>8, <1>9, <1>10, <1>11, <1>12 DEF IInv

(* The walk reads the next peeked entry, whole. *)
LEMMA PeekReadStep ==
  ASSUME IInv, PeekRead
  PROVE  IInv'
<1> USE DEF PeekRead, prodVars
<1> DEFINE n == Len(got)
<1>1. /\ cpc = "peeked" /\ got \in Seq(Values) /\ n \in Nat /\ n < clen
      /\ clen <= Len(queue) /\ clen \in Nat /\ cptr = SlotOf(out + n)
      /\ out \in Int /\ queue \in Seq(Values) /\ Len(queue) \in Nat
  BY Numbers DEF IInv, TypeOK, ChecksStayValid, WalkInPlace
<1>2. n + 1 \in 1 .. Len(queue) /\ out + (n + 1) - 1 = out + n
  BY <1>1
<1>3. arr[cptr] = queue[n + 1]
  BY <1>1, <1>2 DEF IInv, WindowIsQueue
<1>4. queue[n + 1] \in Values
  BY <1>1, <1>2
<1>5. /\ got' \in Seq(Values) /\ Len(got') = n + 1
      /\ DOMAIN got' = 1 .. (n + 1)
      /\ \A j \in 1 .. n : got'[j] = got[j]
      /\ got'[n + 1] = queue[n + 1]
  BY <1>1, <1>3, <1>4
<1>6. cptr' = SlotOf(out + (n + 1)) /\ cptr' \in Slots
  <2>1. NextSlot(SlotOf(out + n)) = SlotOf(out + n + 1) /\ out + n + 1 = out + (n + 1)
    BY <1>1, NextSlotIsNext
  <2> QED
    BY <1>1, <2>1, SlotType
<1>7. TypeOK'
  <2>1. \A f \in Seq(Values) : f \in [DOMAIN f -> Values \cup {Moved, Torn}]
    OBVIOUS
  <2>2. got' \in [DOMAIN got' -> Values \cup {Moved, Torn}]
    BY <1>5, <2>1
  <2> QED
    BY <1>6, <2>2 DEF IInv, TypeOK
<1>8. CopiesAreFifo'
  <2>1. DOMAIN got = 1 .. n
    BY <1>1
  <2>2. \A j \in 1 .. n : got[j] = queue[j]
    BY <1>1, <2>1 DEF IInv, CopiesAreFifo
  <2>3. \A j \in 1 .. (n + 1) : j \in 1 .. n \/ j = n + 1
    BY <1>1
  <2>4. \A j \in 1 .. (n + 1) : got'[j] = queue[j]
    BY <1>5, <2>2, <2>3
  <2>5. 1 .. (n + 1) \subseteq 1 .. clen
    BY <1>1
  <2> QED
    BY <1>5, <2>4, <2>5 DEF CopiesAreFifo
<1>9. WalkInPlace'
  BY <1>1, <1>5, <1>6 DEF WalkInPlace
<1>10. WindowIsQueue'
  BY <1>1 DEF IInv, WindowIsQueue
<1> QED
  BY <1>7, <1>8, <1>9, <1>10
     DEF IInv, IndexExact, ChecksStayValid, StoredInPlace

(* fifo_.out += n: the window loses its n oldest entries. *)
LEMMA Retires ==
  ASSUME IInv, NEW n \in 1 .. Len(queue), Retire(n),
         cpc = "copy" => DOMAIN got \subseteq 1 .. n
  PROVE  IInv'
<1> USE DEF Retire
<1>1. /\ in \in Index /\ out \in Index /\ out \in Int /\ in \in Int
      /\ queue \in Seq(Values) /\ Len(queue) \in Nat /\ n \in Nat
      /\ n <= Readable(in, out)
  BY Numbers DEF IInv, TypeOK
<1>2. /\ queue' \in Seq(Values)
      /\ Len(queue') = Len(queue) - n
      /\ \A j \in 1 .. Len(queue') : queue'[j] = queue[n + j]
  BY <1>1
<1>3. out' \in Index
  BY <1>1, IndexType
<1>4. TypeOK'
  BY <1>2, <1>3, RingAssumption DEF IInv, TypeOK, Slots
<1>5. IndexExact'
  <2>1. Readable(in, out') = Len(queue')
    BY <1>1, <1>2, Numbers, ReadableAfterRetire
  <2>2. Len(queue') <= Capacity
    BY <1>1, <1>2, Numbers
  <2>3. FreeSpace(in, out') = Capacity - Len(queue')
    BY <1>1, <1>3, <2>1, <2>2, FreeSpaceIsRest
  <2> QED
    BY <2>1, <2>2, <2>3 DEF IndexExact
<1>6. ChecksStayValid'
  <2>1. Len(batch) \in Nat /\ Capacity \in Nat /\ ChecksStayValid
    BY Numbers DEF IInv
  <2>2. UNCHANGED <<ppc, batch>> /\ cpc' = "idle" /\ Len(queue') <= Len(queue)
    BY <1>1, <1>2
  <2> QED
    BY <1>1, <2>1, <2>2 DEF ChecksStayValid
<1>7. StoredInPlace' /\ CopiesAreFifo' /\ WalkInPlace'
  BY DEF IInv, StoredInPlace, CopiesAreFifo, WalkInPlace
<1>8. WindowIsQueue'
  <2> SUFFICES ASSUME NEW j \in 1 .. Len(queue')
               PROVE  arr[SlotOf(out' + j - 1)] = queue'[j]
    BY DEF WindowIsQueue
  <2>1. n + j \in 1 .. Len(queue) /\ j - 1 \in Int
    BY <1>1, <1>2
  <2>2. SlotOf(out' + (j - 1)) = SlotOf(out + n + (j - 1))
    BY <1>1, <2>1, SlotOfPlus
  <2>3. /\ out' + (j - 1) = out' + j - 1
        /\ out + n + (j - 1) = out + (n + j) - 1
    BY <1>1, <1>3, <2>1 DEF Index
  <2>4. ~(cpc = "copy" /\ n + j \in DOMAIN got)
    BY <1>1, <2>1
  <2>5. arr[SlotOf(out + (n + j) - 1)] = queue[n + j]
    BY <2>1, <2>4 DEF IInv, WindowIsQueue
  <2> QED
    BY <1>2, <2>2, <2>3, <2>5
<1> QED
  BY <1>4, <1>5, <1>6, <1>7, <1>8 DEF IInv

(* What a finished copy or walk is about to retire. *)
LEMMA PopDoneRetires ==
  ASSUME IInv, PopDone
  PROVE  clen \in 1 .. Len(queue) /\ DOMAIN got = 1 .. clen
  BY Numbers DEF PopDone, IInv, TypeOK, ChecksStayValid

LEMMA PopDoneStep ==
  ASSUME IInv, PopDone
  PROVE  IInv'
  BY PopDoneRetires, Retires DEF PopDone

LEMMA ConsumeRetires ==
  ASSUME IInv, consume
  PROVE  Len(got) \in 1 .. Len(queue) /\ DOMAIN got = 1 .. Len(got)
<1>1. got \in Seq(Values) /\ got # <<>> /\ cpc # "idle"
  BY DEF consume, IInv, WalkInPlace
<1>2. DOMAIN got = 1 .. Len(got) /\ Len(got) \in Nat \ {0}
  BY <1>1
<1>3. clen \in 1 .. Len(queue) /\ DOMAIN got \subseteq 1 .. clen
  BY <1>1, Numbers DEF IInv, TypeOK, ChecksStayValid, CopiesAreFifo
<1>4. Len(got) \in 1 .. clen
  BY <1>2, <1>3
<1> QED
  BY <1>2, <1>3, <1>4

LEMMA ConsumeStep ==
  ASSUME IInv, consume
  PROVE  IInv'
  BY ConsumeRetires, Retires DEF consume

-----------------------------------------------------------------------------
(* Every step, and standing still, keeps the invariant. *)
LEMMA NextIInv == IInv /\ [Next]_vars => IInv'
<1> SUFFICES ASSUME IInv, [Next]_vars PROVE IInv'
  OBVIOUS
<1>1. CASE Producer
  BY <1>1, TryPushStep, WaitPushStep, FillEndStep, PushStep, StoreBeginStep,
     StoreEndStep, WaitPushAgainStep, PublishStep, ReserveStep, FillBeginStep,
     FinishStep
     DEF Producer
<1>2. CASE Consumer
  <2>1. \A n \in 0 .. MaxBatch : n \in Nat
    BY ValuesAssumption
  <2> QED
    BY <1>2, <2>1, PopStep, PopNStep, PeekStep, CopyOutStep, PopDoneStep,
       PeekReadStep, ConsumeStep
       DEF Consumer
<1>3. CASE UNCHANGED vars
  BY <1>3 DEF vars, IInv, TypeOK, IndexExact, ChecksStayValid, StoredInPlace,
              WindowIsQueue, CopiesAreFifo, WalkInPlace
<1> QED
  BY <1>1, <1>2, <1>3 DEF Next

(***************************************************************************)
(* The inductive invariant holds in every reachable state.                 *)
(***************************************************************************)
THEOREM Invariance == Spec => []IInv
  BY InitIInv, NextIInv, PTL DEF Spec

(* The variables keep their types. *)
THEOREM TypeCorrect == Spec => []TypeOK
<1>1. IInv => TypeOK
  BY DEF IInv
<1> QED
  BY <1>1, Invariance, PTL

(***************************************************************************)
(* Full and empty are told apart exactly, across every wrap of the indices *)
(* (the tests of try_push, reserve_1, pop and peek).                       *)
(***************************************************************************)
THEOREM IndicesExact == Spec => []IndexExact
<1>1. IInv => IndexExact
  BY DEF IInv
<1> QED
  BY <1>1, Invariance, PTL

(***************************************************************************)
(* Acting on a stale load of the other thread's index is safe: the space   *)
(* and the entries seen when a call checks are there when it acts.         *)
(***************************************************************************)
THEOREM StaleChecksAreSafe == Spec => []ChecksStayValid
<1>1. IInv => ChecksStayValid
  BY DEF IInv
<1> QED
  BY <1>1, Invariance, PTL

(* Published slots hold the queue's items, whole and in order. *)
THEOREM WindowHoldsQueue == Spec => []WindowIsQueue
<1>1. IInv => WindowIsQueue
  BY DEF IInv
<1> QED
  BY <1>1, Invariance, PTL

(***************************************************************************)
(* What pop, pop of n and a walk over peeked entries copy out is the       *)
(* oldest items, each whole and at its position.                           *)
(***************************************************************************)
THEOREM ConsumerGetsFifo == Spec => []CopiesAreFifo
<1>1. IInv => CopiesAreFifo
  BY DEF IInv
<1> QED
  BY <1>1, Invariance, PTL

(***************************************************************************)
(* The two threads never touch one slot at the same time: not while a      *)
(* batch is stored, not while reserved space is filled, not while entries  *)
(* are copied out or walked over.                                          *)
(***************************************************************************)
LEMMA IInvDisjoint == IInv => SlotsDisjoint
<1> SUFFICES ASSUME IInv PROVE SlotsDisjoint
  OBVIOUS
<1>1. ProducerSlots \cap Window = {}
  <2>1. CASE ppc = "store"
    BY <2>1, StoreSlot DEF ProducerSlots, Window
  <2>2. CASE ppc = "reserved"
    BY <2>2, ReservedSlot DEF ProducerSlots, Window
  <2>3. CASE ppc \notin {"store", "reserved"}
    BY <2>3 DEF ProducerSlots
  <2> QED
    BY <2>1, <2>2, <2>3
<1>2. ConsumerSlots \subseteq Window
  <2>1. CASE cpc = "copy"
    <3> SUFFICES ASSUME NEW i \in 1 .. clen
                 PROVE  BatchSlot(out, clen, i) \in Window
      BY <2>1 DEF ConsumerSlots
    <3>1. clen \in 1 .. Capacity /\ out \in Index /\ i \in 1 .. Len(queue)
      BY <2>1, Numbers DEF IInv, TypeOK, ChecksStayValid
    <3>2. BatchSlot(out, clen, i) = SlotOf(out + i - 1)
      BY <3>1, BatchIsConsecutive
    <3> QED
      BY <3>1, <3>2 DEF Window
  <2>2. CASE cpc = "peeked" /\ Len(got) < clen
    <3>1. /\ Len(got) + 1 \in 1 .. Len(queue)
          /\ out + (Len(got) + 1) - 1 = out + Len(got)
      BY <2>2, Numbers DEF IInv, TypeOK, ChecksStayValid, WalkInPlace
    <3>2. cptr = SlotOf(out + (Len(got) + 1) - 1)
      BY <2>2, <3>1 DEF IInv, WalkInPlace
    <3> QED
      BY <2>2, <3>1, <3>2 DEF ConsumerSlots, Window
  <2>3. CASE cpc # "copy" /\ ~(cpc = "peeked" /\ Len(got) < clen)
    BY <2>3 DEF ConsumerSlots
  <2> QED
    BY <2>1, <2>2, <2>3
<1> QED
  BY <1>1, <1>2 DEF SlotsDisjoint

THEOREM NoSharedSlot == Spec => []SlotsDisjoint
  BY IInvDisjoint, Invariance, PTL

-----------------------------------------------------------------------------
(***************************************************************************)
(* spsc_queue implements BoundedFifo: the in-between of its operations     *)
(* shows to neither caller.  The item of a push appears in the queue when  *)
(* the index is bumped, the items of a pop disappear when the other one is.*)
(***************************************************************************)


LEMMA FifoInit == Init => Fifo!Init
  BY DEF Init, Fifo!Init

(* While a call is under way its caller has no result to look at. *)
LEMMA ProducerToForgets ==
  ASSUME NEW p, NEW items, NEW indices, ProducerTo(p, items, indices),
         p = "idle" => items = <<>>
  PROVE  Fifo!ForgetAccepted
  BY DEF ProducerTo, consVars, Fifo!ForgetAccepted

LEMMA ConsumerToForgets ==
  ASSUME NEW p, NEW n, NEW s, ConsumerTo(p, n, s)
  PROVE  Fifo!ForgetDelivered
  BY DEF ConsumerTo, prodVars, Fifo!ForgetDelivered

(* Publishing a batch is the abstract push of it. *)
LEMMA PublishEnqueues ==
  ASSUME IInv, Publish \/ finish_1
  PROVE  Fifo!Enqueue(batch) /\ batch \in Fifo!Batches
<1>1. /\ batch \in Seq(Values)
      /\ Len(batch) \in 1 .. Capacity
      /\ Len(queue) + Len(batch) <= Capacity
  <2>1. batch \in Seq(Values) /\ Len(batch) \in Nat
    BY Numbers DEF IInv, TypeOK
  <2>2. CASE Publish
    BY <2>1, <2>2, Numbers DEF Publish, IInv, ChecksStayValid
  <2>3. CASE finish_1
    <3>1. Len(batch) = 1
      BY <2>3 DEF finish_1, IInv, StoredInPlace
    <3>2. Len(queue) + 1 <= Capacity
      BY <2>3 DEF finish_1, IInv, ChecksStayValid
    <3> QED
      BY <2>1, <3>1, <3>2, Numbers
  <2> QED
    BY <2>2, <2>3
<1>2. batch \in [1 .. Len(batch) -> Values]
  BY <1>1
<1>3. batch \in Fifo!Batches
  BY <1>1, <1>2 DEF Fifo!Batches
<1>4. Fifo!Enqueue(batch)
  BY <1>1 DEF Publish, finish_1, consVars, Fifo!Enqueue
<1> QED
  BY <1>3, <1>4

(* Retiring what was copied out is the abstract pop of it. *)
LEMMA RetireDequeues ==
  ASSUME IInv, cpc # "idle", NEW n \in 1 .. Len(queue), DOMAIN got = 1 .. n,
         Retire(n)
  PROVE  Fifo!Dequeue(n)
<1>1. queue \in Seq(Values) /\ n \in Nat /\ n <= Len(queue)
  BY Numbers DEF IInv, TypeOK
<1>2. SubSeq(queue, 1, n) = [i \in 1 .. n |-> queue[i]]
  BY <1>1
<1>3. got = [i \in 1 .. n |-> got[i]]
  BY DEF IInv, TypeOK
<1>4. \A i \in 1 .. n : got[i] = queue[i]
  BY DEF IInv, CopiesAreFifo
<1>5. got = SubSeq(queue, 1, n)
  BY <1>2, <1>3, <1>4
<1> QED
  BY <1>5 DEF Retire, Fifo!Dequeue

LEMMA FifoStep ==
  IInv /\ [Next]_vars => [Fifo!Next]_(Fifo!fifoVars)
<1> SUFFICES ASSUME IInv, [Next]_vars PROVE [Fifo!Next]_(Fifo!fifoVars)
  OBVIOUS
<1>1. ASSUME NEW t \in Values, try_push(t) \/ wait_push(t)
      PROVE  Fifo!ForgetAccepted
  BY <1>1, ProducerToForgets DEF try_push, wait_push, Refuse, Store
<1>2. ASSUME NEW items \in Batches, push(items)
      PROVE  Fifo!ForgetAccepted
  BY <1>2, ProducerToForgets DEF push, Refuse, Store
<1>3. ASSUME \/ wait_push_again \/ try_reserve_1 \/ reserve_1 \/ reserve_1_again
      PROVE  Fifo!ForgetAccepted
  BY <1>3, ProducerToForgets
     DEF wait_push_again, try_reserve_1, reserve_1, reserve_1_again, Refuse, Store
<1>4. ASSUME \/ \E i \in todo : StoreBegin(i) \/ StoreEnd(i)
             \/ FillBegin
             \/ \E t \in Values : FillEnd(t)
      PROVE  UNCHANGED Fifo!fifoVars
  BY <1>4 DEF StoreBegin, StoreEnd, FillBegin, FillEnd, prodVars, consVars,
              Fifo!fifoVars
<1>5. ASSUME Publish \/ finish_1
      PROVE  \E items \in Fifo!Batches : Fifo!Enqueue(items)
  BY <1>5, PublishEnqueues
<1>6. ASSUME NEW n, pop \/ pop_n(n) \/ peek(n)
      PROVE  Fifo!ForgetDelivered
  BY <1>6, ConsumerToForgets DEF pop, pop_n, peek
<1>7. ASSUME PeekRead \/ \E i \in 1 .. clen : CopyOut(i)
      PROVE  UNCHANGED Fifo!fifoVars
  BY <1>7 DEF PeekRead, CopyOut, prodVars, Fifo!fifoVars
<1>8. ASSUME PopDone
      PROVE  \E n \in 1 .. Len(queue) : Fifo!Dequeue(n)
  BY <1>8, PopDoneRetires, RetireDequeues DEF PopDone
<1>9. ASSUME consume
      PROVE  \E n \in 1 .. Len(queue) : Fifo!Dequeue(n)
  BY <1>9, ConsumeRetires, RetireDequeues DEF consume
<1>10. ASSUME UNCHANGED vars PROVE UNCHANGED Fifo!fifoVars
  BY <1>10 DEF vars, Fifo!fifoVars
<1>11. CASE Producer
  BY <1>1, <1>2, <1>3, <1>4, <1>5, <1>11 DEF Producer, Fifo!Next
<1>12. CASE Consumer
  BY <1>6, <1>7, <1>8, <1>9, <1>12 DEF Consumer, Fifo!Next
<1> QED
  BY <1>10, <1>11, <1>12 DEF Next

(***************************************************************************)
(* Every behaviour of the ring, seen through what is published and what    *)
(* finished calls returned, is one of a bounded first-in first-out queue.  *)
(***************************************************************************)
THEOREM Refinement == Spec => FifoSpec
  BY FifoInit, FifoStep, Invariance, PTL DEF Spec, FifoSpec, Fifo!Spec

=============================================================================
