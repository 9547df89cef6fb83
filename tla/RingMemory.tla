----------------------------- MODULE RingMemory -----------------------------
(***************************************************************************)
(* __spsc_queue (include/RingQueue.h) on the memory the program runs on.   *)
(*                                                                         *)
(* RingQueue takes every store to be seen by the other thread at once.  On *)
(* x86 a store waits in the buffer of its thread and reaches memory later, *)
(* in program order; stores made by string or non-temporal instructions,   *)
(* which memcpy may use for the elements, reach it in any order unless an  *)
(* sfence stands between.  Loads are not reordered by the processor, but a *)
(* compiler may move the load of an element ahead of the load of the index *)
(* where no asm statement with a memory clobber stands between them.       *)
(*                                                                         *)
(* So the two threads here share only the arrays and the index words that  *)
(* the buffers have been written to, and the fences do something.  A load  *)
(* of the other's index and what is decided on it is one step, since only  *)
(* the load touches shared memory.                                         *)
(***************************************************************************)
EXTENDS RingIndex, SequencesExt

CONSTANTS
  Values,       \* the payloads
  Moved,        \* a slot whose element was default-built or moved from
  MaxBatch,     \* bound: the largest n given to push, pop and peek
  Calls,        \* the consumer's calls: some of "pop", "pop_n", "peek"
  NonTemporal,  \* may element stores overtake one another?
  MayHoist      \* the calls where the compiler may load elements early

ASSUME MemoryAssumption ==
  /\ Moved \notin Values
  /\ MaxBatch \in Nat
  /\ Calls \subseteq {"pop", "pop_n", "peek"}
  /\ NonTemporal \in BOOLEAN /\ MayHoist \subseteq Calls

VARIABLES
  in, out,          \* each thread's own index, as it sees it
  memIn, memOut,    \* the index words in memory: what the other one loads
  arr,              \* arr_ in memory
  pbuf, cbuf,       \* stores on their way, of the producer and the consumer
  ppc, batch, todo, \* the producer's call, its items, those not yet stored
  cpc, clen, got,   \* the consumer's call, its length, what it copied
  early,            \* elements loaded ahead of the index; <<>> if none
  queue             \* history: items published and not yet retired

prodVars == <<in, ppc, batch, todo>>
consVars == <<out, cpc, clen, got, early>>
memVars == <<memIn, memOut, arr>>
vars == <<memVars, pbuf, cbuf, prodVars, consVars, queue>>

Batches == UNION {[1 .. n -> Values] : n \in 0 .. MaxBatch}

Init ==
  /\ in = 0 /\ out = 0 /\ memIn = 0 /\ memOut = 0
  /\ arr = [s \in Slots |-> Moved]
  /\ pbuf = <<>> /\ cbuf = <<>>
  /\ ppc = "idle" /\ batch = <<>> /\ todo = {}
  /\ cpc = "idle" /\ clen = 0 /\ got = <<>> /\ early = <<>>
  /\ queue = <<>>

-----------------------------------------------------------------------------
(* Store buffers. *)

SlotStore(s, x) == [kind |-> "slot", slot |-> s, item |-> x]
IndexStore(v) == [kind |-> "index", value |-> v]
sfence == [kind |-> "sfence"]

(* The stores to slots that are still in a buffer. *)
PendingSlots(buf) ==
  {buf[k].slot : k \in {j \in DOMAIN buf : buf[j].kind = "slot"}}

\* Variant: the fences are no obstacle.
OrderedUnfenced(e, f) ==
  /\ e.kind = f.kind
  /\ e.kind = "slot" => e.slot = f.slot

(* Does store e, the older one, reach memory before store f? *)
Ordered(e, f) ==
  \/ ~NonTemporal
  \/ "sfence" \in {e.kind, f.kind}
  \/ e.kind = f.kind /\ (e.kind = "slot" => e.slot = f.slot)

MayDrain(buf, k) ==
  /\ buf[k].kind # "sfence"
  /\ \A j \in 1 .. k - 1 : ~Ordered(buf[j], buf[k])

(* The buffer without its k-th store; a fence that became first is over. *)
Without(buf, k) ==
  LET rest == RemoveAt(buf, k)
  IN  IF rest # <<>> /\ Head(rest).kind = "sfence" THEN Tail(rest) ELSE rest

(* A store to a slot reaches memory. *)
WriteSlot(e) == arr' = IF e.kind = "slot" THEN [arr EXCEPT ![e.slot] = e.item]
                                          ELSE arr

DrainProducer(k) ==
  /\ MayDrain(pbuf, k)
  /\ pbuf' = Without(pbuf, k)
  /\ WriteSlot(pbuf[k])
  /\ memIn' = IF pbuf[k].kind = "index" THEN pbuf[k].value ELSE memIn
  /\ UNCHANGED <<memOut, cbuf, prodVars, consVars, queue>>

DrainConsumer(k) ==
  /\ MayDrain(cbuf, k)
  /\ cbuf' = Without(cbuf, k)
  /\ WriteSlot(cbuf[k])
  /\ memOut' = IF cbuf[k].kind = "index" THEN cbuf[k].value ELSE memOut
  /\ UNCHANGED <<memIn, pbuf, prodVars, consVars, queue>>

-----------------------------------------------------------------------------
(* The producer: push, and with one item try_push, wait_push and the pair  *)
(* reserve_1, finish_1, which differ in what they do when there is no room.*)

ProducerTo(p, items) ==
  /\ ppc' = p
  /\ batch' = items
  /\ todo' = IF p = "store" THEN 1 .. Len(items) ELSE {}
  /\ UNCHANGED <<in, memVars, pbuf, cbuf, consVars, queue>>

push(items) ==
  /\ ppc = "idle"
  /\ LET len == min(Len(items), FreeSpace(in, memOut))
     IN  ProducerTo(IF len = 0 THEN "idle" ELSE "store", SubSeq(items, 1, len))

(* wait_push and reserve_1 stay in their loop while the ring looks full. *)
wait_push(t) ==
  /\ ppc = "idle"
  /\ FreeSpace(in, memOut) = 0
  /\ ProducerTo("wait", <<t>>)

\* Variant: the loop never sees the consumer's index move.
wait_push_hoisted ==
  /\ ppc = "wait"
  /\ FALSE
  /\ ProducerTo("store", batch)

wait_push_again ==
  /\ ppc = "wait"
  /\ FreeSpace(in, memOut) # 0
  /\ ProducerTo("store", batch)

(* An element store, in any order. *)
StoreItem(i) ==
  /\ ppc = "store" /\ i \in todo
  /\ pbuf' = Append(pbuf, SlotStore(BatchSlot(in, Len(batch), i), batch[i]))
  /\ todo' = todo \ {i}
  /\ UNCHANGED <<in, ppc, batch, memVars, cbuf, consVars, queue>>

\* Variant: no sfence between the elements and the index.
BumpUnfenced(buf, v) == Append(buf, IndexStore(v))

(* sfence, with nothing to do if the buffer is empty, then the index. *)
Bump(buf, v) ==
  (IF buf = <<>> THEN <<>> ELSE Append(buf, sfence)) \o <<IndexStore(v)>>

Publish ==
  /\ ppc = "store" /\ todo = {}
  /\ in' = Plus(in, Len(batch))
  /\ pbuf' = Bump(pbuf, in')
  /\ ppc' = "idle"
  /\ queue' = queue \o batch
  /\ UNCHANGED <<batch, todo, memVars, cbuf, consVars>>

-----------------------------------------------------------------------------
(* The consumer. *)

(* Some element is loaded before the index is. *)
LoadAhead ==
  /\ MayHoist # {}
  /\ cpc = "idle"
  /\ early' = arr
  /\ UNCHANGED <<out, cpc, clen, got, memVars, pbuf, cbuf, prodVars, queue>>

\* Variant: no lfence in pop(n) either.
SurvivesAnyway(call) == IF call \in MayHoist THEN early ELSE <<>>

(* The lfence of pop(n): nothing loaded before it can be used after it. *)
Survives(call) == IF call \in MayHoist \ {"pop_n"} THEN early ELSE <<>>

\* Variant: the caller's n is taken for the number of entries there are.
TakesAsked(n) == n

(* How many entries a call that asks for n may take. *)
Takes(n) == min(n, Readable(memIn, out))

(* The test of the index. *)
Ask(call, n) ==
  /\ cpc = "idle"
  /\ LET len == Takes(n)
     IN  /\ cpc' = IF len = 0 THEN "idle" ELSE call
         /\ clen' = len
         /\ early' = IF len = 0 THEN <<>> ELSE Survives(call)
  /\ got' = <<>>
  /\ UNCHANGED <<out, memVars, pbuf, cbuf, prodVars, queue>>

(* What a load of slot s returns: the thread sees its own stores first. *)
Loaded(s) == IF s \in PendingSlots(cbuf) THEN {Moved}
             ELSE {arr[s]} \cup IF early = <<>> THEN {} ELSE {early[s]}

(* pop moves the element out: the slot is left moved from, or, with T      *)
(* trivial, alone.  A caller that peeks only reads.                        *)
CopyOut(i) ==
  /\ cpc # "idle" /\ i \in (1 .. clen) \ DOMAIN got
  /\ cpc = "peek" => i = Cardinality(DOMAIN got) + 1
  /\ LET s == BatchSlot(out, clen, i)
     IN  /\ \E x \in Loaded(s) :
              got' = [k \in DOMAIN got \cup {i} |-> IF k = i THEN x ELSE got[k]]
         /\ \/ cbuf' = cbuf
            \/ cpc # "peek" /\ cbuf' = Append(cbuf, SlotStore(s, Moved))
  /\ UNCHANGED <<out, cpc, clen, early, memVars, pbuf, prodVars, queue>>

\* Variant: the slots go back before all of them have been copied.
CopiedSome == cpc # "idle" /\ got # <<>>

(* pop has copied all it may; who peeks may stop after an initial part. *)
Copied ==
  /\ cpc # "idle" /\ got # <<>>
  /\ cpc # "peek" => DOMAIN got = 1 .. clen

(* mfence in pop(n), which waits for the buffer; sfence in pop and consume.*)
Retire ==
  /\ Copied
  /\ cpc = "pop_n" => cbuf = <<>>
  /\ out' = Plus(out, Cardinality(DOMAIN got))
  /\ cbuf' = Bump(cbuf, out')
  /\ cpc' = "idle" /\ clen' = 0 /\ early' = <<>>
  /\ queue' = SubSeq(queue, Cardinality(DOMAIN got) + 1, Len(queue))
  /\ UNCHANGED <<got, memVars, pbuf, prodVars>>

-----------------------------------------------------------------------------
Drain ==
  \/ \E k \in DOMAIN pbuf : DrainProducer(k)
  \/ \E k \in DOMAIN cbuf : DrainConsumer(k)

Producer ==
  \/ \E items \in Batches : push(items)
  \/ \E t \in Values : wait_push(t)
  \/ wait_push_again
  \/ \E i \in todo : StoreItem(i)
  \/ Publish

Consumer ==
  \/ LoadAhead
  \/ \E call \in Calls, n \in 0 .. MaxBatch :
       (call = "pop" => n = 1) /\ Ask(call, n)
  \/ \E i \in 1 .. clen : CopyOut(i)
  \/ Retire

Next == Producer \/ Consumer \/ Drain

Spec == Init /\ [][Next]_vars

(***************************************************************************)
(* A buffered store reaches memory in the end; the consumer thread keeps   *)
(* asking for entries and finishes what it began; a blocked producer keeps *)
(* looking.                                                                *)
(***************************************************************************)
FairSpec ==
  /\ Spec
  /\ WF_vars(Drain)
  /\ WF_vars(wait_push_again)
  /\ \A call \in Calls, n \in 1 .. MaxBatch : WF_vars(Ask(call, n))
  /\ WF_vars(\E i \in 1 .. clen : CopyOut(i))
  /\ WF_vars(Retire)

-----------------------------------------------------------------------------
(* The indices the other thread has not seen yet, in the order it will. *)
Unseen(buf) ==
  {buf[k].value : k \in {j \in DOMAIN buf : buf[j].kind = "index"}}

(***************************************************************************)
(* What a thread loads of the other's index may be old but never wrong in  *)
(* the dangerous direction: the consumer sees at most the entries there    *)
(* are, the producer at most the room there is, and whatever value is      *)
(* still on its way shows no more either.                                  *)
(***************************************************************************)
OldIsSafe ==
  /\ \A v \in {memIn} \cup Unseen(pbuf) : Readable(v, out) <= Len(queue)
  /\ \A v \in {memOut} \cup Unseen(cbuf) :
       FreeSpace(in, v) <= Capacity - Len(queue)

(***************************************************************************)
(* Every element copied is the one that was published at that position: no *)
(* bumped index reaches the consumer ahead of the elements it announces,   *)
(* and no element is used that was loaded before the index was tested.     *)
(***************************************************************************)
CopiesPublished ==
  cpc # "idle" => \A i \in DOMAIN got : got[i] = queue[i]

(***************************************************************************)
(* No two threads are at one slot: while the consumer copies entries, and  *)
(* until the slots it moved from have reached memory as such, no store of  *)
(* the producer to them is on its way or about to be made.                 *)
(***************************************************************************)
NoClobber ==
  LET filling == PendingSlots(pbuf) \cup
                 {BatchSlot(in, Len(batch), i) : i \in todo}
      reading == IF cpc = "idle" THEN {}
                 ELSE {BatchSlot(out, clen, i) : i \in (1 .. clen)}
  IN  filling \cap (reading \cup PendingSlots(cbuf)) = {}

(***************************************************************************)
(* On this memory too the ring is a bounded queue: an item is in it from   *)
(* the instruction that bumps in to the instruction that bumps out.        *)
(***************************************************************************)
Fifo == INSTANCE BoundedFifo WITH
  q         <- queue,
  accepted  <- IF ppc = "idle" THEN batch ELSE <<>>,
  delivered <- IF cpc = "idle" THEN got ELSE <<>>

FifoSpec == Fifo!Spec

(***************************************************************************)
(* A blocked producer gets out of its loop, although it learns of room     *)
(* only when the consumer's store reaches memory.                          *)
(***************************************************************************)
WaitEnds == ppc = "wait" ~> ppc = "store"

=============================================================================
