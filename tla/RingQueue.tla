------------------------------ MODULE RingQueue ------------------------------
(***************************************************************************)
(* spsc_queue<T, capacity> of include/RingQueue.h, one producer thread and *)
(* one consumer thread.                                                    *)
(*                                                                         *)
(* A step is one access to memory the other thread may touch at the same   *)
(* time: a load of the other side's index, a store of one's own, the copy  *)
(* of one element into or out of a slot.  An element is larger than a      *)
(* word, so its store has a beginning, which leaves the slot Torn, and an  *)
(* end.  Each operation loads the other side's index exactly once per try. *)
(*                                                                         *)
(* Steps take effect in program order and are seen at once by the other    *)
(* thread: what the fences of the code are there for.                      *)
(***************************************************************************)
EXTENDS RingIndex, Sequences

CONSTANTS
  Values,     \* the payloads
  Moved,      \* a slot whose element was default-built or moved from
  Torn,       \* a slot whose element is partly stored
  MaxBatch    \* bound: the largest n given to push, pop and peek

ASSUME ValuesAssumption ==
  /\ Moved \notin Values
  /\ Torn \notin Values
  /\ Moved # Torn
  /\ MaxBatch \in Nat

VARIABLES
  in, out,    \* fifo_.in and fifo_.out
  arr,        \* arr_
  ppc,        \* where the producer is in its operation
  batch,      \* the items its call pushes; between calls, what was pushed
  todo,       \* the indices of batch that are not in their slots yet
  cpc,        \* where the consumer is in its operation
  clen,       \* the number of entries its call may take
  cptr,       \* the slot the consumer's walk over peeked entries is at
  got,        \* index -> item, what its call copied out so far
  queue       \* history: items published by the producer, not yet retired

prodVars == <<in, ppc, batch, todo>>
consVars == <<out, cpc, clen, cptr, got>>
vars == <<in, out, arr, ppc, batch, todo, cpc, clen, cptr, got, queue>>

Batches == UNION {[1 .. n -> Values] : n \in 0 .. MaxBatch}

Init ==
  /\ in = 0 /\ out = 0
  /\ arr = [s \in Slots |-> Moved]
  /\ ppc = "idle" /\ batch = <<>> /\ todo = {}
  /\ cpc = "idle" /\ clen = 0 /\ cptr = 0 /\ got = <<>>
  /\ queue = <<>>

-----------------------------------------------------------------------------
(* The producer. *)

Full == FreeSpace(in, out) = 0

(* The producer goes on to p: with items to store, or with none. *)
ProducerTo(p, items, indices) ==
  /\ ppc' = p
  /\ batch' = items
  /\ todo' = indices
  /\ UNCHANGED <<in, arr, consVars, queue>>

Store(items) == ProducerTo("store", items, 1 .. Len(items))

Refuse == ProducerTo("idle", <<>>, {})

try_push(t) ==
  /\ ppc = "idle"
  /\ \/ Full /\ Refuse
     \/ ~Full /\ Store(<<t>>)

(* while (full) spin;  the loop only ends when a load finds space. *)
wait_push(t) ==
  /\ ppc = "idle"
  /\ \/ Full /\ ProducerTo("wait_push", <<t>>, {})
     \/ ~Full /\ Store(<<t>>)

wait_push_again ==
  /\ ppc = "wait_push"
  /\ ~Full
  /\ Store(batch)

push(items) ==
  /\ ppc = "idle"
  /\ LET len == min(Len(items), FreeSpace(in, out))
     IN  \/ len = 0 /\ Refuse
         \/ len # 0 /\ Store(SubSeq(items, 1, len))

(* A batch is copied by memcpy (T trivial) or a loop: any order. *)
StoreBegin(i) ==
  /\ ppc = "store" /\ i \in todo
  /\ LET s == BatchSlot(in, Len(batch), i)
     IN  arr[s] # Torn /\ arr' = [arr EXCEPT ![s] = Torn]
  /\ UNCHANGED <<prodVars, consVars, queue>>

StoreEnd(i) ==
  /\ ppc = "store" /\ i \in todo
  /\ LET s == BatchSlot(in, Len(batch), i)
     IN  arr[s] = Torn /\ arr' = [arr EXCEPT ![s] = batch[i]]
  /\ todo' = todo \ {i}
  /\ UNCHANGED <<in, ppc, batch, consVars, queue>>

\* Variant: the index is bumped while an element is still to be stored.
PublishEarly ==
  /\ ppc = "store"
  /\ in' = Plus(in, Len(batch))
  /\ ppc' = "idle"
  /\ queue' = queue \o batch
  /\ UNCHANGED <<arr, batch, todo, consVars>>

(* ++fifo_.in, fifo->in += len: the entries become the consumer's. *)
Publish ==
  /\ ppc = "store" /\ todo = {}
  /\ in' = Plus(in, Len(batch))
  /\ ppc' = "idle"
  /\ queue' = queue \o batch
  /\ UNCHANGED <<arr, batch, todo, consVars>>

try_reserve_1 ==
  /\ ppc = "idle"
  /\ \/ Full /\ Refuse
     \/ ~Full /\ ProducerTo("reserved", <<>>, {})

reserve_1 ==
  /\ ppc = "idle"
  /\ \/ Full /\ ProducerTo("wait_reserve", <<>>, {})
     \/ ~Full /\ ProducerTo("reserved", <<>>, {})

\* Variant: the blocked producer leaves its loop whatever it finds.
reserve_again_unchecked ==
  /\ ppc = "wait_reserve"
  /\ ProducerTo("reserved", <<>>, {})

reserve_1_again ==
  /\ ppc = "wait_reserve"
  /\ ~Full
  /\ ProducerTo("reserved", <<>>, {})

(* The caller fills the reserved slot through the pointer. *)
FillBegin ==
  /\ ppc = "reserved"
  /\ arr[SlotOf(in)] # Torn
  /\ arr' = [arr EXCEPT ![SlotOf(in)] = Torn]
  /\ batch' = <<>>
  /\ UNCHANGED <<in, ppc, todo, consVars, queue>>

FillEnd(t) ==
  /\ ppc = "reserved"
  /\ arr[SlotOf(in)] = Torn
  /\ arr' = [arr EXCEPT ![SlotOf(in)] = t]
  /\ batch' = <<t>>
  /\ UNCHANGED <<in, ppc, todo, consVars, queue>>

(* finish_1, called by add() once the entry is filled. *)
finish_1 ==
  /\ ppc = "reserved" /\ batch # <<>>
  /\ in' = Plus(in, 1)
  /\ ppc' = "idle"
  /\ queue' = queue \o batch
  /\ UNCHANGED <<arr, batch, todo, consVars>>

-----------------------------------------------------------------------------
(* The consumer. *)

Empty == Readable(in, out) = 0

(* The consumer goes on to p, free to take n entries from slot s on. *)
ConsumerTo(p, n, s) ==
  /\ cpc' = p
  /\ clen' = n
  /\ cptr' = s
  /\ got' = <<>>
  /\ UNCHANGED <<out, arr, prodVars, queue>>

pop ==
  /\ cpc = "idle"
  /\ \/ Empty /\ ConsumerTo("idle", 0, 0)
     \/ ~Empty /\ ConsumerTo("copy", 1, 0)

pop_n(n) ==
  /\ cpc = "idle"
  /\ LET len == min(n, Readable(in, out))
     IN  \/ len = 0 /\ ConsumerTo("idle", 0, 0)
         \/ len # 0 /\ ConsumerTo("copy", len, 0)

(* got with item x at index i. *)
Record(i, x) == [k \in DOMAIN got \cup {i} |-> IF k = i THEN x ELSE got[k]]

(* std::move leaves the slot moved from, or as it was if T is trivial. *)
CopyOut(i) ==
  /\ cpc = "copy" /\ i \in (1 .. clen) \ DOMAIN got
  /\ LET s == BatchSlot(out, clen, i)
     IN  /\ got' = Record(i, arr[s])
         /\ \E left \in {arr[s], Moved} : arr' = [arr EXCEPT ![s] = left]
  /\ UNCHANGED <<out, cpc, clen, cptr, prodVars, queue>>

(* n entries go back to the producer; the walk's pointer is dropped. *)
Retire(n) ==
  /\ out' = Plus(out, n)
  /\ cpc' = "idle"
  /\ clen' = 0
  /\ cptr' = 0
  /\ queue' = SubSeq(queue, n + 1, Len(queue))
  /\ UNCHANGED <<in, arr, ppc, batch, todo, got>>

\* Variant: the slots are given back before they have been copied.
PopDoneEarly ==
  /\ cpc = "copy"
  /\ Retire(clen)

PopDone ==
  /\ cpc = "copy" /\ DOMAIN got = 1 .. clen
  /\ Retire(clen)

(* peek returns where the entries start and how many there are, not how   *)
(* many there are up to the end of the array: the caller wraps.            *)
peek(max) ==
  /\ cpc = "idle"
  /\ LET n == min(max, Readable(in, out))
     IN  \/ n = 0 /\ ConsumerTo("idle", 0, 0)
         \/ n # 0 /\ ConsumerTo("peeked", n, SlotOf(out))

\* Variant: the walk leaves the array instead of wrapping to begin_buf().
PeekReadNoWrap ==
  /\ cpc = "peeked" /\ Len(got) < clen
  /\ got' = Append(got, arr[cptr])
  /\ cptr' = min(cptr + 1, Capacity - 1)
  /\ UNCHANGED <<out, arr, cpc, clen, prodVars, queue>>

PeekRead ==
  /\ cpc = "peeked" /\ Len(got) < clen
  /\ got' = Append(got, arr[cptr])
  /\ cptr' = NextSlot(cptr)
  /\ UNCHANGED <<out, arr, cpc, clen, prodVars, queue>>

(* The caller consumes what it has read, all of it or an initial part. *)
consume ==
  /\ cpc = "peeked" /\ got # <<>>
  /\ Retire(Len(got))

-----------------------------------------------------------------------------
Producer ==
  \/ \E t \in Values : try_push(t) \/ wait_push(t) \/ FillEnd(t)
  \/ \E items \in Batches : push(items)
  \/ \E i \in todo : StoreBegin(i) \/ StoreEnd(i)
  \/ wait_push_again
  \/ Publish
  \/ try_reserve_1 \/ reserve_1 \/ reserve_1_again
  \/ FillBegin
  \/ finish_1

Consumer ==
  \/ pop
  \/ \E n \in 0 .. MaxBatch : pop_n(n) \/ peek(n)
  \/ \E i \in 1 .. clen : CopyOut(i)
  \/ PopDone
  \/ PeekRead
  \/ consume

Next == Producer \/ Consumer

Spec == Init /\ [][Next]_vars

-----------------------------------------------------------------------------
(* Types of the variables. *)
TypeOK ==
  /\ in \in Index /\ out \in Index
  /\ arr \in [Slots -> Values \cup {Moved, Torn}]
  /\ ppc \in {"idle", "wait_push", "store", "wait_reserve", "reserved"}
  /\ batch \in Seq(Values)
  /\ todo \subseteq 1 .. Len(batch)
  /\ cpc \in {"idle", "copy", "peeked"}
  /\ clen \in Nat
  /\ cptr \in Slots
  /\ got \in [DOMAIN got -> Values \cup {Moved, Torn}]
  /\ queue \in Seq(Values)

(* The slots the producer stores into before it publishes. *)
ProducerSlots ==
  CASE ppc = "store"    -> {BatchSlot(in, Len(batch), i) : i \in 1 .. Len(batch)}
    [] ppc = "reserved" -> {SlotOf(in)}
    [] OTHER            -> {}

(* The slots between the two indices. *)
Window == {SlotOf(out + i - 1) : i \in 1 .. Len(queue)}

(* The slots the consumer's call copies from. *)
ConsumerSlots ==
  CASE cpc = "copy"   -> {BatchSlot(out, clen, i) : i \in 1 .. clen}
    [] cpc = "peeked" -> IF Len(got) < clen THEN {cptr} ELSE {}
    [] OTHER          -> {}

(***************************************************************************)
(* The two indices, which wrap at different times, always tell the exact   *)
(* number of entries and of free slots: full is never taken for empty, and *)
(* the tests of try_push, reserve_1 and pop are right across the wrap.     *)
(***************************************************************************)
IndexExact ==
  /\ Len(queue) <= Capacity
  /\ Readable(in, out) = Len(queue)
  /\ FreeSpace(in, out) = Capacity - Len(queue)

(***************************************************************************)
(* A thread acts on a load of the other's index that is stale by the time  *)
(* it acts: the room a push or a reserve saw is still there when it        *)
(* publishes, the entries a pop or a peek saw are there when it copies.    *)
(***************************************************************************)
ChecksStayValid ==
  /\ ppc = "store" => Len(batch) # 0 /\ Len(queue) + Len(batch) <= Capacity
  /\ ppc = "reserved" => Len(queue) + 1 <= Capacity
  /\ cpc # "idle" => clen # 0 /\ clen <= Len(queue)

(***************************************************************************)
(* No slot is touched by both threads: what the producer fills, reserved   *)
(* space included, is invisible to the consumer until it is published, and *)
(* the consumer copies only from the published window.                     *)
(***************************************************************************)
SlotsDisjoint ==
  /\ ProducerSlots \cap Window = {}
  /\ ConsumerSlots \subseteq Window

(***************************************************************************)
(* Every published slot holds, whole, the item pushed at that position,    *)
(* until the consumer copies it out.                                       *)
(***************************************************************************)
WindowIsQueue ==
  \A i \in 1 .. Len(queue) :
    \/ cpc = "copy" /\ i \in DOMAIN got
    \/ arr[SlotOf(out + i - 1)] = queue[i]

(***************************************************************************)
(* Whatever order it copies in, and around the end of the array, the       *)
(* consumer gets the oldest items, each whole and at its own position.     *)
(***************************************************************************)
CopiesAreFifo ==
  cpc # "idle" => /\ DOMAIN got \subseteq 1 .. clen
                  /\ \A i \in DOMAIN got : got[i] = queue[i]

(* What has been stored is at its place, behind the published window. *)
StoredInPlace ==
  /\ ppc = "wait_push" => Len(batch) = 1
  /\ ppc # "store" => todo = {}
  /\ ppc = "store" =>
       \A i \in (1 .. Len(batch)) \ todo : arr[SlotOf(in + i - 1)] = batch[i]
  /\ ppc = "reserved" /\ batch # <<>> =>
       Len(batch) = 1 /\ arr[SlotOf(in)] = batch[1]

(* The walk over peeked entries is where its count of entries says. *)
WalkInPlace ==
  cpc = "peeked" => /\ got \in Seq(Values)
                    /\ cptr = SlotOf(out + Len(got))

(***************************************************************************)
(* The invariant that is inductive.  The two conjuncts above say what a    *)
(* step in the middle of an operation leaves for the step that ends it.    *)
(***************************************************************************)
IInv ==
  /\ TypeOK
  /\ IndexExact
  /\ ChecksStayValid
  /\ StoredInPlace
  /\ WindowIsQueue
  /\ CopiesAreFifo
  /\ WalkInPlace

(***************************************************************************)
(* The ring is a bounded queue: every push adds its batch at one instant,  *)
(* every pop or consume removes and returns the oldest items at one.       *)
(***************************************************************************)
Fifo == INSTANCE BoundedFifo WITH
  q         <- queue,
  accepted  <- IF ppc = "idle" THEN batch ELSE <<>>,
  delivered <- IF cpc = "idle" THEN got ELSE <<>>

FifoSpec == Fifo!Spec

=============================================================================
