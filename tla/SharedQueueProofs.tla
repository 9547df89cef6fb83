--------------------------- MODULE SharedQueueProofs ---------------------------
(***************************************************************************)
(* No wakeup of shared_queue is lost, for every number of threads: each    *)
(* step keeps the count of the threads on their way to an item as large    *)
(* as the queue, or leaves nobody waiting.  Types and that count are       *)
(* inductive together.                                                     *)
(***************************************************************************)
EXTENDS SharedQueue, FiniteSetTheorems, TLAPS

QInv == QueueTypeOK /\ NoLostWakeup

LEMMA InitQInv == Init => QInv
<1> SUFFICES ASSUME Init PROVE QInv
  OBVIOUS
<1>1. QueueTypeOK
  BY SharedQueueAssumption DEF Init, QueueTypeOK
<1>2. At("waiting") = {}
  BY DEF Init, At
<1> QED
  BY <1>1, <1>2 DEF QInv, NoLostWakeup

LEMMA AtFinite ==
  ASSUME NEW where
  PROVE  IsFiniteSet(At(where)) /\ Cardinality(At(where)) \in Nat
<1>1. At(where) \in SUBSET Threads
  BY DEF At
<1> QED
  BY <1>1, FS_Subset, FS_CardinalityType, SharedQueueAssumption

(* A thread moves on; nobody else does. *)
LEMMA Moves ==
  ASSUME QueueTypeOK, NEW t \in Threads, NEW to, pc' = [pc EXCEPT ![t] = to]
  PROVE  \A u \in Threads : pc'[u] = IF u = t THEN to ELSE pc[u]
<1>1. pc \in [Threads -> {"idle", "notify", "waiting", "woken"}]
  BY DEF QueueTypeOK
<1> QED
  BY <1>1

(* A take shortens the queue by one and keeps the types. *)
LEMMA TakeTypes ==
  ASSUME QueueTypeOK, NEW t \in Threads, Take(t)
  PROVE  QueueTypeOK' /\ Len(queue_') = Len(queue_) - 1 /\ Len(queue_) \in Nat
<1>1. /\ queue_ \in Seq(Items) /\ queue_ # <<>> /\ Len(queue_) \in Nat
      /\ queue_' = Tail(queue_)
  BY DEF QueueTypeOK, Take
<1>2. /\ Head(queue_) \in Items
      /\ Tail(queue_) \in Seq(Items)
      /\ Len(Tail(queue_)) = Len(queue_) - 1
  BY <1>1
<1>3. popped' \in [Threads -> Items \cup {None}]
  BY <1>2 DEF QueueTypeOK, Take
<1>4. pc' \in [Threads -> {"idle", "notify", "waiting", "woken"}]
  BY DEF QueueTypeOK, Take
<1>5. Len(queue_') <= MaxLen
  BY <1>1, <1>2, SharedQueueAssumption DEF QueueTypeOK
<1> QED
  BY <1>1, <1>2, <1>3, <1>4, <1>5 DEF QueueTypeOK

LEMMA PushStep ==
  ASSUME QInv, NEW t \in Threads, NEW item \in Items, push(t, item)
  PROVE  QInv'
<1>1. QueueTypeOK'
  <2>1. queue_' \in Seq(Items) /\ Len(queue_') <= MaxLen
    BY SharedQueueAssumption DEF QInv, QueueTypeOK, push
  <2>2. pc' \in [Threads -> {"idle", "notify", "waiting", "woken"}]
    BY DEF QInv, QueueTypeOK, push
  <2> QED
    BY <2>1, <2>2 DEF QInv, QueueTypeOK, push
<1>2. /\ At("notify")' = At("notify") \cup {t} /\ t \notin At("notify")
      /\ At("waiting")' = At("waiting")
      /\ At("woken")' = At("woken")
  <2>1. pc[t] = "idle" /\ pc' = [pc EXCEPT ![t] = "notify"]
    BY DEF push
  <2>2. \A u \in Threads : pc'[u] = IF u = t THEN "notify" ELSE pc[u]
    BY <2>1, Moves DEF QInv
  <2> QED
    BY <2>1, <2>2 DEF At
<1>4. Cardinality(At("notify")') = Cardinality(At("notify")) + 1
  BY <1>2, AtFinite, FS_AddElement
<1>3. Len(queue_') = Len(queue_) + 1 /\ Len(queue_) \in Nat
  BY DEF QInv, QueueTypeOK, push
<1> QED
  BY <1>1, <1>2, <1>3, <1>4, AtFinite DEF QInv, NoLostWakeup

LEMMA NotifyStep ==
  ASSUME QInv, NEW t \in Threads, notify_one(t)
  PROVE  QInv'
<1>1. CASE At("waiting") = {} /\ pc' = [pc EXCEPT ![t] = "idle"]
  <2>1. QueueTypeOK'
    BY <1>1 DEF QInv, QueueTypeOK, notify_one
  <2>2. At("waiting")' = At("waiting")
    <3>1. \A u \in Threads : pc'[u] = IF u = t THEN "idle" ELSE pc[u]
      BY <1>1, Moves DEF QInv
    <3> QED
      BY <3>1 DEF At, notify_one
  <2> QED
    BY <1>1, <2>1, <2>2 DEF QInv, NoLostWakeup
<1>2. ASSUME NEW w \in At("waiting"),
             pc' = [pc EXCEPT ![t] = "idle", ![w] = "woken"]
      PROVE  QInv'
  <2>1. QueueTypeOK'
    BY <1>2 DEF QInv, QueueTypeOK, notify_one
  <2>2. /\ pc \in [Threads -> {"idle", "notify", "waiting", "woken"}]
        /\ pc[t] = "notify" /\ w \in Threads /\ pc[w] = "waiting"
    BY <1>2 DEF QInv, QueueTypeOK, notify_one, At
  <2>3. \A u \in Threads : pc'[u] = IF u = t THEN "idle"
                                    ELSE IF u = w THEN "woken" ELSE pc[u]
    BY <1>2, <2>2
  <2>4. At("notify")' = At("notify") \ {t} /\ t \in At("notify")
    BY <2>2, <2>3 DEF At
  <2>5. At("woken")' = At("woken") \cup {w} /\ w \notin At("woken")
    BY <2>2, <2>3 DEF At
  <2>6. Cardinality(At("notify")') = Cardinality(At("notify")) - 1
    BY <2>4, AtFinite, FS_RemoveElement
  <2>7. Cardinality(At("woken")') = Cardinality(At("woken")) + 1
    BY <2>5, AtFinite, FS_AddElement
  <2>8. Len(queue_) <= Cardinality(At("notify")) + Cardinality(At("woken"))
    BY <1>2 DEF QInv, NoLostWakeup
  <2>9. queue_' = queue_ /\ Len(queue_) \in Nat
    BY DEF QInv, QueueTypeOK, notify_one
  <2> QED
    BY <2>1, <2>6, <2>7, <2>8, <2>9, AtFinite DEF QInv, NoLostWakeup
<1> QED
  BY <1>1, <1>2 DEF notify_one

(* A thread outside any call, or a woken one, takes the first item. *)
LEMMA TakeStep ==
  ASSUME QInv, NEW t \in Threads, pc[t] \in {"idle", "woken"}, Take(t)
  PROVE  QInv'
<1>1. QueueTypeOK' /\ Len(queue_') = Len(queue_) - 1 /\ Len(queue_) \in Nat
  BY TakeTypes DEF QInv
<1>3. CASE pc[t] = "idle"
  <2>1. pc' = pc
    BY <1>3 DEF QInv, QueueTypeOK, Take
  <2>2. \A where : At(where)' = At(where)
    BY <2>1 DEF At
  <2> QED
    BY <1>1, <2>2, AtFinite DEF QInv, NoLostWakeup
<1>4. CASE pc[t] = "woken"
  <2>1. /\ At("woken")' = At("woken") \ {t} /\ t \in At("woken")
        /\ At("waiting")' = At("waiting")
        /\ At("notify")' = At("notify")
    <3>1. \A u \in Threads : pc'[u] = IF u = t THEN "idle" ELSE pc[u]
      BY Moves DEF QInv, Take
    <3> QED
      BY <1>4, <3>1 DEF At
  <2>2. Cardinality(At("woken")') = Cardinality(At("woken")) - 1
    BY <2>1, AtFinite, FS_RemoveElement
  <2> QED
    BY <1>1, <2>1, <2>2, AtFinite DEF QInv, NoLostWakeup
<1> QED
  BY <1>3, <1>4

LEMMA WaitLoopStep ==
  ASSUME QInv, NEW t \in Threads, pc[t] \in {"idle", "woken"}, WaitLoop(t)
  PROVE  QInv'
<1>1. CASE Take(t)
  BY <1>1, TakeStep
<1>2. CASE queue_ = <<>> /\ queue_' = queue_
  <2>1. QueueTypeOK'
    BY <1>2 DEF QInv, QueueTypeOK, WaitLoop, Take
  <2>2. Len(queue_') = 0
    BY <1>2
  <2>3. Cardinality(At("notify")') \in Nat /\ Cardinality(At("woken")') \in Nat
    <3>1. At("notify")' \in SUBSET Threads /\ At("woken")' \in SUBSET Threads
      BY DEF At
    <3> QED
      BY <3>1, FS_Subset, FS_CardinalityType, SharedQueueAssumption
  <2> QED
    BY <2>1, <2>2, <2>3 DEF QInv, NoLostWakeup
<1> QED
  BY <1>1, <1>2 DEF WaitLoop

LEMMA TryStep ==
  ASSUME QInv, NEW t \in Threads, try_and_pop(t)
  PROVE  QInv'
<1>1. CASE Take(t)
  BY <1>1, TakeStep DEF try_and_pop
<1>2. CASE popped' = [popped EXCEPT ![t] = None] /\ UNCHANGED <<queue_, pc>>
  <2>1. QueueTypeOK'
    BY <1>2 DEF QInv, QueueTypeOK
  <2> QED
    BY <1>2, <2>1 DEF QInv, NoLostWakeup, At
<1> QED
  BY <1>1, <1>2 DEF try_and_pop

LEMMA SpuriousStep ==
  ASSUME QInv, NEW t \in Threads, SpuriousWakeup(t)
  PROVE  QInv'
<1>1. QueueTypeOK'
  BY DEF QInv, QueueTypeOK, SpuriousWakeup
<1>2. /\ At("woken")' = At("woken") \cup {t} /\ t \notin At("woken")
      /\ At("notify")' = At("notify")
  <2>1. pc[t] = "waiting" /\ pc' = [pc EXCEPT ![t] = "woken"]
    BY DEF SpuriousWakeup
  <2>2. \A u \in Threads : pc'[u] = IF u = t THEN "woken" ELSE pc[u]
    BY <2>1, Moves DEF QInv
  <2> QED
    BY <2>1, <2>2 DEF At
<1>4. Cardinality(At("woken")') = Cardinality(At("woken")) + 1
  BY <1>2, AtFinite, FS_AddElement
<1>3. At("waiting") # {} /\ queue_' = queue_ /\ Len(queue_) \in Nat
  BY DEF SpuriousWakeup, At, QInv, QueueTypeOK
<1> QED
  BY <1>1, <1>2, <1>3, <1>4, AtFinite DEF QInv, NoLostWakeup

LEMMA NextQInv == QInv /\ [Next]_queueVars => QInv'
<1> SUFFICES ASSUME QInv, [Next]_queueVars PROVE QInv'
  OBVIOUS
<1>1. ASSUME NEW t \in Threads, NEW item \in Items, push(t, item) PROVE QInv'
  BY <1>1, PushStep
<1>2. ASSUME NEW t \in Threads, notify_one(t) PROVE QInv'
  BY <1>2, NotifyStep
<1>3. ASSUME NEW t \in Threads, try_and_pop(t) PROVE QInv'
  BY <1>3, TryStep
<1>4. ASSUME NEW t \in Threads, wait_and_pop(t) PROVE QInv'
  BY <1>4, WaitLoopStep DEF wait_and_pop
<1>5. ASSUME NEW t \in Threads, Woken(t) PROVE QInv'
  BY <1>5, WaitLoopStep DEF Woken
<1>6. ASSUME NEW t \in Threads, SpuriousWakeup(t) PROVE QInv'
  BY <1>6, SpuriousStep
<1>7. CASE UNCHANGED queueVars
  BY <1>7 DEF queueVars, QInv, QueueTypeOK, NoLostWakeup, At
<1> QED
  BY <1>1, <1>2, <1>3, <1>4, <1>5, <1>6, <1>7 DEF Next

(***************************************************************************)
(* push notifies after the unlock, and only one thread: still none sleeps  *)
(* on next to an item that no other thread is coming for.                  *)
(***************************************************************************)
THEOREM WakeupsSuffice == Spec => []NoLostWakeup
<1>1. QInv => NoLostWakeup
  BY DEF QInv
<1> QED
  BY <1>1, InitQInv, NextQInv, PTL DEF Spec

(* The variables of the queue keep their types. *)
THEOREM QueueTypeCorrect == Spec => []QueueTypeOK
<1>1. QInv => QueueTypeOK
  BY DEF QInv
<1> QED
  BY <1>1, InitQInv, NextQInv, PTL DEF Spec

=============================================================================
