------------------------------ MODULE SharedQueue ------------------------------
(***************************************************************************)
(* shared_queue<T> of include/shared_queue.h: a queue behind a mutex and a *)
(* condition variable.  A critical section is one step, as everything the  *)
(* threads share is touched under m_ only; the two places where a thread   *)
(* is between critical sections are states of their own: in push, after    *)
(* the unlock and before notify_one, and in wait_and_pop, blocked or woken *)
(* but without the lock.                                                   *)
(*                                                                         *)
(* A definition marked as a variant is a slip that the properties have to  *)
(* notice; no specification uses it.                                       *)
(***************************************************************************)
EXTENDS Naturals, Sequences, FiniteSets

CONSTANTS
  Threads,
  Items,
  None,       \* no item popped
  MaxLen      \* bound: the longest queue

ASSUME SharedQueueAssumption ==
  /\ IsFiniteSet(Threads)
  /\ None \notin Items
  /\ MaxLen \in Nat

VARIABLES
  queue_,
  pc,         \* where each thread is
  popped      \* the item its last pop returned

queueVars == <<queue_, pc, popped>>

Init ==
  /\ queue_ = <<>>
  /\ pc = [t \in Threads |-> "idle"]
  /\ popped = [t \in Threads |-> None]

At(where) == {t \in Threads : pc[t] = where}

\* Variant: the item has been moved from when it is put in the queue.
push_moved(t, item) ==
  /\ pc[t] = "idle"
  /\ Len(queue_) < MaxLen
  /\ queue_' = Append(queue_, None)
  /\ pc' = [pc EXCEPT ![t] = "notify"]
  /\ UNCHANGED popped

push(t, item) ==
  /\ pc[t] = "idle"
  /\ Len(queue_) < MaxLen
  /\ queue_' = Append(queue_, item)
  /\ pc' = [pc EXCEPT ![t] = "notify"]
  /\ UNCHANGED popped

\* Variant: a waiting thread is woken only for the first item.
notify_first(t) ==
  /\ pc[t] = "notify"
  /\ \/ /\ At("waiting") = {} \/ Len(queue_) > 1
        /\ pc' = [pc EXCEPT ![t] = "idle"]
     \/ /\ Len(queue_) <= 1
        /\ \E w \in At("waiting") :
             pc' = [pc EXCEPT ![t] = "idle", ![w] = "woken"]
  /\ UNCHANGED <<queue_, popped>>

(* Wakes one of the threads that wait, if any does; forgotten if not. *)
notify_one(t) ==
  /\ pc[t] = "notify"
  /\ \/ /\ At("waiting") = {}
        /\ pc' = [pc EXCEPT ![t] = "idle"]
     \/ \E w \in At("waiting") :
          pc' = [pc EXCEPT ![t] = "idle", ![w] = "woken"]
  /\ UNCHANGED <<queue_, popped>>

(* front() and pop(), the thread being through with its call. *)
Take(t) ==
  /\ queue_ # <<>>
  /\ popped' = [popped EXCEPT ![t] = Head(queue_)]
  /\ queue_' = Tail(queue_)
  /\ pc' = [pc EXCEPT ![t] = "idle"]

try_and_pop(t) ==
  /\ pc[t] = "idle"
  /\ \/ Take(t)
     \/ /\ queue_ = <<>>
        /\ popped' = [popped EXCEPT ![t] = None]
        /\ UNCHANGED <<queue_, pc>>

(* while (queue_.empty()) data_cond_.wait(lock); gives up the lock as it   *)
(* goes to sleep, in one step.                                             *)
WaitLoop(t) ==
  \/ Take(t)
  \/ /\ queue_ = <<>>
     /\ pc' = [pc EXCEPT ![t] = "waiting"]
     /\ UNCHANGED <<queue_, popped>>

wait_and_pop(t) == pc[t] = "idle" /\ WaitLoop(t)

(* wait() returns to a thread that was notified once it has the lock. *)
Woken(t) == pc[t] = "woken" /\ WaitLoop(t)

(* A condition variable may wake a thread that nobody notified. *)
SpuriousWakeup(t) ==
  /\ pc[t] = "waiting"
  /\ pc' = [pc EXCEPT ![t] = "woken"]
  /\ UNCHANGED <<queue_, popped>>

Next ==
  \E t \in Threads :
    \/ \E item \in Items : push(t, item)
    \/ notify_one(t)
    \/ try_and_pop(t)
    \/ wait_and_pop(t)
    \/ Woken(t)
    \/ SpuriousWakeup(t)

Spec == Init /\ [][Next]_queueVars

-----------------------------------------------------------------------------
(* Types of the variables. *)
QueueTypeOK ==
  /\ queue_ \in Seq(Items) /\ Len(queue_) <= MaxLen
  /\ pc \in [Threads -> {"idle", "notify", "waiting", "woken"}]
  /\ popped \in [Threads -> Items \cup {None}]

(***************************************************************************)
(* notify_one comes after the unlock, wakes one thread, and is forgotten   *)
(* when nobody waits.  Still no thread sleeps on while there is an item    *)
(* for it: every item left has a thread on its way to it, one that has     *)
(* been woken or one about to wake another.                                *)
(***************************************************************************)
NoLostWakeup ==
  At("waiting") # {} =>
    Len(queue_) <= Cardinality(At("notify")) + Cardinality(At("woken"))

=============================================================================
