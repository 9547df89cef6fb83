---------------------------- MODULE ActiveProofs ----------------------------
(***************************************************************************)
(* Active implements Actor, for any number of senders, any callbacks and   *)
(* any bounds: each callback runs once, in the order of the sends, and the *)
(* destructor returns after its own message has been run.                  *)
(***************************************************************************)
EXTENDS Active, SequenceTheorems, TLAPS

USE ActiveAssumption

Held == IF runpc = "call" THEN 1 ELSE 0

(***************************************************************************)
(* What has been sent has been run, is in the hands of the worker, or is   *)
(* in mq_, in this order.                                                  *)
(***************************************************************************)
InOrder ==
  /\ Len(sent) = Len(ran) + Held + Len(queue_)
  /\ \A i \in 1 .. Len(ran) : sent[i] = ran[i]
  /\ runpc = "call" => sent[Len(ran) + 1] = popped[Worker]
  /\ \A i \in 1 .. Len(queue_) : sent[Len(ran) + Held + i] = queue_[i]

(* done_ is the work of the quit message, the last that is run, and run()  *)
(* and the destructor end by it.                                           *)
EndsByQuit ==
  /\ done_ <=> ran # <<>> /\ ran[Len(ran)] = Quit
  /\ runpc \in {"call", "return"} => ~done_
  /\ runpc = "end" \/ life = "gone" => done_

(* Between two calls nothing is left of the callback before. *)
FuncIsEmpty == runpc = "while" => popped[Worker] = None

AInv == TypeOK /\ InOrder /\ EndsByQuit /\ FuncIsEmpty

LEMMA ItemsAndThreads ==
  /\ Worker \in Threads /\ Owner \in Threads /\ Senders \subseteq Threads
  /\ Callbacks \subseteq Items /\ Quit \in Items /\ None \notin Items
  BY DEF Threads, Items

LEMMA InvInitially == Init => AInv
<1> SUFFICES ASSUME Init PROVE AInv
  OBVIOUS
<1>1. /\ queue_ = <<>> /\ pc = [t \in Threads |-> "idle"]
      /\ popped = [t \in Threads |-> None]
      /\ sent = <<>> /\ ran = <<>>
  BY DEF Init, mq_!Init
<1>2. TypeOK
  <2>1. mq_!QueueTypeOK
    BY <1>1 DEF mq_!QueueTypeOK
  <2>2. sends \in [Senders -> 0 .. MaxSends]
    BY DEF Init
  <2>3. done_ \in BOOLEAN /\ runpc = "while" /\ life = "alive"
    BY DEF Init
  <2>4. sent \in Seq(Items) /\ ran \in Seq(Items)
    BY <1>1
  <2> QED
    BY <2>1, <2>2, <2>3, <2>4 DEF TypeOK
<1>3. InOrder /\ EndsByQuit /\ FuncIsEmpty
  BY <1>1, ItemsAndThreads DEF Init, InOrder, Held, EndsByQuit, FuncIsEmpty
<1> QED
  BY <1>2, <1>3 DEF AInv

(* What a push puts into mq_ and what is sent grow together. *)
LEMMA PushAppends ==
  ASSUME AInv, NEW t \in Threads, NEW c \in Items, mq_!push(t, c),
         sent' = Append(sent, c)
  PROVE  /\ mq_!QueueTypeOK' /\ sent' \in Seq(Items)
         /\ Len(sent') = Len(sent) + 1 /\ Len(queue_') = Len(queue_) + 1
         /\ \A i \in 1 .. Len(sent) : sent'[i] = sent[i]
         /\ \A i \in 1 .. Len(queue_) : queue_'[i] = queue_[i]
         /\ sent'[Len(sent) + 1] = c /\ queue_'[Len(queue_) + 1] = c
         /\ popped' = popped
         /\ Len(sent) \in Nat /\ Len(queue_) \in Nat
<1>1. /\ sent \in Seq(Items) /\ queue_ \in Seq(Items)
      /\ pc \in [Threads -> {"idle", "notify", "waiting", "woken"}]
      /\ popped \in [Threads -> Items \cup {None}]
  BY DEF AInv, TypeOK, mq_!QueueTypeOK
<1>2. /\ queue_' = Append(queue_, c) /\ Len(queue_) < MaxLen
      /\ pc' = [pc EXCEPT ![t] = "notify"] /\ popped' = popped
  BY DEF mq_!push
<1>3. sent' \in Seq(Items) /\ queue_' \in Seq(Items)
  BY <1>1, <1>2
<1>4. /\ Len(sent') = Len(sent) + 1 /\ Len(queue_') = Len(queue_) + 1
      /\ Len(sent) \in Nat /\ Len(queue_) \in Nat
  BY <1>1, <1>2
<1> QED
  BY <1>1, <1>2, <1>3, <1>4 DEF mq_!QueueTypeOK

LEMMA SendsStep ==
  ASSUME AInv, NEW t \in Threads, NEW c \in Items, mq_!push(t, c),
         sent' = Append(sent, c), UNCHANGED <<done_, runpc, ran>>,
         life' = life \/ life' = "joining", sends' \in [Senders -> 0 .. MaxSends]
  PROVE  AInv'
<1> DEFINE m == Len(ran) + Held
<1>1. /\ Len(sent') = Len(sent) + 1 /\ Len(queue_') = Len(queue_) + 1
      /\ \A i \in 1 .. Len(sent) : sent'[i] = sent[i]
      /\ \A i \in 1 .. Len(queue_) : queue_'[i] = queue_[i]
      /\ sent'[Len(sent) + 1] = c /\ queue_'[Len(queue_) + 1] = c
      /\ popped' = popped
      /\ Len(sent) \in Nat /\ Len(queue_) \in Nat
  BY PushAppends
<1>2. TypeOK'
  BY PushAppends DEF AInv, TypeOK
<1>3. Held' = Held /\ Held \in {0, 1} /\ Len(ran) \in Nat /\ ran \in Seq(Items)
  BY DEF Held, AInv, TypeOK
<1>4. /\ Len(sent) = m + Len(queue_)
      /\ \A i \in 1 .. Len(ran) : sent[i] = ran[i]
      /\ runpc = "call" => sent[Len(ran) + 1] = popped[Worker]
      /\ \A i \in 1 .. Len(queue_) : sent[m + i] = queue_[i]
  BY DEF AInv, InOrder
<1>5. InOrder'
  <2>1. Len(sent') = m + Len(queue_')
    BY <1>1, <1>3, <1>4
  <2>2. \A i \in 1 .. Len(ran) : sent'[i] = ran[i]
    BY <1>1, <1>3, <1>4
  <2>3. runpc = "call" => sent'[Len(ran) + 1] = popped'[Worker]
    BY <1>1, <1>3, <1>4 DEF Held
  <2>4. \A i \in 1 .. Len(queue_') : sent'[m + i] = queue_'[i]
    <3> TAKE i \in 1 .. Len(queue_')
    <3>1. CASE i = Len(queue_) + 1
      BY <3>1, <1>1, <1>3, <1>4
    <3>2. CASE i \in 1 .. Len(queue_)
      BY <3>2, <1>1, <1>3, <1>4, m + i \in 1 .. Len(sent)
    <3>3. i = Len(queue_) + 1 \/ i \in 1 .. Len(queue_)
      BY <1>1
    <3> QED
      BY <3>1, <3>2, <3>3
  <2> QED
    BY <2>1, <2>2, <2>3, <2>4, <1>3 DEF InOrder
<1>6. EndsByQuit' /\ FuncIsEmpty'
  BY <1>1 DEF AInv, EndsByQuit, FuncIsEmpty
<1> QED
  BY <1>2, <1>5, <1>6 DEF AInv

(* Steps of the condition variable move threads only. *)
LEMMA PcStep ==
  ASSUME AInv, pc' \in [Threads -> {"idle", "notify", "waiting", "woken"}],
         UNCHANGED <<queue_, popped, done_, runpc, life, sends, sent, ran>>
  PROVE  AInv'
  BY DEF AInv, TypeOK, mq_!QueueTypeOK, InOrder, Held, EndsByQuit, FuncIsEmpty

LEMMA NotifyStep == ASSUME AInv, NEW t \in Threads, Notify(t) PROVE AInv'
<1>1. pc' \in [Threads -> {"idle", "notify", "waiting", "woken"}]
  BY DEF AInv, TypeOK, mq_!QueueTypeOK, Notify, mq_!notify_one, mq_!At
<1>2. UNCHANGED <<queue_, popped, done_, runpc, life, sends, sent, ran>>
  BY DEF Notify, mq_!notify_one
<1> QED
  BY <1>1, <1>2, PcStep

LEMMA SpuriousStep == ASSUME AInv, SpuriousWakeup PROVE AInv'
<1>1. /\ pc' \in [Threads -> {"idle", "notify", "waiting", "woken"}]
      /\ UNCHANGED <<queue_, popped, done_, runpc, life, sends, sent, ran>>
  BY ItemsAndThreads
     DEF AInv, TypeOK, mq_!QueueTypeOK, SpuriousWakeup, mq_!SpuriousWakeup
<1> QED
  BY <1>1, PcStep

LEMMA WaitAndPopStep == ASSUME AInv, WaitAndPop PROVE AInv'
<1>1. /\ queue_ \in Seq(Items) /\ Len(queue_) \in Nat /\ Len(queue_) <= MaxLen
      /\ pc \in [Threads -> {"idle", "notify", "waiting", "woken"}]
      /\ popped \in [Threads -> Items \cup {None}]
      /\ runpc = "while" /\ ~done_ /\ popped[Worker] = None
      /\ Held = 0 /\ ran \in Seq(Items) /\ Len(ran) \in Nat
  BY DEF AInv, TypeOK, mq_!QueueTypeOK, FuncIsEmpty, Held, WaitAndPop
<1>2. UNCHANGED <<done_, life, sends, sent, ran>>
  BY DEF WaitAndPop
<1>3. CASE mq_!Take(Worker)
  <2>1. /\ queue_ # <<>> /\ Head(queue_) = queue_[1] /\ queue_[1] \in Items
        /\ queue_' = Tail(queue_) /\ queue_' \in Seq(Items)
        /\ Len(queue_') = Len(queue_) - 1 /\ Len(queue_) >= 1
        /\ \A i \in 1 .. Len(queue_') : queue_'[i] = queue_[i + 1]
    BY <1>1, <1>3 DEF mq_!Take
  <2>2. /\ pc' = [pc EXCEPT ![Worker] = "idle"]
        /\ popped' = [popped EXCEPT ![Worker] = queue_[1]]
        /\ popped'[Worker] = queue_[1]
    BY <1>1, <1>3, <2>1, ItemsAndThreads DEF mq_!Take
  <2>3. runpc' = "call" /\ Held' = 1
    BY <2>1, <2>2, ItemsAndThreads DEF WaitAndPop, Held
  <2>4. TypeOK'
    BY <1>1, <1>2, <2>1, <2>2, <2>3, ItemsAndThreads
       DEF AInv, TypeOK, mq_!QueueTypeOK
  <2>5. InOrder'
    <3>1. /\ Len(sent) = Len(ran) + Len(queue_)
          /\ \A i \in 1 .. Len(ran) : sent[i] = ran[i]
          /\ \A i \in 1 .. Len(queue_) : sent[Len(ran) + i] = queue_[i]
      BY <1>1 DEF AInv, InOrder
    <3>2. \A i \in 1 .. Len(queue_') : sent[Len(ran) + 1 + i] = queue_'[i]
      <4> TAKE i \in 1 .. Len(queue_')
      <4>1. i + 1 \in 1 .. Len(queue_) /\ Len(ran) + (i + 1) = Len(ran) + 1 + i
        BY <1>1, <2>1
      <4> QED
        BY <4>1, <3>1, <2>1
    <3>3. sent[Len(ran) + 1] = queue_[1]
      BY <1>1, <2>1, <3>1
    <3>4. Len(sent') = Len(ran') + 1 + Len(queue_')
      BY <1>1, <1>2, <2>1, <3>1
    <3> QED
      BY <1>2, <2>2, <2>3, <3>1, <3>2, <3>3, <3>4 DEF InOrder
  <2> QED
    BY <1>1, <1>2, <2>3, <2>4, <2>5 DEF AInv, EndsByQuit, FuncIsEmpty
<1>4. CASE UNCHANGED <<queue_, popped>> /\ pc' = [pc EXCEPT ![Worker] = "waiting"]
  <2>1. UNCHANGED runpc
    BY <1>1, <1>4 DEF WaitAndPop
  <2> QED
    BY <1>1, <1>2, <1>4, <2>1, PcStep, ItemsAndThreads
<1> QED
  BY <1>3, <1>4 DEF WaitAndPop, mq_!wait_and_pop, mq_!Woken, mq_!WaitLoop

(* The callback in hand joins what has been run, *)
LEMMA Runs ==
  ASSUME AInv, runpc = "call", ran' = Append(ran, popped[Worker])
  PROVE  /\ popped[Worker] \in Items
         /\ ran \in Seq(Items) /\ ran' \in Seq(Items)
         /\ Len(ran) \in Nat /\ Len(ran') = Len(ran) + 1
         /\ \A i \in 1 .. Len(ran) : ran'[i] = ran[i]
         /\ ran'[Len(ran) + 1] = popped[Worker]
         /\ ~done_
         /\ Len(ran) < Len(sent) /\ popped[Worker] = sent[Len(ran) + 1]
<1>1. popped[Worker] \in Items /\ ran \in Seq(Items) /\ ~done_
  BY DEF AInv, TypeOK, EndsByQuit
<1>2. Len(ran) < Len(sent) /\ popped[Worker] = sent[Len(ran) + 1]
  BY DEF AInv, TypeOK, mq_!QueueTypeOK, InOrder, Held
<1> QED
  BY <1>1, <1>2

LEMMA CallStep == ASSUME AInv, Call PROVE AInv'
<1>1. /\ runpc = "call" /\ runpc' = "while"
      /\ ran' = Append(ran, popped[Worker])
      /\ popped' = [popped EXCEPT ![Worker] = None]
      /\ done_' = (popped[Worker] = Quit)
      /\ UNCHANGED <<queue_, pc, life, sends, sent>>
  BY DEF Call
<1>2. /\ ran' \in Seq(Items) /\ Len(ran) \in Nat /\ Len(ran') = Len(ran) + 1
      /\ \A i \in 1 .. Len(ran) : ran'[i] = ran[i]
      /\ ran'[Len(ran) + 1] = popped[Worker]
      /\ Held = 1 /\ Held' = 0 /\ ~done_
  BY <1>1, Runs DEF Held
<1>3. popped' \in [Threads -> Items \cup {None}] /\ popped'[Worker] = None
  BY <1>1, ItemsAndThreads DEF AInv, TypeOK, mq_!QueueTypeOK
<1>4. done_' \in BOOLEAN
  BY <1>1
<1>5. TypeOK'
  BY <1>1, <1>2, <1>3, <1>4 DEF AInv, TypeOK, mq_!QueueTypeOK
<1>6. InOrder'
  BY <1>1, <1>2 DEF AInv, InOrder
<1>7. EndsByQuit'
  <2>1. ran' # <<>> /\ ran'[Len(ran')] = popped[Worker]
    BY <1>2
  <2>2. life' # "gone"
    BY <1>1, <1>2 DEF AInv, EndsByQuit
  <2> QED
    BY <1>1, <2>1, <2>2 DEF EndsByQuit
<1> QED
  BY <1>3, <1>5, <1>6, <1>7 DEF AInv, FuncIsEmpty

LEMMA CallSendsStep == ASSUME AInv, CallSends PROVE AInv'
<1> DEFINE c == FollowUp[popped[Worker]]
<1>1. /\ runpc = "call" /\ runpc' = "return"
      /\ popped[Worker] # Quit /\ c # None
      /\ mq_!push(Worker, c)
      /\ sent' = Append(sent, c)
      /\ ran' = Append(ran, popped[Worker])
      /\ UNCHANGED <<done_, life, sends>>
  BY DEF CallSends, SendsOne
<1>2. popped[Worker] \in Items /\ Len(ran) < Len(sent)
      /\ popped[Worker] = sent[Len(ran) + 1]
  BY <1>1, Runs
<1>3. c \in Callbacks /\ c \in Items
  BY <1>1, <1>2 DEF Items
<1>4. /\ ran' \in Seq(Items) /\ Len(ran) \in Nat /\ Len(ran') = Len(ran) + 1
      /\ \A i \in 1 .. Len(ran) : ran'[i] = ran[i]
      /\ ran'[Len(ran) + 1] = popped[Worker]
      /\ Held = 1 /\ Held' = 0 /\ ~done_
  BY <1>1, Runs DEF Held
<1>5. /\ Len(sent') = Len(sent) + 1 /\ Len(queue_') = Len(queue_) + 1
      /\ \A i \in 1 .. Len(sent) : sent'[i] = sent[i]
      /\ \A i \in 1 .. Len(queue_) : queue_'[i] = queue_[i]
      /\ sent'[Len(sent) + 1] = c /\ queue_'[Len(queue_) + 1] = c
      /\ popped' = popped
      /\ Len(sent) \in Nat /\ Len(queue_) \in Nat
  BY <1>1, <1>3, PushAppends, ItemsAndThreads
<1>6. TypeOK'
  <2>1. mq_!QueueTypeOK' /\ sent' \in Seq(Items)
    BY <1>1, <1>3, PushAppends, ItemsAndThreads
  <2> QED
    BY <1>1, <1>4, <2>1 DEF AInv, TypeOK
<1>7. InOrder'
  <2>1. /\ Len(sent) = Len(ran) + 1 + Len(queue_)
        /\ \A i \in 1 .. Len(ran) : sent[i] = ran[i]
        /\ \A i \in 1 .. Len(queue_) : sent[Len(ran) + 1 + i] = queue_[i]
    BY <1>4 DEF AInv, InOrder
  <2>2. \A i \in 1 .. Len(ran') : sent'[i] = ran'[i]
    BY <1>2, <1>4, <1>5, <2>1
  <2>3. \A i \in 1 .. Len(queue_') : sent'[Len(ran') + i] = queue_'[i]
    <3> TAKE i \in 1 .. Len(queue_')
    <3>1. CASE i = Len(queue_) + 1
      BY <3>1, <1>4, <1>5, <2>1
    <3>2. CASE i \in 1 .. Len(queue_)
      BY <3>2, <1>4, <1>5, <2>1, Len(ran) + 1 + i \in 1 .. Len(sent)
    <3>3. i = Len(queue_) + 1 \/ i \in 1 .. Len(queue_)
      BY <1>5
    <3> QED
      BY <3>1, <3>2, <3>3
  <2>4. Len(sent') = Len(ran') + 0 + Len(queue_')
    BY <1>4, <1>5, <2>1
  <2>5. \A i \in 1 .. Len(queue_') : sent'[Len(ran') + 0 + i] = queue_'[i]
    BY <1>4, <2>3
  <2> QED
    BY <1>1, <1>4, <2>2, <2>4, <2>5 DEF InOrder
<1>8. EndsByQuit'
  <2>1. ran' # <<>> /\ ran'[Len(ran')] = popped[Worker]
    BY <1>4
  <2> QED
    BY <1>1, <1>4, <2>1 DEF AInv, EndsByQuit
<1> QED
  BY <1>1, <1>6, <1>7, <1>8 DEF AInv, FuncIsEmpty

LEMMA CallReturnsStep == ASSUME AInv, CallReturns PROVE AInv'
<1>1. popped' \in [Threads -> Items \cup {None}] /\ popped'[Worker] = None
  BY ItemsAndThreads DEF CallReturns, AInv, TypeOK, mq_!QueueTypeOK
<1>2. TypeOK'
  BY <1>1 DEF CallReturns, AInv, TypeOK, mq_!QueueTypeOK
<1>3. InOrder'
  BY DEF CallReturns, AInv, InOrder, Held
<1> QED
  BY <1>1, <1>2, <1>3 DEF CallReturns, AInv, EndsByQuit, FuncIsEmpty

LEMMA EndsStep == ASSUME AInv, RunEnds \/ Join PROVE AInv'
  BY DEF RunEnds, Join, AInv, TypeOK, mq_!QueueTypeOK, InOrder, Held, EndsByQuit,
         FuncIsEmpty

LEMMA InvStep == AInv /\ [Next]_vars => AInv'
<1> SUFFICES ASSUME AInv, [Next]_vars PROVE AInv'
  OBVIOUS
<1>1. ASSUME NEW t \in Senders, NEW c \in Callbacks, send(t, c) PROVE AInv'
  <2>1. sends' \in [Senders -> 0 .. MaxSends]
    BY <1>1 DEF send, AInv, TypeOK
  <2> QED
    BY <1>1, <2>1, SendsStep, ItemsAndThreads DEF send
<1>2. CASE Destroy
  <2>1. sends' \in [Senders -> 0 .. MaxSends]
    BY <1>2 DEF Destroy, AInv, TypeOK
  <2> QED
    BY <1>2, <2>1, SendsStep, ItemsAndThreads DEF Destroy
<1>3. CASE UNCHANGED vars
  BY <1>3 DEF vars, AInv, TypeOK, mq_!QueueTypeOK, InOrder, Held, EndsByQuit,
              FuncIsEmpty
<1>4. CASE Gone
  BY <1>3, <1>4 DEF Gone
<1> QED
  BY <1>1, <1>2, <1>3, <1>4, NotifyStep, SpuriousStep, WaitAndPopStep, CallStep,
     CallSendsStep, CallReturnsStep, EndsStep, ItemsAndThreads
     DEF Next, RunThread

THEOREM ActiveInvariance == Spec => []AInv
  BY InvInitially, InvStep, PTL DEF Spec

(* The variables of Active and of its queue keep their types. *)
THEOREM ActiveTypeCorrect == Spec => []TypeOK
<1>1. AInv => TypeOK
  BY DEF AInv
<1> QED
  BY <1>1, ActiveInvariance, PTL

-----------------------------------------------------------------------------
LEMMA ActorInitially == Init => Abstract!Init
  BY DEF Init, Abstract!Init

LEMMA RunIsRun ==
  ASSUME AInv, runpc = "call", ran' = Append(ran, popped[Worker])
  PROVE  /\ Len(ran) < Len(sent) /\ ~Abstract!Quitted
         /\ ran' = Append(ran, sent[Len(ran) + 1])
  BY Runs DEF AInv, EndsByQuit, Abstract!Quitted

LEMMA ActorStep == AInv /\ [Next]_vars => [Abstract!Next]_(Abstract!actorVars)
<1> SUFFICES ASSUME AInv, [Next]_vars
             PROVE  [Abstract!Next]_(Abstract!actorVars)
  OBVIOUS
<1>1. ASSUME NEW t \in Senders, NEW c \in Callbacks, send(t, c)
      PROVE  Abstract!Next
  BY <1>1 DEF send, Abstract!Send, Abstract!Next
<1>2. ASSUME Destroy PROVE Abstract!Next
  BY <1>2 DEF Destroy, Abstract!Send, Abstract!Next
<1>3. ASSUME Call PROVE Abstract!Next
  BY <1>3, RunIsRun DEF Call, Abstract!Run, Abstract!Next
<1>4. ASSUME CallSends PROVE Abstract!Next
  <2>1. FollowUp[popped[Worker]] \in Callbacks
    BY <1>4 DEF CallSends, SendsOne, AInv, TypeOK, Items
  <2> QED
    BY <1>4, <2>1, RunIsRun DEF CallSends, Abstract!RunAndSend, Abstract!Next
<1>5. ASSUME Join PROVE Abstract!Next
  BY <1>5 DEF Join, AInv, EndsByQuit, Abstract!Quitted, Abstract!Destroy, Abstract!Next
<1>6. ASSUME \/ \E t \in Threads : Notify(t)
             \/ WaitAndPop \/ SpuriousWakeup \/ CallReturns \/ RunEnds \/ Gone
             \/ UNCHANGED vars
      PROVE  UNCHANGED Abstract!actorVars
  BY <1>6 DEF Notify, WaitAndPop, SpuriousWakeup, CallReturns, RunEnds, Gone, vars,
              Abstract!actorVars
<1> QED
  BY <1>1, <1>2, <1>3, <1>4, <1>5, <1>6, ItemsAndThreads DEF Next, RunThread

(***************************************************************************)
(* The callbacks of Active are run one at a time, each once and in the     *)
(* order of the sends, none after the quit message, and ~Active returns    *)
(* only when that has been run.                                            *)
(***************************************************************************)
THEOREM ActiveIsActor == Spec => ActorSpec
  BY ActorInitially, ActorStep, ActiveInvariance, PTL
     DEF Spec, ActorSpec, Abstract!Spec

-----------------------------------------------------------------------------
(* Nobody sleeps through a message. *)

(***************************************************************************)
(* Only the worker waits on mq_, and only while it has not run the quit    *)
(* message; it never waits next to an item unless a thread is about to     *)
(* notify; and from the destructor on the quit message is among the sent.  *)
(***************************************************************************)
SleepInv ==
  /\ \A t \in Threads : pc[t] \in {"waiting", "woken"} => t = Worker
  /\ pc[Worker] \in {"waiting", "woken"} => runpc = "while" /\ ~done_
  /\ pc[Worker] = "waiting" /\ queue_ # <<>> =>
       \E t \in Threads : pc[t] = "notify"
  /\ life # "alive" => \E i \in 1 .. Len(sent) : sent[i] = Quit
  /\ \A i \in 1 .. Len(ran) : ran[i] = Quit => done_

NotSleptOver ==
  pc[Worker] = "waiting" /\ (queue_ # <<>> \/ life = "joining") =>
    \E t \in Threads : pc[t] = "notify"

LEMMA SleepInitially == Init => SleepInv
  BY ItemsAndThreads DEF Init, mq_!Init, SleepInv

(* A push by a thread that does not wait. *)
LEMMA PushSleeps ==
  ASSUME AInv, SleepInv, NEW t \in Threads, NEW c \in Items, mq_!push(t, c),
         sent' = Append(sent, c), life' = life \/ c = Quit,
         \/ UNCHANGED <<done_, runpc, ran>>
         \/ t = Worker /\ \A i \in 1 .. Len(ran') : ran'[i] = Quit => done_'
  PROVE  SleepInv'
<1>1. /\ Len(sent') = Len(sent) + 1 /\ Len(sent) \in Nat
      /\ \A i \in 1 .. Len(sent) : sent'[i] = sent[i]
      /\ sent'[Len(sent) + 1] = c
  BY PushAppends
<1>2. pc[t] = "idle" /\ \A u \in Threads : pc'[u] = IF u = t THEN "notify" ELSE pc[u]
  BY DEF mq_!push, AInv, TypeOK, mq_!QueueTypeOK
<1>3. life' # "alive" => \E i \in 1 .. Len(sent') : sent'[i] = Quit
  <2>1. CASE c = Quit
    BY <1>1, <2>1
  <2>2. CASE life' = life
    <3> SUFFICES ASSUME life # "alive"
                 PROVE  \E i \in 1 .. Len(sent') : sent'[i] = Quit
      BY <2>2
    <3>1. PICK i \in 1 .. Len(sent) : sent[i] = Quit
      BY DEF SleepInv
    <3> QED
      BY <1>1, <3>1
  <2> QED
    BY <2>1, <2>2
<1>4. pc'[t] = "notify"
  BY <1>2
<1>5. \A u \in Threads : pc'[u] \in {"waiting", "woken"} =>
        u = Worker /\ u # t /\ pc[u] = pc'[u]
  BY <1>2 DEF SleepInv
<1>6. pc'[Worker] \in {"waiting", "woken"} => runpc' = "while" /\ ~done_'
  BY <1>5, ItemsAndThreads DEF SleepInv
<1>7. \A i \in 1 .. Len(ran') : ran'[i] = Quit => done_'
  BY DEF SleepInv
<1> QED
  BY <1>3, <1>4, <1>5, <1>6, <1>7 DEF SleepInv

LEMMA NotifySleeps ==
  ASSUME AInv, SleepInv, NEW t \in Threads, Notify(t)
  PROVE  SleepInv'
<1>1. pc \in [Threads -> {"idle", "notify", "waiting", "woken"}]
  BY DEF AInv, TypeOK, mq_!QueueTypeOK
<1>2. UNCHANGED <<queue_, popped, done_, runpc, life, sends, sent, ran>>
  BY DEF Notify, mq_!notify_one
<1>3. CASE mq_!At("waiting") = {} /\ pc' = [pc EXCEPT ![t] = "idle"]
  <2>1. \A u \in Threads :
          pc[u] # "waiting" /\ pc'[u] = IF u = t THEN "idle" ELSE pc[u]
    BY <1>1, <1>3 DEF mq_!At
  <2> QED
    BY <1>2, <2>1, ItemsAndThreads DEF SleepInv
<1>4. ASSUME NEW w \in mq_!At("waiting"),
             pc' = [pc EXCEPT ![t] = "idle", ![w] = "woken"]
      PROVE  SleepInv'
  <2>1. w \in Threads /\ pc[w] = "waiting" /\ w = Worker
    BY <1>4 DEF mq_!At, SleepInv
  <2>2. \A u \in Threads : pc'[u] = IF u = Worker THEN "woken"
                                     ELSE IF u = t THEN "idle" ELSE pc[u]
    BY <1>1, <1>4, <2>1
  <2> QED
    BY <1>2, <2>1, <2>2, ItemsAndThreads DEF SleepInv
<1> QED
  BY <1>3, <1>4 DEF Notify, mq_!notify_one

LEMMA WaitSleeps == ASSUME AInv, SleepInv, WaitAndPop PROVE SleepInv'
<1>1. /\ pc \in [Threads -> {"idle", "notify", "waiting", "woken"}]
      /\ runpc = "while" /\ ~done_ /\ popped[Worker] = None
  BY DEF AInv, TypeOK, mq_!QueueTypeOK, FuncIsEmpty, WaitAndPop
<1>2. UNCHANGED <<done_, life, sends, sent, ran>>
  BY DEF WaitAndPop
<1>3. CASE mq_!Take(Worker)
  <2>1. \A u \in Threads : pc'[u] = IF u = Worker THEN "idle" ELSE pc[u]
    BY <1>1, <1>3 DEF mq_!Take
  <2> QED
    BY <1>1, <1>2, <2>1, ItemsAndThreads DEF SleepInv
<1>4. CASE /\ queue_ = <<>> /\ UNCHANGED <<queue_, popped>>
           /\ pc' = [pc EXCEPT ![Worker] = "waiting"]
  <2>1. runpc' = "while"
    BY <1>1, <1>4 DEF WaitAndPop
  <2>2. \A u \in Threads : pc'[u] = IF u = Worker THEN "waiting" ELSE pc[u]
    BY <1>1, <1>4
  <2> QED
    BY <1>1, <1>2, <1>4, <2>1, <2>2, ItemsAndThreads DEF SleepInv
<1> QED
  BY <1>3, <1>4 DEF WaitAndPop, mq_!wait_and_pop, mq_!Woken, mq_!WaitLoop

(* A callback that is run is not the quit message, or sets done_. *)
LEMMA RanQuits ==
  ASSUME AInv, SleepInv, runpc = "call", ran' = Append(ran, popped[Worker]),
         popped[Worker] = Quit => done_'
  PROVE  \A i \in 1 .. Len(ran') : ran'[i] = Quit => done_'
<1>1. /\ Len(ran) \in Nat /\ Len(ran') = Len(ran) + 1
      /\ \A i \in 1 .. Len(ran) : ran'[i] = ran[i]
      /\ ran'[Len(ran) + 1] = popped[Worker]
      /\ ~done_
  BY Runs
<1>2. \A i \in 1 .. Len(ran) : ran'[i] # Quit
  BY <1>1 DEF SleepInv
<1> QED
  BY <1>1, <1>2

LEMMA SleepStep == AInv /\ SleepInv /\ [Next]_vars => SleepInv'
<1> SUFFICES ASSUME AInv, SleepInv, [Next]_vars PROVE SleepInv'
  OBVIOUS
<1>1. ASSUME NEW t \in Senders, NEW c \in Callbacks, send(t, c) PROVE SleepInv'
  BY <1>1, PushSleeps, ItemsAndThreads DEF send
<1>2. CASE Destroy
  BY <1>2, PushSleeps, ItemsAndThreads DEF Destroy
<1>3. CASE CallSends
  <2> DEFINE c == FollowUp[popped[Worker]]
  <2>1. /\ runpc = "call" /\ popped[Worker] # Quit /\ c # None
        /\ mq_!push(Worker, c) /\ sent' = Append(sent, c)
        /\ ran' = Append(ran, popped[Worker])
        /\ UNCHANGED <<done_, life, sends>>
    BY <1>3 DEF CallSends, SendsOne
  <2>2. c \in Items
    BY <2>1, Runs DEF Items
  <2>3. \A i \in 1 .. Len(ran') : ran'[i] = Quit => done_'
    BY <2>1, RanQuits
  <2> HIDE DEF c
  <2> QED
    BY <2>1, <2>2, <2>3, PushSleeps, ItemsAndThreads
<1>4. CASE Call
  <2>1. /\ runpc = "call" /\ ran' = Append(ran, popped[Worker])
        /\ done_' = (popped[Worker] = Quit)
        /\ UNCHANGED <<queue_, pc, life, sends, sent>>
    BY <1>4 DEF Call
  <2>2. \A i \in 1 .. Len(ran') : ran'[i] = Quit => done_'
    BY <2>1, RanQuits
  <2>3. pc[Worker] \notin {"waiting", "woken"}
    BY <2>1 DEF SleepInv
  <2> QED
    BY <2>1, <2>2, <2>3 DEF SleepInv
<1>5. CASE SpuriousWakeup
  <2>1. \A u \in Threads : pc'[u] = IF u = Worker THEN "woken" ELSE pc[u]
    BY <1>5 DEF SpuriousWakeup, mq_!SpuriousWakeup, AInv, TypeOK,
                mq_!QueueTypeOK
  <2>2. pc[Worker] = "waiting" /\ UNCHANGED <<queue_, done_, runpc, life, sent, ran>>
    BY <1>5 DEF SpuriousWakeup, mq_!SpuriousWakeup
  <2> QED
    BY <2>1, <2>2, ItemsAndThreads DEF SleepInv
<1>6. CASE CallReturns
  BY <1>6 DEF CallReturns, SleepInv
<1>7. CASE RunEnds
  BY <1>7 DEF RunEnds, SleepInv
<1>8. CASE Join
  BY <1>8 DEF Join, SleepInv
<1>9. CASE UNCHANGED vars \/ Gone
  BY <1>9 DEF Gone, vars, SleepInv
<1> QED
  BY <1>1, <1>2, <1>3, <1>4, <1>5, <1>6, <1>7, <1>8, <1>9, NotifySleeps,
     WaitSleeps, ItemsAndThreads DEF Next, RunThread

(***************************************************************************)
(* The worker never sleeps next to a message, nor while the destructor     *)
(* waits for it, unless a thread is on its way from its unlock to          *)
(* notify_one: what JoinReturns rests on, for any number of senders.       *)
(***************************************************************************)
THEOREM WorkerIsWoken == Spec => []NotSleptOver
<1>1. AInv /\ SleepInv => NotSleptOver
  <2> SUFFICES ASSUME AInv, SleepInv, pc[Worker] = "waiting",
                      life = "joining", queue_ = <<>>
               PROVE  FALSE
    BY DEF NotSleptOver, SleepInv
  <2>1. PICK i \in 1 .. Len(sent) : sent[i] = Quit
    BY DEF SleepInv
  <2>2. Held = 0 /\ Len(sent) = Len(ran) /\ sent[i] = ran[i]
    BY DEF Held, SleepInv, AInv, InOrder, TypeOK
  <2> QED
    BY <2>1, <2>2 DEF SleepInv
<1> QED
  BY <1>1, SleepInitially, SleepStep, ActiveInvariance, PTL DEF Spec

=============================================================================
