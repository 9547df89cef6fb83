-------------------------------- MODULE Active --------------------------------
(***************************************************************************)
(* Active of include/active.h: a thread that runs the callbacks sent to    *)
(* it, on a shared_queue.  Senders call send(); a callback may itself send *)
(* one; the owner destroys the object, after the last send of the others,  *)
(* as the code's callers have to.                                          *)
(*                                                                         *)
(* A definition marked as a variant is a slip that the properties have to  *)
(* notice; no specification uses it.                                       *)
(***************************************************************************)
EXTENDS Naturals, Sequences, FiniteSets

CONSTANTS
  Senders, Worker, Owner,   \* the threads
  Callbacks,
  FollowUp,   \* what a callback sends while it runs, None for nothing
  Quit,       \* the message of the destructor
  None,
  MaxSends,   \* bound: the sends of one sender
  MaxLen      \* bound: the longest queue

ASSUME ActiveAssumption ==
  /\ Worker # Owner /\ Worker \notin Senders /\ Owner \notin Senders
  /\ Quit \notin Callbacks /\ None \notin Callbacks /\ None # Quit
  /\ FollowUp \in [Callbacks -> Callbacks \cup {None}]
  /\ MaxSends \in Nat /\ MaxLen \in Nat

Threads == Senders \cup {Worker, Owner}
Items == Callbacks \cup {Quit}

VARIABLES
  queue_, pc, popped,   \* mq_, and popped[Worker] is func
  done_,
  runpc,      \* where the worker is in run()
  life,       \* of the object: "alive", "joining" its worker, "gone"
  sends,      \* how often each sender has sent
  sent, ran   \* history: what was sent and what was run, in order

mq_ == INSTANCE SharedQueue

vars == <<queue_, pc, popped, done_, runpc, life, sends, sent, ran>>

Init ==
  /\ mq_!Init
  /\ done_ = FALSE
  /\ runpc = "while"
  /\ life = "alive"
  /\ sends = [t \in Senders |-> 0]
  /\ sent = <<>> /\ ran = <<>>

send(t, c) ==
  /\ life = "alive"
  /\ sends[t] < MaxSends
  /\ mq_!push(t, c)
  /\ sends' = [sends EXCEPT ![t] = @ + 1]
  /\ sent' = Append(sent, c)
  /\ UNCHANGED <<done_, runpc, life, ran>>

(* The end of a push, by whichever thread. *)
Notify(t) ==
  /\ mq_!notify_one(t)
  /\ UNCHANGED <<done_, runpc, life, sends, sent, ran>>

\* Variant: the wait returns when it is woken, item or not.
WaitAndReturn ==
  /\ runpc = "while" /\ ~done_
  /\ mq_!wait_and_pop(Worker) \/ mq_!Woken(Worker)
  /\ runpc' = IF pc[Worker] = "idle" /\ popped'[Worker] = None
              THEN "while" ELSE "call"
  /\ UNCHANGED <<done_, life, sends, sent, ran>>

(* while (!done_) mq_.wait_and_pop(func): until there is a func to call. *)
WaitAndPop ==
  /\ runpc = "while" /\ ~done_
  /\ mq_!wait_and_pop(Worker) \/ mq_!Woken(Worker)
  /\ runpc' = IF popped'[Worker] = None THEN "while" ELSE "call"
  /\ UNCHANGED <<done_, life, sends, sent, ran>>

SpuriousWakeup ==
  /\ mq_!SpuriousWakeup(Worker)
  /\ UNCHANGED <<done_, runpc, life, sends, sent, ran>>

SendsOne(func) == func # Quit /\ FollowUp[func] # None

(* func() of a callback that sends nothing, or of the destructor's. *)
Call ==
  LET func == popped[Worker]
  IN  /\ runpc = "call"
      /\ ~SendsOne(func)
      /\ done_' = (func = Quit)
      /\ ran' = Append(ran, func)
      /\ popped' = [popped EXCEPT ![Worker] = None]
      /\ runpc' = "while"
      /\ UNCHANGED <<queue_, pc, life, sends, sent>>

CallSends ==
  LET func == popped[Worker]
  IN  /\ runpc = "call"
      /\ SendsOne(func)
      /\ mq_!push(Worker, FollowUp[func])
      /\ sent' = Append(sent, FollowUp[func])
      /\ ran' = Append(ran, func)
      /\ runpc' = "return"
      /\ UNCHANGED <<done_, life, sends>>

\* Variant: run() is left after a callback that has sent another.
CallReturnsDone ==
  /\ runpc = "return" /\ pc[Worker] = "idle"
  /\ popped' = [popped EXCEPT ![Worker] = None]
  /\ runpc' = "end"
  /\ UNCHANGED <<queue_, pc, done_, life, sends, sent, ran>>

CallReturns ==
  /\ runpc = "return" /\ pc[Worker] = "idle"
  /\ popped' = [popped EXCEPT ![Worker] = None]
  /\ runpc' = "while"
  /\ UNCHANGED <<queue_, pc, done_, life, sends, sent, ran>>

RunEnds ==
  /\ runpc = "while" /\ done_
  /\ runpc' = "end"
  /\ UNCHANGED <<queue_, pc, popped, done_, life, sends, sent, ran>>

(* ~Active: send([this] { done_ = true; }) ... *)
Destroy ==
  /\ life = "alive"
  /\ \A t \in Senders : pc[t] = "idle"
  /\ mq_!push(Owner, Quit)
  /\ life' = "joining"
  /\ sent' = Append(sent, Quit)
  /\ UNCHANGED <<done_, runpc, sends, ran>>

\* Variant: the thread is detached, or not waited for.
JoinNot ==
  /\ life = "joining" /\ pc[Owner] = "idle"
  /\ life' = "gone"
  /\ UNCHANGED <<queue_, pc, popped, done_, runpc, sends, sent, ran>>

(* ... and thd_.join(). *)
Join ==
  /\ life = "joining" /\ pc[Owner] = "idle"
  /\ runpc = "end"
  /\ life' = "gone"
  /\ UNCHANGED <<queue_, pc, popped, done_, runpc, sends, sent, ran>>

Gone == life = "gone" /\ UNCHANGED vars

RunThread ==
  \/ WaitAndPop \/ Call \/ CallSends \/ CallReturns \/ RunEnds
  \/ Notify(Worker)

Next ==
  \/ \E t \in Senders : Notify(t) \/ \E c \in Callbacks : send(t, c)
  \/ RunThread
  \/ SpuriousWakeup
  \/ Notify(Owner) \/ Destroy \/ Join
  \/ Gone

Spec == Init /\ [][Next]_vars

(***************************************************************************)
(* A thread inside push() goes on to notify; the worker and a joining      *)
(* owner go on.  Nobody has to send, or to destroy the object, and no      *)
(* spurious wakeup has to come to the rescue.                              *)
(***************************************************************************)
FairSpec ==
  /\ Spec
  /\ \A t \in Senders \cup {Owner} : WF_vars(Notify(t))
  /\ WF_vars(RunThread)
  /\ WF_vars(Join)

-----------------------------------------------------------------------------
(* Types of the variables that are not the queue's. *)
TypeOK ==
  /\ mq_!QueueTypeOK
  /\ done_ \in BOOLEAN
  /\ runpc \in {"while", "call", "return", "end"}
  /\ runpc = "call" => popped[Worker] \in Items
  /\ life \in {"alive", "joining", "gone"}
  /\ sends \in [Senders -> 0 .. MaxSends]
  /\ sent \in Seq(Items) /\ ran \in Seq(Items)

(***************************************************************************)
(* The callbacks run one at a time, each once, in the order they were      *)
(* sent; the destructor returns only when its quit message has been run,   *)
(* so everything sent before it has been.                                  *)
(***************************************************************************)
Abstract == INSTANCE Actor WITH gone <- life = "gone"

ActorSpec == Abstract!Spec

(***************************************************************************)
(* The destructor returns: its message gets to the worker, which may be    *)
(* asleep, on the way to sleep, or in a callback that sends another.       *)
(***************************************************************************)
JoinReturns == life = "joining" ~> life = "gone"

(***************************************************************************)
(* Every callback that was sent while the object lived gets run, those     *)
(* that callbacks send included.  There are at most two for each call of a *)
(* sender, where what a callback sends sends nothing more.                 *)
(***************************************************************************)
EverySendRuns ==
  \A k \in 1 .. 2 * MaxSends * Cardinality(Senders) :
    (Len(sent) >= k /\ life = "alive") ~> (Len(ran) >= k)

=============================================================================
