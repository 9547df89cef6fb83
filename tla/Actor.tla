--------------------------------- MODULE Actor ---------------------------------
(***************************************************************************)
(* What Active promises: the callbacks sent to it are run one at a time in *)
(* the order they were sent, each once, up to the quit message of its      *)
(* destructor, which returns after that.                                   *)
(***************************************************************************)
EXTENDS Naturals, Sequences

CONSTANTS Callbacks, Quit

VARIABLES
  sent,       \* what has been sent, in order
  ran,        \* what has been run, in order
  gone        \* the destructor has returned

actorVars == <<sent, ran, gone>>

Init ==
  /\ sent = <<>>
  /\ ran = <<>>
  /\ gone = FALSE

Send(c) ==
  /\ sent' = Append(sent, c)
  /\ UNCHANGED <<ran, gone>>

Quitted == ran # <<>> /\ ran[Len(ran)] = Quit

Run ==
  /\ Len(ran) < Len(sent) /\ ~Quitted
  /\ ran' = Append(ran, sent[Len(ran) + 1])
  /\ UNCHANGED <<sent, gone>>

(* A callback that sends another does so while it runs. *)
RunAndSend(c) ==
  /\ Len(ran) < Len(sent) /\ ~Quitted
  /\ ran' = Append(ran, sent[Len(ran) + 1])
  /\ sent' = Append(sent, c)
  /\ UNCHANGED gone

Destroy ==
  /\ Quitted /\ ~gone
  /\ gone' = TRUE
  /\ UNCHANGED <<sent, ran>>

Next ==
  \/ \E c \in Callbacks \cup {Quit} : Send(c)
  \/ Run
  \/ \E c \in Callbacks : RunAndSend(c)
  \/ Destroy

Spec == Init /\ [][Next]_actorVars

=============================================================================
