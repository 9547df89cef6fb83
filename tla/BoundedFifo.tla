----------------------------- MODULE BoundedFifo -----------------------------
(***************************************************************************)
(* What spsc_queue promises its two callers: a bounded first-in first-out  *)
(* queue in which a push of several items and a pop of several items each  *)
(* take effect at one instant.  No slots, no indices, no in-between.       *)
(***************************************************************************)
EXTENDS Naturals, Sequences

CONSTANTS Capacity, Values

VARIABLES
  q,          \* the items pushed and not yet popped, oldest first
  accepted,   \* what the producer's last finished call added
  delivered   \* what the consumer's last finished call removed

fifoVars == <<q, accepted, delivered>>

Init ==
  /\ q = <<>>
  /\ accepted = <<>>
  /\ delivered = <<>>

(* A call begins, or ends without effect: there is no outcome to see. *)
ForgetAccepted == accepted' = <<>> /\ UNCHANGED <<q, delivered>>

ForgetDelivered == delivered' = <<>> /\ UNCHANGED <<q, accepted>>

(* A push adds some items at the end, never more than fit. *)
Enqueue(items) ==
  /\ Len(q) + Len(items) <= Capacity
  /\ q' = q \o items
  /\ accepted' = items
  /\ UNCHANGED delivered

(* A pop removes the n oldest items and returns them in order. *)
Dequeue(n) ==
  /\ delivered' = SubSeq(q, 1, n)
  /\ q' = SubSeq(q, n + 1, Len(q))
  /\ UNCHANGED accepted

Batches == UNION {[1 .. n -> Values] : n \in 1 .. Capacity}

Next ==
  \/ ForgetAccepted
  \/ ForgetDelivered
  \/ \E items \in Batches : Enqueue(items)
  \/ \E n \in 1 .. Len(q) : Dequeue(n)

Spec == Init /\ [][Next]_fifoVars

=============================================================================
