----------------------------- MODULE MCRingQueue -----------------------------
(***************************************************************************)
(* The ring on small instances.  No property names a value, so the values  *)
(* may be exchanged for one another.                                       *)
(***************************************************************************)
EXTENDS RingQueue, TLC

Symmetry == Permutations(Values)

=============================================================================
