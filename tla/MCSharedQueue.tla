---------------------------- MODULE MCSharedQueue ----------------------------
(***************************************************************************)
(* The queue alone, under threads that call anything in any order.  They   *)
(* may be exchanged for one another, and the items as well.                *)
(***************************************************************************)
EXTENDS SharedQueue, TLC

Symmetry == Permutations(Threads) \cup Permutations(Items)

=============================================================================
