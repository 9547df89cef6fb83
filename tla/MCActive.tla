------------------------------- MODULE MCActive -------------------------------
(* Active with two callbacks, one of which sends the other. *)
EXTENDS Active

CONSTANTS plain, chained

MCCallbacks == {plain, chained}
MCFollowUp == [c \in {plain, chained} |-> IF c = chained THEN plain ELSE None]

=============================================================================
