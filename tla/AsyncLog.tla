------------------------------- MODULE AsyncLog -------------------------------
(***************************************************************************)
(* What the log pipeline promises, without rings, buffers or background    *)
(* threads: a file that only grows, in which the lines of every producer   *)
(* are its first lines, in the order it logged them, none missing in       *)
(* between and none twice.  How far the file is behind is left open.       *)
(***************************************************************************)
EXTENDS Naturals, Sequences, SequencesExt

CONSTANT Producers

VARIABLES
  logged,     \* the number of lines each producer has logged
  file        \* the lines in the file: <<producer, number>>

logVars == <<logged, file>>

Init ==
  /\ logged = [p \in Producers |-> 0]
  /\ file = <<>>

Log(p) ==
  /\ logged' = [logged EXCEPT ![p] = @ + 1]
  /\ UNCHANGED file

(* The numbers of the lines of producer p in s. *)
Numbers(s, p) == {s[k][2] : k \in {l \in DOMAIN s : s[l][1] = p}}

(* No line of p in s comes twice or after a later one. *)
Rising(s, p) ==
  \A k, l \in DOMAIN s :
    k < l /\ s[k][1] = p /\ s[l][1] = p => s[k][2] < s[l][2]

Write ==
  /\ IsPrefix(file, file')
  /\ \A p \in Producers :
       /\ \E n \in 0 .. logged[p] : Numbers(file', p) = 1 .. n
       /\ Rising(file', p)
  /\ UNCHANGED logged

Next == Write \/ \E p \in Producers : Log(p)

Spec == Init /\ [][Next]_logVars

=============================================================================
