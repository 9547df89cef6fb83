---------------------------- MODULE MCLogPipeline ----------------------------
(* The program on small instances; the .cfg files give the constants. *)
EXTENDS LogPipeline

=============================================================================
