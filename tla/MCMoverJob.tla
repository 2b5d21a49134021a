----------------------------- MODULE MCMoverJob -----------------------------
(* The data mover's job for TLC. *)
EXTENDS MoverJob

=============================================================================
