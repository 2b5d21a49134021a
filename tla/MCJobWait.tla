----------------------------- MODULE MCJobWait ------------------------------
(* The wait for a job that prints at most two progress lines, with the real   *)
(* retry delays in milliseconds.                                              *)
EXTENDS JobWait

=============================================================================
