----------------------------- MODULE JobVerdict -----------------------------
(***************************************************************************)
(* What waiting for a job promises its callers, the strategy ladder and    *)
(* the backup: one verdict, success only for a job that succeeded, and a   *)
(* verdict at all once the pod has ended or the context is cancelled.      *)
(***************************************************************************)

VARIABLES
    phase,      \* phase of the job's pod, "absent" before there is one
    cancelled,  \* the caller's context is cancelled
    verdict     \* what the wait returned: "none" yet, "nil" or "error"

vars == <<phase, cancelled, verdict>>

Ended == phase \in {"succeeded", "failed"}

Init == phase = "absent" /\ cancelled = FALSE /\ verdict = "none"

PodChanges ==
    /\ \/ phase = "absent" /\ phase' = "pending"
       \/ phase = "pending" /\ phase' \in {"running", "failed"}
       \/ phase = "running" /\ phase' \in {"succeeded", "failed"}
    /\ UNCHANGED <<cancelled, verdict>>

Interrupt == cancelled' = TRUE /\ UNCHANGED <<phase, verdict>>

\* An error may come at any time, success only from a job that succeeded.
Decide ==
    /\ verdict = "none"
    /\ \/ verdict' = "nil" /\ phase = "succeeded"
       \/ verdict' = "error"
    /\ UNCHANGED <<phase, cancelled>>

Next == PodChanges \/ Interrupt \/ Decide

DecideWhenDue == (Ended \/ cancelled) /\ Decide

\* What the wait may do, and what it must.
Safety == Init /\ [][Next]_vars

Spec == Safety /\ WF_vars(DecideWhenDue)

=============================================================================
