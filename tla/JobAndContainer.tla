---------------------------- MODULE JobAndContainer ----------------------------
(***************************************************************************)
(* A fixed-commit job as its callers see it, and the attempts to execute   *)
(* one in a container.  run_at_commit calls the executor and uses nothing  *)
(* of it but its verdict, which RunnerExecution chooses: the two share no  *)
(* state, and a behaviour is about one of them.                            *)
(***************************************************************************)
EXTENDS RunnerExecution

CONSTANTS WallTime, Grace, MaxAttempts

VARIABLES
    part,    \* "runner" or "oci"
    at, attempt, started, id, boxes, loaded, scratch, source, process, watch, evidence, raised, verdict

Oci == INSTANCE OciExecution

ociVars == <<at, attempt, started, id, boxes, loaded, scratch, source, process, watch, evidence, raised, verdict>>
jobVars == <<part, vars, ociVars>>

JobInit == part \in {"runner", "oci"} /\ Init /\ Oci!Init
JobNext ==
    \/ part = "runner" /\ Next /\ UNCHANGED <<part, ociVars>>
    \/ part = "oci" /\ Oci!Next /\ UNCHANGED <<part, vars>>
JobSpec == JobInit /\ [][JobNext]_jobVars

\* The type invariants of both.
TypesOK == TypeOK /\ Oci!TypeOK

\* The verdict on an attempt is one its container earned (OciExecution).
VerdictIsEarned == Oci!VerdictIsEarned

\* An attempt that was begun ends (OciExecution).
AttemptsEnd == Oci!AttemptsEnd
================================================================================
