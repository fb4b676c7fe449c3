--------------------------- MODULE MCRunnerExecution ---------------------------
(* Two callers of the same job, each store, with and without the terminal commit; *)
(* or the attempts to execute one job, seen from the host.                        *)
EXTENDS JobAndContainer

ASSUME Oci!TimesAssumption

MCInit == JobInit /\ (part = "oci" => store = "memory" /\ endsRun)

MCSpec ==
    /\ MCInit /\ [][JobNext]_jobVars
    /\ \A w \in Workers : WF_vars(part = "runner" /\ Proceed(w))
    /\ WF_ociVars(part = "oci" /\ Oci!Step)
================================================================================
