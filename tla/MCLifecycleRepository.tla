----------------------- MODULE MCLifecycleRepository -----------------------
(* Two clients race on two runs with three command ids: enough for a run to  *)
(* be created, to end and to be audited, replaced or continued, for two      *)
(* commands to claim the identity of one run, and for an id to be used twice.*)
EXTENDS LifecycleRepository, TLC

Symmetry == Permutations(Runs) \cup Permutations(Clients) \cup Permutations(CommandIds)
=============================================================================
