--------------------------- MODULE MCRunLifecycle ---------------------------
(***************************************************************************)
(* A small instance of RunLifecycle: two approvals of a task and one of    *)
(* another artifact, so that an approval can be superseded by another, two *)
(* bindings so that a resume can mismatch, counters 0..2 so that there is  *)
(* a snapshot between the empty and the exhausted one.  Or the public      *)
(* ladder, whose judgements become lifecycle events, for one run and two   *)
(* evaluators.  A behaviour is about one of the two.                       *)
(***************************************************************************)
EXTENDS RunAndLadder, TLC

CONSTANTS t1, t2, f1, x1, x2, m1

MCTextApprovals == {t1, t2}
MCFormalApprovals == {f1}
MCBindings == {x1, x2}
MCMetrics == {m1}

ASSUME Public!BudgetAssumption

MCInit == BothInit /\ (part = "lifecycle" => method = CHOOSE m \in Methods : TRUE)
MCSpec == MCInit /\ [][BothNext]_bothVars

Symmetry == Permutations(Evaluators) \cup Permutations(Candidates) \cup Permutations(MCBindings)
=============================================================================
