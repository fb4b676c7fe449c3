----------------------------- MODULE RunAndLadder -----------------------------
(***************************************************************************)
(* The lifecycle of a run, and the public ladder, whose judgements become  *)
(* lifecycle events.  The ladder's batches are a vocabulary of their own,  *)
(* in which `ladder' is the state of the run it reads and `head' the last  *)
(* event: a behaviour is about one of the two.                             *)
(***************************************************************************)
EXTENDS RunLifecycle

CONSTANTS Evaluators, Candidates, Methods, Failures, RevisionBudget, MaxFailed, MaxHead

VARIABLES
    part,    \* "lifecycle" or "ladder"
    method, ladder, head, candidate, revisions, unitGate, frozen, gates, offers, truthful

Public == INSTANCE PublicValidation WITH state <- ladder

publicVars == <<method, ladder, head, candidate, revisions, unitGate, frozen, gates, offers, truthful>>
bothVars == <<part, vars, publicVars>>

BothInit == part \in {"lifecycle", "ladder"} /\ Init /\ Public!Init
BothNext ==
    \/ part = "lifecycle" /\ Next /\ UNCHANGED <<part, publicVars>>
    \/ part = "ladder" /\ Public!Next /\ UNCHANGED <<part, vars>>
BothSpec == BothInit /\ [][BothNext]_bothVars

\* The type invariants of both.
TypesOK == TypeOK /\ Public!TypeOK

\* What goes to the sealed gate was validated as it is (PublicValidation).
FrozenCandidateIsValidated == Public!FrozenCandidateIsValidated

\* Counts that are the log's keep revisions to their budget (PublicValidation).
TruthfulCountsKeepTheBudget == Public!TruthfulCountsKeepTheBudget
===============================================================================
