---------------------------- MODULE RunLifecycle ----------------------------
(***************************************************************************)
(* One AutoMarkov run: the event-sourced state machine of                  *)
(* src/automarkov/lifecycle.py.  A run is an append-only log of typed      *)
(* events; project_records folds it into a RunProjection, and a command is *)
(* accepted only if the log it would produce still folds.  The variables   *)
(* below are the fields of that projection the properties talk about, plus *)
(* the last event of the log (a transition may name only the immediately   *)
(* preceding event as its trigger) and the release gates the log contains  *)
(* since the last revision.                                                *)
(*                                                                         *)
(* Every action is one accepted command: the validator of the command, the *)
(* reducer's checks on each event of the batch, and all the projection     *)
(* fields the batch changes.  Batches that are a concatenation of shorter  *)
(* accepted batches are the composition of the corresponding actions.      *)
(***************************************************************************)
EXTENDS Integers, FiniteSets

CONSTANTS
    TextApprovals,    \* identities of approvals of a task contract
    FormalApprovals,  \* identities of approvals of any other artifact
    Bindings,         \* dependency identity + recovery gate, or block authority
    Metrics,          \* budget counters of the frozen budget contract
    Limit,            \* the limit of every counter
    MaxAudits         \* bound: post-terminal commands taken into account

Approvals == TextApprovals \cup FormalApprovals

ASSUME RunLifecycleAssumption ==
    /\ TextApprovals \cap FormalApprovals = {}
    /\ IsFiniteSet(Approvals)
    /\ Limit \in Nat \ {0}
    /\ MaxAudits \in Nat

VARIABLES
    state,      \* RunProjection.state, "ABSENT" before the root event
    waiting,    \* RunProjection.waiting: where to resume, and what must match
    approvals,  \* RunProjection.current_approval_snapshots
    last,       \* the last event of the log, as a trigger
    budget,     \* the counters of the last transition's budget snapshot
    passed,     \* release gates in the log since the last revision
    result,     \* the TerminalResult: terminal state, terminal-time approvals
    audits      \* number of audit projections after the root one

vars == <<state, waiting, approvals, last, budget, passed, result, audits>>

-----------------------------------------------------------------------------
(* The frozen tables.                                                      *)

TerminalStates ==
    {"COMPLETED", "CLARIFICATION_REQUIRED", "OOD_PACKAGED", "PARTIAL",
     "BUDGET_EXHAUSTED", "FAILED", "CANCELLED"}

WaitingStates == {"WAITING_RUNTIME", "WAITING_EVIDENCE", "WAITING_ASSET", "BLOCKED"}

\* The stages whose gate lets a candidate towards release, in order.
ReleaseGates ==
    {"UNIT_VALIDATING", "SIMULATION_VALIDATING", "SEALED_E2E_VALIDATING",
     "TRAINING_SMOKE_TESTING", "POLICY_TRAINING", "FINAL_EVALUATING"}

\* The stages in which the candidate bundle can no longer be revised.
CandidateFrozenStates ==
    {"SEALED_E2E_VALIDATING", "TRAINING_SMOKE_TESTING", "POLICY_TRAINING",
     "FINAL_EVALUATING", "PACKAGING"}

\* The stages in which the environment exists and is being validated.
ImplementationStates ==
    {"FORMAL_LOCKED", "IMPLEMENTATION_SELECTED", "ENVIRONMENT_IMPLEMENTED",
     "UNIT_VALIDATING", "SIMULATION_VALIDATING"}

\* The stages between a locked text and a locked formal model.
ModellingStates ==
    {"TEXT_LOCKED", "CLASSIFIED", "REDUCTION_PROPOSAL_DRAFTING",
     "WAITING_REDUCTION_CONFIRMATION", "OOD_HANDOFF_BUILDING",
     "OOD_HANDOFF_VALIDATING", "FORMAL_DRAFTED", "FORMAL_REVIEWED",
     "WAITING_FORMAL_CONFIRMATION"}

ActiveStates ==
    {"RECEIVED", "RESEARCHING", "TEXT_DRAFTED", "TEXT_REVIEWED",
     "WAITING_TEXT_CONFIRMATION"}
    \cup ModellingStates \cup ImplementationStates \cup CandidateFrozenStates

RunStates == ActiveStates \cup WaitingStates \cup TerminalStates

\* Edges whose trigger is a StageGatePassed event.
StageGates ==
    { <<"RECEIVED", "RESEARCHING">>, <<"RESEARCHING", "TEXT_DRAFTED">>,
      <<"TEXT_DRAFTED", "TEXT_REVIEWED">>,
      <<"TEXT_REVIEWED", "WAITING_TEXT_CONFIRMATION">>,
      <<"TEXT_LOCKED", "CLASSIFIED">>, <<"CLASSIFIED", "FORMAL_DRAFTED">>,
      <<"CLASSIFIED", "REDUCTION_PROPOSAL_DRAFTING">>,
      <<"CLASSIFIED", "OOD_HANDOFF_BUILDING">>,
      <<"REDUCTION_PROPOSAL_DRAFTING", "WAITING_REDUCTION_CONFIRMATION">>,
      <<"OOD_HANDOFF_BUILDING", "OOD_HANDOFF_VALIDATING">>,
      <<"FORMAL_DRAFTED", "FORMAL_REVIEWED">>,
      <<"FORMAL_REVIEWED", "WAITING_FORMAL_CONFIRMATION">>,
      <<"FORMAL_LOCKED", "IMPLEMENTATION_SELECTED">>,
      <<"IMPLEMENTATION_SELECTED", "ENVIRONMENT_IMPLEMENTED">>,
      <<"ENVIRONMENT_IMPLEMENTED", "UNIT_VALIDATING">>,
      <<"UNIT_VALIDATING", "SIMULATION_VALIDATING">>,
      <<"SIMULATION_VALIDATING", "SEALED_E2E_VALIDATING">>,
      <<"SEALED_E2E_VALIDATING", "TRAINING_SMOKE_TESTING">>,
      <<"TRAINING_SMOKE_TESTING", "POLICY_TRAINING">>,
      <<"POLICY_TRAINING", "FINAL_EVALUATING">>,
      <<"FINAL_EVALUATING", "PACKAGING">> }

\* Edges whose trigger is a SignedApprovalEvent, by its decision.
ApprovalEdges(decision) ==
    IF decision = "approved"
    THEN { <<"WAITING_TEXT_CONFIRMATION", "TEXT_LOCKED">>,
           <<"WAITING_FORMAL_CONFIRMATION", "FORMAL_LOCKED">> }
    ELSE { <<"WAITING_TEXT_CONFIRMATION", "TEXT_DRAFTED">>,
           <<"WAITING_REDUCTION_CONFIRMATION", "OOD_HANDOFF_BUILDING">>,
           <<"WAITING_FORMAL_CONFIRMATION", "FORMAL_DRAFTED">> }

\* Edges whose trigger is an ArtifactSuperseded event of an ordinary revision.
RevisionEdges ==
    { <<"TEXT_REVIEWED", "TEXT_DRAFTED">>,
      <<"OOD_HANDOFF_VALIDATING", "OOD_HANDOFF_BUILDING">> }
    \cup {"FORMAL_DRAFTED"} \X {"TEXT_DRAFTED"}
    \cup {"FORMAL_REVIEWED"} \X {"FORMAL_DRAFTED", "TEXT_DRAFTED"}
    \cup {"UNIT_VALIDATING", "SIMULATION_VALIDATING"}
         \X {"ENVIRONMENT_IMPLEMENTED", "FORMAL_DRAFTED", "TEXT_DRAFTED"}

\* Edges open to a rollback after an approval was revoked.
RevocationEdges ==
    (ModellingStates \X {"TEXT_DRAFTED"})
    \cup (ImplementationStates \X {"TEXT_DRAFTED", "FORMAL_DRAFTED"})

\* Stages a run can leave for a waiting state, and come back to.
SuspensionEdges ==
    { <<"RECEIVED", "BLOCKED">>, <<"RESEARCHING", "WAITING_EVIDENCE">>,
      <<"WAITING_EVIDENCE", "BLOCKED">>, <<"OOD_HANDOFF_VALIDATING", "WAITING_ASSET">> }
    \cup {"RESEARCHING", "IMPLEMENTATION_SELECTED", "UNIT_VALIDATING",
          "SIMULATION_VALIDATING", "SEALED_E2E_VALIDATING",
          "TRAINING_SMOKE_TESTING", "POLICY_TRAINING", "FINAL_EVALUATING"}
         \X {"WAITING_RUNTIME"}
    \cup {"OOD_HANDOFF_BUILDING", "IMPLEMENTATION_SELECTED", "TRAINING_SMOKE_TESTING"}
         \X {"WAITING_ASSET"}
    \cup {"RESEARCHING", "WAITING_TEXT_CONFIRMATION", "WAITING_REDUCTION_CONFIRMATION",
          "OOD_HANDOFF_BUILDING", "WAITING_FORMAL_CONFIRMATION",
          "IMPLEMENTATION_SELECTED"}
         \X {"BLOCKED"}

ResumptionEdges ==
    { <<"WAITING_EVIDENCE", "RESEARCHING">> }
    \cup {"WAITING_RUNTIME"}
         \X {"RESEARCHING", "IMPLEMENTATION_SELECTED", "UNIT_VALIDATING",
             "SIMULATION_VALIDATING", "SEALED_E2E_VALIDATING",
             "TRAINING_SMOKE_TESTING", "POLICY_TRAINING", "FINAL_EVALUATING"}
    \cup {"WAITING_ASSET"}
         \X {"OOD_HANDOFF_BUILDING", "OOD_HANDOFF_VALIDATING",
             "IMPLEMENTATION_SELECTED", "TRAINING_SMOKE_TESTING"}
    \cup {"BLOCKED"}
         \X {"RECEIVED", "RESEARCHING", "WAITING_TEXT_CONFIRMATION",
             "WAITING_REDUCTION_CONFIRMATION", "OOD_HANDOFF_BUILDING",
             "WAITING_FORMAL_CONFIRMATION", "IMPLEMENTATION_SELECTED"}

PartialPredecessors ==
    {"SEALED_E2E_VALIDATING", "TRAINING_SMOKE_TESTING", "FINAL_EVALUATING",
     "PACKAGING", "WAITING_RUNTIME", "WAITING_ASSET", "BLOCKED"}

\* Mutant: a run that waits may fail, like one that works.
FailedPredecessorsAndWaits == ActiveStates \cup WaitingStates

FailedPredecessors ==
    {"RESEARCHING", "WAITING_TEXT_CONFIRMATION", "TEXT_LOCKED", "CLASSIFIED",
     "REDUCTION_PROPOSAL_DRAFTING", "OOD_HANDOFF_VALIDATING",
     "WAITING_FORMAL_CONFIRMATION", "FORMAL_LOCKED"} \cup CandidateFrozenStates

CancelledPredecessors == {"RECEIVED", "WAITING_RUNTIME", "WAITING_EVIDENCE", "BLOCKED"}

TerminalEdges ==
    { <<"TEXT_REVIEWED", "CLARIFICATION_REQUIRED">>,
      <<"OOD_HANDOFF_VALIDATING", "OOD_PACKAGED">>, <<"PACKAGING", "COMPLETED">> }
    \cup PartialPredecessors \X {"PARTIAL"}
    \cup FailedPredecessors \X {"FAILED"}
    \cup CancelledPredecessors \X {"CANCELLED"}

OrdinaryEdges ==
    StageGates \cup ApprovalEdges("approved") \cup ApprovalEdges("rejected")
    \cup RevisionEdges \cup RevocationEdges \cup SuspensionEdges \cup ResumptionEdges

\* allowed_transition.
Allowed(s, t) ==
    /\ s \notin TerminalStates
    /\ \/ <<s, t>> \in OrdinaryEdges
       \/ <<s, t>> \in TerminalEdges
       \/ t = "BUDGET_EXHAUSTED"

-----------------------------------------------------------------------------
(* State.                                                                  *)

NoWait == [resume |-> "ABSENT", binding |-> "none"]
NoResult == [terminal |-> "ABSENT", approved |-> {}]

Counters == [Metrics -> 0..Limit]

\* What the last event of the log can trigger: nothing further, a transition of
\* an approval edge, or a transition after an artifact was superseded.
Triggers == {"other", "approved", "rejected", "reduction_approved",
             "approval_revoked", "revised"}

TypeOK ==
    /\ state \in RunStates \cup {"ABSENT"}
    /\ waiting \in [resume : ActiveStates \cup WaitingStates, binding : Bindings]
                   \cup {NoWait}
    /\ approvals \in [Approvals -> {"unused", "valid", "revoked"}]
    /\ last \in Triggers
    /\ budget \in Counters
    /\ passed \subseteq ReleaseGates
    /\ result \in [terminal : TerminalStates, approved : SUBSET Approvals]
                  \cup {NoResult}
    /\ audits \in 0..MaxAudits

Init ==
    /\ state = "ABSENT"
    /\ waiting = NoWait
    /\ approvals = [a \in Approvals |-> "unused"]
    /\ last = "other"
    /\ budget = [m \in Metrics |-> 0]
    /\ passed = {}
    /\ result = NoResult
    /\ audits = 0

Valid(A) == {a \in A : approvals[a] = "valid"}

Exhausted(b) == \E m \in Metrics : b[m] = Limit

\* _budget_is_monotonic and the exhaustion rule of project_records: consumption
\* never falls, and a snapshot with an exhausted counter is accepted only by the
\* transition to BUDGET_EXHAUSTED.
BudgetAccepts(b, t) ==
    /\ \A m \in Metrics : budget[m] <= b[m]
    /\ Exhausted(b) => t = "BUDGET_EXHAUSTED"

\* A StateTransitioned event from the current state, with what project_records
\* takes from it; the trigger checks are with the actions.
StateTransitioned(t, w, b) ==
    /\ Allowed(state, t)
    /\ BudgetAccepts(b, t)
    /\ state' = t
    /\ waiting' = w
    /\ budget' = b

\* States in which the reducer accepts events that are not about a wait.
Running == state \in ActiveStates

-----------------------------------------------------------------------------
(* AppendRunEventsCommand.                                                 *)

\* The root event.
CreateRun ==
    /\ state = "ABSENT"
    /\ state' = "RECEIVED"
    /\ UNCHANGED <<waiting, approvals, last, budget, passed, result, audits>>

\* Any accepted event that changes none of these fields: ValidationClaimed,
\* RuntimeReady, LlmRuntimeDegraded, ArtifactAccessRevoked, ...
RecordObservation ==
    /\ Running \/ state = "WAITING_EVIDENCE"
    /\ last # "other"
    /\ last' = "other"
    /\ UNCHANGED <<state, waiting, approvals, budget, passed, result, audits>>

\* Mutant: a revoked approval still counts.
GateHoldsOnRevoked(t) ==
    t = "CLASSIFIED" => \E a \in TextApprovals : approvals[a] # "unused"

\* CLASSIFICATION_BINDING: _require_event_references looks for an approval of the
\* classified task that no revocation names.
GateHolds(t) == t = "CLASSIFIED" => Valid(TextApprovals) # {}

\* Mutant: every gate that was passed is taken for a release gate.
PassStageGateAsRelease(t, b) ==
    /\ <<state, t>> \in StageGates
    /\ GateHolds(t)
    /\ StateTransitioned(t, NoWait, b)
    /\ passed' = passed \cup {state}
    /\ last' = "other"
    /\ UNCHANGED <<approvals, result, audits>>

\* StageGatePassed and the transition it is bound to, adjacent in one command.
PassStageGate(t, b) ==
    /\ <<state, t>> \in StageGates
    /\ GateHolds(t)
    /\ StateTransitioned(t, NoWait, b)
    /\ passed' = passed \cup ({state} \cap ReleaseGates)
    /\ last' = "other"
    /\ UNCHANGED <<approvals, result, audits>>

\* SignedApprovalEvent(approved): project_records adds a valid snapshot.
Approve(a) ==
    /\ Running
    /\ approvals[a] = "unused"
    /\ approvals' = [approvals EXCEPT ![a] = "valid"]
    /\ last' = "approved"
    /\ UNCHANGED <<state, waiting, budget, passed, result, audits>>

Reject ==
    /\ Running
    /\ last' = "rejected"
    /\ UNCHANGED <<state, waiting, approvals, budget, passed, result, audits>>

\* The transition an approval or a rejection at the head of the log triggers.
ActOnDecision(t, b) ==
    /\ last \in {"approved", "rejected"}
    /\ <<state, t>> \in ApprovalEdges(last)
    /\ StateTransitioned(t, NoWait, b)
    /\ last' = "other"
    /\ UNCHANGED <<approvals, passed, result, audits>>

\* ArtifactSuperseded on its own.
SupersedeArtifact(reason) ==
    /\ Running
    /\ last' = reason
    /\ UNCHANGED <<state, waiting, approvals, budget, passed, result, audits>>

\* What _ordinary_transition_cause_is_valid accepts after ArtifactSuperseded. The
\* edge out of WAITING_REDUCTION_CONFIRMATION takes only an approved reduction.
SupersessionEdges(reason) ==
    LET reduction == <<"WAITING_REDUCTION_CONFIRMATION", "TEXT_DRAFTED">>
    IN  IF reason = "reduction_approved" THEN {reduction}
        ELSE IF reason = "approval_revoked" THEN RevocationEdges \ {reduction}
        ELSE IF reason = "revised" THEN RevisionEdges
        ELSE {}

\* The transition that sends the run back after an artifact was superseded.
Revise(t, b) ==
    /\ <<state, t>> \in SupersessionEdges(last)
    /\ StateTransitioned(t, NoWait, b)
    /\ passed' = {}
    /\ last' = "other"
    /\ UNCHANGED <<approvals, result, audits>>

\* SignedApprovalEvent(revoked), ArtifactSuperseded of the approved artifact and
\* the rollback, adjacent in one command: a revocation without them is refused.
RevokeAndRollBack(a, t, b) ==
    /\ approvals[a] = "valid"
    /\ <<state, t>> \in SupersessionEdges("approval_revoked")
    /\ StateTransitioned(t, NoWait, b)
    /\ approvals' = [approvals EXCEPT ![a] = "revoked"]
    /\ passed' = {}
    /\ last' = "other"
    /\ UNCHANGED <<result, audits>>

\* The cause, the Waiting* or Blocked event and the transition, adjacent in one
\* command; the binding names the state the transition leaves.
Suspend(t, x, b) ==
    /\ <<state, t>> \in SuspensionEdges
    /\ StateTransitioned(t, [resume |-> state, binding |-> x], b)
    /\ last' = "other"
    /\ UNCHANGED <<approvals, passed, result, audits>>

\* Mutant: the resume target is not compared with the binding.
ResumeAnywhere(t, x, b) ==
    /\ state \in WaitingStates
    /\ x = waiting.binding
    /\ <<state, t>> \in ResumptionEdges
    /\ StateTransitioned(t, NoWait, b)
    /\ last' = "other"
    /\ UNCHANGED <<approvals, passed, result, audits>>

\* WaitResolved or BlockResolved and the transition back: _validate_resume
\* compares identity, gate and authority, project_records the target.
Resume(t, x, b) ==
    /\ state \in WaitingStates
    /\ x = waiting.binding
    /\ t = waiting.resume
    /\ <<state, t>> \in ResumptionEdges
    /\ StateTransitioned(t, NoWait, b)
    /\ last' = "other"
    /\ UNCHANGED <<approvals, passed, result, audits>>

-----------------------------------------------------------------------------
(* CommitTerminalCommand: one cause, one transition, and in the same        *)
(* transaction the TerminalResult, which lists approvals the caller names   *)
(* and _require_terminal_approvals finds approved and not revoked.          *)

CommitTerminal(t, b, named) ==
    /\ named \subseteq Valid(Approvals)
    /\ StateTransitioned(t, NoWait, b)
    /\ result' = [terminal |-> t, approved |-> named]
    /\ last' = "other"
    /\ UNCHANGED <<approvals, passed, audits>>

RequestClarification(b, named) ==
    /\ state = "TEXT_REVIEWED"
    /\ CommitTerminal("CLARIFICATION_REQUIRED", b, named)

\* ValidationClaimed for the package or for the out-of-distribution hand-off.
ClaimAndFinish(b, named) ==
    \/ state = "PACKAGING" /\ CommitTerminal("COMPLETED", b, named)
    \/ state = "OOD_HANDOFF_VALIDATING" /\ CommitTerminal("OOD_PACKAGED", b, named)

\* ValidationFailed: the failure code decides between PARTIAL and FAILED, the
\* scope must name the state the run is in.
FailValidation(t, b, named) ==
    /\ state \in FailedPredecessors
    /\ t \in {"FAILED", "PARTIAL"}
    /\ CommitTerminal(t, b, named)

\* RunTerminationRequested.
RequestTermination(t, b, named) ==
    /\ t \in {"PARTIAL", "CANCELLED"}
    /\ CommitTerminal(t, b, named)

\* BudgetExhausted: the named counter stands at its limit in the snapshot of the
\* transition.
ExhaustBudget(m, b, named) ==
    /\ state # "ABSENT"
    /\ b[m] = Limit
    /\ CommitTerminal("BUDGET_EXHAUSTED", b, named)

-----------------------------------------------------------------------------
(* CreateReplacementRunCommand, on the parent's side: RunSuperseded and the  *)
(* transition to CANCELLED; the result lists every valid approval.          *)

\* The parent states a cause of supersession accepts.
SupersededStates(cause) ==
    IF cause = "runtime_identity_replacement" THEN {"WAITING_RUNTIME"}
                                              ELSE CandidateFrozenStates

SupersedeRun(cause, x, b) ==
    /\ state \in SupersededStates(cause)
    /\ waiting # NoWait => x = waiting.binding
    /\ CommitTerminal("CANCELLED", b, Valid(Approvals))

-----------------------------------------------------------------------------
(* AppendRunEventsCommand on a terminal run: only audits and revocations,   *)
(* each with a new audit projection.                                        *)

AppendAudit ==
    /\ state \in TerminalStates
    /\ audits < MaxAudits
    /\ audits' = audits + 1
    /\ UNCHANGED <<state, waiting, approvals, last, budget, passed, result>>

\* Mutant: a revocation on its own is accepted in any state.
RevokeAnywhere(a) ==
    /\ audits < MaxAudits
    /\ approvals[a] = "valid"
    /\ approvals' = [approvals EXCEPT ![a] = "revoked"]
    /\ audits' = audits + 1
    /\ UNCHANGED <<state, waiting, last, budget, passed, result>>


RevokeAfterTermination(a) ==
    /\ state \in TerminalStates
    /\ audits < MaxAudits
    /\ approvals[a] = "valid"
    /\ approvals' = [approvals EXCEPT ![a] = "revoked"]
    /\ audits' = audits + 1
    /\ UNCHANGED <<state, waiting, last, budget, passed, result>>

-----------------------------------------------------------------------------
SupersessionReasons == {"reduction_approved", "approval_revoked", "revised"}
SupersessionCauses == {"runtime_identity_replacement", "approval_revocation"}

AppendStep ==
    \/ CreateRun
    \/ RecordObservation
    \/ Reject
    \/ \E a \in Approvals : Approve(a)
    \/ \E r \in SupersessionReasons : SupersedeArtifact(r)
    \/ \E b \in Counters, t \in RunStates :
          \/ PassStageGate(t, b)
          \/ ActOnDecision(t, b)
          \/ Revise(t, b)
          \/ \E a \in Approvals : RevokeAndRollBack(a, t, b)
          \/ \E x \in Bindings : Suspend(t, x, b) \/ Resume(t, x, b)

TerminalStep ==
    \E b \in Counters, named \in SUBSET Approvals :
       \/ RequestClarification(b, named)
       \/ ClaimAndFinish(b, named)
       \/ \E t \in TerminalStates : FailValidation(t, b, named)
                                    \/ RequestTermination(t, b, named)
       \/ \E m \in Metrics : ExhaustBudget(m, b, named)

ReplacementStep ==
    \E b \in Counters, x \in Bindings, c \in SupersessionCauses : SupersedeRun(c, x, b)

AuditStep == AppendAudit \/ \E a \in Approvals : RevokeAfterTermination(a)

Next == AppendStep \/ TerminalStep \/ ReplacementStep \/ AuditStep

Spec == Init /\ [][Next]_vars

-----------------------------------------------------------------------------
(* Properties.                                                             *)

\* The stage the run is at: a suspended run is still at the stage it left.
Stage ==
    IF waiting = NoWait THEN state
    ELSE IF waiting.resume = "WAITING_EVIDENCE" THEN "RESEARCHING"
    ELSE waiting.resume

\* A run carries a waiting binding exactly while it waits, and the binding names a
\* stage that may be suspended into that very waiting state (_waiting_binding,
\* project_records).
WaitingBound ==
    /\ state \in WaitingStates <=> waiting # NoWait
    /\ waiting # NoWait => <<waiting.resume, state>> \in SuspensionEdges

\* No suspension, revision or rollback lets a run reach a later stage without the
\* release gates before it, and COMPLETED needs all of them (StageGatePassed).
GateLadder ==
    /\ Stage \in CandidateFrozenStates \cup {"SIMULATION_VALIDATING", "COMPLETED"}
          => "UNIT_VALIDATING" \in passed
    /\ Stage \in CandidateFrozenStates \cup {"COMPLETED"}
          => "SIMULATION_VALIDATING" \in passed
    /\ Stage \in {"TRAINING_SMOKE_TESTING", "POLICY_TRAINING", "FINAL_EVALUATING",
                  "PACKAGING", "COMPLETED"}
          => "SEALED_E2E_VALIDATING" \in passed
    /\ Stage \in {"POLICY_TRAINING", "FINAL_EVALUATING", "PACKAGING", "COMPLETED"}
          => "TRAINING_SMOKE_TESTING" \in passed
    /\ Stage \in {"FINAL_EVALUATING", "PACKAGING", "COMPLETED"}
          => "POLICY_TRAINING" \in passed
    /\ Stage \in {"PACKAGING", "COMPLETED"} => "FINAL_EVALUATING" \in passed

\* An accepted budget snapshot has an exhausted counter exactly when the run ended
\* for that reason: no work, and no other ending, on an exhausted budget.
BudgetClosed == state # "ABSENT" => (Exhausted(budget) <=> state = "BUDGET_EXHAUSTED")

\* A classified task still has a valid approval while the run decides what to do
\* with it, builds the hand-off, or waits on either.
ClassifiedTaskApproved ==
    Stage \in {"CLASSIFIED", "REDUCTION_PROPOSAL_DRAFTING",
               "WAITING_REDUCTION_CONFIRMATION", "OOD_HANDOFF_BUILDING",
               "OOD_HANDOFF_VALIDATING"}
       => Valid(TextApprovals) # {}

\* A terminal run has a result, written once with approvals that were valid then,
\* and its state never changes again (_commit_terminal, RunTerminalError).
FinalStep ==
    /\ result # NoResult => result' = result /\ state' = state
    /\ state' \in TerminalStates => result'.terminal = state'
    /\ result' # result => \A a \in result'.approved : approvals'[a] = "valid"

ResultIsFinal == [][FinalStep]_vars

\* A revocation never passes unnoticed: the run is already over, or the same
\* command takes it back to drafting and forgets the release gates.
RollbackStep ==
    (\E a \in Approvals : approvals[a] = "valid" /\ approvals'[a] # "valid")
       => \/ state \in TerminalStates
          \/ state' \in {"TEXT_DRAFTED", "FORMAL_DRAFTED"} /\ passed' = {}

RevocationRollsBack == [][RollbackStep]_vars

\* The phase of RunProtocol the run is in.
Phase ==
    IF Stage = "ABSENT" THEN 0
    ELSE IF Stage \in ModellingStates THEN 2
    ELSE IF Stage \in ImplementationStates THEN 3
    ELSE IF Stage \in CandidateFrozenStates THEN 4
    ELSE IF Stage \in TerminalStates THEN 5
    ELSE 1

Protocol == INSTANCE RunProtocol WITH
    phase <- Phase,
    suspended <- (waiting # NoWait),
    outcome <- IF result = NoResult THEN "none" ELSE result.terminal

\* The event-sourced run implements the protocol its readers rely on: in
\* particular a frozen candidate is never revised, a suspension resumes in the
\* phase it left, and the outcome fits the phase it is reached from.
ImplementsProtocol == Protocol!Spec
=============================================================================
