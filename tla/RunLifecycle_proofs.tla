------------------------ MODULE RunLifecycle_proofs ------------------------
(***************************************************************************)
(* Theorems about RunLifecycle for every set of approvals, bindings and    *)
(* metrics and every limit; and about the public ladder, whose judgements  *)
(* become events of a run, for every set of evaluators, candidates and     *)
(* failures, every revision budget and every head.                         *)
(***************************************************************************)
EXTENDS RunAndLadder, FiniteSetTheorems, TLAPS

-----------------------------------------------------------------------------
(* Facts about the transition tables.                                      *)

\* A suspension leaves an active stage, or evidence that is blocked, for a wait.
LEMMA SuspensionLeaves ==
    ASSUME NEW s, NEW t, <<s, t>> \in SuspensionEdges
    PROVE  /\ s \in ActiveStates \cup {"WAITING_EVIDENCE"}
           /\ t \in WaitingStates
BY DEF SuspensionEdges, ActiveStates, WaitingStates, ModellingStates,
       ImplementationStates, CandidateFrozenStates

\* A resumption leaves a wait for an active stage.
LEMMA ResumptionReturns ==
    ASSUME NEW s, NEW t, <<s, t>> \in ResumptionEdges
    PROVE  s \in WaitingStates /\ t \in ActiveStates
BY DEF ResumptionEdges, ActiveStates, WaitingStates, ModellingStates,
       ImplementationStates, CandidateFrozenStates

\* Stage gates, decisions and revisions lead from one active stage to another.
LEMMA GateIsActive ==
    ASSUME NEW s, NEW t, <<s, t>> \in StageGates
    PROVE  s \in ActiveStates /\ t \in ActiveStates
BY DEF StageGates, ActiveStates, ModellingStates, ImplementationStates,
       CandidateFrozenStates

LEMMA DecisionIsActive ==
    ASSUME NEW s, NEW t, NEW d, <<s, t>> \in ApprovalEdges(d)
    PROVE  s \in ActiveStates /\ t \in ActiveStates
BY DEF ApprovalEdges, ActiveStates, ModellingStates, ImplementationStates,
       CandidateFrozenStates

LEMMA RevisionIsActive ==
    ASSUME NEW s, NEW t, NEW r, <<s, t>> \in SupersessionEdges(r)
    PROVE  /\ s \in ActiveStates \ CandidateFrozenStates
           /\ t \in {"TEXT_DRAFTED", "FORMAL_DRAFTED", "ENVIRONMENT_IMPLEMENTED",
                     "OOD_HANDOFF_BUILDING"}
           /\ t \in ActiveStates
BY DEF SupersessionEdges, RevocationEdges, RevisionEdges, ActiveStates,
       ModellingStates, ImplementationStates, CandidateFrozenStates

\* No state is of two kinds, and none is the absent state.
LEMMA KindsAreDisjoint ==
    /\ ActiveStates \cap WaitingStates = {}
    /\ ActiveStates \cap TerminalStates = {}
    /\ WaitingStates \cap TerminalStates = {}
    /\ "ABSENT" \notin RunStates
    /\ "WAITING_EVIDENCE" \in WaitingStates
    /\ "RECEIVED" \in ActiveStates
BY DEF RunStates, ActiveStates, WaitingStates, TerminalStates, ModellingStates,
       ImplementationStates, CandidateFrozenStates

-----------------------------------------------------------------------------
(* Type correctness.                                                       *)

LEMMA TypeInit == ASSUME RunLifecycleAssumption, Init PROVE TypeOK
BY DEF Init, TypeOK, Counters, NoWait, NoResult, Triggers, RunLifecycleAssumption

LEMMA TypeTerminal ==
    ASSUME TypeOK, NEW t \in TerminalStates, NEW b \in Counters,
           NEW named \in SUBSET Approvals, CommitTerminal(t, b, named)
    PROVE  TypeOK'
BY DEF TypeOK, CommitTerminal, StateTransitioned, RunStates, Triggers, NoWait

LEMMA TypeStep == ASSUME TypeOK, [Next]_vars PROVE TypeOK'
<1> USE DEF TypeOK, Triggers, RunStates
<1>1. CASE CreateRun
  BY <1>1, KindsAreDisjoint DEF CreateRun
<1>2. CASE RecordObservation
  BY <1>2 DEF RecordObservation
<1>3. CASE Reject
  BY <1>3 DEF Reject
<1>4. ASSUME NEW a \in Approvals, Approve(a) PROVE TypeOK'
  BY <1>4 DEF Approve
<1>5. ASSUME NEW r \in SupersessionReasons, SupersedeArtifact(r) PROVE TypeOK'
  BY <1>5 DEF SupersedeArtifact, SupersessionReasons
<1>6. ASSUME NEW b \in Counters, NEW t \in RunStates, PassStageGate(t, b) PROVE TypeOK'
  BY <1>6 DEF PassStageGate, StateTransitioned
<1>7. ASSUME NEW b \in Counters, NEW t \in RunStates, ActOnDecision(t, b) PROVE TypeOK'
  BY <1>7 DEF ActOnDecision, StateTransitioned
<1>8. ASSUME NEW b \in Counters, NEW t \in RunStates, Revise(t, b) PROVE TypeOK'
  BY <1>8 DEF Revise, StateTransitioned
<1>9. ASSUME NEW b \in Counters, NEW t \in RunStates, NEW a \in Approvals,
             RevokeAndRollBack(a, t, b)
      PROVE  TypeOK'
  BY <1>9 DEF RevokeAndRollBack, StateTransitioned
<1>10. ASSUME NEW b \in Counters, NEW t \in RunStates, NEW x \in Bindings,
              Suspend(t, x, b)
       PROVE  TypeOK'
  <2>1. state \in ActiveStates \cup WaitingStates
    BY <1>10, SuspensionLeaves, KindsAreDisjoint DEF Suspend
  <2> QED BY <1>10, <2>1 DEF Suspend, StateTransitioned
<1>11. ASSUME NEW b \in Counters, NEW t \in RunStates, NEW x \in Bindings,
              Resume(t, x, b)
       PROVE  TypeOK'
  BY <1>11 DEF Resume, StateTransitioned
<1>12. CASE TerminalStep
  <2>1. PICK b \in Counters, named \in SUBSET Approvals, t \in TerminalStates :
           CommitTerminal(t, b, named)
    BY <1>12 DEF TerminalStep, RequestClarification, ClaimAndFinish, FailValidation,
                 RequestTermination, ExhaustBudget, TerminalStates
  <2> QED BY <2>1, TypeTerminal
<1>13. CASE ReplacementStep
  <2>1. PICK b \in Counters : CommitTerminal("CANCELLED", b, Valid(Approvals))
    BY <1>13 DEF ReplacementStep, SupersedeRun
  <2> QED BY <2>1, TypeTerminal DEF TerminalStates, Valid
<1>14. CASE AppendAudit
  BY <1>14, RunLifecycleAssumption DEF AppendAudit, RunLifecycleAssumption
<1>15. ASSUME NEW a \in Approvals, RevokeAfterTermination(a) PROVE TypeOK'
  BY <1>15, RunLifecycleAssumption DEF RevokeAfterTermination, RunLifecycleAssumption
<1>16. CASE UNCHANGED vars
  BY <1>16 DEF vars
<1> QED
  BY <1>1, <1>2, <1>3, <1>4, <1>5, <1>6, <1>7, <1>8, <1>9, <1>10, <1>11, <1>12,
     <1>13, <1>14, <1>15, <1>16
  DEF Next, AppendStep, AuditStep

\* Every field of the projection keeps its type.
THEOREM TypeCorrect == Spec => []TypeOK
<1>1. Init => TypeOK
  BY TypeInit, RunLifecycleAssumption
<1>2. TypeOK /\ [Next]_vars => TypeOK'
  BY TypeStep
<1> QED BY <1>1, <1>2, PTL DEF Spec

-----------------------------------------------------------------------------
(* The waiting binding.                                                    *)

\* Whether a state waits decides whether there is a binding, and the binding names
\* the place the wait was entered from.
LEMMA WaitingStep ==
    ASSUME TypeOK, WaitingBound, [Next]_vars
    PROVE  WaitingBound'
<1> USE DEF WaitingBound
<1>1. CASE waiting' = waiting /\ state' = state
  BY <1>1
<1>2. CASE CreateRun
  BY <1>2, KindsAreDisjoint DEF CreateRun, WaitingStates
<1>3. ASSUME NEW t, NEW b, state' = t, waiting' = NoWait,
             t \in ActiveStates \cup TerminalStates
      PROVE  WaitingBound'
  BY <1>3, KindsAreDisjoint
<1>4. ASSUME NEW b \in Counters, NEW t \in RunStates, PassStageGate(t, b)
      PROVE  WaitingBound'
  BY <1>3, <1>4, GateIsActive DEF PassStageGate, StateTransitioned
<1>5. ASSUME NEW b \in Counters, NEW t \in RunStates, ActOnDecision(t, b)
      PROVE  WaitingBound'
  BY <1>3, <1>5, DecisionIsActive DEF ActOnDecision, StateTransitioned
<1>6. ASSUME NEW b \in Counters, NEW t \in RunStates, Revise(t, b)
      PROVE  WaitingBound'
  BY <1>3, <1>6, RevisionIsActive DEF Revise, StateTransitioned
<1>7. ASSUME NEW b \in Counters, NEW t \in RunStates, NEW a \in Approvals,
             RevokeAndRollBack(a, t, b)
      PROVE  WaitingBound'
  BY <1>3, <1>7, RevisionIsActive DEF RevokeAndRollBack, StateTransitioned
<1>8. ASSUME NEW b \in Counters, NEW t \in RunStates, NEW x \in Bindings,
             Suspend(t, x, b)
      PROVE  WaitingBound'
  <2>1. <<state, t>> \in SuspensionEdges /\ state' = t
        /\ waiting' = [resume |-> state, binding |-> x]
    BY <1>8 DEF Suspend, StateTransitioned
  <2>2. state # "ABSENT" /\ t \in WaitingStates
    BY <2>1, SuspensionLeaves, KindsAreDisjoint DEF RunStates
  <2>3. waiting' # NoWait
    BY <2>1, <2>2 DEF NoWait
  <2> QED BY <2>1, <2>2, <2>3
<1>9. ASSUME NEW b \in Counters, NEW t \in RunStates, NEW x \in Bindings,
             Resume(t, x, b)
      PROVE  WaitingBound'
  BY <1>3, <1>9, ResumptionReturns DEF Resume, StateTransitioned
<1>10. ASSUME NEW b, NEW named, NEW t \in TerminalStates, CommitTerminal(t, b, named)
       PROVE  WaitingBound'
  BY <1>3, <1>10 DEF CommitTerminal, StateTransitioned
<1>11. CASE TerminalStep
  BY <1>10, <1>11 DEF TerminalStep, RequestClarification, ClaimAndFinish,
     FailValidation, RequestTermination, ExhaustBudget, TerminalStates
<1>12. CASE ReplacementStep
  BY <1>10, <1>12 DEF ReplacementStep, SupersedeRun, TerminalStates
<1>13. CASE \/ RecordObservation \/ Reject \/ AuditStep \/ UNCHANGED vars
            \/ \E a \in Approvals : Approve(a)
            \/ \E r \in SupersessionReasons : SupersedeArtifact(r)
  BY <1>1, <1>13 DEF RecordObservation, Reject, Approve, SupersedeArtifact, AuditStep,
     AppendAudit, RevokeAfterTermination, vars
<1> QED
  BY <1>2, <1>4, <1>5, <1>6, <1>7, <1>8, <1>9, <1>11, <1>12, <1>13
  DEF Next, AppendStep

\* A run carries a waiting binding exactly while it waits, and the binding names a
\* stage that may be suspended into that waiting state.
THEOREM WaitingCorrect == Spec => []WaitingBound
<1>1. Init => WaitingBound
  BY DEF Init, WaitingBound, WaitingStates
<1>2. TypeOK /\ WaitingBound /\ [Next]_vars => WaitingBound'
  BY WaitingStep
<1> QED BY <1>1, <1>2, TypeCorrect, PTL DEF Spec

-----------------------------------------------------------------------------
(* The budget.                                                             *)

\* The inductive form of BudgetClosed: it also covers the absent run.
BudgetInv == Exhausted(budget) <=> state = "BUDGET_EXHAUSTED"

LEMMA BudgetOfTransition ==
    ASSUME NEW t, NEW w, NEW b \in Counters, StateTransitioned(t, w, b),
           t = "BUDGET_EXHAUSTED" => Exhausted(b)
    PROVE  BudgetInv'
BY DEF StateTransitioned, BudgetAccepts, BudgetInv, Exhausted

LEMMA BudgetStep == ASSUME BudgetInv, [Next]_vars PROVE BudgetInv'
<1>1. CASE budget' = budget /\ state' = state
  BY <1>1 DEF BudgetInv, Exhausted
<1>2. CASE CreateRun
  BY <1>2 DEF CreateRun, BudgetInv, Exhausted
<1>3. "BUDGET_EXHAUSTED" \notin (ActiveStates \cup WaitingStates)
  BY KindsAreDisjoint DEF TerminalStates
<1>4. ASSUME NEW b \in Counters, NEW t \in RunStates, PassStageGate(t, b)
      PROVE  BudgetInv'
  BY <1>3, <1>4, GateIsActive, BudgetOfTransition DEF PassStageGate
<1>5. ASSUME NEW b \in Counters, NEW t \in RunStates, ActOnDecision(t, b)
      PROVE  BudgetInv'
  BY <1>3, <1>5, DecisionIsActive, BudgetOfTransition DEF ActOnDecision
<1>6. ASSUME NEW b \in Counters, NEW t \in RunStates, Revise(t, b)
      PROVE  BudgetInv'
  BY <1>3, <1>6, RevisionIsActive, BudgetOfTransition DEF Revise
<1>7. ASSUME NEW b \in Counters, NEW t \in RunStates, NEW a \in Approvals,
             RevokeAndRollBack(a, t, b)
      PROVE  BudgetInv'
  BY <1>3, <1>7, RevisionIsActive, BudgetOfTransition DEF RevokeAndRollBack
<1>8. ASSUME NEW b \in Counters, NEW t \in RunStates, NEW x \in Bindings,
             Suspend(t, x, b)
      PROVE  BudgetInv'
  BY <1>3, <1>8, SuspensionLeaves, BudgetOfTransition DEF Suspend
<1>9. ASSUME NEW b \in Counters, NEW t \in RunStates, NEW x \in Bindings,
             Resume(t, x, b)
      PROVE  BudgetInv'
  BY <1>3, <1>9, ResumptionReturns, BudgetOfTransition DEF Resume
<1>10. ASSUME NEW b \in Counters, NEW named, NEW t, CommitTerminal(t, b, named),
              t = "BUDGET_EXHAUSTED" => Exhausted(b)
       PROVE  BudgetInv'
  BY <1>10, BudgetOfTransition DEF CommitTerminal
<1>11. ASSUME NEW m \in Metrics, NEW b \in Counters, NEW named \in SUBSET Approvals,
              ExhaustBudget(m, b, named)
       PROVE  BudgetInv'
  BY <1>10, <1>11 DEF ExhaustBudget, Exhausted
<1>12. CASE TerminalStep
  BY <1>10, <1>11, <1>12 DEF TerminalStep, RequestClarification, ClaimAndFinish,
     FailValidation, RequestTermination
<1>13. CASE ReplacementStep
  BY <1>10, <1>13 DEF ReplacementStep, SupersedeRun
<1>14. CASE \/ RecordObservation \/ Reject \/ AuditStep \/ UNCHANGED vars
            \/ \E a \in Approvals : Approve(a)
            \/ \E r \in SupersessionReasons : SupersedeArtifact(r)
  BY <1>1, <1>14 DEF RecordObservation, Reject, Approve, SupersedeArtifact, AuditStep,
     AppendAudit, RevokeAfterTermination, vars
<1> QED
  BY <1>2, <1>4, <1>5, <1>6, <1>7, <1>8, <1>9, <1>12, <1>13, <1>14
  DEF Next, AppendStep

\* No work and no other ending on an exhausted budget, whatever the metrics and the
\* limit.
THEOREM BudgetCorrect == Spec => []BudgetClosed
<1>1. Init => BudgetInv
  BY RunLifecycleAssumption
  DEF Init, BudgetInv, Exhausted, RunLifecycleAssumption
<1>2. BudgetInv /\ [Next]_vars => BudgetInv'
  BY BudgetStep
<1>3. BudgetInv => BudgetClosed
  BY DEF BudgetInv, BudgetClosed
<1> QED BY <1>1, <1>2, <1>3, PTL DEF Spec

-----------------------------------------------------------------------------
(* How a step moves the stage.  Every property of stages below follows from *)
(* this classification of the steps and from the tables alone.              *)

\* The run stays where it is, suspended or not, and loses no approval unless over.
Stays ==
    /\ Stage' = Stage
    /\ passed' = passed
    /\ result' = result
    /\ waiting' # waiting => Stage \in ActiveStates
    /\ Stage \notin TerminalStates
          => \A a \in Approvals : approvals[a] = "valid" => approvals'[a] = "valid"

\* A new run.
Begins == Stage = "ABSENT" /\ Stage' = "RECEIVED"
          /\ waiting' = waiting /\ result' = result

\* A move between two active stages, with nothing suspended before or after it.
MovesOn ==
    /\ Stage \in ActiveStates /\ Stage' \in ActiveStates
    /\ waiting = NoWait /\ waiting' = NoWait
    /\ result' = result

PassesGate ==
    /\ MovesOn
    /\ <<Stage, Stage'>> \in StageGates
    /\ passed' = passed \cup ({Stage} \cap ReleaseGates)
    /\ GateHolds(Stage')
    /\ approvals' = approvals

Decides ==
    /\ MovesOn
    /\ \E d : <<Stage, Stage'>> \in ApprovalEdges(d)
    /\ passed' = passed
    /\ approvals' = approvals

GoesBack ==
    /\ MovesOn
    /\ \E r : <<Stage, Stage'>> \in SupersessionEdges(r)
    /\ \/ approvals' = approvals
       \/ <<Stage, Stage'>> \in RevocationEdges

\* The end of a run, with the outcomes that are reserved to one stage.
Ends ==
    /\ Stage \in ActiveStates
    /\ Stage' = state' /\ state' \in TerminalStates
    /\ result' = [terminal |-> state', approved |-> result'.approved]
    /\ passed' = passed
    /\ waiting' = NoWait
    /\ <<state, state'>> \in TerminalEdges \/ state' = "BUDGET_EXHAUSTED"

\* A run whose stage is over, or that has none yet, is not suspended.
StageInv ==
    /\ Stage \in ActiveStates <=> state \in ActiveStates \cup WaitingStates
    /\ Stage \in TerminalStates <=> state \in TerminalStates
    /\ Stage = "ABSENT" <=> state = "ABSENT"
    /\ state = "WAITING_EVIDENCE" => Stage = "RESEARCHING" /\ waiting.resume = Stage
    /\ waiting = NoWait => Stage = state

LEMMA StageKinds == TypeOK /\ WaitingBound => StageInv
<1> SUFFICES ASSUME TypeOK, WaitingBound PROVE StageInv
  OBVIOUS
<1>1. CASE waiting = NoWait
  BY <1>1, KindsAreDisjoint DEF TypeOK, WaitingBound, StageInv, Stage
<1>2. CASE waiting # NoWait
  <2>1. state \in WaitingStates /\ <<waiting.resume, state>> \in SuspensionEdges
    BY <1>2 DEF WaitingBound
  <2>2. waiting.resume \in ActiveStates \cup {"WAITING_EVIDENCE"}
    BY <2>1, SuspensionLeaves
  <2>3. "RESEARCHING" \in ActiveStates
    BY DEF ActiveStates
  <2>4. state = "WAITING_EVIDENCE" => waiting.resume = "RESEARCHING"
    BY <2>1 DEF SuspensionEdges
  <2> QED
    BY <1>2, <2>1, <2>2, <2>3, <2>4, KindsAreDisjoint DEF StageInv, Stage, RunStates
<1> QED BY <1>1, <1>2

LEMMA StageStep ==
    ASSUME TypeOK, WaitingBound, [Next]_vars
    PROVE  Stays \/ Begins \/ PassesGate \/ Decides \/ GoesBack \/ Ends
<1>1. StageInv
  BY StageKinds
<1>2. (TypeOK /\ WaitingBound => StageInv)'
  BY StageKinds, PTL
<1>3. StageInv' /\ WaitingBound' /\ TypeOK'
  BY <1>2, TypeStep, WaitingStep
<1>4. (waiting' = NoWait) => Stage' = state'
  BY DEF Stage
<1>5. ASSUME state' = state, waiting' = waiting, passed' = passed, result' = result,
             state \notin TerminalStates
                => \A a \in Approvals : approvals[a] = "valid" => approvals'[a] = "valid"
      PROVE  Stays
  BY <1>1, <1>5 DEF Stays, Stage, StageInv
<1>6. CASE CreateRun
  BY <1>1, <1>6, KindsAreDisjoint DEF CreateRun, Begins, Stage, StageInv, WaitingBound
<1>7. CASE \/ RecordObservation \/ Reject \/ AuditStep \/ UNCHANGED vars
           \/ \E a \in Approvals : Approve(a)
           \/ \E r \in SupersessionReasons : SupersedeArtifact(r)
  BY <1>5, <1>7 DEF RecordObservation, Reject, Approve, SupersedeArtifact, AuditStep,
     AppendAudit, RevokeAfterTermination, vars, TypeOK
<1>8. ASSUME NEW t, state' = t, waiting' = NoWait, state \in ActiveStates,
             t \in ActiveStates, result' = result
      PROVE  MovesOn /\ Stage = state /\ Stage' = t
  <2>1. waiting = NoWait
    BY <1>8, KindsAreDisjoint DEF WaitingBound
  <2> QED BY <1>1, <1>4, <1>8, <2>1 DEF MovesOn, StageInv
<1>9. ASSUME NEW b \in Counters, NEW t \in RunStates, PassStageGate(t, b)
      PROVE  PassesGate
  <2>1. state \in ActiveStates /\ t \in ActiveStates
    BY <1>9, GateIsActive DEF PassStageGate
  <2>2. MovesOn /\ Stage = state /\ Stage' = t
    BY <1>8, <1>9, <2>1 DEF PassStageGate, StateTransitioned
  <2> QED BY <1>9, <2>2 DEF PassStageGate, PassesGate
<1>10. ASSUME NEW b \in Counters, NEW t \in RunStates, ActOnDecision(t, b)
       PROVE  Decides
  <2>1. state \in ActiveStates /\ t \in ActiveStates
    BY <1>10, DecisionIsActive DEF ActOnDecision
  <2>2. MovesOn /\ Stage = state /\ Stage' = t
    BY <1>8, <1>10, <2>1 DEF ActOnDecision, StateTransitioned
  <2> QED BY <1>10, <2>2 DEF ActOnDecision, Decides
<1>11. ASSUME NEW b \in Counters, NEW t \in RunStates,
              Revise(t, b) \/ \E a \in Approvals : RevokeAndRollBack(a, t, b)
       PROVE  GoesBack
  <2>1. PICK r : <<state, t>> \in SupersessionEdges(r)
    BY <1>11 DEF Revise, RevokeAndRollBack
  <2>2. state \in ActiveStates /\ t \in ActiveStates
    BY <2>1, RevisionIsActive
  <2>3. MovesOn /\ Stage = state /\ Stage' = t
    BY <1>8, <1>11, <2>2 DEF Revise, RevokeAndRollBack, StateTransitioned
  <2>4. approvals' = approvals \/ <<state, t>> \in RevocationEdges
    BY <1>11 DEF Revise, RevokeAndRollBack, SupersessionEdges
  <2> QED BY <2>1, <2>3, <2>4 DEF GoesBack
<1>12. ASSUME NEW b \in Counters, NEW t \in RunStates, NEW x \in Bindings,
              Suspend(t, x, b)
       PROVE  Stays
  <2>1. /\ <<state, t>> \in SuspensionEdges
        /\ state' = t /\ waiting' = [resume |-> state, binding |-> x]
        /\ passed' = passed /\ result' = result /\ approvals' = approvals
    BY <1>12 DEF Suspend, StateTransitioned
  <2>2. state \in ActiveStates \cup {"WAITING_EVIDENCE"} /\ t \in WaitingStates
    BY <2>1, SuspensionLeaves
  <2>3. waiting' # NoWait
    BY <1>3, <2>1, <2>2 DEF WaitingBound
  <2>4. Stage' = IF state = "WAITING_EVIDENCE" THEN "RESEARCHING" ELSE state
    BY <2>1, <2>3 DEF Stage
  <2>5. Stage' = Stage
    <3>1. CASE state = "WAITING_EVIDENCE"
      BY <1>1, <2>4, <3>1 DEF StageInv
    <3>2. CASE state \in ActiveStates /\ state # "WAITING_EVIDENCE"
      <4>1. waiting = NoWait
        BY <3>2, KindsAreDisjoint DEF WaitingBound
      <4> QED BY <2>4, <3>2, <4>1 DEF Stage
    <3> QED BY <2>2, <3>1, <3>2
  <2>6. Stage \in ActiveStates
    BY <1>1, <2>2, KindsAreDisjoint DEF StageInv
  <2> QED BY <2>1, <2>5, <2>6 DEF Stays
<1>13. ASSUME NEW b \in Counters, NEW t \in RunStates, NEW x \in Bindings,
              Resume(t, x, b)
       PROVE  Stays
  <2>1. /\ state \in WaitingStates /\ t = waiting.resume /\ t \in ActiveStates
        /\ state' = t /\ waiting' = NoWait
        /\ passed' = passed /\ result' = result /\ approvals' = approvals
    BY <1>13, ResumptionReturns DEF Resume, StateTransitioned
  <2>2. waiting # NoWait /\ t # "WAITING_EVIDENCE"
    BY <2>1, KindsAreDisjoint DEF WaitingBound
  <2>3. Stage' = Stage
    BY <1>4, <2>1, <2>2 DEF Stage
  <2>4. Stage \in ActiveStates
    BY <1>1, <2>1 DEF StageInv
  <2> QED BY <2>1, <2>3, <2>4 DEF Stays
<1>14. ASSUME NEW b, NEW named, NEW t \in TerminalStates, CommitTerminal(t, b, named),
              t = "BUDGET_EXHAUSTED" => state # "ABSENT"
       PROVE  Ends
  <2>1. /\ Allowed(state, t) /\ state' = t /\ waiting' = NoWait
        /\ result' = [terminal |-> t, approved |-> named] /\ passed' = passed
    BY <1>14 DEF CommitTerminal, StateTransitioned
  <2>2. <<state, t>> \in TerminalEdges \/ t = "BUDGET_EXHAUSTED"
    <3>1. <<state, t>> \notin OrdinaryEdges
      BY GateIsActive, DecisionIsActive, SuspensionLeaves, ResumptionReturns,
         KindsAreDisjoint
      DEF OrdinaryEdges, RevisionEdges, RevocationEdges, TerminalStates
    <3> QED BY <2>1, <3>1 DEF Allowed
  <2>3. state # "ABSENT"
    BY <1>14, <2>2 DEF TerminalEdges, PartialPredecessors, FailedPredecessors,
       CancelledPredecessors, CandidateFrozenStates
  <2>4. Stage \in ActiveStates
    BY <1>1, <2>1, <2>3 DEF StageInv, TypeOK, RunStates, Allowed
  <2> QED BY <1>4, <2>1, <2>2, <2>4 DEF Ends
<1>15. CASE TerminalStep
  BY <1>14, <1>15 DEF TerminalStep, RequestClarification, ClaimAndFinish,
     FailValidation, RequestTermination, ExhaustBudget, TerminalStates
<1>16. CASE ReplacementStep
  BY <1>14, <1>16 DEF ReplacementStep, SupersedeRun, TerminalStates
<1> QED
  BY <1>6, <1>7, <1>9, <1>10, <1>11, <1>12, <1>13, <1>15, <1>16 DEF Next, AppendStep

-----------------------------------------------------------------------------
(* The release ladder.                                                     *)

LEMMA LadderStep ==
    ASSUME TypeOK, WaitingBound, GateLadder, [Next]_vars
    PROVE  GateLadder'
<1>1. CASE Stays
  BY <1>1 DEF Stays, GateLadder
<1>2. CASE Begins
  BY <1>2 DEF Begins, GateLadder, CandidateFrozenStates
<1>3. CASE PassesGate
  <2>1. <<Stage, Stage'>> \in StageGates
        /\ passed' = passed \cup ({Stage} \cap ReleaseGates)
    BY <1>3 DEF PassesGate
  <2>2. CASE Stage \in {"ENVIRONMENT_IMPLEMENTED", "UNIT_VALIDATING",
                        "SIMULATION_VALIDATING"} \cup CandidateFrozenStates
    BY <2>1, <2>2 DEF StageGates, GateLadder, CandidateFrozenStates, ReleaseGates
  <2>3. CASE Stage \notin {"ENVIRONMENT_IMPLEMENTED", "UNIT_VALIDATING",
                           "SIMULATION_VALIDATING"} \cup CandidateFrozenStates
    BY <2>1, <2>3 DEF StageGates, GateLadder, CandidateFrozenStates, ReleaseGates
  <2> QED BY <2>2, <2>3
<1>4. CASE Decides
  BY <1>4 DEF Decides, ApprovalEdges, GateLadder, CandidateFrozenStates
<1>5. CASE GoesBack
  BY <1>5, RevisionIsActive DEF GoesBack, GateLadder, CandidateFrozenStates
<1>6. CASE Ends
  <2>1. Stage' \notin (CandidateFrozenStates \cup {"SIMULATION_VALIDATING"})
    BY <1>6 DEF Ends, CandidateFrozenStates, TerminalStates
  <2>2. CASE Stage' # "COMPLETED"
    BY <2>1, <2>2 DEF GateLadder, CandidateFrozenStates
  <2>3. CASE Stage' = "COMPLETED"
    <3>1. state = "PACKAGING"
      BY <1>6, <2>3 DEF Ends, TerminalEdges
    <3>2. Stage = "PACKAGING"
      BY <3>1, KindsAreDisjoint DEF Stage, WaitingBound, WaitingStates
    <3> QED BY <1>6, <2>1, <2>3, <3>2 DEF Ends, GateLadder, CandidateFrozenStates
  <2> QED BY <2>2, <2>3
<1> QED BY <1>1, <1>2, <1>3, <1>4, <1>5, <1>6, StageStep

\* No suspension, revision or rollback lets a run reach a later stage without the
\* release gates before it, and COMPLETED needs all six.
THEOREM LadderCorrect == Spec => []GateLadder
<1>1. Init => GateLadder
  BY DEF Init, GateLadder, Stage, CandidateFrozenStates
<1>2. TypeOK /\ WaitingBound /\ GateLadder /\ [Next]_vars => GateLadder'
  BY LadderStep
<1> QED BY <1>1, <1>2, TypeCorrect, WaitingCorrect, PTL DEF Spec

-----------------------------------------------------------------------------
(* Approvals.                                                              *)

LEMMA ClassifiedStep ==
    ASSUME TypeOK, WaitingBound, ClassifiedTaskApproved, [Next]_vars
    PROVE  ClassifiedTaskApproved'
<1> DEFINE OnClassification == {"CLASSIFIED", "REDUCTION_PROPOSAL_DRAFTING",
               "WAITING_REDUCTION_CONFIRMATION", "OOD_HANDOFF_BUILDING",
               "OOD_HANDOFF_VALIDATING"}
<1>1. CASE Stays
  <2>1. SUFFICES ASSUME Stage \in OnClassification
                 PROVE  Valid(TextApprovals)' # {}
    BY <1>1 DEF Stays, ClassifiedTaskApproved
  <2>2. PICK a \in TextApprovals : approvals[a] = "valid"
    BY <2>1 DEF ClassifiedTaskApproved, Valid
  <2>3. approvals'[a] = "valid"
    BY <1>1, <2>1, <2>2 DEF Stays, TerminalStates, Approvals
  <2> QED BY <2>3 DEF Valid
<1>2. CASE Begins \/ Ends
  BY <1>2 DEF Begins, Ends, ClassifiedTaskApproved, TerminalStates
<1>3. CASE PassesGate
  <2>1. Stage' \in OnClassification => Stage \in OnClassification \/ Stage' = "CLASSIFIED"
    BY <1>3 DEF PassesGate, StageGates
  <2>2. Valid(TextApprovals)' = Valid(TextApprovals)
    BY <1>3 DEF PassesGate, Valid
  <2> QED BY <1>3, <2>1, <2>2 DEF PassesGate, GateHolds, ClassifiedTaskApproved
<1>4. CASE Decides
  <2>1. Stage' \in OnClassification => Stage \in OnClassification
    BY <1>4 DEF Decides, ApprovalEdges
  <2>2. Valid(TextApprovals)' = Valid(TextApprovals)
    BY <1>4 DEF Decides, Valid
  <2> QED BY <2>1, <2>2 DEF ClassifiedTaskApproved
<1>5. CASE GoesBack
  <2>1. PICK r : <<Stage, Stage'>> \in SupersessionEdges(r)
    BY <1>5 DEF GoesBack
  <2>2. CASE Stage' \in OnClassification
    <3>1. Stage' = "OOD_HANDOFF_BUILDING"
      BY <2>1, <2>2, RevisionIsActive
    <3>2. Stage \in OnClassification
      BY <2>1, <3>1 DEF SupersessionEdges, RevocationEdges, RevisionEdges
    <3>3. approvals' = approvals
      BY <1>5, <3>1 DEF GoesBack, RevocationEdges
    <3> QED BY <3>2, <3>3 DEF ClassifiedTaskApproved, Valid
  <2>3. CASE Stage' \notin OnClassification
    BY <2>3 DEF ClassifiedTaskApproved
  <2> QED BY <2>2, <2>3
<1> QED BY <1>1, <1>2, <1>3, <1>4, <1>5, StageStep

\* While a classified task is being decided, handed off or reduced, an approval of
\* a task contract is valid: revoking the last one always leaves those stages.
THEOREM ClassifiedCorrect == Spec => []ClassifiedTaskApproved
<1>1. Init => ClassifiedTaskApproved
  BY DEF Init, ClassifiedTaskApproved, Stage
<1>2. TypeOK /\ WaitingBound /\ ClassifiedTaskApproved /\ [Next]_vars
         => ClassifiedTaskApproved'
  BY ClassifiedStep
<1> QED BY <1>1, <1>2, TypeCorrect, WaitingCorrect, PTL DEF Spec

LEMMA RevocationStep == ASSUME TypeOK, [Next]_vars PROVE RollbackStep
<1> USE DEF RollbackStep
<1>1. CASE approvals' = approvals
  BY <1>1
<1>2. ASSUME NEW a \in Approvals, Approve(a) PROVE RollbackStep
  BY <1>2 DEF Approve, TypeOK
<1>3. ASSUME NEW b \in Counters, NEW t \in RunStates, NEW a \in Approvals,
             RevokeAndRollBack(a, t, b)
      PROVE  RollbackStep
  BY <1>3 DEF RevokeAndRollBack, StateTransitioned, SupersessionEdges, RevocationEdges
<1>4. ASSUME NEW a \in Approvals, RevokeAfterTermination(a) PROVE RollbackStep
  BY <1>4 DEF RevokeAfterTermination
<1> QED
  BY <1>1, <1>2, <1>3, <1>4
  DEF Next, AppendStep, TerminalStep, ReplacementStep, AuditStep, CreateRun,
      RecordObservation, Reject, SupersedeArtifact, PassStageGate, ActOnDecision, Revise,
      Suspend, Resume, RequestClarification, ClaimAndFinish, FailValidation,
      RequestTermination, ExhaustBudget, SupersedeRun, CommitTerminal, AppendAudit, vars

\* A revocation of a run that is not over always rolls it back to drafting, in the
\* same command, and the gates passed on the revoked approval no longer count.
THEOREM RevocationCorrect == Spec => RevocationRollsBack
<1>1. TypeOK /\ [Next]_vars => [RollbackStep]_vars
  BY RevocationStep
<1> QED BY <1>1, TypeCorrect, PTL DEF Spec, RevocationRollsBack

-----------------------------------------------------------------------------
(* The terminal result and the protocol.                                   *)

\* A run has a result exactly when it is over.
ResultInv ==
    /\ result # NoResult <=> state \in TerminalStates
    /\ result # NoResult => result.terminal = state

LEMMA ResultStep ==
    ASSUME TypeOK, WaitingBound, ResultInv, [Next]_vars
    PROVE  ResultInv' /\ FinalStep
<1> USE DEF ResultInv
<1>1. CASE state' = state /\ result' = result
  BY <1>1 DEF FinalStep, TypeOK, NoResult
<1>2. ASSUME result' = result, state' \notin TerminalStates, state \notin TerminalStates
      PROVE  ResultInv' /\ FinalStep
  BY <1>2 DEF FinalStep
<1>3. ASSUME NEW t, NEW w, NEW b, StateTransitioned(t, w, b), t \notin TerminalStates,
             result' = result
      PROVE  ResultInv' /\ FinalStep
  BY <1>2, <1>3 DEF StateTransitioned, Allowed
<1>4. CASE CreateRun
  BY <1>2, <1>4 DEF CreateRun, TerminalStates
<1>5. ASSUME NEW b \in Counters, NEW t \in RunStates,
             \/ PassStageGate(t, b)
             \/ ActOnDecision(t, b)
             \/ Revise(t, b)
             \/ \E a \in Approvals : RevokeAndRollBack(a, t, b)
             \/ \E x \in Bindings : Suspend(t, x, b) \/ Resume(t, x, b)
      PROVE  ResultInv' /\ FinalStep
  <2>1. t \notin TerminalStates
    BY <1>5, GateIsActive, DecisionIsActive, RevisionIsActive, SuspensionLeaves,
       ResumptionReturns, KindsAreDisjoint
    DEF PassStageGate, ActOnDecision, Revise, RevokeAndRollBack, Suspend, Resume
  <2> QED
    BY <1>3, <1>5, <2>1
    DEF PassStageGate, ActOnDecision, Revise, RevokeAndRollBack, Suspend, Resume
<1>6. ASSUME NEW b, NEW named, NEW t \in TerminalStates, CommitTerminal(t, b, named)
      PROVE  ResultInv' /\ FinalStep
  <2>1. /\ state \notin TerminalStates /\ state' = t /\ approvals' = approvals
        /\ result' = [terminal |-> t, approved |-> named] /\ named \subseteq Valid(Approvals)
    BY <1>6 DEF CommitTerminal, StateTransitioned, Allowed
  <2>2. result' # NoResult
    BY <2>1, KindsAreDisjoint DEF NoResult, RunStates
  <2> QED BY <2>1, <2>2 DEF FinalStep, Valid
<1>7. CASE TerminalStep
  BY <1>6, <1>7 DEF TerminalStep, RequestClarification, ClaimAndFinish,
     FailValidation, RequestTermination, ExhaustBudget, TerminalStates
<1>8. CASE ReplacementStep
  BY <1>6, <1>8 DEF ReplacementStep, SupersedeRun, TerminalStates
<1>9. CASE \/ RecordObservation \/ Reject \/ AuditStep \/ UNCHANGED vars
           \/ \E a \in Approvals : Approve(a)
           \/ \E r \in SupersessionReasons : SupersedeArtifact(r)
  BY <1>1, <1>9 DEF RecordObservation, Reject, Approve, SupersedeArtifact, AuditStep,
     AppendAudit, RevokeAfterTermination, vars
<1> QED BY <1>4, <1>5, <1>7, <1>8, <1>9 DEF Next, AppendStep

LEMMA ResultCorrect == Spec => [](TypeOK /\ WaitingBound /\ ResultInv)
<1>1. Init => ResultInv
  BY DEF Init, ResultInv, TerminalStates
<1>2. TypeOK /\ WaitingBound /\ ResultInv /\ [Next]_vars => ResultInv'
  BY ResultStep
<1> QED BY <1>1, <1>2, TypeCorrect, WaitingCorrect, PTL DEF Spec

\* The terminal result is written once, with approvals that are valid at that
\* moment, and neither it nor the state changes afterwards.
THEOREM FinalCorrect == Spec => ResultIsFinal
<1>1. TypeOK /\ WaitingBound /\ ResultInv /\ [Next]_vars => [FinalStep]_vars
  BY ResultStep
<1> QED BY <1>1, ResultCorrect, PTL DEF Spec, ResultIsFinal

\* What the phase of an active stage is.
LEMMA PhaseOfActive ==
    ASSUME Stage \in ActiveStates
    PROVE  Phase \in 1..4
BY KindsAreDisjoint DEF Phase, RunStates

LEMMA ProtocolStep ==
    ASSUME TypeOK, WaitingBound, ResultInv, [Next]_vars
    PROVE  [Protocol!Next]_(Protocol!vars)
<1> USE DEF Protocol!Open, Protocol!Sealed, Protocol!Over
<1> DEFINE Outcome == IF result = NoResult THEN "none" ELSE result.terminal
<1>1. CASE Stays
  <2>1. Stage' = Stage /\ result' = result
    BY <1>1 DEF Stays
  <2>2. Phase' = Phase /\ Outcome' = Outcome
    BY <2>1 DEF Phase
  <2>3. CASE (waiting' # NoWait) = (waiting # NoWait)
    BY <2>2, <2>3 DEF Protocol!vars
  <2>4. CASE (waiting' # NoWait) # (waiting # NoWait)
    <3>1. Stage \in ActiveStates
      BY <1>1, <2>4 DEF Stays
    <3>2. Phase \in 1..4
      BY <3>1, PhaseOfActive
    <3> QED BY <2>2, <2>4, <3>2 DEF Protocol!Next, Protocol!SuspendOrContinue
  <2> QED BY <2>3, <2>4
<1>2. CASE Begins
  <2>1. Phase = 0 /\ Phase' = 1
    BY <1>2 DEF Begins, Phase, ModellingStates, ImplementationStates,
       CandidateFrozenStates, TerminalStates
  <2> QED BY <1>2, <2>1 DEF Begins, Protocol!Next, Protocol!Create
<1>3. ASSUME MovesOn, Phase' \in {Phase, Phase + 1}, Phase' \in 1..4
      PROVE  [Protocol!Next]_(Protocol!vars)
  <2>1. Phase \in 1..4
    BY <1>3, PhaseOfActive DEF MovesOn
  <2> QED BY <1>3, <2>1 DEF MovesOn, Protocol!Next, Protocol!Advance, Protocol!vars
<1>4. CASE PassesGate
  <2>1. Phase' \in {Phase, Phase + 1} /\ Phase' \in 1..4
    BY <1>4 DEF PassesGate, StageGates, Phase, ModellingStates, ImplementationStates,
       CandidateFrozenStates, TerminalStates
  <2> QED BY <1>3, <1>4, <2>1 DEF PassesGate
<1>5. CASE Decides
  <2>1. Phase' \in {Phase, Phase + 1} /\ Phase' \in 1..4
    BY <1>5 DEF Decides, ApprovalEdges, Phase, ModellingStates, ImplementationStates,
       CandidateFrozenStates, TerminalStates
  <2> QED BY <1>3, <1>5, <2>1 DEF Decides
<1>6. CASE GoesBack
  <2>1. PICK r : <<Stage, Stage'>> \in SupersessionEdges(r)
    BY <1>6 DEF GoesBack
  <2>2. Phase' \in 1..Phase /\ Phase \in 1..3
    BY <2>1 DEF SupersessionEdges, RevocationEdges, RevisionEdges, Phase,
       ModellingStates, ImplementationStates, CandidateFrozenStates, TerminalStates
  <2> QED BY <1>6, <2>2 DEF GoesBack, MovesOn, Protocol!Next, Protocol!SendBack,
             Protocol!vars
<1>7. CASE Ends
  <2>1. Phase \in 1..4
    BY <1>7, PhaseOfActive DEF Ends
  <2>2. Phase' = 5 /\ waiting' = NoWait
    BY <1>7, KindsAreDisjoint DEF Ends, Phase, TerminalStates, ModellingStates,
       ImplementationStates, CandidateFrozenStates
  <2>3. Outcome' = state'
    BY <1>7 DEF Ends, NoResult, TerminalStates
  <2>4. state' \in Protocol!Justified
    <3>1. CASE state \in WaitingStates
      <4>1. state' \in {"PARTIAL", "CANCELLED", "BUDGET_EXHAUSTED"}
        BY <1>7, <3>1 DEF Ends, TerminalEdges, FailedPredecessors, CandidateFrozenStates,
           WaitingStates
      <4> QED BY <3>1, <4>1 DEF Protocol!Justified, WaitingBound
    <3>2. CASE state \notin WaitingStates
      <4>1. waiting = NoWait /\ Stage = state
        BY <3>2 DEF WaitingBound, Stage
      <4>2. \/ state' \in {"FAILED", "BUDGET_EXHAUSTED"}
            \/ state' = "PARTIAL" /\ state \in CandidateFrozenStates
            \/ state' = "CANCELLED" /\ state = "RECEIVED"
            \/ state' = "CLARIFICATION_REQUIRED" /\ state = "TEXT_REVIEWED"
            \/ state' = "OOD_PACKAGED" /\ state = "OOD_HANDOFF_VALIDATING"
            \/ state' = "COMPLETED" /\ state = "PACKAGING"
        BY <1>7, <3>2 DEF Ends, TerminalEdges, PartialPredecessors,
           CancelledPredecessors, CandidateFrozenStates, WaitingStates
      <4> QED
        BY <4>1, <4>2 DEF Protocol!Justified, Phase, ModellingStates,
           ImplementationStates, CandidateFrozenStates, TerminalStates
    <3> QED BY <3>1, <3>2
  <2> QED BY <2>1, <2>2, <2>3, <2>4 DEF Protocol!Next, Protocol!End
<1> QED BY <1>1, <1>2, <1>4, <1>5, <1>6, <1>7, StageStep

\* The event-sourced run implements RunProtocol: the promise its readers rely on
\* follows from the tables and the reducer for every size of the run.
THEOREM Refinement == Spec => ImplementsProtocol
<1>1. Init => Protocol!Init
  BY DEF Init, Protocol!Init, Phase, Stage
<1>2. TypeOK /\ WaitingBound /\ ResultInv /\ [Next]_vars => [Protocol!Next]_(Protocol!vars)
  BY ProtocolStep
<1> QED BY <1>1, <1>2, ResultCorrect, PTL DEF Spec, Protocol!Spec, ImplementsProtocol

-----------------------------------------------------------------------------
(* The public ladder.  The strengthening: a batch is not of the future, and *)
(* one whose head is still that of the log was made of the candidate and    *)
(* the state the run has, and, if every count was the log's, of its         *)
(* revisions; so every batch that is accepted is about the run as it is,    *)
(* however late it arrives.                                                 *)

PublicTyped ==
    /\ Public!TypeOK
    /\ offers = [e \in Evaluators |-> offers[e]]

\* The unit gate of the log is of the candidate, once it was passed.
GatePassed ==
    ladder \in {"SIMULATION_VALIDATING", "SEALED_E2E_VALIDATING"} =>
       unitGate # Public!Nothing /\ unitGate.plan.candidate = candidate

\* A freeze at the level its reports earned, with a unit gate of its own plan.
Earned(freeze, omitted) ==
    /\ freeze # Public!Nothing
    /\ freeze.unit.plan = freeze.plan
    /\ (freeze.level = "behavioral") = (Public!SimulationKinds \subseteq freeze.gate.kinds)
    /\ freeze.gate.omitted = omitted

FreezeEarned ==
    ladder = "SEALED_E2E_VALIDATING" =>
       Earned(frozen, Public!OmittedGates) /\ frozen.plan.candidate = candidate

\* What a batch of each kind says, whenever it was made.
WellMade(batch, omitted) ==
    /\ batch.head \in Nat /\ batch.length \in Nat /\ batch.length >= 2
    /\ batch.kind = "gate_passed" =>
          batch.from = "UNIT_VALIDATING" /\ batch.to = "SIMULATION_VALIDATING"
          /\ batch.record # Public!Nothing /\ batch.record.plan.candidate = batch.old
    /\ batch.kind = "candidate_frozen" =>
          batch.from = "SIMULATION_VALIDATING" /\ batch.to = "SEALED_E2E_VALIDATING"
          /\ Earned(batch.record, omitted) /\ batch.record.plan.candidate = batch.old
    /\ batch.kind = "revision_required" => batch.to \in Public!Layers
    /\ batch.kind = "budget_exhausted" => batch.to = "BUDGET_EXHAUSTED"
    /\ batch.kind \in {"gate_passed", "candidate_frozen", "revision_required", "budget_exhausted"}

\* What it says of the run while no event was added since.
OfTheRun(batch, run) ==
    /\ batch.head <= run.head
    /\ batch.head = run.head =>
          /\ batch.from = run.state /\ batch.old = run.candidate
          /\ run.truthful /\ batch.kind = "revision_required" => run.revisions < RevisionBudget
          /\ run.truthful /\ batch.kind = "budget_exhausted" => run.revisions = RevisionBudget

TheRun == [head |-> head, state |-> ladder, candidate |-> candidate,
           revisions |-> revisions, truthful |-> truthful]

BatchesHold ==
    \A e \in Evaluators : offers[e] # Public!Nothing =>
       WellMade(offers[e], Public!OmittedGates) /\ OfTheRun(offers[e], TheRun)

\* The budget, as long as the counts are those of the log.
BudgetKept ==
    truthful => /\ revisions <= RevisionBudget
                /\ ladder = "BUDGET_EXHAUSTED" => revisions = RevisionBudget

PublicInv == PublicTyped /\ GatePassed /\ FreezeEarned /\ BatchesHold /\ BudgetKept

LEMMA PublicInit ==
    ASSUME Public!BudgetAssumption, Public!Init PROVE PublicInv
<1>1. PublicTyped
  BY DEF Public!BudgetAssumption, Public!Init, PublicTyped, Public!TypeOK, Public!States
<1> QED
  BY <1>1 DEF Public!Init, PublicInv, GatePassed, FreezeEarned, BatchesHold, BudgetKept,
              Public!BudgetAssumption

\* Nothing is a record of another kind than gates, freezes and batches.
LEMMA NothingIsNone ==
    ASSUME NEW r, r.kind # "nothing" PROVE r # Public!Nothing
  BY DEF Public!Nothing

\* The tester's kinds are expected of a simulation gate unless the method leaves them out.
LEMMA LevelIsEarned ==
    ASSUME NEW request, request.from = "SIMULATION_VALIDATING",
           DOMAIN request.reports = Public!ExpectedReportKinds("SIMULATION_VALIDATING"),
           request.prior.plan = request.plan
    PROVE  /\ Earned(Public!CandidateFreeze(request), Public!OmittedGates)
           /\ Public!CandidateFreeze(request).plan = request.plan
<1> DEFINE gate == Public!GateReport(request)
           freeze == Public!CandidateFreeze(request)
           omitted == "PUBLIC_SIMULATION_TESTER" \in Public!OmittedGates
<1>1. /\ gate.kinds = Public!ExpectedReportKinds("SIMULATION_VALIDATING")
      /\ gate.omitted = Public!OmittedGates
      /\ gate.level = IF omitted THEN "executable" ELSE "behavioral"
  BY DEF Public!GateReport, Public!Omissions
<1>2. /\ freeze.unit = request.prior /\ freeze.plan = request.plan /\ freeze.gate = gate
      /\ freeze.level = gate.level /\ freeze.kind = "freeze"
  BY DEF Public!CandidateFreeze
<1>3. (gate.level = "behavioral") = (Public!SimulationKinds \subseteq gate.kinds)
  <2>1. CASE omitted
    <3>1. gate.kinds \subseteq Public!ProbeKinds /\ gate.level # "behavioral"
      BY <1>1, <2>1 DEF Public!ExpectedReportKinds
    <3>2. "property_test" \in Public!SimulationKinds /\ "property_test" \notin Public!ProbeKinds
      BY DEF Public!SimulationKinds, Public!ProbeKinds
    <3> QED
      BY <3>1, <3>2
  <2>2. CASE ~omitted
    BY <1>1, <2>2 DEF Public!ExpectedReportKinds
  <2> QED
    BY <2>1, <2>2
<1> HIDE DEF gate, freeze, omitted
<1>4. freeze # Public!Nothing
  BY <1>2, NothingIsNone
<1> QED
  BY <1>1, <1>2, <1>3, <1>4 DEF Earned, freeze

LEMMA OmissionsCounted ==
    ASSUME NEW from PROVE Public!Cardinality(Public!Omissions(from)) \in Nat
<1>0. Public!Cardinality(Public!Omissions(from)) = Cardinality(Public!Omissions(from))
  BY DEF Public!Cardinality, Cardinality
<1>1. \/ Public!Omissions(from) = {}
      \/ Public!Omissions(from) = {"PUBLIC_SIMULATION_TESTER"}
      \/ Public!Omissions(from) = {"PUBLIC_DEV_LEARNING_PROBE_AND_ROLLBACK"}
  BY DEF Public!Omissions, Public!OmittedGates
<1>2. Cardinality(Public!Omissions(from)) \in Nat
  BY <1>1, FS_EmptySet, FS_Singleton
<1> QED
  BY <1>0, <1>2

LEMMA TargetIsLayer ==
    ASSUME NEW classes PROVE Public!RevisionTarget(classes) \in Public!Layers
  BY DEF Public!RevisionTarget, Public!Layers

\* The batch an evaluator makes of a reading is about the run as it is.
LEMMA BatchMade ==
    ASSUME Public!BudgetAssumption, PublicInv, NEW request,
           ladder \in {"UNIT_VALIDATING", "SIMULATION_VALIDATING"},
           request.from = ladder, request.plan.candidate = candidate, request.revisions \in Nat,
           DOMAIN request.reports = Public!ExpectedReportKinds(ladder),
           Public!PriorUnitGate(request),
           NEW run, run.head = head, run.state = ladder, run.candidate = candidate,
           run.revisions = revisions,
           run.truthful => truthful /\
               (Public!Outcome(request).kind \in {"gate_passed", "candidate_frozen"} \/ request.revisions = revisions)
    PROVE  LET batch == Public!Batch(request, Public!Outcome(request))
           IN  batch # Public!Nothing /\ WellMade(batch, Public!OmittedGates) /\ OfTheRun(batch, run)
<1> DEFINE outcome == Public!Outcome(request)
           batch == Public!Batch(request, outcome)
           length == Public!Cardinality(Public!Omissions(request.from)) + 2
           passed1 == outcome.kind = "gate_passed"
           passed2 == outcome.kind = "candidate_frozen"
<1>1. head \in Nat /\ revisions \in Nat /\ RevisionBudget \in Nat
      /\ (truthful => revisions <= RevisionBudget)
  BY DEF PublicInv, PublicTyped, Public!TypeOK, Public!BudgetAssumption, BudgetKept
<1>2. length \in Nat /\ length >= 2
  BY OmissionsCounted
<1>3. /\ batch.kind = outcome.kind /\ batch.head = head /\ batch.from = ladder /\ batch.to = outcome.to
      /\ batch.length = length /\ batch.old = candidate
      /\ passed1 => batch.record = Public!GateReport(request)
      /\ passed2 => batch.record = Public!CandidateFreeze(request)
  BY DEF Public!Batch
<1>4. \/ outcome.kind = "gate_passed" /\ ladder = "UNIT_VALIDATING" /\ outcome.to = "SIMULATION_VALIDATING"
      \/ outcome.kind = "candidate_frozen" /\ ladder = "SIMULATION_VALIDATING"
         /\ outcome.to = "SEALED_E2E_VALIDATING"
      \/ outcome.kind = "budget_exhausted" /\ outcome.to = "BUDGET_EXHAUSTED" /\ Public!BudgetIsSpent(request)
      \/ outcome.kind = "revision_required" /\ outcome.to \in Public!Layers
         /\ ~Public!BudgetIsSpent(request)
  BY TargetIsLayer DEF Public!Outcome
<1>5. Public!GateReport(request).plan = request.plan /\ Public!GateReport(request) # Public!Nothing
  <2>1. Public!GateReport(request).plan = request.plan /\ Public!GateReport(request).kind = "gate"
    BY DEF Public!GateReport
  <2> QED
    BY <2>1, NothingIsNone
<1>6. passed2 => Earned(Public!CandidateFreeze(request), Public!OmittedGates)
                 /\ Public!CandidateFreeze(request).plan = request.plan
  <2> SUFFICES ASSUME passed2 PROVE Earned(Public!CandidateFreeze(request), Public!OmittedGates)
                                    /\ Public!CandidateFreeze(request).plan = request.plan
    OBVIOUS
  <2>1. request.from = "SIMULATION_VALIDATING"
    BY <1>4
  <2>2. request.prior.plan = request.plan
    BY <2>1 DEF Public!PriorUnitGate
  <2> QED
    BY <2>1, <2>2, LevelIsEarned
<1>7. run.truthful /\ outcome.kind \in {"revision_required", "budget_exhausted"} =>
         /\ Public!BudgetIsSpent(request) => revisions = RevisionBudget
         /\ ~Public!BudgetIsSpent(request) => revisions < RevisionBudget
  BY <1>1 DEF Public!BudgetIsSpent
<1> HIDE DEF outcome, batch, length
<1>8. batch # Public!Nothing
  BY <1>3, <1>4, NothingIsNone
<1>9. WellMade(batch, Public!OmittedGates)
  BY <1>1, <1>2, <1>3, <1>4, <1>5, <1>6 DEF WellMade
<1>10. OfTheRun(batch, run)
  BY <1>1, <1>3, <1>4, <1>7 DEF OfTheRun
<1> QED
  BY <1>8, <1>9, <1>10 DEF batch, outcome

LEMMA EvaluateStep ==
    ASSUME Public!BudgetAssumption, PublicInv, NEW e \in Evaluators, Public!Evaluate(e)
    PROVE  PublicInv'
<1>1. /\ UNCHANGED <<method, ladder, head, candidate, revisions, unitGate, frozen>>
      /\ ladder \in {"UNIT_VALIDATING", "SIMULATION_VALIDATING"}
  BY DEF Public!Evaluate
<1>2. PICK binding \in Bindings, prior \in gates \cup {Public!Nothing},
           reports \in Public!Reports(Public!ExpectedReportKinds(ladder)), count \in 0..RevisionBudget :
        Public!Judge(e, [from |-> ladder, plan |-> Public!Plan(binding), prior |-> prior,
                         reports |-> reports, revisions |-> count])
  BY DEF Public!Evaluate
<1> DEFINE request == [from |-> ladder, plan |-> Public!Plan(binding), prior |-> prior,
                       reports |-> reports, revisions |-> count]
           outcome == Public!Outcome(request)
           cleared == outcome.kind \in {"gate_passed", "candidate_frozen"}
           batch == Public!Batch(request, outcome)
<1>3. /\ request.from = ladder /\ request.plan.candidate = candidate /\ request.revisions \in Nat
      /\ request.reports = reports /\ request.revisions = count
  BY DEF Public!Plan, Public!BudgetAssumption
<1>4. DOMAIN reports = Public!ExpectedReportKinds(ladder)
  BY DEF Public!Reports
<1>5. /\ Public!PriorUnitGate(request) /\ offers' = [offers EXCEPT ![e] = batch]
      /\ truthful' \in BOOLEAN
      /\ truthful' => truthful /\ (cleared \/ request.revisions = revisions)
  BY <1>2 DEF Public!Judge
<1> HIDE DEF request, outcome
<1> DEFINE run == [head |-> head, state |-> ladder, candidate |-> candidate,
                   revisions |-> revisions, truthful |-> truthful']
<1>6. batch # Public!Nothing /\ WellMade(batch, Public!OmittedGates) /\ OfTheRun(batch, run)
  <2>1. run.truthful => truthful /\ (cleared \/ request.revisions = revisions)
    BY <1>5
  <2> QED
    BY <1>1, <1>3, <1>4, <1>5, <2>1, BatchMade DEF outcome
<1> HIDE DEF batch
<1>7. PublicTyped'
  BY <1>1, <1>5 DEF PublicInv, PublicTyped, Public!TypeOK, Public!States
<1>8. BatchesHold'
  <2>1. Public!OmittedGates' = Public!OmittedGates /\ TheRun' = run
    BY <1>1 DEF Public!OmittedGates, TheRun
  <2> SUFFICES ASSUME NEW d \in Evaluators, offers'[d] # Public!Nothing
               PROVE  WellMade(offers'[d], Public!OmittedGates) /\ OfTheRun(offers'[d], run)
    BY <2>1 DEF BatchesHold
  <2>2. CASE d = e
    BY <1>5, <1>6, <2>2 DEF PublicInv, PublicTyped
  <2>3. CASE d # e
    <3>1. WellMade(offers[d], Public!OmittedGates) /\ OfTheRun(offers[d], TheRun) /\ offers'[d] = offers[d]
      BY <1>5, <2>3 DEF PublicInv, PublicTyped, BatchesHold
    <3>2. run.truthful => TheRun.truthful
      BY <1>5 DEF TheRun
    <3> QED
      BY <3>1, <3>2 DEF OfTheRun, TheRun
  <2> QED
    BY <2>2, <2>3
<1>9. BudgetKept'
  BY <1>1, <1>5 DEF PublicInv, BudgetKept
<1> QED
  BY <1>1, <1>7, <1>8, <1>9 DEF PublicInv, GatePassed, FreezeEarned, Earned, Public!OmittedGates

\* A batch that is left no longer matters.
LEMMA GiveUpStep ==
    ASSUME PublicInv, NEW e \in Evaluators, Public!GiveUp(e)
    PROVE  PublicInv'
<1>1. /\ UNCHANGED <<method, ladder, head, candidate, revisions, unitGate, frozen, truthful>>
      /\ offers' = [offers EXCEPT ![e] = Public!Nothing]
  BY DEF Public!GiveUp
<1>2. PublicTyped'
  BY <1>1 DEF PublicInv, PublicTyped, Public!TypeOK, Public!States
<1>3. BatchesHold'
  <2>1. Public!OmittedGates' = Public!OmittedGates /\ TheRun' = TheRun
    BY <1>1 DEF Public!OmittedGates, TheRun
  <2> SUFFICES ASSUME NEW d \in Evaluators, offers'[d] # Public!Nothing
               PROVE  WellMade(offers'[d], Public!OmittedGates) /\ OfTheRun(offers'[d], TheRun)
    BY <2>1 DEF BatchesHold
  <2> QED
    BY <1>1 DEF PublicInv, PublicTyped, BatchesHold
<1> QED
  BY <1>1, <1>2, <1>3 DEF PublicInv, GatePassed, FreezeEarned, Earned, BudgetKept, Public!OmittedGates

\* When the log grows, the batches made of it are out of date.
LEMMA OutOfDate ==
    ASSUME PublicInv, method' = method, head' \in Nat, head' > head,
           \A e \in Evaluators : offers'[e] = offers[e] \/ offers'[e] = Public!Nothing
    PROVE  BatchesHold'
<1>1. Public!OmittedGates' = Public!OmittedGates
  BY DEF Public!OmittedGates
<1> SUFFICES ASSUME NEW e \in Evaluators, offers'[e] # Public!Nothing
             PROVE  WellMade(offers'[e], Public!OmittedGates) /\ OfTheRun(offers'[e], TheRun')
  BY <1>1 DEF BatchesHold
<1>2. WellMade(offers'[e], Public!OmittedGates) /\ OfTheRun(offers'[e], TheRun) /\ head \in Nat
  BY DEF PublicInv, PublicTyped, BatchesHold, Public!TypeOK
<1>3. offers'[e].head \in Nat /\ offers'[e].head <= head /\ TheRun'.head = head'
  BY <1>2 DEF OfTheRun, WellMade, TheRun
<1> QED
  BY <1>2, <1>3 DEF OfTheRun

LEMMA ElsewhereStep ==
    ASSUME Public!BudgetAssumption, PublicInv, Public!Elsewhere
    PROVE  PublicInv'
<1>1. /\ head < MaxHead /\ head' = head + 1
      /\ ladder' = IF ladder \in Public!Layers THEN "UNIT_VALIDATING" ELSE ladder
      /\ ladder \in Public!Layers \cup {"UNIT_VALIDATING", "SIMULATION_VALIDATING"}
      /\ UNCHANGED <<method, candidate, revisions, unitGate, frozen, offers, truthful>>
  BY DEF Public!Elsewhere
<1>2. head \in Nat /\ head' \in 0..MaxHead /\ head' \in Nat /\ head' > head
  BY <1>1 DEF PublicInv, PublicTyped, Public!TypeOK, Public!BudgetAssumption
<1>3. PublicTyped'
  BY <1>1, <1>2 DEF PublicInv, PublicTyped, Public!TypeOK, Public!States
<1>4. BatchesHold'
  BY <1>1, <1>2, OutOfDate
<1>5. ladder' \in {"UNIT_VALIDATING", "SIMULATION_VALIDATING"}
      /\ (ladder' = "SIMULATION_VALIDATING" => ladder = "SIMULATION_VALIDATING")
  BY <1>1
<1> QED
  BY <1>1, <1>3, <1>4, <1>5 DEF PublicInv, GatePassed, FreezeEarned, BudgetKept

\* A batch is committed of the run it was made of.
LEMMA CommitStep ==
    ASSUME Public!BudgetAssumption, PublicInv, NEW e \in Evaluators, Public!Commit(e)
    PROVE  PublicInv'
<1> DEFINE batch == offers[e]
<1>1. /\ batch # Public!Nothing /\ batch.head = head /\ batch.from = ladder
      /\ head + batch.length <= MaxHead
      /\ ladder' = batch.to /\ head' = head + batch.length
      /\ offers' = [offers EXCEPT ![e] = Public!Nothing] /\ method' = method /\ truthful' = truthful
  BY DEF Public!Commit, Public!Accepted
<1>2. WellMade(batch, Public!OmittedGates) /\ OfTheRun(batch, TheRun)
  BY <1>1 DEF PublicInv, BatchesHold
<1>3. /\ head \in Nat /\ head' \in 0..MaxHead /\ head' \in Nat /\ head' > head
      /\ revisions \in 0..head /\ RevisionBudget \in Nat /\ MaxHead \in Nat
      /\ candidate \in Candidates /\ truthful \in BOOLEAN
      /\ truthful => revisions <= RevisionBudget
  BY <1>1, <1>2 DEF PublicInv, PublicTyped, Public!TypeOK, Public!BudgetAssumption, WellMade, BudgetKept
<1>4. BatchesHold'
  <2>1. \A d \in Evaluators : offers'[d] = offers[d] \/ offers'[d] = Public!Nothing
    BY <1>1 DEF PublicInv, PublicTyped
  <2> QED
    BY <1>1, <1>3, <2>1, OutOfDate
<1>5. offers' = [d \in Evaluators |-> offers'[d]]
  BY <1>1 DEF PublicInv, PublicTyped
<1>7. method' \in Methods
  BY <1>1 DEF PublicInv, PublicTyped, Public!TypeOK
<1>8. CASE batch.kind = "gate_passed"
  <2>1. /\ ladder' = "SIMULATION_VALIDATING" /\ unitGate' = batch.record
        /\ batch.record # Public!Nothing /\ batch.record.plan.candidate = candidate
        /\ UNCHANGED <<candidate, revisions, frozen>>
    BY <1>1, <1>2, <1>8 DEF Public!Commit, WellMade, OfTheRun, TheRun
  <2> QED
    BY <1>1, <1>3, <1>4, <1>5, <1>7, <2>1
    DEF PublicInv, PublicTyped, Public!TypeOK, Public!States, GatePassed, FreezeEarned, BudgetKept
<1>9. CASE batch.kind = "candidate_frozen"
  <2>1. /\ ladder' = "SEALED_E2E_VALIDATING" /\ ladder = "SIMULATION_VALIDATING" /\ frozen' = batch.record
        /\ Earned(batch.record, Public!OmittedGates) /\ batch.record.plan.candidate = candidate
        /\ UNCHANGED <<candidate, revisions, unitGate>>
    BY <1>1, <1>2, <1>9 DEF Public!Commit, WellMade, OfTheRun, TheRun
  <2>2. Earned(frozen', Public!OmittedGates')
    BY <1>1, <2>1 DEF Public!OmittedGates
  <2> QED
    BY <1>1, <1>3, <1>4, <1>5, <1>7, <2>1, <2>2
    DEF PublicInv, PublicTyped, Public!TypeOK, Public!States, GatePassed, FreezeEarned, BudgetKept
<1>10. CASE batch.kind = "revision_required"
  <2>1. /\ ladder' \in Public!Layers /\ (truthful => revisions < RevisionBudget)
        /\ candidate' \in Candidates /\ revisions' = revisions + 1
    BY <1>1, <1>2, <1>10 DEF Public!Commit, WellMade, OfTheRun, TheRun
  <2>2. revisions' \in 0..head'
    BY <1>3, <2>1
  <2>3. PublicTyped'
    BY <1>1, <1>3, <1>5, <1>7, <2>1, <2>2 DEF PublicTyped, Public!TypeOK, Public!States
  <2>4. GatePassed' /\ FreezeEarned' /\ BudgetKept'
    BY <1>1, <1>3, <2>1 DEF GatePassed, FreezeEarned, BudgetKept, Public!Layers
  <2> QED
    BY <1>4, <2>3, <2>4 DEF PublicInv
<1>11. CASE batch.kind = "budget_exhausted"
  <2>1. /\ ladder' = "BUDGET_EXHAUSTED" /\ (truthful => revisions = RevisionBudget)
        /\ UNCHANGED <<candidate, revisions, unitGate, frozen>>
    BY <1>1, <1>2, <1>11 DEF Public!Commit, WellMade, OfTheRun, TheRun
  <2> QED
    BY <1>1, <1>3, <1>4, <1>5, <1>7, <2>1
    DEF PublicInv, PublicTyped, Public!TypeOK, Public!States, GatePassed, FreezeEarned, BudgetKept
<1> QED
  BY <1>2, <1>8, <1>9, <1>10, <1>11 DEF WellMade

LEMMA PublicStep ==
    ASSUME Public!BudgetAssumption, PublicInv, [Public!Next]_(Public!vars)
    PROVE  PublicInv'
<1>1. CASE UNCHANGED Public!vars
  <2>1. Public!OmittedGates' = Public!OmittedGates /\ TheRun' = TheRun
    BY <1>1 DEF Public!vars, Public!OmittedGates, TheRun
  <2> QED
    BY <1>1, <2>1 DEF Public!vars, PublicInv, PublicTyped, Public!TypeOK, Public!States, GatePassed,
                      FreezeEarned, BatchesHold, BudgetKept
<1>2. CASE Public!Next
  BY <1>2, EvaluateStep, CommitStep, GiveUpStep, ElsewhereStep DEF Public!Next
<1> QED
  BY <1>1, <1>2

LEMMA PublicHolds ==
    ASSUME Public!BudgetAssumption PROVE Public!Spec => []PublicInv
<1>1. Public!Init => PublicInv
  BY PublicInit
<1>2. PublicInv /\ [Public!Next]_(Public!vars) => PublicInv'
  BY PublicStep
<1> QED
  BY <1>1, <1>2, PTL DEF Public!Spec

\* Type correctness of the ladder.
THEOREM PublicTypeCorrect ==
    ASSUME Public!BudgetAssumption PROVE Public!Spec => []Public!TypeOK
<1>1. PublicInv => Public!TypeOK
  BY DEF PublicInv, PublicTyped
<1> QED
  BY <1>1, PublicHolds, PTL

\* The candidate that goes to the sealed gate is the one the run works on, validated since
\* its last revision, at a level its reports earned; for any number of evaluators.
THEOREM FrozenCorrect ==
    ASSUME Public!BudgetAssumption PROVE Public!Spec => []FrozenCandidateIsValidated
<1>1. PublicInv => FrozenCandidateIsValidated
  BY DEF PublicInv, FrozenCandidateIsValidated, GatePassed, FreezeEarned, Earned, Public!FrozenCandidateIsValidated
<1> QED
  BY <1>1, PublicHolds, PTL

\* As long as those who judge a failure count what the log holds, revisions keep to their
\* budget and the run is closed for its budget only when it is spent, whatever the order in
\* which any number of evaluators arrive.
THEOREM TruthfulCountsCorrect ==
    ASSUME Public!BudgetAssumption PROVE Public!Spec => []TruthfulCountsKeepTheBudget
<1>1. PublicInv => TruthfulCountsKeepTheBudget
  BY DEF PublicInv, BudgetKept, TruthfulCountsKeepTheBudget, Public!TruthfulCountsKeepTheBudget
<1> QED
  BY <1>1, PublicHolds, PTL

-----------------------------------------------------------------------------
(* The two together.                                                        *)

\* What is proved of the lifecycle and of the ladder is proved of the two together,
\* for neither is disturbed by the other.
THEOREM BothAreThemselves == BothSpec => Spec /\ Public!Spec
<1>1. BothInit => Init /\ Public!Init
  BY DEF BothInit
<1>2. [BothNext]_bothVars => [Next]_vars /\ [Public!Next]_(Public!vars)
  BY DEF BothNext, bothVars, publicVars, Public!vars
<1> QED
  BY <1>1, <1>2, PTL DEF BothSpec, Spec, Public!Spec

\* Type correctness of both, whichever a behaviour is about.
THEOREM TypesCorrect ==
    ASSUME Public!BudgetAssumption PROVE BothSpec => []TypesOK
<1>1. TypeOK /\ Public!TypeOK => TypesOK
  BY DEF TypesOK
<1> QED
  BY <1>1, BothAreThemselves, TypeCorrect, PublicTypeCorrect, PTL
=============================================================================
