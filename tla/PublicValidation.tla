-------------------------- MODULE PublicValidation --------------------------
(***************************************************************************)
(* public_validation.py: the ladder that judges a candidate inside the     *)
(* public-dev boundary, and the lifecycle events its judgement becomes.    *)
(*                                                                         *)
(* evaluate is a function of a request.  An evaluator reads the run's log  *)
(* once, makes the request and the lifecycle context of that reading, and  *)
(* offers the batch of events to the lifecycle later, when other           *)
(* evaluators and other commands may have moved the run on.  A request     *)
(* that evaluate refuses leaves nothing behind and has no step here.       *)
(*                                                                         *)
(* How often the run was revised is what the caller says in the request;   *)
(* nobody compares it with the log.                                        *)
(***************************************************************************)
EXTENDS Naturals, FiniteSets

CONSTANTS
    Evaluators,
    Candidates,      \* bundles; a revision may come back to an earlier one
    Bindings,        \* everything else a plan binds: environment, jobs, profiles
    Methods,         \* the ablation methods a run may be registered for
    Failures,        \* failure classes that counterexamples are derived from
    RevisionBudget,  \* revision_budget of the plans of the run
    MaxFailed,       \* bound: reports that fail in one evaluation
    MaxHead          \* bound: events in the log

BudgetAssumption == RevisionBudget \in Nat /\ MaxHead \in Nat

VARIABLES
    method,      \* the ablation method of the run
    state, head,
    candidate,   \* the bundle the run works on
    revisions,   \* supersessions after a failed validation in the log
    unitGate,    \* the unit gate in the log since the last revision
    frozen,      \* the candidate freeze of the log
    gates,       \* gate reports that evaluators made, committed or not
    offers,      \* the batch each evaluator has yet to commit
    truthful     \* history: every count a failure was judged by was that of the log

vars == <<method, state, head, candidate, revisions, unitGate, frozen, gates, offers, truthful>>

Nothing == [kind |-> "nothing"]

---------------------------------------------------------------------------
(* Reports and plans.                                                      *)

UnitKinds == {"unit_validation"}
SimulationKinds == {"property_test", "metamorphic_test", "differential_test", "trajectory_test"}
ProbeKinds == {"public_dev_learning_probe"}

\* The gates a method leaves out.
OmittedGates ==
    CASE method = "automarkov_no_simulation_tester" -> {"PUBLIC_SIMULATION_TESTER"}
      [] method = "automarkov_no_training_feedback" -> {"PUBLIC_DEV_LEARNING_PROBE_AND_ROLLBACK"}
      [] OTHER -> {}

ExpectedReportKinds(from) ==
    IF from = "UNIT_VALIDATING" THEN UnitKinds
    ELSE (IF "PUBLIC_SIMULATION_TESTER" \in OmittedGates THEN {} ELSE SimulationKinds)
         \cup (IF "PUBLIC_DEV_LEARNING_PROBE_AND_ROLLBACK" \in OmittedGates THEN {} ELSE ProbeKinds)

\* A report that can be constructed has passed and claims it, or has failed and
\* names counterexamples, here by the classes they are derived from.  The candidate
\* and the scope of all of them are the plan's.
Reports(kinds) ==
    UNION {[kinds -> {{}} \cup {classes}] : classes \in SUBSET Failures}
FailedReports(reports) == {k \in DOMAIN reports : reports[k] # {}}

Omissions(from) == IF from = "UNIT_VALIDATING" THEN {} ELSE OmittedGates

Layers == {"ENVIRONMENT_IMPLEMENTED", "FORMAL_DRAFTED", "TEXT_DRAFTED"}

FailureRoutes(class) ==
    CASE class \in {"environment_implementation", "api_contract", "deterministic_core",
                    "public_trajectory", "learning_algorithm", "runtime"} -> "ENVIRONMENT_IMPLEMENTED"
      [] class \in {"decision_process", "formal_specification", "observability", "reward"} -> "FORMAL_DRAFTED"
      [] class \in {"task_contract", "semantic_assumption"} -> "TEXT_DRAFTED"

\* What derives from an official reference goes back to the implementation.
RouteOf(class) ==
    IF class = "official_reference" THEN "ENVIRONMENT_IMPLEMENTED" ELSE FailureRoutes(class)

\* The layer furthest back that a route leads to.
RevisionTarget(classes) ==
    LET layers == {RouteOf(c) : c \in classes}
    IN IF "TEXT_DRAFTED" \in layers THEN "TEXT_DRAFTED"
       ELSE IF "FORMAL_DRAFTED" \in layers THEN "FORMAL_DRAFTED" ELSE "ENVIRONMENT_IMPLEMENTED"

---------------------------------------------------------------------------
(* evaluate.  A request is made of one reading of the log, a plan and the   *)
(* reports; the prior gate is any report the evaluator has got hold of, and *)
(* the number of earlier revisions any number the caller cares to name.     *)

Plan(binding) == [candidate |-> candidate, binding |-> binding]

PriorUnitGateOfAnyPlan(request) ==    \* Mutant: the bindings of the plan are not compared
    IF request.from = "UNIT_VALIDATING" THEN request.prior = Nothing
    ELSE request.prior # Nothing /\ request.prior.from = "UNIT_VALIDATING"

PriorUnitGate(request) ==
    IF request.from = "UNIT_VALIDATING" THEN request.prior = Nothing
    ELSE /\ request.prior # Nothing
         /\ request.prior.from = "UNIT_VALIDATING"
         /\ request.prior.plan = request.plan

GateReport(request) ==
    [kind |-> "gate", from |-> request.from, plan |-> request.plan,
     kinds |-> DOMAIN request.reports, omitted |-> Omissions(request.from),
     level |-> IF request.from = "UNIT_VALIDATING" \/ "PUBLIC_SIMULATION_TESTER" \in OmittedGates
               THEN "executable" ELSE "behavioral"]

CandidateFreeze(request) ==
    [kind |-> "freeze", plan |-> request.plan, unit |-> request.prior,
     gate |-> GateReport(request), level |-> GateReport(request).level]

\* The limit is passed when the next revision is beyond it, by the caller's count.
BudgetIsSpent(request) == request.revisions + 1 > RevisionBudget

Outcome(request) ==
    LET failed == FailedReports(request.reports)
        classes == UNION {request.reports[k] : k \in failed}
    IN IF failed = {}
       THEN [kind |-> IF request.from = "UNIT_VALIDATING" THEN "gate_passed" ELSE "candidate_frozen",
             to |-> IF request.from = "UNIT_VALIDATING" THEN "SIMULATION_VALIDATING" ELSE "SEALED_E2E_VALIDATING"]
       ELSE IF BudgetIsSpent(request)
       THEN [kind |-> "budget_exhausted", to |-> "BUDGET_EXHAUSTED"]
       ELSE [kind |-> "revision_required", to |-> RevisionTarget(classes)]

\* materialize_public_validation_lifecycle_events: signed omissions, the cause and
\* the transition, from the head of the reading.
Batch(request, outcome) ==
    [kind |-> outcome.kind, head |-> head, from |-> request.from, to |-> outcome.to,
     length |-> Cardinality(Omissions(request.from)) + 2,
     old |-> request.plan.candidate,
     record |-> CASE outcome.kind = "gate_passed" -> GateReport(request)
                  [] outcome.kind = "candidate_frozen" -> CandidateFreeze(request)
                  [] OTHER -> Nothing]

Judge(e, request) ==
    LET outcome == Outcome(request)
        cleared == outcome.kind \in {"gate_passed", "candidate_frozen"}
    IN /\ Cardinality(FailedReports(request.reports)) <= MaxFailed
       /\ PriorUnitGate(request)
       /\ offers' = [offers EXCEPT ![e] = Batch(request, outcome)]
       /\ gates' = IF cleared THEN gates \cup {GateReport(request)} ELSE gates
       /\ truthful' = (truthful /\ (cleared \/ request.revisions = revisions))

Evaluate(e) ==
    /\ offers[e] = Nothing
    /\ state \in {"UNIT_VALIDATING", "SIMULATION_VALIDATING"}
    /\ \E binding \in Bindings, prior \in gates \cup {Nothing},
          reports \in Reports(ExpectedReportKinds(state)), count \in 0..RevisionBudget :
        Judge(e, [from |-> state, plan |-> Plan(binding), prior |-> prior,
                  reports |-> reports, revisions |-> count])
    /\ UNCHANGED <<method, state, head, candidate, revisions, unitGate, frozen>>

---------------------------------------------------------------------------
(* The lifecycle.                                                          *)

Edges ==
    {<<"UNIT_VALIDATING", "SIMULATION_VALIDATING">>,
     <<"SIMULATION_VALIDATING", "SEALED_E2E_VALIDATING">>}
    \cup {"UNIT_VALIDATING", "SIMULATION_VALIDATING"} \X (Layers \cup {"BUDGET_EXHAUSTED"})

AtStateOnly(batch) == batch.from = state /\ <<batch.from, batch.to>> \in Edges    \* Mutant: the head is not compared
Accepted(batch) ==
    /\ batch.head = head
    /\ batch.from = state
    /\ <<batch.from, batch.to>> \in Edges

\* The batch is committed at the head it names.
Commit(e) ==
    /\ offers[e] # Nothing
    /\ Accepted(offers[e])
    /\ head + offers[e].length <= MaxHead
    /\ state' = offers[e].to
    /\ head' = head + offers[e].length
    /\ \/ /\ offers[e].kind = "gate_passed"
          /\ unitGate' = offers[e].record
          /\ UNCHANGED <<candidate, revisions, frozen>>
       \/ /\ offers[e].kind = "candidate_frozen"
          /\ frozen' = offers[e].record
          /\ UNCHANGED <<candidate, revisions, unitGate>>
       \/ /\ offers[e].kind = "revision_required"
          /\ candidate' \in Candidates \ {offers[e].old}
          /\ revisions' = revisions + 1
          /\ unitGate' = Nothing
          /\ UNCHANGED frozen
       \/ /\ offers[e].kind = "budget_exhausted"
          /\ UNCHANGED <<candidate, revisions, unitGate, frozen>>
    /\ offers' = [offers EXCEPT ![e] = Nothing]
    /\ UNCHANGED <<method, gates, truthful>>

\* The lifecycle refuses it, or the evaluator dies.
GiveUp(e) ==
    /\ offers[e] # Nothing
    /\ offers' = [offers EXCEPT ![e] = Nothing]
    /\ UNCHANGED <<method, state, head, candidate, revisions, unitGate, frozen, gates, truthful>>

\* Other commands of the run: observations, and the stages that bring a revised
\* candidate back to its unit gate.
Elsewhere ==
    /\ head < MaxHead
    /\ head' = head + 1
    /\ state' = IF state \in Layers THEN "UNIT_VALIDATING" ELSE state
    /\ state \in Layers \cup {"UNIT_VALIDATING", "SIMULATION_VALIDATING"}
    /\ UNCHANGED <<method, candidate, revisions, unitGate, frozen, gates, offers, truthful>>

Init ==
    /\ method \in Methods
    /\ state = "UNIT_VALIDATING"
    /\ head = 0
    /\ candidate \in Candidates
    /\ revisions = 0
    /\ unitGate = Nothing
    /\ frozen = Nothing
    /\ gates = {}
    /\ offers = [e \in Evaluators |-> Nothing]
    /\ truthful = TRUE

Next == (\E e \in Evaluators : Evaluate(e) \/ Commit(e) \/ GiveUp(e)) \/ Elsewhere

Spec == Init /\ [][Next]_vars

---------------------------------------------------------------------------
(* Properties.                                                             *)

States == {"UNIT_VALIDATING", "SIMULATION_VALIDATING", "SEALED_E2E_VALIDATING", "BUDGET_EXHAUSTED"}
          \cup Layers

TypeOK ==
    /\ method \in Methods
    /\ state \in States
    /\ head \in 0..MaxHead
    /\ candidate \in Candidates
    /\ revisions \in 0..head    \* a supersession and its transition are events of their own
    /\ truthful \in BOOLEAN

\* The candidate that goes to the sealed gate is the one the run works on, passed
\* the unit gate of this log since its last revision, and is frozen with a unit gate
\* of its own plan, at a level its reports earned, however late the batches of two
\* evaluators arrive.
FrozenCandidateIsValidated ==
    state = "SEALED_E2E_VALIDATING" =>
        /\ frozen # Nothing /\ unitGate # Nothing
        /\ frozen.plan.candidate = candidate
        /\ unitGate.plan.candidate = candidate
        /\ frozen.unit.plan = frozen.plan
        /\ (frozen.level = "behavioral") = (SimulationKinds \subseteq frozen.gate.kinds)
        /\ frozen.gate.omitted = OmittedGates

\* As long as those who judge a failure count the revisions that the log of their
\* reading holds, the run is revised at most as often as its budget allows, and is
\* closed for its budget only when every revision of it was made: of two evaluators
\* who judge the same candidate, the second to arrive spends nothing, because its
\* batch names a head that has moved (append_record). Nothing holds of the others: a
\* caller that names a smaller number is granted revisions beyond the budget.
TruthfulCountsKeepTheBudget ==
    truthful => /\ revisions <= RevisionBudget
                /\ state = "BUDGET_EXHAUSTED" => revisions = RevisionBudget
=============================================================================
