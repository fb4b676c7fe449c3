-------------------------- MODULE CompilePipeline --------------------------
(***************************************************************************)
(* application/compile.py: a CompileOrchestrator and the caller who owns   *)
(* it.  An orchestrator is a value: chain computes results, and only the   *)
(* caller, who gets them when the chain is over, moves the orchestrator by *)
(* giving them to advance one by one.  An exception in a stage ends the    *)
(* chain, and the results of the stages before it are gone.                *)
(*                                                                         *)
(* The inputs of a chain are fixed when it starts, from what earlier       *)
(* chains returned, each handed on as the artifact or as the reference the *)
(* stage returned.  What no stage can return, reports and the evidence of  *)
(* a real gateway, the caller has from elsewhere (Dossiers).               *)
(***************************************************************************)
EXTENDS CompileStages

CONSTANTS
    Tasks,         \* task requests
    Dossiers,      \* [evidence, spec, contract, report, issues] from elsewhere
    Entries,       \* stages an orchestrator is constructed at
    Lengths,       \* numbers of stages a caller prepares inputs for
    MaxManifests   \* bound: manifests created

ASSUME EntriesAssumption == Entries \subseteq StageIds
ASSUME BoundAssumption == MaxManifests \in Nat \ {0}

VARIABLES
    task,       \* the request the run is for
    orch,       \* current_stage and event_head of the caller's orchestrator
    call,       \* the chain in progress
    returned,   \* results the caller has not yet advanced by
    held,       \* what the caller holds of each stage
    created     \* manifests the second stage made, under fresh run ids

vars == <<task, orch, call, returned, held, created>>

NoHead == 0
Heads == 0..MaxManifests
Nothing == <<>>    \* and <<output>> is what a stage returned
Idle == [at |-> "idle"]
Forms == {"artifact", "reference"}

\* StageResult; a stage that returns is ok, one that fails raises.
Result(stage, output, event) == [stage |-> stage, output |-> output, event |-> event]

TypeOK ==
    /\ task \in Tasks
    /\ orch.stage \in StageIds /\ orch.head \in Heads
    /\ call # Idle => call.at \in StageIds
    /\ \A i \in DOMAIN returned :
        returned[i].stage \in StageIds /\ returned[i].event \in Heads
    /\ DOMAIN held = StageIds
    /\ created \in Heads

Init ==
    /\ task \in Tasks
    /\ \E stage \in Entries :
        orch = [stage |-> stage,
                head |-> IF StageIndex(stage) <= 2 THEN NoHead ELSE 1]
    /\ call = Idle
    /\ returned = <<>>
    /\ held = [s \in StageIds |-> Nothing]
    /\ created = IF orch.head = NoHead THEN 0 ELSE 1

---------------------------------------------------------------------------
(* The orchestrator's functions.                                           *)

NextStage(stage) == IF stage = FinalStage THEN stage ELSE Stages[StageIndex(stage) + 1]

AdvancedByCount(orchestrator, result) ==    \* Mutant: every result is taken for an event
    [stage |-> NextStage(orchestrator.stage), head |-> orchestrator.head + 1]

\* advance: an event of the result is the new head.
Advanced(orchestrator, result) ==
    [stage |-> NextStage(orchestrator.stage),
     head |-> IF result.event # NoHead /\ orchestrator.stage # FinalStage
              THEN result.event ELSE orchestrator.head]

\* recover: without a head the pipeline starts over, with one the stage stays.
Recovered(orchestrator, head) ==
    IF head = NoHead THEN [stage |-> Stages[1], head |-> NoHead]
    ELSE [orchestrator EXCEPT !.head = head]

---------------------------------------------------------------------------
(* A chain.                                                                *)

\* The stages whose outputs an input is made of, where the caller has no other
\* source for it.
Needs(stage) ==
    CASE stage \in {"create_manifest", "plan_evidence"} -> {"validate_ingress"}
      [] stage = "retrieve_evidence" -> {"plan_evidence", "create_manifest"}
      [] stage = "claim_evidence_graph" -> {"retrieve_evidence"}
      [] stage = "identify_ambiguities" -> {"claim_evidence_graph"}
      [] stage = "classify_process_kind" -> {"identify_ambiguities", "create_manifest"}
      [] stage = "propose_formal_spec" -> {"classify_process_kind", "identify_ambiguities"}
      [] stage \in {"formal_validation", "text_formal_critic"} -> {"propose_formal_spec"}
      [] stage = "environment_candidate" -> {"select_route"}
      [] OTHER -> {}

HasInput(stage) == call.left > 0 /\ \A s \in Needs(stage) : call.held[s] # Nothing

\* The field of an input that comes from a stage.
Given(stage) == IF call.form = "reference" THEN Reference ELSE call.held[stage][1]

\* What the stage's function returns: <<output>>, or <<>> for an exception.
Run(stage) ==
    CASE stage = "validate_ingress" -> <<task>>
      [] stage = "create_manifest" -> <<created + 1>>
      [] stage = "plan_evidence" -> <<PlanEvidence(call.held["validate_ingress"][1])>>
      [] stage = "retrieve_evidence" -> <<RetrieveEvidence>>
      [] stage = "claim_evidence_graph" ->
            <<ClaimEvidenceGraph(IF call.dossier.evidence = {} THEN Given("retrieve_evidence")
                                 ELSE [sources |-> call.dossier.evidence])>>
      [] stage = "identify_ambiguities" -> <<IdentifyAmbiguities(Given("claim_evidence_graph"))>>
      [] stage = "classify_process_kind" -> <<ClassifyProcessKind(Given("identify_ambiguities"))>>
      [] stage = "propose_formal_spec" ->
            ProposeFormalSpec(Given("classify_process_kind"), Given("identify_ambiguities"))
      [] stage = "formal_validation" -> FormalValidation
      [] stage = "text_formal_critic" -> TextFormalCritic
      [] stage = "approval_gate" ->
            <<ApprovalGate(call.dossier.report, call.dossier.issues, call.dossier.contract)>>
      [] stage = "select_route" -> <<SelectRoute(call.dossier.spec, call.dossier.contract)>>
      [] stage = "environment_candidate" ->
            LET request == call.held["select_route"][1]
            IN EnvironmentCandidate(request.route, request, call.dossier.spec)
      [] OTHER -> Deferred

\* The caller starts a chain at the orchestrator's stage.
Begin ==
    /\ call = Idle /\ returned = <<>>
    /\ StageIndex(orch.stage) <= StageIndex("create_manifest") => created < MaxManifests
    /\ \E length \in Lengths, form \in Forms, dossier \in Dossiers :
        call' = [at |-> orch.stage, left |-> length, held |-> held,
                 form |-> form, dossier |-> dossier, results |-> <<>>]
    /\ UNCHANGED <<task, orch, returned, held, created>>

\* The next stage runs and moves the chain's own orchestrator.
RunStage ==
    /\ call # Idle
    /\ HasInput(call.at)
    /\ Run(call.at) # <<>>
    /\ LET made == call.at = "create_manifest"
           result == Result(call.at, Run(call.at), IF made THEN created + 1 ELSE NoHead)
       IN /\ call' = [call EXCEPT !.results = Append(@, result),
                                  !.at = NextStage(@), !.left = @ - 1]
          /\ created' = IF made THEN created + 1 ELSE created
    /\ UNCHANGED <<task, orch, returned, held>>

\* An exception leaves chain; nothing it computed reaches the caller.
StageRaises ==
    /\ call # Idle
    /\ HasInput(call.at)
    /\ Run(call.at) = <<>>
    /\ call' = Idle
    /\ UNCHANGED <<task, orch, returned, held, created>>

\* The chain is over at the first stage without an input.
Return ==
    /\ call # Idle
    /\ ~HasInput(call.at)
    /\ call' = Idle
    /\ returned' = call.results
    /\ held' = [s \in StageIds |->
                  LET of == {i \in DOMAIN call.results : call.results[i].stage = s}
                  IN IF of = {} THEN held[s] ELSE call.results[CHOOSE i \in of : TRUE].output]
    /\ UNCHANGED <<task, orch, created>>

\* The caller advances by the first result it has left.  A result of another
\* stage is refused with an exception.
Advance ==
    /\ returned # <<>>
    /\ returned' = Tail(returned)
    /\ orch' = IF Head(returned).stage = orch.stage
               THEN Advanced(orch, Head(returned)) ELSE orch
    /\ UNCHANGED <<task, call, held, created>>

\* The caller rebuilds its orchestrator, from a head of the log or without one.
Recover ==
    /\ call = Idle
    /\ \E head \in 0..created : orch' = Recovered(orch, head)
    /\ UNCHANGED <<task, call, returned, held, created>>

Next == Begin \/ RunStage \/ StageRaises \/ Return \/ Advance \/ Recover

Spec == Init /\ [][Next]_vars

---------------------------------------------------------------------------
(* Properties.                                                             *)

\* What a run has got to is backed, whatever sequence of chains, exceptions, refused
\* results, references and recoveries led there.  Past the manifest stage there is an
\* event head: the only way to lose it is to start over.  The stages that are not
\* implemented fail closed: no orchestrator passes them and no caller holds what they
\* return.  A candidate that is reused is an environment an official package has for
\* the kind of process it was routed for, through whatever dossiers the request for
\* the route and the one for the candidate came from; none is generated.
ProgressIsBacked ==
    /\ StageIndex(orch.stage) > StageIndex("create_manifest") => orch.head # NoHead
    /\ StageIndex(orch.stage) <= StageIndex("public_tests")
    /\ \A s \in {"public_tests", "package_candidate", "terminal_cas"} : held[s] = Nothing
    /\ held["environment_candidate"] # Nothing =>
        LET candidate == held["environment_candidate"][1]
        IN /\ candidate.route # "generate"
           /\ candidate.route = "reuse" => candidate.name \in Official[candidate.kind]
           /\ (candidate.backend = "pettingzoo") = (candidate.kind \in {"MG", "POSG"})
=============================================================================
