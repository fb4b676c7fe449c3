------------------------ MODULE CompilePipeline_proofs ------------------------
(***************************************************************************)
(* A compile run, for any tasks, dossiers and number of manifests: the     *)
(* orchestrator of the pipeline, the tables its artifacts go to, and the   *)
(* coordinator of the phases.                                              *)
(*                                                                         *)
(* The pipeline.  What moves an orchestrator is a result some chain made,  *)
(* so the strengthening follows a stage's output from the chain that made  *)
(* it, through the results that came back and what the caller holds, into  *)
(* the chain that uses it: it is of a stage that returns at all, and a     *)
(* routed request still has the route of its own kind and name.            *)
(*                                                                         *)
(* The tables, for any artifacts, registries, files of the last version    *)
(* and damage.  Contracts are compared with the table's, so that a process *)
(* may write or read an artifact only under the contracts it was admitted  *)
(* with.  What is read is a whole lineage, which the recursive definition  *)
(* is shown to be by the absence of a minimal counterexample.              *)
(*                                                                         *)
(* The coordinator.  Two methods set a phase without the transition table, *)
(* so that the table alone does not show how a run ends.  What they keep   *)
(* is: the flag of a recovery is down while the run is idle.               *)
(***************************************************************************)
EXTENDS CompileAndTables, SequenceTheorems, TLAPS

-----------------------------------------------------------------------------
(* The stages, by their places.                                             *)

LEMMA Places ==
    /\ DOMAIN Stages = 1..16
    /\ Stages[1] = "validate_ingress" /\ Stages[2] = "create_manifest"
    /\ Stages[3] = "plan_evidence" /\ Stages[4] = "retrieve_evidence"
    /\ Stages[5] = "claim_evidence_graph" /\ Stages[6] = "identify_ambiguities"
    /\ Stages[7] = "classify_process_kind" /\ Stages[8] = "propose_formal_spec"
    /\ Stages[9] = "formal_validation" /\ Stages[10] = "text_formal_critic"
    /\ Stages[11] = "approval_gate" /\ Stages[12] = "select_route"
    /\ Stages[13] = "environment_candidate" /\ Stages[14] = "public_tests"
    /\ Stages[15] = "package_candidate" /\ Stages[16] = "terminal_cas"
    /\ FinalStage = "terminal_cas"
  BY DEF Stages, FinalStage

LEMMA StageIdsListed ==
    StageIds = {"validate_ingress", "create_manifest", "plan_evidence", "retrieve_evidence",
                "claim_evidence_graph", "identify_ambiguities", "classify_process_kind",
                "propose_formal_spec", "formal_validation", "text_formal_critic",
                "approval_gate", "select_route", "environment_candidate", "public_tests",
                "package_candidate", "terminal_cas"}
<1>1. StageIds = {Stages[i] : i \in 1..16}
  BY Places DEF StageIds, Range
<1>2. \A i \in 1..16 : i \in {1, 2, 3, 4, 5, 6, 7, 8, 9, 10, 11, 12, 13, 14, 15, 16}
  OBVIOUS
<1> QED
  BY <1>1, <1>2, Places

\* No stage has two places.
LEMMA PlaceOf ==
    ASSUME NEW i \in 1..16
    PROVE  StageIndex(Stages[i]) = i
<1>1. \A j \in 1..16 : Stages[j] = Stages[i] => j = i
  <2>1. \A j \in 1..16 : j \in {1, 2, 3, 4, 5, 6, 7, 8, 9, 10, 11, 12, 13, 14, 15, 16}
    OBVIOUS
  <2> QED
    BY <2>1, Places
<1>2. \E j \in DOMAIN Stages : Stages[j] = Stages[i]
  BY Places
<1> QED
  BY <1>1, <1>2, Places DEF StageIndex

-----------------------------------------------------------------------------
(* The orchestrator.                                                        *)

\* Before an event head, after every stage that returns, and where no orchestrator
\* gets to: the last stage that returns leads to public_tests, which only raises.
Early == {"validate_ingress", "create_manifest"}
Late == {"public_tests", "package_candidate", "terminal_cas"}
Unreached == {"package_candidate", "terminal_cas"}

\* A route is the one of the request's own kind and name, and what is reused is an
\* official environment of that kind.
BackendFits(r) == (r.backend = "pettingzoo") = (r.kind \in {"MG", "POSG"})
Routed(request) ==
    /\ request.route = "reuse" => request.name \in Official[request.kind]
    /\ BackendFits(request)
Backed(candidate) ==
    /\ candidate.route # "generate"
    /\ candidate.route = "reuse" => candidate.name \in Official[candidate.kind]
    /\ BackendFits(candidate)

OutputHolds(stage, output) ==
    /\ stage \notin Late
    /\ stage = "select_route" => Routed(output[1])
    /\ stage = "environment_candidate" => Backed(output[1])
ResultHolds(r) ==
    /\ r.stage \in StageIds
    /\ r.event \in Heads
    /\ r.stage = "create_manifest" => r.event # NoHead
    /\ OutputHolds(r.stage, r.output)

\* A sequence of such results, of whatever outputs.
ResultsHold(results) ==
    /\ results \in Seq(Range(results))
    /\ \A i \in DOMAIN results : ResultHolds(results[i])
HoldingsHold(holdings) ==
    /\ DOMAIN holdings = StageIds
    /\ \A s \in StageIds : holdings[s] # Nothing => OutputHolds(s, holdings[s])

OrchestratorHolds ==
    /\ orch \in [stage : StageIds \ Unreached, head : Heads]
    /\ orch.stage \notin Early => orch.head # NoHead
\* A chain at one of the first stages may still create a manifest.
CallHolds ==
    call # Idle =>
        /\ call = [at |-> call.at, left |-> call.left, held |-> call.held, form |-> call.form,
                   dossier |-> call.dossier, results |-> call.results]
        /\ call.at \in StageIds
        /\ call.at \in Early => created < MaxManifests
        /\ HoldingsHold(call.held)
        /\ ResultsHold(call.results)
PipelineInv ==
    /\ task \in Tasks
    /\ created \in Heads
    /\ OrchestratorHolds
    /\ CallHolds
    /\ ResultsHold(returned)
    /\ HoldingsHold(held)

-----------------------------------------------------------------------------
(* Lemmas: the stages.                                                      *)

LEMMA EarlyIndex ==
    ASSUME NEW s \in StageIds
    PROVE  StageIndex(s) <= 2 <=> s \in Early
<1> PICK i \in 1..16 : s = Stages[i]
  BY Places DEF StageIds, Range
<1>1. StageIndex(s) = i
  BY PlaceOf
<1>2. i \in {1, 2, 3, 4, 5, 6, 7, 8, 9, 10, 11, 12, 13, 14, 15, 16}
  OBVIOUS
<1> QED
  BY <1>1, <1>2, Places DEF Early

LEMMA UnreachedIndex ==
    ASSUME NEW s \in StageIds
    PROVE  StageIndex(s) <= StageIndex("public_tests") <=> s \notin Unreached
<1> PICK i \in 1..16 : s = Stages[i]
  BY Places DEF StageIds, Range
<1>1. StageIndex(s) = i
  BY PlaceOf
<1>2. StageIndex("public_tests") = 14
  BY PlaceOf, Places
<1>3. i \in {1, 2, 3, 4, 5, 6, 7, 8, 9, 10, 11, 12, 13, 14, 15, 16}
  OBVIOUS
<1> QED
  BY <1>1, <1>2, <1>3, Places DEF Unreached

LEMMA ManifestIndex ==
    ASSUME NEW s \in StageIds
    PROVE  StageIndex(s) <= StageIndex("create_manifest") <=> s \in Early
<1>1. StageIndex("create_manifest") = 2
  BY PlaceOf, Places
<1> QED
  BY <1>1, EarlyIndex

\* The stage after one that returns is a stage again, and an early one only after
\* the very first.
LEMMA NextStageHolds ==
    ASSUME NEW s \in StageIds
    PROVE  /\ NextStage(s) \in StageIds
           /\ s \notin Late => NextStage(s) \notin Unreached
           /\ NextStage(s) \in Early => s = "validate_ingress"
<1> PICK i \in 1..16 : s = Stages[i]
  BY Places DEF StageIds, Range
<1>1. StageIndex(s) = i
  BY PlaceOf
<1>2. i = 16 <=> s = FinalStage
  <2>1. i \in {1, 2, 3, 4, 5, 6, 7, 8, 9, 10, 11, 12, 13, 14, 15, 16}
    OBVIOUS
  <2> QED
    BY <2>1, Places
<1>3. CASE i = 16
  BY <1>2, <1>3, Places DEF NextStage, Late, Early
<1>4. CASE i # 16
  <2>1. NextStage(s) = Stages[i + 1]
    BY <1>1, <1>2, <1>4 DEF NextStage
  <2>2. i \in {1, 2, 3, 4, 5, 6, 7, 8, 9, 10, 11, 12, 13, 14, 15}
    BY <1>4
  <2> QED
    BY <2>1, <2>2, Places, StageIdsListed DEF Late, Unreached, Early
<1> QED
  BY <1>3, <1>4

-----------------------------------------------------------------------------
(* Lemmas: what the stages return.                                          *)

LEMMA RouteIsRouted ==
    ASSUME NEW spec, NEW contract
    PROVE  Routed(SelectRoute(spec, contract))
<1>1. ClassifyRoute(spec.kind, contract.name) = "reuse" => contract.name \in Official[spec.kind]
  BY DEF ClassifyRoute, LookupPackage
<1> QED
  BY <1>1 DEF SelectRoute, Routed, BackendFits

\* The policy of a generated candidate is refused, so that no candidate is one.
LEMMA CandidateIsBacked ==
    ASSUME NEW request, Routed(request), NEW spec,
           EnvironmentCandidate(request.route, request, spec) # <<>>
    PROVE  Backed(EnvironmentCandidate(request.route, request, spec)[1])
<1>1. PolicyIsExact(request.route, request.route)
  BY DEF EnvironmentCandidate
<1>2. request.route # "generate"
  BY <1>1 DEF PolicyIsExact
<1>3. PICK wrapped \in BOOLEAN :
        EnvironmentCandidate(request.route, request, spec) = <<Candidate(request, wrapped)>>
  BY <1>1 DEF EnvironmentCandidate, ReuseCandidate, ComposeCandidate
<1> QED
  BY <1>2, <1>3 DEF Candidate, Routed, Backed, BackendFits

\* What a stage of a chain returns holds, if what the chain was given does.
LEMMA RunHolds ==
    ASSUME NEW s \in StageIds, HoldingsHold(call.held), HasInput(s), Run(s) # <<>>
    PROVE  OutputHolds(s, Run(s))
<1>1. s \notin Late
  BY DEF Run, Deferred, Late
<1>2. CASE s = "select_route"
  <2>1. Run(s) = <<SelectRoute(call.dossier.spec, call.dossier.contract)>>
    BY <1>2 DEF Run
  <2> QED
    BY <1>1, <1>2, <2>1, RouteIsRouted DEF OutputHolds
<1>3. CASE s = "environment_candidate"
  <2> DEFINE request == call.held["select_route"][1]
  <2>1. Run(s) = EnvironmentCandidate(request.route, request, call.dossier.spec)
    BY <1>3 DEF Run
  <2>2. Needs(s) = {"select_route"}
    BY <1>3 DEF Needs
  <2>3. call.held["select_route"] # Nothing /\ "select_route" \in StageIds
    BY <2>2, StageIdsListed DEF HasInput
  <2>4. Routed(request)
    BY <2>3 DEF HoldingsHold, OutputHolds
  <2>5. Backed(Run(s)[1])
    BY <2>1, <2>4, CandidateIsBacked
  <2> QED
    BY <1>1, <1>3, <2>5 DEF OutputHolds
<1> QED
  BY <1>1, <1>2, <1>3 DEF OutputHolds

-----------------------------------------------------------------------------
(* Lemmas: sequences of results.                                            *)

LEMMA NoResultsHold == ResultsHold(<<>>)
  BY EmptySeq DEF ResultsHold

LEMMA AppendedHold ==
    ASSUME NEW results, ResultsHold(results), NEW r, ResultHolds(r)
    PROVE  ResultsHold(Append(results, r))
<1> DEFINE all == Range(results) \cup {r}
           longer == Append(results, r)
<1>1. results \in Seq(all) /\ Len(results) \in Nat
  BY SeqMonotonic, LenProperties DEF ResultsHold
<1>2. /\ longer \in Seq(all)
      /\ Len(longer) = Len(results) + 1
      /\ \A i \in 1..Len(results) : longer[i] = results[i]
      /\ longer[Len(results) + 1] = r
  BY <1>1, AppendProperties
<1>3. DOMAIN longer = 1..(Len(results) + 1) /\ DOMAIN results = 1..Len(results)
  BY <1>1, <1>2, LenProperties
<1>4. \A i \in DOMAIN longer : ResultHolds(longer[i])
  <2> TAKE i \in DOMAIN longer
  <2>1. i \in DOMAIN results \/ i = Len(results) + 1
    BY <1>1, <1>3
  <2> QED
    BY <1>2, <1>3, <2>1 DEF ResultsHold
<1>5. all \subseteq Range(longer)
  <2>1. r \in Range(longer)
    BY <1>1, <1>2, <1>3 DEF Range
  <2>2. ASSUME NEW i \in DOMAIN results PROVE results[i] \in Range(longer)
    <3>1. i \in DOMAIN longer /\ longer[i] = results[i]
      BY <1>1, <1>2, <1>3
    <3> QED
      BY <3>1 DEF Range
  <2> QED
    BY <2>1, <2>2 DEF Range
<1> QED
  BY <1>2, <1>4, <1>5, SeqMonotonic DEF ResultsHold

LEMMA FirstAndRestHold ==
    ASSUME NEW results, ResultsHold(results), results # <<>>
    PROVE  ResultHolds(Head(results)) /\ ResultsHold(Tail(results))
<1> DEFINE rest == Tail(results)
<1>1. results \in Seq(Range(results)) /\ Len(results) \in Nat \ {0} /\ DOMAIN results = 1..Len(results)
  BY EmptySeq, LenProperties DEF ResultsHold
<1>2. /\ rest \in Seq(Range(results))
      /\ Len(rest) = Len(results) - 1
      /\ \A i \in 1..Len(rest) : rest[i] = results[i + 1]
  BY <1>1, HeadTailProperties
<1>3. DOMAIN rest = 1..Len(rest)
  BY <1>2, LenProperties
<1>4. \A i \in DOMAIN rest : ResultHolds(rest[i])
  BY <1>1, <1>2, <1>3 DEF ResultsHold
<1>5. rest \in Seq(Range(rest))
  <2>1. \A i \in 1..Len(rest) : rest[i] \in Range(rest)
    BY <1>3 DEF Range
  <2>2. rest \in [1..Len(rest) -> Range(results)] /\ Len(rest) \in Nat
    BY <1>2, LenProperties
  <2>3. rest \in [1..Len(rest) -> Range(rest)]
    BY <2>1, <2>2
  <2> QED
    BY <2>2, <2>3, SeqDef
<1>6. ResultHolds(Head(results))
  BY <1>1 DEF ResultsHold
<1> QED
  BY <1>4, <1>5, <1>6 DEF ResultsHold

-----------------------------------------------------------------------------
(* The steps of the orchestrator.                                           *)

LEMMA PipelineInit ==
    ASSUME Init, Entries \cap Unreached = {}
    PROVE  PipelineInv
<1> PICK stage \in Entries :
        orch = [stage |-> stage, head |-> IF StageIndex(stage) <= 2 THEN NoHead ELSE 1]
  BY DEF Init
<1>1. stage \in StageIds \ Unreached
  BY EntriesAssumption
<1>2. 0 \in Heads /\ 1 \in Heads
  BY BoundAssumption DEF Heads
<1>3. orch.head \in Heads /\ orch.stage = stage /\ orch.head = IF stage \in Early THEN NoHead ELSE 1
  BY <1>1, <1>2, EarlyIndex DEF NoHead
<1>4. OrchestratorHolds
  BY <1>1, <1>3 DEF OrchestratorHolds, NoHead
<1>5. created \in Heads
  BY <1>2 DEF Init
<1> QED
  BY <1>4, <1>5, NoResultsHold DEF Init, PipelineInv, CallHolds, HoldingsHold

LEMMA BeginStep ==
    ASSUME PipelineInv, Begin
    PROVE  PipelineInv'
<1> PICK length \in Lengths, form \in Forms, dossier \in Dossiers :
        call' = [at |-> orch.stage, left |-> length, held |-> held,
                 form |-> form, dossier |-> dossier, results |-> <<>>]
  BY DEF Begin
<1>1. orch.stage \in StageIds
  BY DEF PipelineInv, OrchestratorHolds
<1>2. UNCHANGED <<task, orch, returned, held, created>>
  BY DEF Begin
<1>3. orch.stage \in Early => created < MaxManifests
  BY <1>1, ManifestIndex DEF Begin
<1>4. CallHolds'
  BY <1>1, <1>2, <1>3, NoResultsHold DEF CallHolds, PipelineInv
<1> QED
  BY <1>2, <1>4 DEF PipelineInv, OrchestratorHolds

\* The result of the stage that ran holds, and only the manifest stage moves the
\* number of manifests, past which no stage is an early one.
LEMMA RunStageStep ==
    ASSUME PipelineInv, RunStage
    PROVE  PipelineInv'
<1> DEFINE made == call.at = "create_manifest"
           result == Result(call.at, Run(call.at), IF made THEN created + 1 ELSE NoHead)
<1>1. /\ call # Idle /\ HasInput(call.at) /\ Run(call.at) # <<>>
      /\ call' = [call EXCEPT !.results = Append(@, result), !.at = NextStage(@), !.left = @ - 1]
      /\ created' = IF made THEN created + 1 ELSE created
      /\ UNCHANGED <<task, orch, returned, held>>
  BY DEF RunStage
<1>2. /\ call = [at |-> call.at, left |-> call.left, held |-> call.held, form |-> call.form,
                 dossier |-> call.dossier, results |-> call.results]
      /\ call.at \in StageIds
      /\ call.at \in Early => created < MaxManifests
      /\ HoldingsHold(call.held)
      /\ ResultsHold(call.results)
  BY <1>1 DEF PipelineInv, CallHolds
<1>3. created \in 0..MaxManifests /\ MaxManifests \in Nat \ {0}
  BY BoundAssumption DEF PipelineInv, Heads
<1>4. made => created + 1 \in Heads /\ created + 1 # NoHead
  BY <1>2, <1>3 DEF Early, Heads, NoHead
<1>5. NoHead \in Heads
  BY <1>3 DEF Heads, NoHead
<1>6. OutputHolds(call.at, Run(call.at))
  BY <1>1, <1>2, RunHolds
<1>7. ResultHolds(result)
  <2>1. result.stage = call.at /\ result.output = Run(call.at)
        /\ result.event = IF made THEN created + 1 ELSE NoHead
    BY DEF Result
  <2>2. result.event \in Heads /\ (result.stage = "create_manifest" => result.event # NoHead)
    BY <2>1, <1>4, <1>5
  <2> QED
    BY <2>1, <2>2, <1>2, <1>6 DEF ResultHolds
<1>8. ResultsHold(Append(call.results, result))
  BY <1>2, <1>7, AppendedHold
<1>9. call' = [at |-> NextStage(call.at), left |-> call.left - 1, held |-> call.held,
               form |-> call.form, dossier |-> call.dossier, results |-> Append(call.results, result)]
  BY <1>1, <1>2
<1>10. NextStage(call.at) \in StageIds
  BY <1>2, NextStageHolds
<1>11. NextStage(call.at) \in Early => created' < MaxManifests
  <2>1. NextStage(call.at) \in Early => call.at = "validate_ingress"
    BY <1>2, NextStageHolds
  <2> QED
    BY <2>1, <1>1, <1>2 DEF Early
<1>12. CallHolds'
  <2>1. HoldingsHold(call.held)' /\ ResultsHold(call.results)'
    BY <1>2, <1>8, <1>9 DEF HoldingsHold, ResultsHold, ResultHolds
  <2> QED
    BY <2>1, <1>9, <1>10, <1>11 DEF CallHolds
<1>13. created' \in Heads
  BY <1>1, <1>3, <1>4 DEF Heads
<1> QED
  BY <1>1, <1>12, <1>13 DEF PipelineInv, OrchestratorHolds, ResultsHold, HoldingsHold

\* What the caller holds of a stage afterwards is what it held, or an output of the
\* chain that is over.
LEMMA ReturnStep ==
    ASSUME PipelineInv, Return
    PROVE  PipelineInv'
<1>1. call # Idle /\ call' = Idle /\ returned' = call.results /\ UNCHANGED <<task, orch, created>>
  BY DEF Return
<1>2. ResultsHold(call.results)
  BY <1>1 DEF PipelineInv, CallHolds
<1>3. ASSUME NEW s \in StageIds, held'[s] # Nothing
      PROVE  OutputHolds(s, held'[s])
  <2> DEFINE of == {i \in DOMAIN call.results : call.results[i].stage = s}
  <2>1. held'[s] = IF of = {} THEN held[s] ELSE call.results[CHOOSE i \in of : TRUE].output
    BY DEF Return
  <2>2. CASE of = {}
    BY <2>1, <2>2, <1>3 DEF PipelineInv, HoldingsHold
  <2>3. CASE of # {}
    <3> DEFINE i == CHOOSE j \in of : TRUE
    <3>1. i \in of
      BY <2>3
    <3>2. ResultHolds(call.results[i]) /\ call.results[i].stage = s
      BY <3>1, <1>2 DEF ResultsHold
    <3> HIDE DEF i
    <3>3. held'[s] = call.results[i].output
      BY <2>1, <2>3 DEF i
    <3> QED
      BY <3>2, <3>3 DEF ResultHolds
  <2> QED
    BY <2>2, <2>3
<1>4. HoldingsHold(held)'
  <2>1. DOMAIN held' = StageIds
    BY DEF Return
  <2> QED
    BY <1>3, <2>1 DEF HoldingsHold, OutputHolds
<1>5. ResultsHold(returned)'
  BY <1>1, <1>2 DEF ResultsHold
<1> QED
  BY <1>1, <1>4, <1>5 DEF PipelineInv, OrchestratorHolds, CallHolds

\* A result of the orchestrator's own stage is of one that returns, so that the next
\* stage is reached with a head: the manifest's, or the one there was.
LEMMA AdvanceStep ==
    ASSUME PipelineInv, Advance
    PROVE  PipelineInv'
<1> DEFINE r == Head(returned)
<1>1. returned # <<>> /\ returned' = Tail(returned) /\ UNCHANGED <<task, call, held, created>>
  BY DEF Advance
<1>2. ResultHolds(r) /\ ResultsHold(Tail(returned))
  BY <1>1, FirstAndRestHold DEF PipelineInv
<1>3. orch' = IF r.stage = orch.stage THEN Advanced(orch, r) ELSE orch
  BY DEF Advance
<1>4. orch \in [stage : StageIds \ Unreached, head : Heads] /\ (orch.stage \notin Early => orch.head # NoHead)
  BY DEF PipelineInv, OrchestratorHolds
<1>5. ASSUME r.stage = orch.stage PROVE OrchestratorHolds'
  <2>1. orch.stage \notin Late /\ orch.stage \in StageIds
    BY <1>2, <1>4, <1>5 DEF ResultHolds, OutputHolds
  <2>2. orch.stage # FinalStage
    BY <2>1, Places DEF Late
  <2>3. orch' = [stage |-> NextStage(orch.stage), head |-> IF r.event # NoHead THEN r.event ELSE orch.head]
    BY <1>3, <1>5, <2>2 DEF Advanced
  <2>4. NextStage(orch.stage) \in StageIds \ Unreached
    BY <2>1, NextStageHolds
  <2>5. NextStage(orch.stage) \notin Early => orch'.head # NoHead
    <3>1. CASE orch.stage = "create_manifest"
      BY <1>2, <1>5, <2>3, <3>1 DEF ResultHolds
    <3>2. CASE orch.stage \notin Early
      BY <1>4, <2>3, <3>2
    <3>3. CASE orch.stage = "validate_ingress"
      <4>1. NextStage("validate_ingress") = "create_manifest"
        <5>1. StageIndex("validate_ingress") = 1
          BY PlaceOf, Places
        <5> QED
          BY <5>1, Places DEF NextStage
      <4> QED
        BY <3>3, <4>1 DEF Early
    <3> QED
      BY <3>1, <3>2, <3>3 DEF Early
  <2>6. r.event \in Heads
    BY <1>2 DEF ResultHolds
  <2> QED
    BY <2>3, <2>4, <2>5, <2>6, <1>4 DEF OrchestratorHolds
<1>6. ASSUME r.stage # orch.stage PROVE OrchestratorHolds'
  BY <1>3, <1>4, <1>6 DEF OrchestratorHolds
<1>7. OrchestratorHolds' => PipelineInv'
  BY <1>1, <1>2 DEF PipelineInv, CallHolds, ResultsHold, HoldingsHold
<1> QED
  BY <1>5, <1>6, <1>7

LEMMA RecoverPipelineStep ==
    ASSUME PipelineInv, Recover
    PROVE  PipelineInv'
<1> PICK head \in 0..created : orch' = Recovered(orch, head)
  BY DEF Recover
<1>1. UNCHANGED <<task, call, returned, held, created>>
  BY DEF Recover
<1>2. head \in Heads
  BY BoundAssumption DEF PipelineInv, Heads
<1>3. OrchestratorHolds'
  <2>1. CASE head = NoHead
    <3>1. "validate_ingress" \in StageIds \ Unreached /\ "validate_ingress" \in Early
      BY StageIdsListed DEF Unreached, Early
    <3> QED
      BY <1>2, <2>1, <3>1, Places DEF Recovered, OrchestratorHolds
  <2>2. CASE head # NoHead
    BY <1>2, <2>2 DEF Recovered, OrchestratorHolds, PipelineInv
  <2> QED
    BY <2>1, <2>2
<1> QED
  BY <1>1, <1>3 DEF PipelineInv, CallHolds, ResultsHold, HoldingsHold

LEMMA PipelineStep == PipelineInv /\ [Next]_vars => PipelineInv'
<1>1. ASSUME PipelineInv, UNCHANGED vars PROVE PipelineInv'
  BY <1>1 DEF vars, PipelineInv, OrchestratorHolds, CallHolds, ResultsHold, HoldingsHold
<1>2. ASSUME PipelineInv, StageRaises PROVE PipelineInv'
  BY <1>2 DEF StageRaises, PipelineInv, OrchestratorHolds, CallHolds, ResultsHold, HoldingsHold
<1> QED
  BY <1>1, <1>2, BeginStep, RunStageStep, ReturnStep, AdvanceStep, RecoverPipelineStep DEF Next

-----------------------------------------------------------------------------
(* The tables of the artifacts.                                             *)

TablesAssumption ==
    /\ Tables!RegistriesAssumption /\ Tables!Memory!ParentsAssumption
    /\ Tables!AncestryAssumption /\ Tables!RefsAssumption /\ Tables!OldFilesAssumption

\* What is stored has its parents stored, and says of them what they say.
Closed ==
    \A a \in Tables!Stored :
        Parents[a] \subseteq Tables!Stored /\ Refs[a] = Parents[a] /\ Tables!CrossContract(a)

\* The contract of a type that something stored is of, in the table.
ContractsKept == \A a \in Tables!Stored : contracts[Type[a]] # Tables!None

\* The contract of a stored artifact is p's, and so are those of its parents.
Agrees(p, a, table) == \A q \in {a} \cup Parents[a] : table[Type[q]] = Registry[p][Type[q]]

\* Who has the contracts of an artifact and of its parents, as the table has them,
\* has ones that admit it.
Admitted ==
    \A a \in Tables!Stored, p \in Processes :
        Agrees(p, a, contracts) => Tables!Admits(contracts[Type[a]], a)

\* Before the migration the contracts are the ones everything was written under, and
\* what is stored carries over.
Migrated == DOMAIN Legacy \cup {Attestation}
CarriesOver(a) ==
    Type[a] \in Migrated =>
        \A p \in Processes :
            (\A q \in {a} \cup Parents[a] : Tables!Registered(p, Type[q])) =>
                Tables!Admits(Registry[p][Type[a]], a)
OldHolds ==
    version = "v8" => \A a \in Tables!Stored : Tables!Admits(contracts[Type[a]], a) /\ CarriesOver(a)

TablesInv ==
    /\ Tables!TypeOK
    /\ Closed
    /\ ContractsKept
    /\ Admitted
    /\ OldHolds

-----------------------------------------------------------------------------
(* Lemmas: lineage.                                                         *)

\* There is a function as Lineage is defined: of an artifact, what is in every set
\* that has it and with everything its parents.
LEMMA LineageUnfolds ==
    ASSUME Tables!Memory!ParentsAssumption
    PROVE  \A a \in Artifacts :
             Tables!Lineage[a] = {a} \cup UNION {Tables!Lineage[q] : q \in Parents[a]}
<1> DEFINE Complete(S) == \A x \in S : Parents[x] \subseteq S
           L == [a \in Artifacts |->
                   {x \in Artifacts : \A S \in SUBSET Artifacts : a \in S /\ Complete(S) => x \in S}]
           Unfolded(f) == f = [a \in Artifacts |-> {a} \cup UNION {f[q] : q \in Parents[a]}]
<1>1. \A a \in Artifacts : Parents[a] \subseteq Artifacts
  BY DEF Tables!Memory!ParentsAssumption
<1>2. ASSUME NEW a \in Artifacts
      PROVE  L[a] = {a} \cup UNION {L[q] : q \in Parents[a]}
  <2> DEFINE above == {a} \cup UNION {L[q] : q \in Parents[a]}
  <2>1. a \in L[a]
    OBVIOUS
  <2>2. ASSUME NEW q \in Parents[a], NEW x \in L[q]
        PROVE  x \in L[a]
    <3>1. q \in Artifacts /\ x \in Artifacts
      BY <1>1, <2>2
    <3>2. ASSUME NEW S \in SUBSET Artifacts, a \in S, Complete(S) PROVE x \in S
      BY <3>1, <3>2, <2>2
    <3> QED
      BY <3>1, <3>2
  <2>3. above \in SUBSET Artifacts
    BY <1>1
  <2>4. Complete(above)
    <3>1. ASSUME NEW x \in above, NEW y \in Parents[x]
          PROVE  y \in above
      <4>1. CASE x = a
        <5>1. y \in Artifacts /\ y \in L[y]
          BY <1>1, <3>1, <4>1
        <5> QED
          BY <5>1, <3>1, <4>1
      <4>2. CASE x # a
        <5> PICK q \in Parents[a] : x \in L[q]
          BY <3>1, <4>2
        <5>1. q \in Artifacts /\ x \in Artifacts /\ y \in Artifacts
          BY <1>1, <3>1
        <5>2. y \in L[q]
          <6>1. ASSUME NEW S \in SUBSET Artifacts, q \in S, Complete(S) PROVE y \in S
            BY <5>1, <6>1, <3>1
          <6> QED
            BY <5>1, <6>1
        <5> QED
          BY <5>2
      <4> QED
        BY <4>1, <4>2
    <3> QED
      BY <3>1
  <2>5. L[a] \subseteq above
    BY <2>3, <2>4
  <2>6. {a} \subseteq L[a] /\ \A q \in Parents[a] : L[q] \subseteq L[a]
    BY <2>1, <2>2
  <2> HIDE DEF L
  <2>7. above \subseteq L[a]
    BY <2>6
  <2> QED
    BY <2>5, <2>7
<1>3. Unfolded(L)
  BY <1>2
<1>4. Tables!Lineage = CHOOSE f : Unfolded(f)
  BY DEF Tables!Lineage
<1> HIDE DEF Unfolded, L
<1>5. Unfolded(Tables!Lineage)
  BY <1>3, <1>4
<1> QED
  BY <1>5 DEF Unfolded

\* A lineage is of artifacts, and has the parents of what it has: the earliest
\* artifact of which this were false would have parents of which it is true.
LEMMA LineageComplete ==
    ASSUME Tables!Memory!ParentsAssumption, Tables!AncestryAssumption
    PROVE  \A a \in Artifacts :
             /\ a \in Tables!Lineage[a]
             /\ Tables!Lineage[a] \subseteq Artifacts
             /\ \A q \in Tables!Lineage[a] : Parents[q] \subseteq Tables!Lineage[a]
<1> DEFINE L == Tables!Lineage
           Whole(a) == L[a] \subseteq Artifacts /\ \A q \in L[a] : Parents[q] \subseteq L[a]
           bad == {a \in Artifacts : ~Whole(a)}
<1>1. \A a \in Artifacts : L[a] = {a} \cup UNION {L[q] : q \in Parents[a]}
  BY LineageUnfolds
<1>2. \A a \in Artifacts : Parents[a] \subseteq Artifacts
  BY DEF Tables!Memory!ParentsAssumption
<1> HIDE DEF L
<1>3. ASSUME bad # {} PROVE FALSE
  <2>1. PICK a \in bad : Parents[a] \cap bad = {}
    BY <1>3 DEF Tables!AncestryAssumption
  <2>2. \A q \in Parents[a] : q \in Artifacts /\ Whole(q) /\ q \in L[q] /\ L[q] \subseteq L[a]
    BY <1>1, <1>2, <2>1
  <2>3. L[a] \subseteq Artifacts
    BY <1>1, <2>2
  <2>4. ASSUME NEW q \in L[a] PROVE Parents[q] \subseteq L[a]
    <3>1. CASE q = a
      BY <2>2, <3>1
    <3>2. CASE q # a
      <4> PICK b \in Parents[a] : q \in L[b]
        BY <1>1, <3>2
      <4> QED
        BY <2>2
    <3> QED
      BY <3>1, <3>2
  <2> QED
    BY <2>3, <2>4
<1> QED
  BY <1>1, <1>3 DEF L

-----------------------------------------------------------------------------
(* The steps of the tables.                                                 *)

LEMMA TablesInit ==
    ASSUME TablesAssumption, Tables!Init
    PROVE  TablesInv
<1>1. CASE Tables!InitNew
  <2>1. Tables!Stored = {}
    BY <1>1 DEF Tables!InitNew, Tables!Stored
  <2>2. Tables!TypeOK
    BY <1>1 DEF Tables!InitNew, Tables!TypeOK
  <2> QED
    BY <2>1, <2>2 DEF TablesInv, Closed, ContractsKept, Admitted, OldHolds
<1>2. CASE \E old \in OldFiles : Tables!InitOld(old)
  <2> PICK old \in OldFiles : Tables!InitOld(old)
    BY <1>2
  <2>1. old.stored \subseteq Artifacts /\ Tables!OldFileHolds(old)
    BY DEF TablesAssumption, Tables!OldFilesAssumption
  <2>2. Tables!Stored = old.stored /\ contracts = old.contracts
    BY <2>1 DEF Tables!InitOld, Tables!Stored
  <2>3. Tables!TypeOK
    BY <2>1 DEF Tables!InitOld, Tables!OldFileHolds, Tables!TypeOK
  <2>4. Closed /\ ContractsKept
    BY <2>1, <2>2 DEF Tables!OldFileHolds, Closed, ContractsKept
  <2>5. \A a \in Tables!Stored : Tables!Admits(contracts[Type[a]], a) /\ CarriesOver(a)
    BY <2>1, <2>2 DEF Tables!OldFileHolds, CarriesOver, Migrated
  <2> QED
    BY <2>3, <2>4, <2>5 DEF TablesInv, Admitted, OldHolds
<1> QED
  BY <1>1, <1>2 DEF Tables!Init

\* What a transaction may store has its parents stored: reading them found them.
LEMMA StorableFits ==
    ASSUME TablesAssumption, NEW p \in Processes, NEW a \in Artifacts, Tables!Storable(p, a)
    PROVE  /\ Parents[a] \subseteq Tables!Stored
           /\ Refs[a] = Parents[a]
           /\ Tables!CrossContract(a)
           /\ Registry[p][Type[a]] # Tables!None
           /\ Tables!Admits(Registry[p][Type[a]], a)
           /\ version = "v10"
<1>1. ASSUME NEW q \in Parents[a] PROVE q \in Tables!Stored
  <2>1. q \in Artifacts
    BY DEF TablesAssumption, Tables!Memory!ParentsAssumption
  <2>2. q \in Tables!Lineage[q]
    BY <2>1, LineageComplete DEF TablesAssumption
  <2>3. Tables!Verified(p, q)
    BY <2>2 DEF Tables!Storable, Tables!ParentsVerified, Tables!LineageVerified
  <2> QED
    BY <2>1, <2>3 DEF Tables!Verified, Tables!Fetched, Tables!Stored
<1>2. Tables!Admits(Registry[p][Type[a]], a) /\ Tables!CrossContract(a) /\ Tables!Prepared(p, a) /\ version = "v10"
  BY DEF Tables!Storable, Tables!FileIsCurrent
<1>3. Registry[p][Type[a]].kind \in {"exact", "payload_bound"}
  BY <1>2 DEF Tables!Admits
<1>4. Refs[a] = Parents[a]
  BY <1>2, <1>3 DEF Tables!Prepared, TablesAssumption, Tables!RefsAssumption
<1> QED
  BY <1>1, <1>2, <1>4 DEF Tables!Prepared, Tables!Registered

LEMMA StoreStep ==
    ASSUME TablesAssumption, TablesInv, NEW p \in Processes, NEW a \in Artifacts,
           Tables!Storable(p, a), Tables!Store(p, a)
    PROVE  /\ TablesInv'
           /\ Tables!Stored' = Tables!Stored \cup {a}
<1>1. Tables!TypeOK /\ Closed /\ ContractsKept /\ Admitted
  BY DEF TablesInv
<1>2. UNCHANGED <<version, events, receipts, open>>
  BY DEF Tables!Store
<1>3. version = "v10" /\ Parents[a] \subseteq Tables!Stored /\ Refs[a] = Parents[a]
      /\ Tables!CrossContract(a) /\ Registry[p][Type[a]] # Tables!None
      /\ Tables!Admits(Registry[p][Type[a]], a)
  BY StorableFits
<1>4. CASE rows[a] # "absent"
  <2>1. UNCHANGED <<contracts, rows, blobs>> /\ a \in Tables!Stored
    BY <1>4 DEF Tables!Store, Tables!Stored
  <2>2. Tables!Stored' = Tables!Stored
    BY <2>1 DEF Tables!Stored
  <2> QED
    BY <1>1, <1>2, <1>3, <2>1, <2>2
    DEF TablesInv, Tables!TypeOK, Closed, ContractsKept, Admitted, Agrees, OldHolds
<1>5. CASE rows[a] = "absent"
  <2> DEFINE t == Type[a]
  <2>1. /\ contracts' = [contracts EXCEPT ![t] = Registry[p][t]]
        /\ rows' = [rows EXCEPT ![a] = "intact"]
        /\ blobs' = [blobs EXCEPT ![Payload[a]] = IF @ = "absent" THEN "intact" ELSE @]
    BY <1>5 DEF Tables!Store
  <2>2. t \in Tables!Types /\ Payload[a] \in Tables!Payloads
    BY DEF Tables!Types, Tables!Payloads
  <2>3. Tables!Stored' = Tables!Stored \cup {a}
    BY <1>1, <2>1 DEF Tables!Stored, Tables!TypeOK
  <2>4. Tables!TypeOK'
    BY <1>1, <1>2, <2>1, <2>2 DEF Tables!TypeOK
  <2>5. contracts'[t] = Registry[p][t]
    BY <1>1, <2>1, <2>2 DEF Tables!TypeOK
  <2>6. ASSUME NEW b \in Tables!Stored PROVE contracts'[Type[b]] = contracts[Type[b]]
    <3>1. CASE Type[b] = t
      <4>1. contracts[t] # Tables!None
        BY <1>1, <3>1 DEF ContractsKept
      <4> QED
        BY <2>5, <3>1, <4>1 DEF Tables!Storable, Tables!ContractHolds
    <3>2. CASE Type[b] # t
      <4>1. Type[b] \in DOMAIN contracts
        BY <1>1 DEF Tables!TypeOK, Tables!Stored, Tables!Types
      <4> QED
        BY <2>1, <3>2, <4>1
    <3> QED
      BY <3>1, <3>2
  <2>7. Closed'
    <3>1. ASSUME NEW b \in Tables!Stored \cup {a}
          PROVE  Parents[b] \subseteq Tables!Stored \cup {a} /\ Refs[b] = Parents[b] /\ Tables!CrossContract(b)
      BY <1>1, <1>3, <3>1 DEF Closed
    <3> QED
      BY <2>3, <3>1 DEF Closed
  <2>8. ContractsKept'
    BY <1>1, <1>3, <2>3, <2>5, <2>6 DEF ContractsKept
  <2>9. Admitted'
    <3>1. ASSUME NEW b \in Tables!Stored, NEW r \in Processes, Agrees(r, b, contracts')
          PROVE  Tables!Admits(contracts'[Type[b]], b)
      <4>1. \A q \in {b} \cup Parents[b] : contracts'[Type[q]] = contracts[Type[q]]
        BY <1>1, <2>6, <3>1 DEF Closed
      <4>2. Agrees(r, b, contracts)
        BY <3>1, <4>1 DEF Agrees
      <4>3. Tables!Admits(contracts[Type[b]], b)
        BY <1>1, <4>2 DEF Admitted
      <4> QED
        BY <4>1, <4>3
    <3>2. Tables!Admits(contracts'[t], a)
      BY <1>3, <2>5
    <3> QED
      BY <2>3, <3>1, <3>2 DEF Admitted
  <2>10. OldHolds'
    BY <1>2, <1>3 DEF OldHolds
  <2> QED
    BY <2>3, <2>4, <2>7, <2>8, <2>9, <2>10 DEF TablesInv
<1> QED
  BY <1>4, <1>5

\* The contracts the migration writes are of types that p knows.  Whoever has them
\* too, and those of the parents, knows these types: what carries over is admitted.
LEMMA MigrateStep ==
    ASSUME TablesAssumption, TablesInv, NEW p \in Processes, Tables!Migrate(p),
           UNCHANGED <<rows, blobs>>, open' \subseteq Processes
    PROVE  TablesInv' /\ Tables!Stored' = Tables!Stored
<1>1. Tables!TypeOK /\ Closed /\ ContractsKept /\ OldHolds /\ version = "v8"
  BY DEF TablesInv, Tables!Migrate
<1>2. Tables!Stored' = Tables!Stored
  BY DEF Tables!Stored
<1>3. contracts' = [t \in Tables!Types |-> IF contracts[t] # Tables!None /\ t \in Migrated
                                           THEN Registry[p][t] ELSE contracts[t]]
  BY DEF Tables!Migrate, Migrated
<1>4. Tables!TypeOK'
  BY <1>1, <1>3 DEF Tables!TypeOK, Tables!Migrate
<1>5. ASSUME NEW a \in Tables!Stored
      PROVE  /\ contracts'[Type[a]] = IF Type[a] \in Migrated THEN Registry[p][Type[a]] ELSE contracts[Type[a]]
             /\ contracts'[Type[a]] # Tables!None
  <2>1. Type[a] \in Tables!Types /\ contracts[Type[a]] # Tables!None
    BY <1>1 DEF Tables!Types, Tables!Stored, ContractsKept
  <2>2. CASE Type[a] \in Migrated
    <3>1. Tables!Registered(p, Type[a])
      BY <2>1, <2>2 DEF Tables!Migrate, Tables!Replaceable, Migrated
    <3> QED
      BY <1>3, <2>1, <2>2, <3>1 DEF Tables!Registered
  <2>3. CASE Type[a] \notin Migrated
    BY <1>3, <2>1, <2>3
  <2> QED
    BY <2>2, <2>3
<1>6. Closed'
  BY <1>1, <1>2 DEF Closed
<1>7. ContractsKept'
  BY <1>2, <1>5 DEF ContractsKept
<1>8. Admitted'
  <2>1. ASSUME NEW a \in Tables!Stored, NEW r \in Processes, Agrees(r, a, contracts')
        PROVE  Tables!Admits(contracts'[Type[a]], a)
    <3>1. CASE Type[a] \in Migrated
      <4>1. \A q \in {a} \cup Parents[a] : Registry[r][Type[q]] # Tables!None
        BY <1>1, <1>5, <2>1 DEF Agrees, Closed
      <4>2. Tables!Admits(Registry[r][Type[a]], a)
        BY <1>1, <3>1, <4>1 DEF OldHolds, CarriesOver, Tables!Registered
      <4> QED
        BY <2>1, <4>2 DEF Agrees
    <3>2. CASE Type[a] \notin Migrated
      BY <1>1, <1>5, <3>2 DEF OldHolds
    <3> QED
      BY <3>1, <3>2
  <2> QED
    BY <1>2, <2>1 DEF Admitted
<1>9. OldHolds'
  BY DEF OldHolds, Tables!Migrate
<1> QED
  BY <1>2, <1>4, <1>6, <1>7, <1>8, <1>9 DEF TablesInv

LEMMA OpenStep ==
    ASSUME TablesAssumption, TablesInv, NEW p \in Processes, Tables!Open(p)
    PROVE  TablesInv' /\ Tables!Stored' = Tables!Stored
<1>1. UNCHANGED <<rows, blobs>> /\ open' \subseteq Processes
  BY DEF Tables!Open, TablesInv, Tables!TypeOK
<1>2. Tables!Stored' = Tables!Stored
  BY <1>1 DEF Tables!Stored
<1>3. CASE Tables!Migrate(p)
  BY <1>1, <1>3, MigrateStep
<1>4. CASE Tables!Create(p) \/ Tables!Reopen
  <2>1. UNCHANGED <<receipts, contracts>> /\ version' = "v10" /\ events' = "current"
    BY <1>4 DEF Tables!Create, Tables!Reopen
  <2> QED
    BY <1>1, <1>2, <2>1
    DEF TablesInv, Tables!TypeOK, Closed, ContractsKept, Admitted, Agrees, OldHolds
<1> QED
  BY <1>3, <1>4 DEF Tables!Open

\* Damage changes no contract and takes nothing away.
LEMMA DamageStep ==
    ASSUME TablesInv, UNCHANGED <<version, events, receipts, contracts, open>>,
           \/ \E a \in Artifacts : Tables!AlterRow(a)
           \/ \E b \in Tables!Payloads : Tables!AlterBlob(b)
    PROVE  TablesInv' /\ Tables!Stored' = Tables!Stored
<1>1. Tables!TypeOK
  BY DEF TablesInv
<1>2. Tables!TypeOK' /\ Tables!Stored' = Tables!Stored
  <2>1. CASE \E a \in Artifacts : Tables!AlterRow(a)
    <3> PICK a \in Artifacts : Tables!AlterRow(a)
      BY <2>1
    <3>1. rows[a] = "intact" /\ rows' = [rows EXCEPT ![a] = "altered"] /\ blobs' = blobs
      BY DEF Tables!AlterRow
    <3> QED
      BY <1>1, <3>1 DEF Tables!TypeOK, Tables!Stored
  <2>2. CASE \E b \in Tables!Payloads : Tables!AlterBlob(b)
    <3> PICK b \in Tables!Payloads, state \in {"altered", "absent"} :
          blobs' = [blobs EXCEPT ![b] = state] /\ rows' = rows
      BY <2>2 DEF Tables!AlterBlob
    <3> QED
      BY <1>1 DEF Tables!TypeOK, Tables!Stored
  <2> QED
    BY <2>1, <2>2
<1> QED
  BY <1>2 DEF TablesInv, Closed, ContractsKept, Admitted, Agrees, OldHolds

LEMMA TablesStep ==
    ASSUME TablesAssumption, TablesInv, [Tables!Next]_(Tables!vars)
    PROVE  TablesInv'
<1>1. ASSUME UNCHANGED Tables!vars PROVE TablesInv'
  BY <1>1 DEF Tables!vars, TablesInv, Tables!TypeOK, Tables!Stored, Closed, ContractsKept,
              Admitted, Agrees, OldHolds
<1>2. ASSUME NEW p \in Processes, Tables!Close(p) PROVE TablesInv'
  <2>1. UNCHANGED <<version, events, receipts, contracts, rows, blobs>> /\ open' \subseteq open
    BY <1>2 DEF Tables!Close, Tables!file
  <2> QED
    BY <2>1 DEF TablesInv, Tables!TypeOK, Tables!Stored, Closed, ContractsKept, Admitted, Agrees, OldHolds
<1>3. ASSUME NEW p \in Processes, NEW a \in Artifacts, Tables!Put(p, a) \/ Tables!PutDerived(p, a)
      PROVE  TablesInv'
  BY <1>3, StoreStep DEF Tables!Put, Tables!CanPut, Tables!PutDerived
<1>4. ASSUME (\E a \in Artifacts : Tables!AlterRow(a)) \/ (\E b \in Tables!Payloads : Tables!AlterBlob(b))
      PROVE  TablesInv'
  <2>1. UNCHANGED <<version, events, receipts, contracts, open>>
    BY <1>4 DEF Tables!AlterRow, Tables!AlterBlob
  <2> QED
    BY <1>4, <2>1, DamageStep
<1> QED
  BY <1>1, <1>2, <1>3, <1>4, OpenStep DEF Tables!Next

-----------------------------------------------------------------------------
(* The phases.                                                              *)

CoordinatorInv == CoordinatorTypeOK /\ (phase = "idle" => ~recoveryAttempted)

\* What a step may never do, as an action.
EndsOnce ==
    /\ phase \in TerminalPhases =>
            phase' = phase \/ (phase' = "idle" /\ eventHead' = Absent)
    /\ phase' = "idle" => ~recoveryAttempted'

LEMMA TransitionStep ==
    ASSUME CoordinatorInv, NEW to \in Phases, Transition(to)
    PROVE  CoordinatorInv' /\ EndsOnce
<1>1. phase' = to /\ UNCHANGED <<eventHead, manifest, recoveryAttempted>>
  BY DEF Transition
<1>2. to # "idle" /\ phase \notin TerminalPhases
  BY DEF Transition, AllowedTransitions, TerminalPhases
<1> QED
  BY <1>1, <1>2 DEF CoordinatorInv, CoordinatorTypeOK, EndsOnce

LEMMA CreateRunStep ==
    ASSUME CoordinatorInv, NEW m \in Manifests, NEW head \in EventHeads, CreateRun(m, head)
    PROVE  CoordinatorInv' /\ EndsOnce
  BY DEF CreateRun, CoordinatorInv, CoordinatorTypeOK, EndsOnce, Phases, TerminalPhases

LEMMA BeginPlanningStep ==
    ASSUME CoordinatorInv, BeginPlanning
    PROVE  CoordinatorInv' /\ EndsOnce
  BY DEF BeginPlanning, CoordinatorInv, CoordinatorTypeOK, EndsOnce, Phases, TerminalPhases

LEMMA BeginRecoveryStep ==
    ASSUME CoordinatorInv, BeginRecovery
    PROVE  CoordinatorInv' /\ EndsOnce
  BY DEF BeginRecovery, CoordinatorInv, CoordinatorTypeOK, EndsOnce, Phases, TerminalPhases

\* Only this one leads back: from any phase, and with the flag down.
LEMMA RecoverStep ==
    ASSUME CoordinatorInv, NEW head \in EventHeads \cup {Absent}, RecoverFromEventHead(head)
    PROVE  CoordinatorInv' /\ EndsOnce
<1>1. eventHead' = head /\ UNCHANGED manifest
  BY DEF RecoverFromEventHead
<1>2. CASE head = Absent
  <2>1. phase' = "idle" /\ recoveryAttempted' = FALSE
    BY <1>2 DEF RecoverFromEventHead
  <2> QED
    BY <1>1, <1>2, <2>1 DEF CoordinatorInv, CoordinatorTypeOK, EndsOnce, Phases
<1>3. CASE head # Absent
  <2>1. phase' = phase /\ recoveryAttempted' = recoveryAttempted
    BY <1>3 DEF RecoverFromEventHead, CoordinatorInv, CoordinatorTypeOK
  <2> QED
    BY <1>1, <2>1 DEF CoordinatorInv, CoordinatorTypeOK, EndsOnce
<1> QED
  BY <1>2, <1>3

LEMMA CoordinatorStep ==
    CoordinatorInv /\ [CoordinatorNext]_coordinator => CoordinatorInv' /\ [EndsOnce]_coordinator
<1>1. ASSUME CoordinatorInv, UNCHANGED coordinator PROVE CoordinatorInv'
  BY <1>1 DEF coordinator, CoordinatorInv, CoordinatorTypeOK
<1> QED
  BY <1>1, TransitionStep, CreateRunStep, BeginPlanningStep, BeginRecoveryStep, RecoverStep
  DEF CoordinatorNext

-----------------------------------------------------------------------------
(* The theorems.                                                            *)

\* The invariant of the orchestrator.  A caller may construct one at any stage: at
\* one past those that return, it would be there without any of them.
LEMMA PipelineInvHolds ==
    ASSUME Entries \cap Unreached = {} PROVE Spec => []PipelineInv
<1>1. Init => PipelineInv
  BY PipelineInit
<1> QED
  BY <1>1, PipelineStep, PTL DEF Spec

\* Type correctness of the orchestrator, its chains and what its caller holds.
THEOREM PipelineTypeCorrect ==
    ASSUME Entries \cap Unreached = {} PROVE Spec => []TypeOK
<1>1. PipelineInv => TypeOK
  BY DEF PipelineInv, OrchestratorHolds, CallHolds, HoldingsHold, ResultsHold, ResultHolds, TypeOK
<1> QED
  BY <1>1, PipelineInvHolds, PTL

\* Where a run is, and what it returns, is backed, whatever sequence of chains,
\* exceptions, refused results and recoveries led there: past the manifest stage
\* there is an event head, the stages that only raise are passed by nobody, and a
\* reused candidate is an official environment of the kind it was routed for.
THEOREM ProgressCorrect ==
    ASSUME Entries \cap Unreached = {} PROVE Spec => []ProgressIsBacked
<1>1. ASSUME PipelineInv PROVE ProgressIsBacked
  <2>1. orch.stage \in StageIds /\ orch.stage \notin Unreached /\ (orch.stage \notin Early => orch.head # NoHead)
    BY <1>1 DEF PipelineInv, OrchestratorHolds
  <2>2. StageIndex(orch.stage) \in 1..16 /\ StageIndex("create_manifest") = 2
    BY <2>1, PlaceOf, Places DEF StageIds, Range
  <2>3. StageIndex(orch.stage) > StageIndex("create_manifest") => orch.head # NoHead
    BY <2>1, <2>2, ManifestIndex
  <2>4. StageIndex(orch.stage) <= StageIndex("public_tests")
    BY <2>1, UnreachedIndex
  <2>5. \A s \in Late : held[s] = Nothing
    BY <1>1, StageIdsListed DEF PipelineInv, HoldingsHold, OutputHolds, Late
  <2>6. held["environment_candidate"] # Nothing => Backed(held["environment_candidate"][1])
    BY <1>1, StageIdsListed DEF PipelineInv, HoldingsHold, OutputHolds
  <2> QED
    BY <2>3, <2>4, <2>5, <2>6 DEF ProgressIsBacked, Late, Backed, BackendFits
<1> QED
  BY <1>1, PipelineInvHolds, PTL

LEMMA TablesInvHolds ==
    ASSUME TablesAssumption PROVE Tables!Spec => []TablesInv
<1>1. Tables!Init => TablesInv
  BY TablesInit
<1>2. TablesInv /\ [Tables!Next]_(Tables!vars) => TablesInv'
  BY TablesStep
<1> QED
  BY <1>1, <1>2, PTL DEF Tables!Spec

\* Type correctness of the file, for whatever registries the processes have.
THEOREM TablesTypeCorrect ==
    ASSUME TablesAssumption PROVE Tables!Spec => []Tables!TypeOK
<1>1. TablesInv => Tables!TypeOK
  BY DEF TablesInv
<1> QED
  BY <1>1, TablesInvHolds, PTL

\* An artifact can be read exactly by those who have the contracts of the table for
\* its lineage, and exactly while all of that is there and undamaged, whichever
\* registry wrote it, and whichever one migrated the file.
THEOREM ReadableCorrect ==
    ASSUME TablesAssumption PROVE Tables!Spec => []ReadableIfIntact
<1> DEFINE Sound(p, a) ==
             \A q \in Tables!Lineage[a] :
                Tables!Untouched(q) /\ contracts[Type[q]] = Registry[p][Type[q]]
<1>1. ASSUME TablesInv, NEW p \in open, NEW a \in Tables!Stored, Tables!FileIsCurrent
      PROVE  Tables!Readable(p, a) <=> Sound(p, a)
  <2>1. a \in Artifacts /\ rows[a] # "absent" /\ p \in Processes
    BY <1>1 DEF Tables!Stored, TablesInv, Tables!TypeOK
  <2>2. ASSUME Tables!Readable(p, a) PROVE Sound(p, a)
    BY <2>2 DEF Tables!Readable, Tables!LineageVerified, Tables!Verified, Tables!Fetched,
                Tables!ContractIsRegistrys, Tables!Untouched
  <2>3. ASSUME Sound(p, a), NEW q \in Tables!Lineage[a] PROVE Tables!Verified(p, q)
    <3>1. q \in Artifacts /\ Parents[q] \subseteq Tables!Lineage[a]
      BY <2>1, LineageComplete DEF TablesAssumption
    <3>2. rows[q] = "intact" /\ blobs[Payload[q]] = "intact"
      BY <2>3 DEF Tables!Untouched
    <3>3. q \in Tables!Stored
      BY <3>1, <3>2 DEF Tables!Stored
    <3>4. Agrees(p, q, contracts)
      BY <2>3, <3>1 DEF Agrees
    <3>5. contracts[Type[q]] = Registry[p][Type[q]] /\ contracts[Type[q]] # Tables!None
      BY <1>1, <2>3, <3>3 DEF TablesInv, ContractsKept
    <3>6. Tables!Admits(Registry[p][Type[q]], q)
      BY <1>1, <2>1, <3>3, <3>4, <3>5 DEF TablesInv, Admitted
    <3>7. Refs[q] = Parents[q] /\ Tables!CrossContract(q)
      BY <1>1, <3>3 DEF TablesInv, Closed
    <3> QED
      BY <3>2, <3>5, <3>6, <3>7
      DEF Tables!Verified, Tables!Fetched, Tables!ContractIsRegistrys, Tables!Registered
  <2>4. ASSUME Sound(p, a) PROVE Tables!Readable(p, a)
    BY <1>1, <2>1, <2>3, <2>4 DEF Tables!Readable, Tables!LineageVerified
  <2> QED
    BY <2>2, <2>4
<1>2. TablesInv => ReadableIfIntact
  BY <1>1 DEF ReadableIfIntact, Tables!ReadableIfIntact
<1> QED
  BY <1>2, TablesInvHolds, PTL

\* The file implements the in-memory repository: what is stored never goes, and
\* grows by one artifact at a time, whose parents are there and say what it says.
THEOREM TablesImplementMemory ==
    ASSUME TablesAssumption PROVE Tables!Spec => ImplementsMemory
<1>1. Tables!Init => Tables!Memory!Init
  <2>1. ASSUME Tables!Init PROVE Tables!Memory!Init
    <3>1. Closed
      BY <2>1, TablesInit DEF TablesInv
    <3> QED
      BY <3>1 DEF Tables!Memory!Init, Tables!Memory!Closed, Closed, Tables!Stored
  <2> QED
    BY <2>1
<1>2. ASSUME TablesInv, [Tables!Next]_(Tables!vars)
      PROVE  [Tables!Memory!Next]_(Tables!Stored)
  <2>1. ASSUME NEW p \in Processes, NEW a \in Artifacts, Tables!Put(p, a) \/ Tables!PutDerived(p, a)
        PROVE  Tables!Memory!Next
    <3>1. Tables!Storable(p, a) /\ Tables!Store(p, a)
      BY <2>1 DEF Tables!Put, Tables!CanPut, Tables!PutDerived
    <3>2. Tables!Stored' = Tables!Stored \cup {a}
      BY <1>2, <3>1, StoreStep
    <3>3. Parents[a] \subseteq Tables!Stored /\ Refs[a] = Parents[a] /\ Tables!CrossContract(a)
      BY <3>1, StorableFits
    <3> QED
      BY <3>2, <3>3 DEF Tables!Memory!Next, Tables!Memory!Put, Tables!Memory!Puttable
  <2>2. ASSUME NEW p \in Processes, Tables!Open(p) PROVE Tables!Stored' = Tables!Stored
    BY <1>2, <2>2, OpenStep
  <2>3. ASSUME NEW p \in Processes, Tables!Close(p) PROVE Tables!Stored' = Tables!Stored
    BY <2>3 DEF Tables!Close, Tables!file, Tables!Stored
  <2>4. ASSUME (\E a \in Artifacts : Tables!AlterRow(a)) \/ (\E b \in Tables!Payloads : Tables!AlterBlob(b))
        PROVE  Tables!Stored' = Tables!Stored
    <3>1. UNCHANGED <<version, events, receipts, contracts, open>>
      BY <2>4 DEF Tables!AlterRow, Tables!AlterBlob
    <3> QED
      BY <1>2, <2>4, <3>1, DamageStep
  <2>5. ASSUME UNCHANGED Tables!vars PROVE Tables!Stored' = Tables!Stored
    BY <2>5 DEF Tables!vars, Tables!Stored
  <2> QED
    BY <1>2, <2>1, <2>2, <2>3, <2>4, <2>5 DEF Tables!Next
<1> QED
  BY <1>1, <1>2, TablesInvHolds, PTL DEF Tables!Spec, ImplementsMemory, Tables!ImplementsMemory, Tables!Memory!Spec

\* Type correctness, and no idle run has a recovery behind it.
THEOREM InvHolds == CoordinatorSpec => []CoordinatorInv
<1>1. CoordinatorInit => CoordinatorInv
  BY DEF CoordinatorInit, CoordinatorInv, CoordinatorTypeOK, Phases
<1>2. CoordinatorInv /\ [CoordinatorNext]_coordinator => CoordinatorInv'
  BY CoordinatorStep
<1> QED
  BY <1>1, <1>2, PTL DEF CoordinatorSpec

\* A run that is over stays over, unless it is started over without an event head,
\* although two methods do not ask the transition table.
THEOREM EndCorrect == CoordinatorSpec => RunsEndOnce
<1>1. CoordinatorInv /\ [CoordinatorNext]_coordinator => [EndsOnce]_coordinator
  BY CoordinatorStep
<1>2. CoordinatorSpec => [][EndsOnce]_coordinator
  BY <1>1, InvHolds, PTL DEF CoordinatorSpec
<1> QED
  BY <1>2 DEF RunsEndOnce, EndsOnce

\* What is proved of each is proved of all together, for none is disturbed by another.
THEOREM AllAreThemselves == AllSpec => Spec /\ CoordinatorSpec /\ Tables!Spec
<1>1. AllInit => Init /\ CoordinatorInit /\ Tables!Init
  BY DEF AllInit, Tables!Init
<1>2. [AllNext]_allVars => [Next]_vars /\ [CoordinatorNext]_coordinator /\ [Tables!Next]_(Tables!vars)
  BY DEF AllNext, allVars, tableVars, Tables!vars
<1> QED
  BY <1>1, <1>2, PTL DEF AllSpec, Spec, CoordinatorSpec, Tables!Spec

\* Type correctness of all, whichever a behaviour is about.
THEOREM TypesCorrect ==
    ASSUME Entries \cap Unreached = {}, TablesAssumption PROVE AllSpec => []TypesOK
<1>1. CoordinatorInv => CoordinatorTypeOK
  BY DEF CoordinatorInv
<1>2. TypeOK /\ CoordinatorTypeOK /\ Tables!TypeOK => TypesOK
  BY DEF TypesOK
<1> QED
  BY <1>1, <1>2, AllAreThemselves, PipelineTypeCorrect, InvHolds, TablesTypeCorrect, PTL
=============================================================================
