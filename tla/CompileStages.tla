--------------------------- MODULE CompileStages ---------------------------
(***************************************************************************)
(* The functions of the compile pipeline, application/stages, as operators *)
(* on what later stages tell apart: which subjects a piece of evidence     *)
(* speaks of, which issues are open, the kind of a process, a route.       *)
(*                                                                         *)
(* A stage hands on a reference, the hash of an artifact, and the next one *)
(* reads its field as the artifact itself: a field that holds a reference  *)
(* reads as an artifact without content.  Opened is that reading.          *)
(***************************************************************************)
EXTENDS Naturals, FiniteSets, Sequences, Functions

CONSTANTS
    Subjects,     \* claim types a snippet may show; Required are among them
    Official,     \* [Kinds -> names of environments an official package has]
    MaxQueries    \* keywords[:8]

Stages == <<"validate_ingress", "create_manifest", "plan_evidence",
            "retrieve_evidence", "claim_evidence_graph", "identify_ambiguities",
            "classify_process_kind", "propose_formal_spec", "formal_validation",
            "text_formal_critic", "approval_gate", "select_route",
            "environment_candidate", "public_tests", "package_candidate",
            "terminal_cas">>
StageIds == Range(Stages)
StageIndex(stage) == CHOOSE i \in DOMAIN Stages : Stages[i] = stage
FinalStage == Stages[Len(Stages)]

Required == {"state_variables", "action_space", "reward_function",
             "agent_structure", "transition_dynamics", "observability"}
Kinds == {"MDP", "POMDP", "MG", "POSG"}
Blocking == {"high", "critical"}

ASSUME SubjectsAssumption == Required \subseteq Subjects
ASSUME OfficialAssumption == DOMAIN Official = Kinds

\* What a stage reads where it is given a reference.
Reference == [ref |-> TRUE]
Opened(artifact, blank) == IF artifact = Reference THEN blank ELSE artifact

---------------------------------------------------------------------------
(* Evidence: stages 3 to 6.                                                *)

\* Keywords are numbered in the alphabetical order of the words; 0 stands for
\* the fallback of a task without any.
Unknowns(keywords) == IF keywords = {} THEN {0} ELSE keywords
MakeQueries(unknowns) ==
    {k \in unknowns : Cardinality({j \in unknowns : j < k}) < MaxQueries}
PlanEvidence(task) == [queries |-> MakeQueries(Unknowns(task.keywords))]

\* The gateway built in the stage defers every search, and its failure is the
\* snapshot of a search that found nothing.
RetrieveEvidence == [sources |-> {}]

\* A source shows the subjects of its words, or a general one.
ParseClaims(sources) ==
    {[from |-> s, types |-> IF s.shows = {} THEN {"general_context"} ELSE s.shows] : s \in sources}
ClaimEvidenceGraph(snapshot) ==
    [claims |-> ParseClaims(Opened(snapshot, RetrieveEvidence).sources)]

Covered(claims) == UNION {c.types : c \in claims}
MissingIssues(covered) ==
    {[about |-> r, severity |-> "medium", open |-> TRUE] : r \in Required \ covered}

\* A claim type is looked for as a part of the text of the types, in which the
\* first marker is a part of its opposite.
Mentions(claims, type) ==
    \E t \in Covered(claims) :
        t = type \/ (type = "observability" /\ t = "full_state_observability")
ConflictPairs == {<<"observability", "full_state_observability">>,
                  <<"agent_structure", "single_agent">>,
                  <<"markov_property", "non_markovian">>,
                  <<"continuous_time", "discrete_time">>}
Contradictions(claims) ==
    {[about |-> pair[1], severity |-> "high", open |-> TRUE] :
        pair \in {p \in ConflictPairs : Mentions(claims, p[1]) /\ Mentions(claims, p[2])}}

\* What does not block becomes an assumption and is no longer open.
ClassifyGap(issue) == [issue EXCEPT !.open = issue.severity \in Blocking]
IdentifyAmbiguities(view) ==
    LET claims == Opened(view, [claims |-> {}]).claims
    IN [issues |-> {ClassifyGap(i) : i \in MissingIssues(Covered(claims)) \cup Contradictions(claims)},
        covered |-> Covered(claims)]
BlankReport == [issues |-> {}, covered |-> {}]

---------------------------------------------------------------------------
(* Classification and proposal: stages 7 and 8.                            *)

\* The reasons of the issues never speak of several agents.
InferFacts(report) ==
    [makers |-> 1, strategic |-> FALSE,
     sufficient |-> "state_variables" \in report.covered,
     full |-> "observability" \in report.covered,
     histories |-> "observability" \notin report.covered]

DeriveKind(facts) ==
    CASE facts.makers = 1 /\ facts.sufficient /\ ~facts.histories -> "MDP"
      [] facts.makers = 1 /\ ~facts.sufficient -> "POMDP"
      [] facts.makers > 1 /\ ~facts.strategic /\ facts.full -> "MG"
      [] facts.makers > 1 /\ (facts.strategic \/ ~facts.full) -> "POSG"
      [] OTHER -> "OOD"

ClassifyProcessKind(report) ==
    LET facts == InferFacts(Opened(report, BlankReport))
    IN [tag |-> DeriveKind(facts), makers |-> facts.makers]

\* A process of several agents gets an objective that only the first one owns,
\* which its validator refuses.
SpecIsBuilt(tag) == tag \notin {"MG", "POSG"}
BuildSpec(tag) == [kind |-> IF tag \in Kinds THEN tag ELSE "MDP"]

BuildContract(makers, report) ==
    [name |-> "compiled_task", makers |-> makers,
     questions |-> {i.severity : i \in {j \in report.issues : j.open}}]
ContractIsApprovable(contract) == contract.questions \cap Blocking = {}

\* <<>> is an exception.
ProposeFormalSpec(classification, ambiguities) ==
    LET read == Opened(classification, [tag |-> "MDP", makers |-> 1])
        contract == BuildContract(read.makers, Opened(ambiguities, BlankReport))
    IN IF SpecIsBuilt(read.tag) /\ ContractIsApprovable(contract)
       THEN <<[spec |-> BuildSpec(read.tag), contract |-> contract]>>
       ELSE <<>>

---------------------------------------------------------------------------
(* Review, route and candidate: stages 9 to 13.                            *)

\* The report is built from tuples and the critic hashes a record that holds a
\* model, both of which strict ingress refuses.
FormalValidation == <<>>
TextFormalCritic == <<>>

RejectionReasons(report, issues, contract) ==
    {<<"validation", u>> : u \in IF report.status = "failed" THEN report.uncovered ELSE {}}
    \cup {<<"critic", i.about>> : i \in {j \in issues : j.open /\ j.severity \in Blocking}}
    \cup {<<"contract", q>> : q \in contract.questions \cap Blocking}
\* What the report says is kept beside the decision, which has no trace of it.
ApprovalGate(report, issues, contract) ==
    [approved |-> RejectionReasons(report, issues, contract) = {}, report |-> report.status]

LookupPackageOfAnyKind(kind, name) == \E k \in Kinds : name \in Official[k]    \* Mutant: another kind's package
LookupPackage(kind, name) == name \in Official[kind]
ClassifyRoute(kind, name) ==
    CASE LookupPackage(kind, name) -> "reuse"
      [] kind = "MDP" /\ ~LookupPackage(kind, name) -> "generate"
      [] OTHER -> "compose"
SelectRoute(spec, contract) ==
    [route |-> ClassifyRoute(spec.kind, contract.name), kind |-> spec.kind,
     name |-> contract.name,
     backend |-> IF spec.kind \in {"MG", "POSG"} THEN "pettingzoo" ELSE "gymnasium"]

\* The stages the registry gives functions that only raise.
Deferred == <<>>

\* The sandbox policy must list exactly what its route allows, in order.  The
\* builder of a generated candidate lists it out of order.
PolicyIsExact(builder, route) == builder = route /\ builder # "generate"

Candidate(request, wrapped) ==
    [route |-> request.route, kind |-> request.kind, name |-> request.name,
     backend |-> request.backend, wrapped |-> wrapped]
ReuseCandidate(request) == Candidate(request, FALSE)
ComposeCandidate(request, spec) == Candidate(request, spec.kind = "POSG")
EnvironmentCandidate(builder, request, spec) ==
    IF ~PolicyIsExact(builder, request.route) THEN <<>>
    ELSE <<IF builder = "reuse" THEN ReuseCandidate(request) ELSE ComposeCandidate(request, spec)>>
=============================================================================
