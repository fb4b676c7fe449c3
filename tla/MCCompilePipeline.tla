--------------------------- MODULE MCCompilePipeline ---------------------------
(* The compile pipeline, the run coordinator, and the tables of the artifacts.    *)
(* Nothing in the source orders the calls of one and of another: a behaviour is   *)
(* one of any.                                                                    *)
EXTENDS MCArtifactRepository

SubjectsMC == Required \cup {"full_state_observability", "general_context"}
OfficialMC == [k \in Kinds |->
    CASE k = "MDP" -> {"CartPole-v1"} [] k = "POMDP" -> {"Tiger-v0"} [] OTHER -> {"simple_tag"}]

TasksMC == {[keywords |-> 1..10]}

Source(subjects) == [url |-> 1, shows |-> subjects]
Evidence == {{}, {Source({})},
             {Source({"state_variables"})},
             {Source({"state_variables", "observability"})},
             {Source({"state_variables"}), Source({"full_state_observability"})}}

Contract(name, makers, questions) ==
    [name |-> name, makers |-> makers, questions |-> questions]
Passed == [status |-> "passed", uncovered |-> {}]
Failed == [status |-> "failed", uncovered |-> {"action"}]
FailedNowhere == [status |-> "failed", uncovered |-> {}]
Issue(severity, unresolved) == [about |-> "kind", severity |-> severity, open |-> unresolved]

Dossier(evidence, kind, contract, report, issues) ==
    [evidence |-> evidence, spec |-> [kind |-> kind], contract |-> contract,
     report |-> report, issues |-> issues]
Plain == Contract("CartPole-v1", 1, {})
DossiersMC ==
    {Dossier(e, "MDP", Plain, Passed, {}) : e \in Evidence}
    \cup {Dossier({}, r[1], Contract(r[2], 1, {}), Passed, {}) :
            r \in {<<"MDP", "other">>, <<"POMDP", "CartPole-v1">>,
                   <<"POSG", "simple_tag">>, <<"POSG", "other">>}}
    \cup {Dossier({}, "MDP", Contract("CartPole-v1", 1, {"high"}), Passed, {}),
          Dossier({}, "MDP", Plain, Failed, {}),
          Dossier({}, "MDP", Plain, FailedNowhere, {}),
          Dossier({}, "MDP", Plain, Passed, {Issue("critical", TRUE), Issue("low", TRUE)}),
          Dossier({}, "MDP", Plain, Passed, {Issue("critical", FALSE)})}

(* The decision rule of the approval gate (stage11_approval_gate.py:101): a       *)
(* task is approved if its validation passed, and otherwise rejected.  The code    *)
(* counts the items a failed report left uncovered, of which there may be none.   *)
ApprovedIsValidated ==
    held["approval_gate"] # Nothing =>
        LET decision == held["approval_gate"][1]
        IN decision.approved => decision.report = "passed"

-----------------------------------------------------------------------------
MCInit == AllInit /\ (part # "pipeline" => orch.head = NoHead)
MCSpec == MCInit /\ [][AllNext]_allVars
================================================================================
