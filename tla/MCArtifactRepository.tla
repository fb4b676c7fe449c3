-------------------------- MODULE MCArtifactRepository --------------------------
(* A task and its context, two classifications of it, a proposal that follows one and a false one *)
(* that contradicts the other, one whose payload does not refer to all it says it *)
(* follows, the task it leads to, a copy of the task under another envelope; a    *)
(* job and its terminal record, which a file of version 8 may hold; a             *)
(* classification that only one registry admits.                                  *)
EXTENDS CompileAndTables

CONSTANTS fixture, other, default    \* registries, which name the processes that have them

ArtifactsMC == {"context", "task", "copy", "class", "ood", "loose", "proposal", "false", "short", "child", "job",
                "fixed", "terminal", "attestation"}

FamilyTree == [a \in ArtifactsMC |->
    CASE a \in {"task", "copy"} -> {"context"}
      [] a \in {"class", "ood"} -> {"task"}
      [] a \in {"proposal", "short"} -> {"task", "class"}
      [] a = "false" -> {"task", "ood"}
      [] a = "child" -> {"task", "class", "proposal"}
      [] a = "terminal" -> {"job"}
      [] a = "attestation" -> {"job", "terminal"}
      [] OTHER -> {}]
RefsMC == [FamilyTree EXCEPT !["short"] = {"task"}]
VerdictMC == [a \in ArtifactsMC |-> IF a = "ood" THEN "OOD" ELSE "REDUCIBLE"]
AboutMC == [a \in ArtifactsMC |-> "task"]

Terminal == "process_execution_terminal_record"
TypeNames == [a \in ArtifactsMC |->
    CASE a = "context" -> "task_contract_authoring_context"
      [] a \in {"task", "copy", "child"} -> "task_contract"
      [] a \in {"class", "ood", "loose"} -> "classification_result"
      [] a \in {"proposal", "false", "short"} -> "reduction_proposal"
      [] a = "job" -> "job_manifest"
      [] a = "fixed" -> "fixed_commit_job_manifest"
      [] a = "terminal" -> Terminal
      [] a = "attestation" -> "execution_attestation"]
SchemaMC == [a \in ArtifactsMC |-> 1]
PayloadNames == [a \in ArtifactsMC |-> IF a = "copy" THEN "task" ELSE a]
DerivedMC == {Terminal, "execution_attestation"}

Exact(bags) == [kind |-> "exact", schema |-> 1, bags |-> bags]
Bound(allowed) == [kind |-> "payload_bound", schema |-> 1, allowed |-> allowed]
NoBag == [t \in {} |-> 0]
NoContract == [kind |-> "none"]

Fixture == [t \in {TypeNames[a] : a \in ArtifactsMC} |->
    CASE t = "classification_result" -> Exact({[q \in {"task_contract"} |-> 1]})
      [] t = "reduction_proposal" -> Bound({"task_contract", "classification_result"})
      [] t = Terminal -> Bound({"job_manifest", "fixed_commit_job_manifest"})
      [] t = "execution_attestation" -> Bound({"job_manifest", "fixed_commit_job_manifest", Terminal})
      [] t = "task_contract" ->
             Exact({[q \in {"task_contract_authoring_context"} |-> 1], [q \in {"task_contract", "classification_result", "reduction_proposal"} |-> 1]})
      [] OTHER -> Exact({NoBag})]
Registries == [p \in Processes |->
    CASE p = fixture -> Fixture
      [] p = other -> [Fixture EXCEPT !["classification_result"] = Exact({NoBag, [q \in {"task_contract"} |-> 1]})]
      [] p = default -> [Fixture EXCEPT !["job_manifest"] = NoContract,
                                        ![Terminal] = Bound({"fixed_commit_job_manifest"}),
                                        !["execution_attestation"] = Bound({"fixed_commit_job_manifest", Terminal})]]
LegacyContract == Bound({"job_manifest"})
LegacyMC == [t \in {Terminal} |-> LegacyContract]
Foreign == Bound({"job_manifest", "task_contract"})
OldContracts(terminal) ==
    [t \in {TypeNames[a] : a \in ArtifactsMC} |-> CASE t = "job_manifest" -> Fixture["job_manifest"]
                                            [] t = Terminal -> terminal
                                            [] OTHER -> NoContract]
OldFilesMC == [stored : {{"job"}, {"job", "terminal"}},
             contracts : {OldContracts(terminal) : terminal \in {LegacyContract, Foreign}},
             receipts : {"none", "v8", "forged"}, events : {"v8", "foreign"}]

\* TLC evaluates a definition once, but the definition of a constant at every use.
ParentsMC == FamilyTree
TypeMC == TypeNames
PayloadMC == PayloadNames
RegistryMC == Registries

ASSUME /\ Tables!RegistriesAssumption /\ Tables!Memory!ParentsAssumption
       /\ Tables!AncestryAssumption /\ Tables!RefsAssumption /\ Tables!OldFilesAssumption
=================================================================================
