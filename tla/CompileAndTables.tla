--------------------------- MODULE CompileAndTables ---------------------------
(***************************************************************************)
(* The compile pipeline, the run coordinator, and the tables of the        *)
(* artifacts.  The pipeline returns artifacts to a caller, who may put     *)
(* them; nothing in the source orders the calls of one and of another, and *)
(* none reads what another keeps.  A behaviour is about one of them.       *)
(***************************************************************************)
EXTENDS CompilePipeline, RunCoordinator

CONSTANTS Artifacts, Parents, Refs, Verdict, About, Type, Schema, Payload, Derived,
          Processes, Registry, Legacy, Attestation, OldFiles, MaxDamage

VARIABLES
    part,    \* "pipeline", "coordinator" or "tables"
    version, events, receipts, contracts, rows, blobs, open

Tables == INSTANCE ArtifactRepository

tableVars == <<version, events, receipts, contracts, rows, blobs, open>>
allVars == <<part, vars, coordinator, tableVars>>

AllInit ==
    /\ part \in {"pipeline", "coordinator", "tables"}
    /\ Init /\ CoordinatorInit
    /\ IF part = "tables" THEN Tables!Init ELSE Tables!InitNew
AllNext ==
    \/ part = "pipeline" /\ Next /\ UNCHANGED <<part, coordinator, tableVars>>
    \/ part = "coordinator" /\ CoordinatorNext /\ UNCHANGED <<part, vars, tableVars>>
    \/ part = "tables" /\ Tables!Next /\ UNCHANGED <<part, vars, coordinator>>
AllSpec == AllInit /\ [][AllNext]_allVars

\* The type invariants of all.
TypesOK == TypeOK /\ CoordinatorTypeOK /\ Tables!TypeOK

\* What is stored can be read exactly by those it is intact for (ArtifactRepository).
ReadableIfIntact == Tables!ReadableIfIntact

\* The tables implement the growing set of the memory repository (ArtifactStore).
ImplementsMemory == Tables!ImplementsMemory
===============================================================================
