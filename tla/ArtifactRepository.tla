--------------------------- MODULE ArtifactRepository ---------------------------
(***************************************************************************)
(* SqliteArtifactRepository as a store of artifacts: several processes     *)
(* open one database file, each with a schema registry of its own, create  *)
(* or migrate it, and put and get artifacts.                               *)
(*                                                                         *)
(* Every put is one BEGIN IMMEDIATE transaction and opening one BEGIN      *)
(* EXCLUSIVE transaction, so each is one action; what fails or crashes is  *)
(* rolled back and leaves the database as it was.  The bytes in the file   *)
(* can be damaged at any time, which every read must notice.               *)
(***************************************************************************)
EXTENDS Naturals, FiniteSets

CONSTANTS
    Artifacts, Parents, Refs,     \* as in ArtifactStore
    Verdict,       \* what a classification says
    About,         \* the task a classification, proposal or handoff is about
    Type,          \* the artifact type of each, with its schema version
    Schema,        \* the JSON schema its envelope names
    Payload,       \* its payload, which several may share
    Derived,       \* types that only lifecycle commits write
    Processes,     \* those that open the database
    Registry,      \* the schema registry each of them has
    Legacy,        \* contracts the migration of a version 8 database replaces
    Attestation,   \* the type whose contract it replaces unseen
    OldFiles,      \* files of version 8: [stored, contracts, receipts, events]
    MaxDamage      \* bound: damaged rows and blobs at a time

None == [kind |-> "none"]
Types == {Type[a] : a \in Artifacts}
Payloads == {Payload[a] : a \in Artifacts}

\* A registry has for each type a JSON schema and which parents it may have: a bag of
\* types, one of several, or for every reference in the payload the types allowed.
Registered(p, t) == Registry[p][t] # None
TypesNamed(contract) ==
    CASE contract.kind = "exact" -> UNION {DOMAIN b : b \in contract.bags}
      [] contract.kind = "payload_bound" -> contract.allowed
      [] contract.kind = "none" -> {}

\* freeze: no registry names a parent type it does not know.
Frozen(p) == \A t \in Types : \A q \in TypesNamed(Registry[p][t]) : Registered(p, q)

RegistriesAssumption == \A p \in Processes : DOMAIN Registry[p] = Types /\ Frozen(p)

VARIABLES
    version,      \* user_version of the file, "none" for a new one
    events,       \* its event schema contracts: of which release
    receipts,     \* the projector its receipts and projections name
    contracts,    \* artifact_schema_contracts
    rows,         \* artifacts, with their parents
    blobs,        \* payload_blobs
    open          \* the processes that have it open

vars == <<version, events, receipts, contracts, rows, blobs, open>>
file == <<version, events, receipts, contracts, rows, blobs>>

Stored == {a \in Artifacts : rows[a] # "absent"}

---------------------------------------------------------------------------
(* Contracts.                                                              *)

\* The types of the direct parents, with repetitions.
ParentTypes(a) ==
    LET types == {Type[q] : q \in Parents[a]}
    IN  [t \in types |-> Cardinality({q \in Parents[a] : Type[q] = t})]

\* _validate_parent_contract, _validate_payload_parent_contract
Admits(contract, a) ==
    /\ contract.schema = Schema[a]
    /\ \/ contract.kind = "exact" /\ ParentTypes(a) \in contract.bags
       \/ contract.kind = "payload_bound" /\ \A q \in Parents[a] : Type[q] \in contract.allowed

ParentOf(a, type) == {q \in Parents[a] : Type[q] = type}

\* _validate_t09_cross_artifact_contract: a proposal to reduce a task, the task it
\* leads to and a handoff follow a classification that says so, and of that task.
Classified(a, verdict) ==
    \E c \in ParentOf(a, "classification_result") : Verdict[c] = verdict /\ About[c] = About[a]
CrossContract(a) ==
    /\ Type[a] = "reduction_proposal" => Classified(a, "REDUCIBLE")
    /\ Type[a] = "ood_handoff" => Classified(a, "OOD")
    /\ Type[a] = "task_contract" /\ ParentOf(a, "reduction_proposal") # {} =>
           \E c \in ParentOf(a, "classification_result"), r \in ParentOf(a, "reduction_proposal") :
               Verdict[c] = "REDUCIBLE" /\ About[r] \in Parents[a] /\ c \in Parents[r]

\* _prepare: the process knows the type, and computes this very identifier for the
\* request; a payload-bound schema finds the parents in the payload.
Prepared(p, a) ==
    /\ Registered(p, Type[a])
    /\ Registry[p][Type[a]].schema = Schema[a]
    /\ Registry[p][Type[a]].kind = "payload_bound" => Refs[a] = Parents[a]

\* Identifiers are hashes of envelopes that name the parents: nothing is its own
\* ancestor, and no line of ancestors is without end.
AncestryAssumption ==
    \A set \in SUBSET Artifacts : set # {} => \E a \in set : Parents[a] \cap set = {}

\* Refs is what a payload-bound schema finds; where the schema is not, it is nothing
\* but the parents.
RefsAssumption ==
    \A p \in Processes, a \in Artifacts : Registry[p][Type[a]].kind = "exact" => Refs[a] = Parents[a]

\* A file of version 8 has the parents of what it has, under contracts that admit it.
\* The migration does not ask whether the contracts it writes in their place admit it
\* too: a registry that knows the types of an artifact and of its parents must.
OldFileHolds(old) ==
    /\ DOMAIN old.contracts = Types
    /\ old.receipts \in {"none", "v8", "forged"} /\ old.events \in {"none", "v8", "foreign"}
    /\ \A a \in old.stored :
        /\ Parents[a] \subseteq old.stored /\ Refs[a] = Parents[a] /\ CrossContract(a)
        /\ old.contracts[Type[a]] # None /\ Admits(old.contracts[Type[a]], a)
        /\ Type[a] \in DOMAIN Legacy \cup {Attestation} =>
             \A p \in Processes :
                (\A q \in {a} \cup Parents[a] : Registered(p, Type[q])) => Admits(Registry[p][Type[a]], a)
OldFilesAssumption == \A old \in OldFiles : old.stored \subseteq Artifacts /\ OldFileHolds(old)

---------------------------------------------------------------------------
(* Reading.                                                                *)

\* Every artifact a depends on, and a.
Lineage[a \in Artifacts] == {a} \cup UNION {Lineage[q] : q \in Parents[a]}

\* _verify_persisted_schema_contract
ContractIsRegistrys(p, t) == Registered(p, t) /\ contracts[t] = Registry[p][t]

\* _fetch_stored finds the row, its parents and its blob, under the contract it knows.
Fetched(p, a) == rows[a] # "absent" /\ blobs[Payload[a]] # "absent" /\ ContractIsRegistrys(p, Type[a])

\* _verify of one artifact by itself.
Verified(p, a) ==
    /\ Fetched(p, a)
    /\ rows[a] = "intact" /\ blobs[Payload[a]] = "intact"
    /\ Admits(Registry[p][Type[a]], a)
    /\ Registry[p][Type[a]].kind = "payload_bound" => Refs[a] = Parents[a]
    /\ CrossContract(a)

\* Mutant: only the direct parents are looked at.
NearLineageVerified(p, a) == \A q \in {a} \cup Parents[a] : Verified(p, q)

\* _verified_parents walks the whole lineage.
LineageVerified(p, a) == \A q \in Lineage[a] : Verified(p, q)

ParentsVerified(p, a) == \A q \in Parents[a] : LineageVerified(p, q)

\* _require_schema_integrity
FileIsCurrent == version = "v10" /\ events = "current"

\* get and lineage answer, and do not raise ArtifactIntegrityError.
Readable(p, a) == p \in open /\ FileIsCurrent /\ rows[a] # "absent" /\ LineageVerified(p, a)

---------------------------------------------------------------------------
(* Writing.                                                                *)

\* _ensure_schema_contract: the first artifact of a type fixes its contract.
ContractHolds(p, t) ==
    \/ contracts[t] = None /\ \A a \in Stored : Type[a] # t
    \/ contracts[t] = Registry[p][t]

\* The blob is there unless no artifact has it, and it is what it should be.
BlobFits(a) ==
    CASE blobs[Payload[a]] = "intact" -> TRUE
      [] blobs[Payload[a]] = "altered" -> FALSE
      [] blobs[Payload[a]] = "absent" -> \A b \in Stored : Payload[b] # Payload[a]

\* Mutant: whether the parents are there and what they say is left to the readers.
StorableUnverified(p, a) ==
    /\ FileIsCurrent
    /\ Prepared(p, a)
    /\ ContractHolds(p, Type[a])
    /\ Admits(Registry[p][Type[a]], a)
    /\ rows[a] = "absent" \/ LineageVerified(p, a)

\* The transaction of a put goes through: a can be stored, or is.
Storable(p, a) ==
    /\ FileIsCurrent
    /\ Prepared(p, a)
    /\ ContractHolds(p, Type[a])
    /\ ParentsVerified(p, a)
    /\ Admits(Registry[p][Type[a]], a) /\ CrossContract(a)
    /\ rows[a] = "absent" \/ LineageVerified(p, a)

Store(p, a) ==
    /\ IF rows[a] = "absent"
       THEN /\ contracts' = [contracts EXCEPT ![Type[a]] = Registry[p][Type[a]]]
            /\ rows' = [rows EXCEPT ![a] = "intact"]
            /\ blobs' = [blobs EXCEPT ![Payload[a]] = IF @ = "absent" THEN "intact" ELSE @]
       ELSE UNCHANGED <<contracts, rows, blobs>>
    /\ UNCHANGED <<version, events, receipts, open>>

\* put.  It looks at the blob it shares too.
CanPut(p, a) == Type[a] \notin Derived /\ Storable(p, a) /\ (rows[a] = "absent" => BlobFits(a))

Put(p, a) == p \in open /\ CanPut(p, a) /\ Store(p, a)

\* A lifecycle commit writes what it derives, with INSERT OR IGNORE for the blob.
PutDerived(p, a) == p \in open /\ Type[a] \in Derived /\ Storable(p, a) /\ Store(p, a)

---------------------------------------------------------------------------
(* Opening.                                                                *)

\* What the migration replaces is what version 8 had.
Replaceable(p, t) ==
    contracts[t] = None \/ (Registered(p, t) /\ contracts[t] = Legacy[t] /\ Registry[p][t].schema = Legacy[t].schema)

Create(p) ==
    /\ version = "none"
    /\ version' = "v10"
    /\ events' = "current"
    /\ UNCHANGED <<receipts, contracts>>

Migrate(p) ==
    /\ version = "v8"
    /\ events = "v8"
    /\ receipts \in {"none", "v8"}
    /\ \A t \in DOMAIN Legacy : Replaceable(p, t)
    /\ Registered(p, Attestation)
    /\ version' = "v10"
    /\ events' = "current"
    /\ receipts' = IF receipts = "v8" THEN "current" ELSE receipts
    /\ contracts' = [t \in Types |-> IF contracts[t] # None /\ t \in DOMAIN Legacy \cup {Attestation}
                                     THEN Registry[p][t] ELSE contracts[t]]

\* A file of the current version keeps its event contracts, or is given them.
Reopen ==
    /\ version = "v10"
    /\ events \in {"none", "current"}
    /\ events' = "current"
    /\ UNCHANGED <<version, receipts, contracts>>

Open(p) ==
    /\ p \notin open
    /\ Create(p) \/ Migrate(p) \/ Reopen
    /\ open' = open \cup {p}
    /\ UNCHANGED <<rows, blobs>>

\* close, or the process dies: an open transaction is rolled back.
Close(p) ==
    /\ p \in open
    /\ open' = open \ {p}
    /\ UNCHANGED file

---------------------------------------------------------------------------
(* Damage to the file.                                                     *)

Damage == Cardinality({a \in Artifacts : rows[a] = "altered"})
    + Cardinality({b \in Payloads : blobs[b] = "altered" \/ (blobs[b] = "absent" /\ \E a \in Stored : Payload[a] = b)})

AlterRow(a) ==
    /\ Damage < MaxDamage
    /\ rows[a] = "intact"
    /\ rows' = [rows EXCEPT ![a] = "altered"]
    /\ UNCHANGED <<version, events, receipts, contracts, blobs, open>>

AlterBlob(b) ==
    /\ Damage < MaxDamage
    /\ blobs[b] = "intact"
    /\ \E state \in {"altered", "absent"} : blobs' = [blobs EXCEPT ![b] = state]
    /\ UNCHANGED <<version, events, receipts, contracts, rows, open>>

---------------------------------------------------------------------------

\* A new file, or one that the previous release left.
InitOld(old) ==
    /\ version = "v8"
    /\ events = old.events
    /\ receipts = old.receipts
    /\ contracts = old.contracts
    /\ rows = [a \in Artifacts |-> IF a \in old.stored THEN "intact" ELSE "absent"]
    /\ blobs = [b \in Payloads |-> IF \E a \in old.stored : Payload[a] = b THEN "intact" ELSE "absent"]
    /\ open = {}

InitNew ==
    /\ version = "none"
    /\ events = "none"
    /\ receipts = "none"
    /\ contracts = [t \in Types |-> None]
    /\ rows = [a \in Artifacts |-> "absent"]
    /\ blobs = [b \in Payloads |-> "absent"]
    /\ open = {}

Init == InitNew \/ \E old \in OldFiles : InitOld(old)

Next ==
    \/ \E p \in Processes :
          \/ Open(p) \/ Close(p)
          \/ \E a \in Artifacts : Put(p, a) \/ PutDerived(p, a)
    \/ \E a \in Artifacts : AlterRow(a)
    \/ \E b \in Payloads : AlterBlob(b)

Spec == Init /\ [][Next]_vars

---------------------------------------------------------------------------
(* Properties.                                                             *)

TypeOK ==
    /\ version \in {"none", "v8", "v10"}
    /\ events \in {"none", "v8", "current", "foreign"}
    /\ receipts \in {"none", "v8", "current", "forged"}
    /\ DOMAIN contracts = Types
    /\ rows \in [Artifacts -> {"absent", "intact", "altered"}]
    /\ blobs \in [Payloads -> {"absent", "intact", "altered"}]
    /\ open \subseteq Processes

Untouched(a) == rows[a] = "intact" /\ blobs[Payload[a]] = "intact"

\* An artifact can be read exactly by those whose registry has the contracts of the
\* database for all it descends from, and exactly while nothing of that is missing or
\* damaged: what a put admits a get admits, whichever registry wrote it and after a
\* migration too, and damage far up the lineage is noticed.
ReadableIfIntact ==
    \A p \in open, a \in Stored : FileIsCurrent =>
        (Readable(p, a) <=> \A q \in Lineage[a] : Untouched(q) /\ contracts[Type[q]] = Registry[p][Type[q]])

Memory == INSTANCE ArtifactStore WITH stored <- Stored, Coherent <- {a \in Artifacts : CrossContract(a)}
\* The file implements the in-memory repository.
ImplementsMemory == Memory!Spec
=================================================================================
