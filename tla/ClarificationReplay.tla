-------------------------- MODULE ClarificationReplay --------------------------
(***************************************************************************)
(* The replay index of the clarification evaluation (clarification.py):    *)
(* record claims every identifier, nonce and subject of a signed artifact, *)
(* in a dictionary under a lock or in a SQLite table in one transaction.   *)
(* Threads share one index; of the SQLite one they may be processes, any   *)
(* of which may fail, or close the connection, between two inserts.        *)
(***************************************************************************)
EXTENDS FiniteSets

CONSTANTS
    Recorders,    \* threads or processes that record artifacts
    Artifacts     \* signed artifacts: records of their kind, id, signer, nonce, run and
                  \* what they are about; different ones differ in their bytes

ArtifactsAssumption == \A a \in Artifacts : a.kind \in {"request", "verdict", "outcome", "answers"}

VARIABLES
    index,      \* which index this is
    claims,     \* durable claims, each with the artifact whose bytes it holds
    holder,     \* the recorder inside the lock or the transaction
    artifact,   \* what the holder records
    inserted,   \* claims the holder inserted and did not commit
    heard       \* artifacts with the answers their recorders were given

vars == <<index, claims, holder, artifact, inserted, heard>>

Nobody == "nobody"

\* Every kind of artifact claims its nonce, under its signing domain and key.  A request
\* claims its identifier, the run for its coordinator, and its subject: the payload
\* without identifier, times, nonce and signature.  A verdict claims its identifier and
\* the request it answers; an outcome its identifier and its slot in the outcome mask.
Claims(a) ==
    {<<"signing_nonce", a.kind, a.signer, a.nonce>>}
    \cup CASE a.kind = "request" -> {<<"request_id", a.id>>,
                                     <<"coordinator_run", a.signer, a.run>>,
                                     <<"request_subject", a.about>>}
           [] a.kind = "verdict" -> {<<"verdict_id", a.id>>, <<"verdict_request", a.about>>}
           [] a.kind = "outcome" -> {<<"outcome_id", a.id>>, <<"outcome_slot", a.about>>}
           [] a.kind = "answers" -> {}

Stored(claim) == {x[2] : x \in {y \in claims : y[1] = claim}}
Missing == {k \in Claims(artifact) : Stored(k) = {}}
Conflicts ==
    \/ \E k \in Claims(artifact) : Stored(k) \ {artifact} # {}
    \/ Missing \notin {{}, Claims(artifact)}

Init ==
    /\ index \in {"memory", "sqlite"}
    /\ claims = {}
    /\ holder = Nobody
    /\ artifact \in Artifacts
    /\ inserted = {}
    /\ heard = {}

\* BEGIN IMMEDIATE, or the lock of the dictionary.
Enter(c, a) ==
    /\ holder = Nobody
    /\ holder' = c
    /\ artifact' = a
    /\ UNCHANGED <<index, claims, inserted, heard>>

Leave(answer) ==
    /\ holder' = Nobody
    /\ inserted' = {}
    /\ heard' = IF answer = "none" THEN heard ELSE heard \cup {<<artifact, answer>>}
    /\ UNCHANGED <<index, artifact>>

Refuse ==
    /\ holder # Nobody /\ inserted = {} /\ Conflicts
    /\ Leave("conflict")
    /\ UNCHANGED claims

Known ==
    /\ holder # Nobody /\ inserted = {} /\ ~Conflicts /\ Missing = {}
    /\ Leave("known")
    /\ UNCHANGED claims

\* The dictionary is updated as a whole.
Update ==
    /\ index = "memory"
    /\ holder # Nobody /\ ~Conflicts /\ Missing # {}
    /\ claims' = claims \cup (Claims(artifact) \X {artifact})
    /\ Leave("recorded")

\* One row of executemany.
Insert(k) ==
    /\ index = "sqlite"
    /\ holder # Nobody /\ ~Conflicts
    /\ k \in Missing \ inserted
    /\ inserted' = inserted \cup {k}
    /\ UNCHANGED <<index, claims, holder, artifact, heard>>

\* The answer may be lost: the recorder dies behind the commit.
Commit ==
    /\ index = "sqlite"
    /\ holder # Nobody /\ inserted = Claims(artifact)
    /\ claims' = claims \cup (inserted \X {artifact})
    /\ \E answer \in {"recorded", "none"} : Leave(answer)

\* Mutant: without BEGIN the connection is in autocommit and every row stays.
FailInAutocommit ==
    /\ index = "sqlite"
    /\ holder # Nobody
    /\ claims' = claims \cup (inserted \X {artifact})
    /\ Leave("none")

\* Anything raised inside the transaction, and the death of its process, roll it back.
Fail ==
    /\ index = "sqlite"
    /\ holder # Nobody
    /\ Leave("none")
    /\ UNCHANGED claims

Next ==
    \/ \E c \in Recorders, a \in Artifacts : Enter(c, a)
    \/ Refuse \/ Known \/ Update \/ Commit \/ Fail
    \/ \E k \in UNION {Claims(a) : a \in Artifacts} : Insert(k)

Spec == Init /\ [][Next]_vars

-----------------------------------------------------------------------------
TypeOK ==
    /\ index \in {"memory", "sqlite"}
    /\ claims \subseteq UNION {Claims(a) \X {a} : a \in Artifacts}
    /\ holder \in Recorders \cup {Nobody}
    /\ artifact \in Artifacts
    /\ inserted \subseteq Claims(artifact)
    /\ heard \subseteq Artifacts \X {"recorded", "known", "conflict"}

Recorded == {x[2] : x \in claims}

\* A question is judged once, however its artifacts are signed, sent again, raced or cut
\* off: one request for a subject, one verdict on a request, one outcome in a slot.  And
\* what a recorder is told stays true: an artifact said to be recorded is, and one that
\* is refused was never recorded, and because of another that was.
OneJudgementEach ==
    /\ \A a, b \in Recorded : a.kind = b.kind /\ a.kind # "answers" /\ a.about = b.about => a = b
    /\ \A x \in heard :
         /\ x[2] \in {"recorded", "known"} => x[1] \in Recorded
         /\ x[2] = "conflict" =>
              /\ x[1] \notin Recorded
              /\ \E b \in Recorded : Claims(x[1]) \cap Claims(b) # {}
===============================================================================
