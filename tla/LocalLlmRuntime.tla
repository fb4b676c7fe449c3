-------------------------- MODULE LocalLlmRuntime --------------------------
(***************************************************************************)
(* AttachedLocalLlmRuntime: the one way to the language model.  start and  *)
(* probe establish that the attached server is the attested one, complete  *)
(* sends one request to it and stores what came back.                      *)
(*                                                                         *)
(* start, probe, close and the admission of a completion hold the state    *)
(* lock, the probes over the network included.  The rest of a completion   *)
(* runs outside of it, on the manifest, the probe evidence and the         *)
(* semaphore it took along; that it saw the server drift it writes to the  *)
(* ready flag without the lock.  Calls that are refused (BUSY, REPLAY, not *)
(* ready, ...) and change nothing are stuttering steps.                    *)
(***************************************************************************)
EXTENDS Integers, Sequences, FiniteSets

CONSTANTS
    Callers,      \* threads that call complete
    RequestIds,
    Manifests,    \* runtime manifests: identities of a server
    Concurrency,  \* max_concurrency of a manifest
    MaxClaims,    \* _MAX_COMPLETION_REQUEST_CLAIMS
    NoManifest,
    MaxStarts,    \* bound: calls of start
    MaxProbes     \* bound: probe evidence stored

ASSUME ManifestAssumption ==
    /\ NoManifest \notin Manifests
    /\ Concurrency \in [Manifests -> Nat \ {0}]
ASSUME CallerAssumption == IsFiniteSet(Callers)
ASSUME BoundAssumption == {MaxClaims, MaxStarts, MaxProbes} \subseteq Nat

VARIABLES
    runtime,   \* the runtime's fields; capacity tells its semaphores apart
    claims,    \* request ids that were admitted
    calls,     \* completions in progress, with what they took along
    stored,    \* artifacts: probe evidence, completion responses, traces
    sent,      \* how often a request was sent to the model by this process
    suspect    \* probe evidence under which a completion saw drift

vars == <<runtime, claims, calls, stored, sent, suspect>>

Fresh == [manifest |-> NoManifest, probe |-> 0, ready |-> FALSE, closed |-> FALSE,
          capacity |-> 0]

NoCall == [at |-> "idle"]

\* Where a completion is: its prompt is counted, it is with the model, its response
\* and its trace are stored, or it is done but still counted as active.
Places == {"counting", "posting", "storing_response", "storing_trace", "leaving"}

\* A completion and the artifacts made of it.
Completions == [request: RequestIds, manifest: Manifests, probe: Nat]

TypeOK ==
    /\ runtime \in [manifest: Manifests \cup {NoManifest}, probe: Nat, ready: BOOLEAN,
                    closed: BOOLEAN, capacity: Nat]
    /\ claims \subseteq RequestIds
    /\ calls \in [Callers -> {NoCall} \cup
                    [at: Places, completion: Completions, capacity: Nat]]
    /\ stored \in [probes: Seq(Manifests), responses: SUBSET Completions,
                   traces: SUBSET Completions]
    /\ sent \in [RequestIds -> Nat]
    /\ suspect \subseteq Nat

Init ==
    /\ runtime = Fresh
    /\ claims = {}
    /\ calls = [c \in Callers |-> NoCall]
    /\ stored = [probes |-> <<>>, responses |-> {}, traces |-> {}]
    /\ sent = [r \in RequestIds |-> 0]
    /\ suspect = {}

At(c, places) == calls[c] # NoCall /\ calls[c].at \in places

Active == {c \in Callers : calls[c] # NoCall}

---------------------------------------------------------------------------
(* Under the state lock.                                                   *)

\* Mutant: completions in progress are forgotten.
NeverBusy == TRUE

\* start, probe and close are refused as BUSY while completions are in progress.
Idle == Active = {}

\* _run_probe, on the runtime as start or probe left it: the server passes health,
\* authentication, model and canary checks and the evidence is stored; or something
\* fails, perhaps after it was stored.
RunProbe(attested) ==
    \/ /\ Len(stored.probes) < MaxProbes
       /\ stored' = [stored EXCEPT !.probes = Append(@, attested.manifest)]
       /\ runtime' \in {[attested EXCEPT !.ready = TRUE, !.probe = Len(stored.probes) + 1],
                        [attested EXCEPT !.ready = FALSE]}
    \/ /\ runtime' = [attested EXCEPT !.ready = FALSE]
       /\ UNCHANGED stored

\* The manifest and the host's attestation are verified, then the server is probed.
Start(m) ==
    /\ Idle
    /\ runtime.capacity < MaxStarts
    /\ RunProbe([manifest |-> m, probe |-> 0, ready |-> FALSE, closed |-> FALSE,
                 capacity |-> runtime.capacity + 1])
    /\ UNCHANGED <<claims, calls, sent, suspect>>

\* Verification fails: whatever was attached before is gone.
StartFails ==
    /\ Idle
    /\ runtime' = [Fresh EXCEPT !.capacity = runtime.capacity]
    /\ UNCHANGED <<claims, calls, stored, sent, suspect>>

Probe ==
    /\ Idle
    /\ runtime.manifest # NoManifest /\ ~runtime.closed
    /\ \/ RunProbe(runtime)
       \/ /\ runtime' = [runtime EXCEPT !.ready = FALSE, !.probe = 0]
          /\ UNCHANGED stored
    /\ UNCHANGED <<claims, calls, sent, suspect>>

Close ==
    /\ Idle
    /\ runtime' = [runtime EXCEPT !.ready = FALSE, !.probe = 0, !.closed = TRUE]
    /\ UNCHANGED <<claims, calls, stored, sent, suspect>>

\* complete takes the request id for good: a request that fails later, even for want
\* of capacity, cannot be sent again.
Admit(c, r) ==
    /\ calls[c] = NoCall
    /\ runtime.ready
    /\ r \notin claims /\ Cardinality(claims) < MaxClaims
    /\ claims' = claims \cup {r}
    /\ calls' = [calls EXCEPT ![c] =
         [at |-> "counting", capacity |-> runtime.capacity,
          completion |-> [request |-> r, manifest |-> runtime.manifest,
                          probe |-> runtime.probe]]]
    /\ UNCHANGED <<runtime, stored, sent, suspect>>

\* The attestation no longer verifies, or the request names another manifest.
RefuseForIdentity(c) ==
    /\ calls[c] = NoCall
    /\ runtime.ready
    /\ runtime' = [runtime EXCEPT !.ready = FALSE]
    /\ UNCHANGED <<claims, calls, stored, sent, suspect>>

---------------------------------------------------------------------------
(* Outside the lock.                                                       *)

GoTo(c, place) == calls' = [calls EXCEPT ![c].at = place]

\* A completion holds its permit until it leaves.
Permits(capacity) ==
    {c \in Active : /\ calls[c].at \in {"posting", "storing_response", "storing_trace"}
                    /\ calls[c].capacity = capacity}

HasCapacity(c) ==
    Cardinality(Permits(calls[c].capacity)) < Concurrency[calls[c].completion.manifest]

\* The prompt is within its limits and a permit is free.
Post(c) ==
    /\ At(c, {"counting"})
    /\ HasCapacity(c)
    /\ GoTo(c, "posting")
    /\ sent' = [sent EXCEPT ![calls[c].completion.request] = @ + 1]
    /\ UNCHANGED <<runtime, claims, stored, suspect>>

\* The prompt is too long, or there is no permit and nobody waits for one.
Decline(c) ==
    /\ At(c, {"counting"})
    /\ GoTo(c, "leaving")
    /\ UNCHANGED <<runtime, claims, stored, sent, suspect>>

\* The answer is the model's and within the limits that were counted.
Answer(c) ==
    /\ At(c, {"posting"})
    /\ GoTo(c, "storing_response")
    /\ UNCHANGED <<runtime, claims, stored, sent, suspect>>

\* Mutant: the trace is stored before the response it refers to.
TraceStoredFirst(c) ==
    IF calls[c].at = "storing_response"
    THEN [stored EXCEPT !.traces = @ \cup {calls[c].completion}]
    ELSE [stored EXCEPT !.responses = @ \cup {calls[c].completion}]

\* The artifacts once the one the completion is about to store is among them.
Stored(c) ==
    IF calls[c].at = "storing_response"
    THEN [stored EXCEPT !.responses = @ \cup {calls[c].completion}]
    ELSE [stored EXCEPT !.traces = @ \cup {calls[c].completion}]

Store(c) ==
    /\ At(c, {"storing_response", "storing_trace"})
    /\ stored' = Stored(c)
    /\ GoTo(c, IF calls[c].at = "storing_response" THEN "storing_trace" ELSE "leaving")
    /\ UNCHANGED <<runtime, claims, sent, suspect>>

\* Mutant: what could not be stored is not held against the server.
DriftUnlessStoring(c) ==
    /\ At(c, Places \ {"leaving"})
    /\ runtime' = [runtime EXCEPT !.ready = @ /\ calls[c].at \notin {"counting", "posting"}]
    /\ suspect' = suspect \cup {calls[c].completion.probe}
    /\ UNCHANGED stored
    /\ GoTo(c, "leaving")
    /\ UNCHANGED <<claims, sent>>

\* The tokenizer, the connection, the answer or its token counts are not those of the
\* server that was probed, or an artifact cannot be stored or read back.
Drift(c) ==
    /\ At(c, Places \ {"leaving"})
    /\ runtime' = [runtime EXCEPT !.ready = FALSE]
    /\ suspect' = suspect \cup {calls[c].completion.probe}
    /\ \/ UNCHANGED stored
       \/ At(c, {"storing_response", "storing_trace"}) /\ stored' = Stored(c)
    /\ GoTo(c, "leaving")
    /\ UNCHANGED <<claims, sent>>

\* The runtime's own clock is unusable, which is not held against the server.
Raise(c) ==
    /\ At(c, {"posting"})
    /\ GoTo(c, "leaving")
    /\ UNCHANGED <<runtime, claims, stored, sent, suspect>>

\* complete takes the lock again to say that it is over.
Leave(c) ==
    /\ At(c, {"leaving"})
    /\ calls' = [calls EXCEPT ![c] = NoCall]
    /\ UNCHANGED <<runtime, claims, stored, sent, suspect>>

\* The process dies; the next one knows the artifacts and nothing else.
Restart ==
    /\ runtime' = [Fresh EXCEPT !.capacity = runtime.capacity]
    /\ claims' = {}
    /\ calls' = [c \in Callers |-> NoCall]
    /\ sent' = [r \in RequestIds |-> 0]
    /\ UNCHANGED <<stored, suspect>>

Next ==
    \/ \E m \in Manifests : Start(m)
    \/ StartFails \/ Probe \/ Close \/ Restart
    \/ \E c \in Callers :
         \/ \E r \in RequestIds : Admit(c, r)
         \/ RefuseForIdentity(c)
         \/ Post(c) \/ Decline(c) \/ Answer(c) \/ Store(c) \/ Drift(c) \/ Raise(c)
         \/ Leave(c)

Spec == Init /\ [][Next]_vars

---------------------------------------------------------------------------
(* Properties.                                                             *)

\* start, probe and close never take the runtime from under a completion: what it
\* works with is what the runtime is attached to until it has left
\* (_active_completions, AttachedLocalLlmRuntime.start).
CallsAreCurrent ==
    \A c \in Active :
      /\ ~runtime.closed
      /\ calls[c].capacity = runtime.capacity
      /\ calls[c].completion.manifest = runtime.manifest
      /\ calls[c].completion.probe = runtime.probe

\* The server never has more requests at once than its manifest allows, whatever
\* restarts of the attachment did to the semaphore.
ServerIsNotOverloaded ==
    LET atServer == {c \in Active : calls[c].at = "posting"}
    IN  \A c \in atServer :
          Cardinality(atServer) <= Concurrency[calls[c].completion.manifest]

\* Once a completion saw drift, no other is admitted on the same probe evidence:
\* the server must be probed again ("stop issuing tasks").
DriftEndsReadiness == runtime.ready => runtime.probe \notin suspect

\* A request id reaches the model once in the life of a process, however its first
\* completion ended (_completion_request_claims).
RequestIsSentOnce == \A r \in RequestIds : sent[r] <= 1

\* A trace refers to artifacts that exist: the response of the same completion, and
\* probe evidence of the very manifest it names, whatever failed or died half-way.
TracesAreBacked ==
    \A t \in stored.traces \cup stored.responses :
      /\ t \in stored.responses
      /\ t.probe \in 1..Len(stored.probes)
      /\ stored.probes[t.probe] = t.manifest
=============================================================================
