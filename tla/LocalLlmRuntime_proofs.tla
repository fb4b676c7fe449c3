----------------------- MODULE LocalLlmRuntime_proofs -----------------------
(***************************************************************************)
(* The invariants of LocalLlmRuntime for any threads, request ids,         *)
(* manifests, concurrency and limits.  The strengthening says what being   *)
(* ready and being in progress rest on: probe evidence that is stored, and *)
(* a request id that is claimed and not yet sent.                          *)
(***************************************************************************)
EXTENDS LocalLlmRuntime, FiniteSetTheorems, TLAPS

Runtimes == [manifest: Manifests \cup {NoManifest}, probe: Nat, ready: BOOLEAN,
             closed: BOOLEAN, capacity: Nat]

\* Probe evidence of a manifest.
Proves(probe, manifest) ==
    probe \in 1..Len(stored.probes) /\ stored.probes[probe] = manifest

ReadyIsProbed ==
    runtime.ready =>
      /\ runtime.manifest # NoManifest /\ ~runtime.closed
      /\ Proves(runtime.probe, runtime.manifest)

CompletionsAreBacked ==
    \A c \in Active :
      /\ Proves(calls[c].completion.probe, calls[c].completion.manifest)
      /\ calls[c].at = "storing_trace" => calls[c].completion \in stored.responses

SuspectsAreKnown == suspect \subseteq 1..Len(stored.probes)

RequestsAreClaimed ==
    /\ \A r \in RequestIds \ claims : sent[r] = 0
    /\ \A c \in Active :
         /\ calls[c].completion.request \in claims
         /\ calls[c].at = "counting" => sent[calls[c].completion.request] = 0
    /\ \A c, d \in Active :
         calls[c].completion.request = calls[d].completion.request => c = d

PermitsAreBounded ==
    \A c \in Active :
      Cardinality(Permits(calls[c].capacity)) <= Concurrency[calls[c].completion.manifest]

Inductive ==
    /\ TypeOK /\ ReadyIsProbed /\ CallsAreCurrent
    /\ CompletionsAreBacked /\ SuspectsAreKnown /\ DriftEndsReadiness /\ TracesAreBacked
    /\ RequestsAreClaimed /\ RequestIsSentOnce
    /\ PermitsAreBounded

---------------------------------------------------------------------------
(* What completions and steps are made of.                                 *)

\* A completion in progress has a place, a typed request and evidence.
LEMMA CallParts ==
    ASSUME TypeOK, NEW c \in Active
    PROVE  /\ c \in Callers
           /\ calls[c] \in [at: Places, completion: Completions, capacity: Nat]
           /\ calls[c].completion.request \in RequestIds
           /\ calls[c].completion.manifest \in Manifests
           /\ calls[c].completion.probe \in Nat
BY DEF TypeOK, Active, Completions

\* A caller that is at a place is active.
LEMMA Placed ==
    ASSUME TypeOK, NEW c \in Callers, NEW places, At(c, places)
    PROVE  c \in Active /\ calls[c].at \in places
BY DEF At, Active

\* Every place a completion goes to is one of its places.
LEMMA GoToParts ==
    ASSUME TypeOK, NEW c \in Active, NEW place \in Places, GoTo(c, place)
    PROVE  /\ calls' \in [Callers -> {NoCall} \cup
                    [at: Places, completion: Completions, capacity: Nat]]
           /\ Active' = Active
           /\ \A d \in Active : calls'[d].completion = calls[d].completion
                                /\ calls'[d].capacity = calls[d].capacity
           /\ calls'[c].at = place
           /\ \A d \in Active \ {c} : calls'[d] = calls[d]
<1>1. /\ c \in Callers
      /\ calls[c] \in [at: Places, completion: Completions, capacity: Nat]
  BY CallParts
<1>2. calls'[c] = [calls[c] EXCEPT !.at = place]
  BY <1>1 DEF GoTo, TypeOK
<1>3. /\ calls'[c] \in [at: Places, completion: Completions, capacity: Nat]
      /\ calls'[c].at = place /\ calls'[c].completion = calls[c].completion
      /\ calls'[c].capacity = calls[c].capacity
  BY <1>1, <1>2
<1>4. \A d \in Callers \ {c} : calls'[d] = calls[d]
  BY DEF GoTo, TypeOK
<1>5. calls' \in [Callers -> {NoCall} \cup
                    [at: Places, completion: Completions, capacity: Nat]]
  BY <1>1, <1>3 DEF GoTo, TypeOK
<1>6. calls'[c] # NoCall
  BY <1>3 DEF NoCall, Places
<1>7. Active' = Active
  BY <1>4, <1>6 DEF Active
<1> QED
  BY <1>3, <1>4, <1>5, <1>7 DEF Active

\* A probe leaves the runtime ready only on evidence that it has just stored.
LEMMA ProbeResult ==
    ASSUME TypeOK, NEW attested \in Runtimes, RunProbe(attested),
           attested.manifest \in Manifests, ~attested.closed
    PROVE  /\ runtime' \in Runtimes
           /\ stored' \in [probes: Seq(Manifests), responses: SUBSET Completions,
                           traces: SUBSET Completions]
           /\ stored'.responses = stored.responses /\ stored'.traces = stored.traces
           /\ \A probe, manifest : Proves(probe, manifest) => Proves(probe, manifest)'
           /\ ReadyIsProbed'
           /\ runtime'.ready => runtime'.probe = Len(stored.probes) + 1
<1>1. CASE UNCHANGED stored /\ runtime' = [attested EXCEPT !.ready = FALSE]
  BY <1>1 DEF TypeOK, Runtimes, Proves, ReadyIsProbed
<1>2. CASE /\ stored' = [stored EXCEPT !.probes = Append(@, attested.manifest)]
           /\ runtime' \in {[attested EXCEPT !.ready = TRUE, !.probe = Len(stored.probes) + 1],
                            [attested EXCEPT !.ready = FALSE]}
  <2>1. stored.probes \in Seq(Manifests) /\ Len(stored.probes) \in Nat
    BY DEF TypeOK
  <2>2. /\ stored'.probes = Append(stored.probes, attested.manifest)
        /\ stored'.responses = stored.responses /\ stored'.traces = stored.traces
        /\ stored' \in [probes: Seq(Manifests), responses: SUBSET Completions,
                        traces: SUBSET Completions]
    <3> DEFINE Evidence == Seq(Manifests)
               Artifacts == SUBSET Completions
    <3>1. Append(stored.probes, attested.manifest) \in Evidence
      BY <2>1
    <3>2. stored \in [probes: Evidence, responses: Artifacts, traces: Artifacts]
      BY DEF TypeOK
    <3>3. stored' = [stored EXCEPT !.probes = Append(stored.probes, attested.manifest)]
      BY <1>2
    <3> HIDE DEF Evidence, Artifacts
    <3>4. /\ stored'.probes = Append(stored.probes, attested.manifest)
          /\ stored'.responses = stored.responses /\ stored'.traces = stored.traces
          /\ stored' \in [probes: Evidence, responses: Artifacts, traces: Artifacts]
      BY <3>1, <3>2, <3>3
    <3> QED
      BY <3>4 DEF Evidence, Artifacts
  <2>3. runtime' \in Runtimes
    <3> DEFINE next == Len(stored.probes) + 1
    <3>3. next \in Nat
      BY <2>1
    <3>1. CASE runtime' = [attested EXCEPT !.ready = TRUE, !.probe = next]
      <4> HIDE DEF next
      <4> QED
        BY <3>1, <3>3 DEF Runtimes
    <3>2. CASE runtime' = [attested EXCEPT !.ready = FALSE]
      BY <3>2 DEF Runtimes
    <3> QED
      BY <1>2, <3>1, <3>2
  <2>4. \A probe, manifest : Proves(probe, manifest) => Proves(probe, manifest)'
    BY <2>1, <2>2 DEF Proves
  <2>5. ASSUME runtime'.ready
        PROVE  /\ runtime'.probe = Len(stored.probes) + 1
               /\ runtime'.manifest = attested.manifest
               /\ ~runtime'.closed
    BY <1>2, <2>1, <2>5 DEF Runtimes
  <2>6. ReadyIsProbed'
    BY <2>1, <2>2, <2>5, ManifestAssumption DEF ReadyIsProbed, Proves
  <2> QED
    BY <2>2, <2>3, <2>4, <2>5, <2>6
<1> QED
  BY <1>1, <1>2 DEF RunProbe

\* What start, probe and close do together: nothing is in progress, and what was
\* proved stays proved.
Attaches ==
    /\ Active = {}
    /\ UNCHANGED <<claims, calls, sent, suspect>>
    /\ runtime' \in Runtimes
    /\ stored' \in [probes: Seq(Manifests), responses: SUBSET Completions,
                    traces: SUBSET Completions]
    /\ stored'.responses = stored.responses /\ stored'.traces = stored.traces
    /\ \A probe, manifest : Proves(probe, manifest) => Proves(probe, manifest)'
    /\ ReadyIsProbed'
    /\ runtime'.ready => runtime'.probe = Len(stored.probes) + 1

LEMMA StartAttaches ==
    ASSUME TypeOK, NEW m \in Manifests, Start(m)
    PROVE  Attaches
<1> DEFINE attested == [manifest |-> m, probe |-> 0, ready |-> FALSE, closed |-> FALSE,
                        capacity |-> runtime.capacity + 1]
<1>1. attested \in Runtimes /\ attested.manifest \in Manifests /\ ~attested.closed
  BY DEF TypeOK, Runtimes
<1>2. RunProbe(attested)
  BY DEF Start
<1> HIDE DEF attested
<1> QED
  BY <1>1, <1>2, ProbeResult DEF Start, Idle, Attaches

LEMMA ProbeAttaches ==
    ASSUME TypeOK, Probe
    PROVE  Attaches
<1>1. runtime \in Runtimes /\ runtime.manifest \in Manifests /\ ~runtime.closed
  BY DEF TypeOK, Runtimes, Probe
<1>2. CASE RunProbe(runtime)
  BY <1>1, <1>2, ProbeResult DEF Probe, Idle, Attaches
<1>3. CASE UNCHANGED stored /\ runtime' = [runtime EXCEPT !.ready = FALSE, !.probe = 0]
  <2>1. runtime' \in Runtimes /\ ~runtime'.ready
    BY <1>1, <1>3 DEF Runtimes
  <2> QED
    BY <1>3, <2>1 DEF Probe, Idle, Attaches, TypeOK, Proves, ReadyIsProbed
<1> QED
  BY <1>2, <1>3 DEF Probe

LEMMA DetachAttaches ==
    ASSUME TypeOK, StartFails \/ Close
    PROVE  Attaches
<1>1. runtime' \in Runtimes /\ ~runtime'.ready
  <2>1. CASE StartFails
    BY <2>1 DEF TypeOK, Runtimes, StartFails, Fresh
  <2>2. CASE Close
    BY <2>2 DEF TypeOK, Runtimes, Close
  <2> QED
    BY <2>1, <2>2
<1>2. Active = {} /\ UNCHANGED <<claims, calls, stored, sent, suspect>>
  BY DEF StartFails, Close, Idle
<1> QED
  BY <1>1, <1>2 DEF Attaches, TypeOK, Proves, ReadyIsProbed

\* The steps of a system in which completions are in progress.
LEMMA Steps ==
    ASSUME TypeOK, [Next]_vars
    PROVE  \/ Attaches
           \/ Restart
           \/ UNCHANGED vars
           \/ \E c \in Callers :
                \/ \E r \in RequestIds : Admit(c, r)
                \/ RefuseForIdentity(c)
                \/ Post(c) \/ Decline(c) \/ Answer(c) \/ Store(c) \/ Drift(c) \/ Raise(c)
                \/ Leave(c)
BY StartAttaches, ProbeAttaches, DetachAttaches DEF Next

\* Storing adds the completion to one of the two kinds of artifacts.
LEMMA StoredParts ==
    ASSUME TypeOK, NEW c \in Active, stored' = Stored(c)
    PROVE  /\ stored' \in [probes: Seq(Manifests), responses: SUBSET Completions,
                           traces: SUBSET Completions]
           /\ stored'.probes = stored.probes
           /\ calls[c].at = "storing_response" =>
                /\ stored'.responses = stored.responses \cup {calls[c].completion}
                /\ stored'.traces = stored.traces
           /\ calls[c].at # "storing_response" =>
                /\ stored'.responses = stored.responses
                /\ stored'.traces = stored.traces \cup {calls[c].completion}
<1> DEFINE Evidence == Seq(Manifests)
           Artifacts == SUBSET Completions
<1>1. stored \in [probes: Evidence, responses: Artifacts, traces: Artifacts]
  BY DEF TypeOK
<1>2. calls[c].completion \in Completions
  BY CallParts
<1>3. /\ stored.responses \cup {calls[c].completion} \in Artifacts
      /\ stored.traces \cup {calls[c].completion} \in Artifacts
  BY <1>1, <1>2
<1> HIDE DEF Evidence, Artifacts
<1>4. /\ stored' \in [probes: Evidence, responses: Artifacts, traces: Artifacts]
      /\ stored'.probes = stored.probes
      /\ calls[c].at = "storing_response" =>
           /\ stored'.responses = stored.responses \cup {calls[c].completion}
           /\ stored'.traces = stored.traces
      /\ calls[c].at # "storing_response" =>
           /\ stored'.responses = stored.responses
           /\ stored'.traces = stored.traces \cup {calls[c].completion}
  BY <1>1, <1>3 DEF Stored
<1> QED
  BY <1>4 DEF Evidence, Artifacts

\* The call that Admit begins.
Admitted(r) ==
    [at |-> "counting", capacity |-> runtime.capacity,
     completion |-> [request |-> r, manifest |-> runtime.manifest,
                     probe |-> runtime.probe]]

LEMMA AdmitParts ==
    ASSUME TypeOK, ReadyIsProbed, NEW c \in Callers, NEW r \in RequestIds, Admit(c, r)
    PROVE  /\ calls' = [calls EXCEPT ![c] = Admitted(r)]
           /\ Admitted(r) \in [at: Places, completion: Completions, capacity: Nat]
           /\ Active' = Active \cup {c} /\ c \notin Active
           /\ \A d \in Active : calls'[d] = calls[d]
           /\ calls'[c].at = "counting" /\ calls'[c].capacity = runtime.capacity
           /\ calls'[c].completion.request = r
           /\ calls'[c].completion.manifest = runtime.manifest
           /\ calls'[c].completion.probe = runtime.probe
<1>1. calls' = [calls EXCEPT ![c] = Admitted(r)] /\ c \notin Active
  BY DEF Admit, Admitted, Active
<1>2. runtime.manifest \in Manifests /\ runtime.probe \in Nat /\ runtime.capacity \in Nat
  BY DEF Admit, TypeOK, ReadyIsProbed
<1>3. Admitted(r) \in [at: Places, completion: Completions, capacity: Nat]
  BY <1>2 DEF Admitted, Places, Completions
<1>4. Admitted(r) # NoCall
  BY DEF Admitted, NoCall
<1>5. calls'[c] = Admitted(r) /\ \A d \in Callers \ {c} : calls'[d] = calls[d]
  BY <1>1 DEF TypeOK
<1>6. /\ Admitted(r).at = "counting" /\ Admitted(r).capacity = runtime.capacity
      /\ Admitted(r).completion.request = r
      /\ Admitted(r).completion.manifest = runtime.manifest
      /\ Admitted(r).completion.probe = runtime.probe
  BY DEF Admitted
<1>7. Active' = Active \cup {c} /\ \A d \in Active : calls'[d] = calls[d]
  BY <1>1, <1>4, <1>5 DEF Active
<1> QED
  BY <1>1, <1>3, <1>5, <1>6, <1>7

\* The places the unlocked steps lead to, and what else they change.
LEMMA UnlockedParts ==
    ASSUME TypeOK, NEW c \in Callers,
           Post(c) \/ Decline(c) \/ Answer(c) \/ Store(c) \/ Drift(c) \/ Raise(c)
    PROVE  /\ c \in Active
           /\ \E place \in Places \ {"counting"} : GoTo(c, place)
           /\ claims' = claims
           /\ (runtime' = runtime /\ suspect' = suspect) \/ Drift(c)
           /\ \/ stored' = stored
              \/ calls[c].at \in {"storing_response", "storing_trace"} /\ stored' = Stored(c)
           /\ sent' = sent \/ Post(c)
<1>1. c \in Active
  BY DEF Post, Decline, Answer, Store, Drift, Raise, At, Active
<1>2. \E place \in Places \ {"counting"} : GoTo(c, place)
  BY DEF Post, Decline, Answer, Store, Drift, Raise, Places
<1>3. /\ \/ stored' = stored
         \/ calls[c].at \in {"storing_response", "storing_trace"} /\ stored' = Stored(c)
  BY DEF Post, Decline, Answer, Store, Drift, Raise, At
<1>4. claims' = claims
  BY DEF Post, Decline, Answer, Store, Drift, Raise
<1>5. (runtime' = runtime /\ suspect' = suspect) \/ Drift(c)
  BY DEF Post, Decline, Answer, Store, Raise
<1>6. sent' = sent \/ Post(c)
  BY DEF Decline, Answer, Store, Drift, Raise
<1> QED
  BY <1>1, <1>2, <1>3, <1>4, <1>5, <1>6

LEMMA TypeStep ==
    ASSUME TypeOK, ReadyIsProbed, [Next]_vars
    PROVE  TypeOK'
<1>1. CASE Attaches
  BY <1>1 DEF Attaches, TypeOK, Runtimes
<1>2. CASE Restart
  BY <1>2 DEF Restart, TypeOK, Fresh
<1>3. CASE UNCHANGED vars
  BY <1>3 DEF vars, TypeOK
<1>4. ASSUME NEW c \in Callers, NEW r \in RequestIds, Admit(c, r) PROVE TypeOK'
  <2>1. /\ calls' = [calls EXCEPT ![c] = Admitted(r)]
        /\ Admitted(r) \in [at: Places, completion: Completions, capacity: Nat]
    BY <1>4, AdmitParts
  <2>2. claims' \subseteq RequestIds /\ UNCHANGED <<runtime, stored, sent, suspect>>
    BY <1>4 DEF Admit, TypeOK
  <2> QED
    BY <2>1, <2>2 DEF TypeOK
<1>5. ASSUME NEW c \in Callers, RefuseForIdentity(c) PROVE TypeOK'
  BY <1>5 DEF RefuseForIdentity, TypeOK
<1>6. ASSUME NEW c \in Callers, Leave(c) PROVE TypeOK'
  BY <1>6 DEF Leave, TypeOK
<1>7. ASSUME NEW c \in Callers,
             Post(c) \/ Decline(c) \/ Answer(c) \/ Store(c) \/ Drift(c) \/ Raise(c)
      PROVE  TypeOK'
  <2>1. c \in Active
    BY <1>7, UnlockedParts
  <2>2. calls' \in [Callers -> {NoCall} \cup
                    [at: Places, completion: Completions, capacity: Nat]]
    BY <1>7, <2>1, UnlockedParts, GoToParts
  <2>3. stored' \in [probes: Seq(Manifests), responses: SUBSET Completions,
                     traces: SUBSET Completions]
    BY <1>7, <2>1, UnlockedParts, StoredParts DEF TypeOK
  <2>4. calls[c].completion.request \in RequestIds /\ calls[c].completion.probe \in Nat
    BY <2>1, CallParts
  <2>5. sent' \in [RequestIds -> Nat]
    <3>1. CASE sent' = sent
      BY <3>1 DEF TypeOK
    <3>2. CASE Post(c)
      BY <2>4, <3>2 DEF TypeOK, Post
    <3> QED
      BY <1>7, <3>1, <3>2, UnlockedParts
  <2>6. runtime' \in Runtimes /\ suspect' \subseteq Nat
    <3>1. CASE runtime' = runtime /\ suspect' = suspect
      BY <3>1 DEF TypeOK, Runtimes
    <3>2. CASE Drift(c)
      BY <2>4, <3>2 DEF TypeOK, Drift, Runtimes
    <3> QED
      BY <1>7, <3>1, <3>2, UnlockedParts
  <2>7. claims' \subseteq RequestIds
    BY <1>7, UnlockedParts DEF TypeOK
  <2> QED
    BY <2>2, <2>3, <2>5, <2>6, <2>7 DEF TypeOK, Runtimes
<1> QED
  BY <1>1, <1>2, <1>3, <1>4, <1>5, <1>6, <1>7, Steps

\* The disjunction of the unlocked steps of a completion, Leave apart.
Unlocked(c) == Post(c) \/ Decline(c) \/ Answer(c) \/ Store(c) \/ Drift(c) \/ Raise(c)

LEMMA DriftParts ==
    ASSUME TypeOK, NEW c \in Callers, Drift(c)
    PROVE  /\ runtime' = [runtime EXCEPT !.ready = FALSE]
           /\ ~runtime'.ready /\ runtime'.manifest = runtime.manifest
           /\ runtime'.probe = runtime.probe /\ runtime'.closed = runtime.closed
           /\ runtime'.capacity = runtime.capacity
           /\ suspect' = suspect \cup {calls[c].completion.probe}
BY DEF Drift, TypeOK

LEMMA RefuseParts ==
    ASSUME TypeOK, NEW c \in Callers, RefuseForIdentity(c)
    PROVE  /\ ~runtime'.ready /\ runtime'.manifest = runtime.manifest
           /\ runtime'.probe = runtime.probe /\ runtime'.closed = runtime.closed
           /\ runtime'.capacity = runtime.capacity
           /\ UNCHANGED <<claims, calls, stored, sent, suspect>>
BY DEF RefuseForIdentity, TypeOK

LEMMA LeaveParts ==
    ASSUME TypeOK, NEW c \in Callers, Leave(c)
    PROVE  /\ c \in Active /\ Active' = Active \ {c}
           /\ \A d \in Active' : calls'[d] = calls[d]
           /\ calls[c].at = "leaving"
           /\ UNCHANGED <<runtime, claims, stored, sent, suspect>>
BY DEF Leave, At, Active, TypeOK

LEMMA RestartParts ==
    ASSUME TypeOK, Restart
    PROVE  /\ ~runtime'.ready /\ Active' = {} /\ claims' = {}
           /\ \A r \in RequestIds : sent'[r] = 0
           /\ UNCHANGED <<stored, suspect>>
BY DEF Restart, Fresh, Active, TypeOK

\* Probe evidence is only ever added.
LEMMA EvidenceStays ==
    ASSUME TypeOK, [Next]_vars
    PROVE  \A probe, manifest : Proves(probe, manifest) => Proves(probe, manifest)'
<1>1. CASE Attaches
  BY <1>1 DEF Attaches
<1>2. CASE stored'.probes = stored.probes
  BY <1>2 DEF Proves
<1>3. ASSUME NEW c \in Callers, Unlocked(c) PROVE stored'.probes = stored.probes
  BY <1>3, UnlockedParts, StoredParts DEF Unlocked
<1>4. ASSUME NEW c \in Callers, NEW r \in RequestIds, Admit(c, r)
      PROVE  stored'.probes = stored.probes
  BY <1>4 DEF Admit
<1>5. CASE UNCHANGED vars
  BY <1>5, <1>2 DEF vars
<1> QED
  BY <1>1, <1>2, <1>3, <1>4, <1>5, Steps, RestartParts, RefuseParts, LeaveParts DEF Unlocked

LEMMA ReadyStep ==
    ASSUME TypeOK, ReadyIsProbed, [Next]_vars
    PROVE  ReadyIsProbed'
<1>1. CASE Attaches
  BY <1>1 DEF Attaches
<1>2. CASE ~runtime'.ready
  BY <1>2 DEF ReadyIsProbed
<1>3. CASE runtime' = runtime
  BY <1>3, EvidenceStays DEF ReadyIsProbed
<1>4. ASSUME NEW c \in Callers, Unlocked(c) PROVE runtime' = runtime \/ ~runtime'.ready
  BY <1>4, UnlockedParts, DriftParts DEF Unlocked
<1>5. ASSUME NEW c \in Callers, NEW r \in RequestIds, Admit(c, r) PROVE runtime' = runtime
  BY <1>5 DEF Admit
<1>6. CASE UNCHANGED vars
  BY <1>6, <1>3 DEF vars
<1> QED
  BY <1>1, <1>2, <1>3, <1>4, <1>5, <1>6, Steps, RestartParts, RefuseParts, LeaveParts
  DEF Unlocked

---------------------------------------------------------------------------
(* Completions work with what the runtime is attached to.                  *)

LEMMA CurrentStep ==
    ASSUME TypeOK, ReadyIsProbed, CallsAreCurrent, [Next]_vars
    PROVE  CallsAreCurrent'
<1> DEFINE SameAttachment == /\ runtime'.manifest = runtime.manifest
                             /\ runtime'.probe = runtime.probe
                             /\ runtime'.closed = runtime.closed
                             /\ runtime'.capacity = runtime.capacity
<1>1. CASE Active' = {}
  BY <1>1 DEF CallsAreCurrent
<1>2. CASE calls' = calls /\ SameAttachment
  BY <1>2 DEF CallsAreCurrent, Active
<1>3. ASSUME NEW c \in Callers, Unlocked(c) PROVE CallsAreCurrent'
  <2>1. c \in Active
    BY <1>3, UnlockedParts DEF Unlocked
  <2>2. /\ Active' = Active
        /\ \A d \in Active : /\ calls'[d].completion = calls[d].completion
                             /\ calls'[d].capacity = calls[d].capacity
    BY <1>3, <2>1, UnlockedParts, GoToParts DEF Unlocked
  <2>3. SameAttachment
    BY <1>3, UnlockedParts, DriftParts DEF Unlocked
  <2> QED
    BY <2>2, <2>3 DEF CallsAreCurrent
<1>4. ASSUME NEW c \in Callers, NEW r \in RequestIds, Admit(c, r) PROVE CallsAreCurrent'
  <2>1. runtime' = runtime /\ ~runtime.closed
    BY <1>4 DEF Admit, ReadyIsProbed
  <2>2. /\ calls'[c].capacity = runtime.capacity
        /\ calls'[c].completion.manifest = runtime.manifest
        /\ calls'[c].completion.probe = runtime.probe
    BY <1>4, AdmitParts
  <2>3. Active' = Active \cup {c} /\ \A d \in Active : calls'[d] = calls[d]
    BY <1>4, AdmitParts
  <2> QED
    BY <2>1, <2>2, <2>3 DEF CallsAreCurrent
<1>5. ASSUME NEW c \in Callers, Leave(c) PROVE CallsAreCurrent'
  BY <1>5, LeaveParts DEF CallsAreCurrent
<1>6. CASE Attaches
  BY <1>1, <1>6 DEF Attaches, Active
<1>7. CASE UNCHANGED vars
  BY <1>2, <1>7 DEF vars
<1> QED
  BY <1>1, <1>2, <1>3, <1>4, <1>5, <1>6, <1>7, Steps, RestartParts, RefuseParts DEF Unlocked

---------------------------------------------------------------------------
(* Evidence, artifacts and drift.                                          *)

LEMMA BackedStep ==
    ASSUME TypeOK, ReadyIsProbed, CompletionsAreBacked, [Next]_vars
    PROVE  CompletionsAreBacked'
<1>1. CASE Active' = {}
  BY <1>1 DEF CompletionsAreBacked
<1>2. CASE calls' = calls /\ stored'.responses = stored.responses
  BY <1>2, EvidenceStays DEF CompletionsAreBacked, Active
<1>3. ASSUME NEW c \in Callers, Unlocked(c) PROVE CompletionsAreBacked'
  <2>1. c \in Active
    BY <1>3, UnlockedParts DEF Unlocked
  <2>2. Active' = Active /\ \A d \in Active : calls'[d].completion = calls[d].completion
    BY <1>3, <2>1, UnlockedParts, GoToParts DEF Unlocked
  <2>3. stored.responses \subseteq stored'.responses
    BY <1>3, <2>1, UnlockedParts, StoredParts DEF Unlocked
  <2>4. \A d \in Active \ {c} : calls'[d] = calls[d]
    BY <1>3, <2>1, UnlockedParts, GoToParts DEF Unlocked
  <2>5. ASSUME calls'[c].at = "storing_trace"
        PROVE  calls[c].completion \in stored'.responses
    <3>1. Store(c) /\ calls[c].at = "storing_response"
      BY <1>3, <2>1, <2>5, GoToParts DEF Unlocked, Post, Decline, Answer, Store, Drift, Raise, Places
    <3> QED
      BY <2>1, <3>1, StoredParts DEF Store
  <2> QED
    BY <2>1, <2>2, <2>3, <2>4, <2>5, EvidenceStays DEF CompletionsAreBacked
<1>4. ASSUME NEW c \in Callers, NEW r \in RequestIds, Admit(c, r)
      PROVE  CompletionsAreBacked'
  <2>1. /\ calls'[c].completion.manifest = runtime.manifest
        /\ calls'[c].completion.probe = runtime.probe /\ calls'[c].at = "counting"
    BY <1>4, AdmitParts
  <2>2. Active' = Active \cup {c} /\ \A d \in Active : calls'[d] = calls[d]
    BY <1>4, AdmitParts
  <2>3. Proves(runtime.probe, runtime.manifest) /\ stored' = stored
    BY <1>4 DEF Admit, ReadyIsProbed
  <2> QED
    BY <2>1, <2>2, <2>3, EvidenceStays DEF CompletionsAreBacked
<1>5. ASSUME NEW c \in Callers, Leave(c) PROVE CompletionsAreBacked'
  BY <1>5, LeaveParts, EvidenceStays DEF CompletionsAreBacked
<1>6. CASE Attaches
  BY <1>2, <1>6 DEF Attaches
<1>7. CASE UNCHANGED vars
  BY <1>2, <1>7 DEF vars
<1> QED
  BY <1>1, <1>2, <1>3, <1>4, <1>5, <1>6, <1>7, Steps, RestartParts, RefuseParts DEF Unlocked

LEMMA TracesStep ==
    ASSUME TypeOK, ReadyIsProbed, CompletionsAreBacked, TracesAreBacked, [Next]_vars
    PROVE  TracesAreBacked'
<1>1. CASE stored'.responses = stored.responses /\ stored'.traces = stored.traces
  BY <1>1, EvidenceStays DEF TracesAreBacked, Proves
<1>2. ASSUME NEW c \in Callers, Unlocked(c) PROVE TracesAreBacked'
  <2>1. c \in Active
    BY <1>2, UnlockedParts DEF Unlocked
  <2> DEFINE done == calls[c].completion
  <2>2. Proves(done.probe, done.manifest)
    BY <2>1 DEF CompletionsAreBacked
  <2>3. CASE stored' = stored
    BY <1>1, <2>3
  <2>4. CASE calls[c].at \in {"storing_response", "storing_trace"} /\ stored' = Stored(c)
    <3>1. stored.responses \subseteq stored'.responses /\ done \in stored'.responses
      BY <2>1, <2>4, StoredParts DEF CompletionsAreBacked
    <3>2. stored'.traces \cup stored'.responses
            \subseteq stored.traces \cup stored.responses \cup {done}
      BY <2>1, <2>4, StoredParts
    <3> HIDE DEF done
    <3> QED
      BY <2>2, <3>1, <3>2, EvidenceStays DEF TracesAreBacked, Proves
  <2> QED
    BY <1>2, <2>3, <2>4, UnlockedParts DEF Unlocked
<1>3. ASSUME NEW c \in Callers, NEW r \in RequestIds, Admit(c, r) PROVE stored' = stored
  BY <1>3 DEF Admit
<1>4. CASE Attaches
  BY <1>1, <1>4 DEF Attaches
<1>5. CASE UNCHANGED vars
  BY <1>1, <1>5 DEF vars
<1> QED
  BY <1>1, <1>2, <1>3, <1>4, <1>5, Steps, RestartParts, RefuseParts, LeaveParts DEF Unlocked

\* A suspect is evidence that exists, so new evidence is above suspicion.
LEMMA DriftStep ==
    ASSUME TypeOK, CompletionsAreBacked, SuspectsAreKnown, DriftEndsReadiness, [Next]_vars
    PROVE  SuspectsAreKnown' /\ DriftEndsReadiness'
<1>1. SuspectsAreKnown => suspect \subseteq 1..Len(stored'.probes)
  BY EvidenceStays DEF SuspectsAreKnown, Proves
<1>2. CASE suspect' = suspect /\ (~runtime'.ready \/ runtime' = runtime)
  BY <1>1, <1>2 DEF SuspectsAreKnown, DriftEndsReadiness
<1>3. CASE Attaches
  <2>1. Len(stored.probes) \in Nat
    BY DEF TypeOK
  <2>2. Len(stored.probes) + 1 \notin suspect
    BY <2>1 DEF SuspectsAreKnown
  <2> QED
    BY <1>1, <1>3, <2>2 DEF Attaches, SuspectsAreKnown, DriftEndsReadiness
<1>4. ASSUME NEW c \in Callers, Drift(c) PROVE SuspectsAreKnown' /\ DriftEndsReadiness'
  <2>1. c \in Active
    BY <1>4, UnlockedParts
  <2>2. calls[c].completion.probe \in 1..Len(stored'.probes)
    BY <2>1, EvidenceStays DEF CompletionsAreBacked, Proves
  <2> QED
    BY <1>1, <1>4, <2>2, DriftParts DEF SuspectsAreKnown, DriftEndsReadiness
<1>5. ASSUME NEW c \in Callers, Unlocked(c), ~Drift(c)
      PROVE  suspect' = suspect /\ runtime' = runtime
  BY <1>5, UnlockedParts DEF Unlocked
<1>6. ASSUME NEW c \in Callers, NEW r \in RequestIds, Admit(c, r)
      PROVE  suspect' = suspect /\ runtime' = runtime
  BY <1>6 DEF Admit
<1>7. CASE UNCHANGED vars
  BY <1>2, <1>7 DEF vars
<1> QED
  BY <1>2, <1>3, <1>4, <1>5, <1>6, <1>7, Steps, RestartParts, RefuseParts, LeaveParts
  DEF Unlocked

---------------------------------------------------------------------------
(* Request ids.                                                            *)

LEMMA RequestsStep ==
    ASSUME TypeOK, ReadyIsProbed, RequestsAreClaimed, RequestIsSentOnce, [Next]_vars
    PROVE  RequestsAreClaimed' /\ RequestIsSentOnce'
<1>1. CASE Restart
  BY <1>1, RestartParts DEF RequestsAreClaimed, RequestIsSentOnce
<1>2. CASE calls' = calls /\ claims' = claims /\ sent' = sent
  BY <1>2 DEF RequestsAreClaimed, RequestIsSentOnce, Active
<1>3. ASSUME NEW c \in Callers, Unlocked(c)
      PROVE  RequestsAreClaimed' /\ RequestIsSentOnce'
  <2>1. c \in Active /\ claims' = claims
    BY <1>3, UnlockedParts DEF Unlocked
  <2>2. /\ Active' = Active /\ calls'[c].at # "counting"
        /\ \A d \in Active : calls'[d].completion = calls[d].completion
        /\ \A d \in Active \ {c} : calls'[d] = calls[d]
    BY <1>3, <2>1, UnlockedParts, GoToParts DEF Unlocked
  <2>3. CASE sent' = sent
    BY <2>1, <2>2, <2>3 DEF RequestsAreClaimed, RequestIsSentOnce
  <2>4. CASE Post(c)
    <3> DEFINE id == calls[c].completion.request
    <3>1. id \in claims /\ sent[id] = 0 /\ id \in RequestIds
      BY <2>1, <2>4, CallParts DEF Post, At, RequestsAreClaimed
    <3>2. sent' = [sent EXCEPT ![id] = sent[id] + 1]
      BY <2>4 DEF Post
    <3>3. sent'[id] = 1 /\ \A r \in RequestIds \ {id} : sent'[r] = sent[r]
      BY <3>1, <3>2 DEF TypeOK
    <3>4. \A d \in Active \ {c} : calls[d].completion.request # id
      BY <2>1 DEF RequestsAreClaimed
    <3>5. \A d \in Active : calls[d].completion.request \in RequestIds
      BY CallParts
    <3> HIDE DEF id
    <3>6. RequestIsSentOnce'
      BY <3>3 DEF RequestIsSentOnce
    <3>7. \A r \in RequestIds \ claims' : sent'[r] = 0
      BY <2>1, <3>1, <3>3 DEF RequestsAreClaimed
    <3>8. \A d \in Active' : /\ calls'[d].completion.request \in claims'
                             /\ calls'[d].at = "counting"
                                  => sent'[calls'[d].completion.request] = 0
      BY <2>1, <2>2, <3>3, <3>4, <3>5 DEF RequestsAreClaimed
    <3>9. \A d, e \in Active' :
            calls'[d].completion.request = calls'[e].completion.request => d = e
      BY <2>2 DEF RequestsAreClaimed
    <3> QED
      BY <3>6, <3>7, <3>8, <3>9 DEF RequestsAreClaimed
  <2> QED
    BY <1>3, <2>3, <2>4, UnlockedParts DEF Unlocked
<1>4. ASSUME NEW c \in Callers, NEW r \in RequestIds, Admit(c, r)
      PROVE  RequestsAreClaimed' /\ RequestIsSentOnce'
  <2>1. /\ Active' = Active \cup {c} /\ \A d \in Active : calls'[d] = calls[d]
        /\ calls'[c].completion.request = r
    BY <1>4, AdmitParts
  <2>2. r \notin claims /\ claims' = claims \cup {r} /\ sent' = sent
    BY <1>4 DEF Admit
  <2>3. sent[r] = 0 /\ \A d \in Active : calls[d].completion.request # r
    BY <2>2 DEF RequestsAreClaimed
  <2> QED
    BY <2>1, <2>2, <2>3 DEF RequestsAreClaimed, RequestIsSentOnce
<1>5. ASSUME NEW c \in Callers, Leave(c) PROVE RequestsAreClaimed' /\ RequestIsSentOnce'
  BY <1>5, LeaveParts DEF RequestsAreClaimed, RequestIsSentOnce
<1>6. CASE Attaches
  BY <1>2, <1>6 DEF Attaches
<1>7. CASE UNCHANGED vars
  BY <1>2, <1>7 DEF vars
<1> QED
  BY <1>1, <1>2, <1>3, <1>4, <1>5, <1>6, <1>7, Steps, RefuseParts DEF Unlocked

---------------------------------------------------------------------------
(* Permits.                                                                *)

HoldsPermit(c) == calls[c].at \in {"posting", "storing_response", "storing_trace"}

\* The permits of a semaphore are finitely many, and only fewer if callers leave.
LEMMA PermitsAreFinite ==
    ASSUME NEW capacity
    PROVE  IsFiniteSet(Permits(capacity)) /\ IsFiniteSet(Permits(capacity)')
<1>1. Permits(capacity) \subseteq Callers /\ Permits(capacity)' \subseteq Callers
  BY DEF Permits, Active
<1> QED
  BY <1>1, CallerAssumption, FS_Subset

\* A step that gives no caller a permit keeps the bound of those that stay.
LEMMA NoNewPermit ==
    ASSUME PermitsAreBounded, TypeOK,
           Active' \subseteq Active,
           \A d \in Active' : /\ calls'[d].completion = calls[d].completion
                              /\ calls'[d].capacity = calls[d].capacity
                              /\ HoldsPermit(d)' => HoldsPermit(d)
    PROVE  PermitsAreBounded'
<1> SUFFICES ASSUME NEW c \in Active', NEW capacity, capacity = calls'[c].capacity
             PROVE  Cardinality(Permits(capacity)')
                      <= Concurrency[calls'[c].completion.manifest]
  BY DEF PermitsAreBounded, Permits
<1> DEFINE before == Permits(capacity)
           after == Permits(capacity)'
<1>1. after \subseteq before
  BY DEF Permits, HoldsPermit
<1>2. IsFiniteSet(before) /\ IsFiniteSet(after)
  BY PermitsAreFinite
<1>3. Cardinality(after) <= Cardinality(before)
  BY <1>1, <1>2, FS_Subset
<1>4. Cardinality(before) <= Concurrency[calls'[c].completion.manifest]
  BY DEF PermitsAreBounded
<1>5. Cardinality(before) \in Nat /\ Cardinality(after) \in Nat
  BY <1>2, FS_CardinalityType
<1>6. Concurrency[calls'[c].completion.manifest] \in Nat
  BY CallParts, ManifestAssumption
<1> HIDE DEF before, after
<1> QED
  BY <1>3, <1>4, <1>5, <1>6 DEF before, after

LEMMA PermitsStep ==
    ASSUME TypeOK, ReadyIsProbed, CallsAreCurrent, PermitsAreBounded, [Next]_vars
    PROVE  PermitsAreBounded'
<1>1. CASE Active' = {}
  BY <1>1 DEF PermitsAreBounded
<1>2. CASE calls' = calls
  BY <1>2 DEF PermitsAreBounded, Permits, Active
<1>3. ASSUME NEW c \in Callers, Unlocked(c), ~Post(c) PROVE PermitsAreBounded'
  <2>1. c \in Active
    BY <1>3, UnlockedParts DEF Unlocked
  <2>2. /\ Active' = Active /\ \A d \in Active \ {c} : calls'[d] = calls[d]
        /\ \A d \in Active : /\ calls'[d].completion = calls[d].completion
                             /\ calls'[d].capacity = calls[d].capacity
    BY <1>3, <2>1, UnlockedParts, GoToParts DEF Unlocked
  <2>3. ASSUME HoldsPermit(c)' PROVE HoldsPermit(c)
    BY <1>3, <2>1, <2>3, GoToParts
    DEF Unlocked, Decline, Answer, Store, Drift, Raise, At, Places, HoldsPermit
  <2> QED
    BY <2>1, <2>2, <2>3, NoNewPermit DEF HoldsPermit
<1>4. ASSUME NEW c \in Callers, Post(c) PROVE PermitsAreBounded'
  <2>1. c \in Active /\ HasCapacity(c) /\ GoTo(c, "posting")
    BY <1>4, Placed DEF Post
  <2>2. /\ Active' = Active /\ \A d \in Active \ {c} : calls'[d] = calls[d]
        /\ \A d \in Active : /\ calls'[d].completion = calls[d].completion
                             /\ calls'[d].capacity = calls[d].capacity
    BY <2>1, GoToParts DEF Places
  <2> SUFFICES ASSUME NEW d \in Active, NEW capacity, capacity = calls[d].capacity
               PROVE  Cardinality(Permits(capacity)')
                        <= Concurrency[calls[d].completion.manifest]
    BY <2>2 DEF PermitsAreBounded, Permits
  <2> DEFINE before == Permits(capacity)
             after == Permits(capacity)'
  <2>3. /\ calls[d].capacity = calls[c].capacity
        /\ calls[d].completion.manifest = calls[c].completion.manifest
    BY <2>1 DEF CallsAreCurrent
  <2>4. Cardinality(before) < Concurrency[calls[d].completion.manifest]
    BY <2>1, <2>3 DEF HasCapacity
  <2>5. after \subseteq before \cup {c}
    BY <2>2 DEF Permits
  <2>6. IsFiniteSet(before) /\ IsFiniteSet(after)
    BY PermitsAreFinite
  <2>7. Concurrency[calls[d].completion.manifest] \in Nat
    BY CallParts, ManifestAssumption
  <2> HIDE DEF before, after
  <2>8. IsFiniteSet(before \cup {c}) /\ Cardinality(before \cup {c}) <= Cardinality(before) + 1
    <3>1. /\ IsFiniteSet(before \cup {c})
          /\ Cardinality(before \cup {c})
               = IF c \in before THEN Cardinality(before) ELSE Cardinality(before) + 1
      BY <2>6, FS_AddElement
    <3>2. Cardinality(before) \in Nat
      BY <2>6, FS_CardinalityType
    <3> QED
      BY <3>1, <3>2
  <2>9. Cardinality(after) <= Cardinality(before \cup {c})
    BY <2>5, <2>8, FS_Subset
  <2>10. /\ Cardinality(before) \in Nat /\ Cardinality(after) \in Nat
         /\ Cardinality(before \cup {c}) \in Nat
    BY <2>6, <2>8, FS_CardinalityType
  <2>11. Cardinality(after) <= Concurrency[calls[d].completion.manifest]
    BY <2>4, <2>7, <2>8, <2>9, <2>10
  <2> QED
    BY <2>11 DEF after
<1>5. ASSUME NEW c \in Callers, NEW r \in RequestIds, Admit(c, r) PROVE PermitsAreBounded'
  <2>1. /\ Active' = Active \cup {c} /\ \A d \in Active : calls'[d] = calls[d]
        /\ calls'[c].at = "counting" /\ calls'[c].capacity = runtime.capacity
        /\ calls'[c].completion.manifest = runtime.manifest
    BY <1>5, AdmitParts
  <2>2. \A capacity : Permits(capacity)' = Permits(capacity)
    BY <2>1 DEF Permits
  <2>3. \A d \in Active : /\ calls[d].capacity = runtime.capacity
                          /\ calls[d].completion.manifest = runtime.manifest
    BY DEF CallsAreCurrent
  <2>4. Cardinality(Permits(runtime.capacity)) <= Concurrency[runtime.manifest]
    <3>1. CASE Active = {}
      <4>1. Permits(runtime.capacity) = {}
        BY <3>1 DEF Permits
      <4>2. Concurrency[runtime.manifest] \in Nat
        BY <1>5, ManifestAssumption DEF Admit, ReadyIsProbed, TypeOK
      <4> QED
        BY <4>1, <4>2, FS_EmptySet
    <3>2. CASE Active # {}
      BY <2>3, <3>2 DEF PermitsAreBounded
    <3> QED
      BY <3>1, <3>2
  <2> SUFFICES ASSUME NEW d \in Active', NEW capacity, capacity = calls'[d].capacity
               PROVE  Cardinality(Permits(capacity)')
                        <= Concurrency[calls'[d].completion.manifest]
    BY DEF PermitsAreBounded, Permits
  <2>5. capacity = runtime.capacity /\ calls'[d].completion.manifest = runtime.manifest
    BY <2>1, <2>3
  <2> QED
    BY <2>2, <2>4, <2>5
<1>6. ASSUME NEW c \in Callers, Leave(c) PROVE PermitsAreBounded'
  BY <1>6, LeaveParts, NoNewPermit DEF HoldsPermit
<1>7. CASE Attaches
  BY <1>2, <1>7 DEF Attaches
<1>8. CASE UNCHANGED vars
  BY <1>2, <1>8 DEF vars
<1> QED
  BY <1>1, <1>2, <1>3, <1>4, <1>5, <1>6, <1>7, <1>8, Steps, RestartParts, RefuseParts
  DEF Unlocked

\* Requests at the server hold permits of one semaphore.
LEMMA ServerBound ==
    ASSUME TypeOK, CallsAreCurrent, PermitsAreBounded
    PROVE  ServerIsNotOverloaded
<1> DEFINE atServer == {c \in Active : calls[c].at = "posting"}
<1> SUFFICES ASSUME NEW c \in atServer
             PROVE  Cardinality(atServer) <= Concurrency[calls[c].completion.manifest]
  BY DEF ServerIsNotOverloaded
<1> DEFINE permits == Permits(calls[c].capacity)
<1>1. atServer \subseteq permits
  BY DEF Permits, CallsAreCurrent
<1>2. IsFiniteSet(permits)
  BY PermitsAreFinite
<1>3. Cardinality(permits) <= Concurrency[calls[c].completion.manifest]
  BY DEF PermitsAreBounded
<1>4. Concurrency[calls[c].completion.manifest] \in Nat
  BY CallParts, ManifestAssumption
<1> HIDE DEF atServer, permits
<1>5. Cardinality(atServer) <= Cardinality(permits)
  BY <1>1, <1>2, FS_Subset
<1>6. Cardinality(atServer) \in Nat /\ Cardinality(permits) \in Nat
  BY <1>1, <1>2, FS_Subset, FS_CardinalityType
<1> QED
  BY <1>3, <1>4, <1>5, <1>6

---------------------------------------------------------------------------
LEMMA InductiveInit == Init => Inductive
<1> SUFFICES ASSUME Init PROVE Inductive
  OBVIOUS
<1>1. Active = {}
  BY DEF Init, Active
<1>2. TypeOK
  BY DEF Init, TypeOK, Fresh
<1> QED
  BY <1>1, <1>2 DEF Inductive, Init, Fresh, ReadyIsProbed, CallsAreCurrent, CompletionsAreBacked,
     SuspectsAreKnown, DriftEndsReadiness, TracesAreBacked, RequestsAreClaimed,
     RequestIsSentOnce, PermitsAreBounded

LEMMA InductiveStep == Inductive /\ [Next]_vars => Inductive'
<1> SUFFICES ASSUME Inductive, [Next]_vars PROVE Inductive'
  OBVIOUS
<1> USE DEF Inductive
<1>1. TypeOK' /\ ReadyIsProbed' /\ CallsAreCurrent'
  BY TypeStep, ReadyStep, CurrentStep
<1>2. CompletionsAreBacked' /\ TracesAreBacked'
  BY BackedStep, TracesStep
<1>3. SuspectsAreKnown' /\ DriftEndsReadiness'
  BY DriftStep
<1>4. RequestsAreClaimed' /\ RequestIsSentOnce'
  BY RequestsStep
<1>5. PermitsAreBounded'
  BY PermitsStep
<1> QED
  BY <1>1, <1>2, <1>3, <1>4, <1>5

\* All the parts of the invariant hold together, always.
LEMMA InvariantCorrect == Spec => []Inductive
BY InductiveInit, InductiveStep, PTL DEF Spec

\* Fields, calls and artifacts keep their types (AttachedLocalLlmRuntime).
THEOREM TypeCorrect == Spec => []TypeOK
<1>1. Inductive => TypeOK
  BY DEF Inductive
<1> QED
  BY <1>1, InvariantCorrect, PTL

\* start, probe and close never take the runtime from under a completion.
THEOREM CurrentCorrect == Spec => []CallsAreCurrent
<1>1. Inductive => CallsAreCurrent
  BY DEF Inductive
<1> QED
  BY <1>1, InvariantCorrect, PTL

\* The server never has more requests at once than its manifest allows.
THEOREM CapacityCorrect == Spec => []ServerIsNotOverloaded
<1>1. Inductive => ServerIsNotOverloaded
  BY ServerBound DEF Inductive
<1> QED
  BY <1>1, InvariantCorrect, PTL

\* After drift nothing is admitted before the server was probed again.
THEOREM DriftCorrect == Spec => []DriftEndsReadiness
<1>1. Inductive => DriftEndsReadiness
  BY DEF Inductive
<1> QED
  BY <1>1, InvariantCorrect, PTL

\* A process sends each request id to the model at most once.
THEOREM RequestCorrect == Spec => []RequestIsSentOnce
<1>1. Inductive => RequestIsSentOnce
  BY DEF Inductive
<1> QED
  BY <1>1, InvariantCorrect, PTL

\* Traces refer to responses and to probe evidence of their manifest that exist.
THEOREM TracesCorrect == Spec => []TracesAreBacked
<1>1. Inductive => TracesAreBacked
  BY DEF Inductive
<1> QED
  BY <1>1, InvariantCorrect, PTL
=============================================================================
