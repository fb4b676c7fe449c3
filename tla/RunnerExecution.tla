-------------------------- MODULE RunnerExecution --------------------------
(***************************************************************************)
(* One fixed-commit job: FixedCommitRunner.run_at_commit, called any       *)
(* number of times by several callers with the same request, against the   *)
(* reservation row that is meant to let its container run once.            *)
(*                                                                         *)
(* The row lives in one of two stores.  MemoryRunnerArtifactStore ("memory"*)
(* below) makes later callers wait on a condition variable; the persistent *)
(* ArtifactRepositoryRunnerStore ("repository") never waits: a row left    *)
(* executing fails closed, a checkpoint may be resumed by any number of    *)
(* callers at once, and the row survives a crash of its caller.  The store *)
(* and whether the job ends its Run (a terminal committer is configured)   *)
(* are chosen in the initial state and never change.                       *)
(*                                                                         *)
(* Every store method is one step, as the store's lock or its SQLite       *)
(* transaction makes it; so are the container run and the terminal commit. *)
(***************************************************************************)
EXTENDS Naturals, FiniteSets

CONSTANTS
    Workers,     \* callers of run_at_commit
    Stores,      \* the kinds of store to consider, a subset of StoreKinds
    MaxCalls     \* bound: calls each worker makes

StoreKinds == {"memory", "repository"}

ASSUME WorkersAssumption == Workers # {} /\ Stores \subseteq StoreKinds
ASSUME MaxCallsAssumption == MaxCalls \in Nat \ {0}

VARIABLES
    store,        \* which store the runner was built with
    endsRun,      \* whether a terminal committer is configured
    row,          \* the reservation row of the job
    terminal,     \* evidence of the committed TerminalResult, or None
    containers,   \* container starts the daemon accepted
    observed,     \* container starts a runner saw succeed
    worker,       \* each caller's position in run_at_commit and its locals
    answer        \* what each caller's last call returned

vars == <<store, endsRun, row, terminal, containers, observed, worker, answer>>
configuration == <<store, endsRun>>
outside == <<containers, observed>>

None == [status |-> "none", run |-> 0]

\* RawExecutionEvidence, told apart by the container run it is about.
Evidence == [status: {"success", "terminal_failure"}, run: Nat \ {0}]

\* ExecutionAttestation: what it binds and its nonce.  A runner draws the
\* nonce at random, so every call of every worker signs different bytes; the
\* checkpoint finalizer derives it from what it binds (its call is 0).
Attestation == [evidence: Evidence, terminal: Evidence \cup {None},
                signer: Workers \cup {"finalizer"}, call: 0..MaxCalls]
NoAttestation == [evidence |-> None]

RowStates == {"absent", "executing", "checkpointed", "completed", "failed"}
Rows == [state: RowStates, generation: Nat, checkpoint: Evidence \cup {None},
         result: Attestation \cup {NoAttestation}, active: BOOLEAN]

Positions == {"idle", "replayed", "waiting", "granted", "running",
              "checkpointing", "committing", "signing",
              "recording", "record_committing", "record_signing",
              "releasing", "failing"}
Worker == [at: Positions, calls: 0..MaxCalls, generation: Nat,
           evidence: Evidence \cup {None}, terminal: Evidence \cup {None}]

TypeOK ==
    /\ store \in Stores
    /\ endsRun \in BOOLEAN
    /\ row \in Rows
    /\ terminal \in Evidence \cup {None}
    /\ containers \in Nat
    /\ observed \in Nat
    /\ worker \in [Workers -> Worker]
    /\ answer \in [Workers -> Attestation \cup {NoAttestation}]

Init ==
    /\ store \in Stores
    /\ endsRun \in BOOLEAN
    /\ row = [state |-> "absent", generation |-> 0, checkpoint |-> None,
              result |-> NoAttestation, active |-> FALSE]
    /\ terminal = None
    /\ containers = 0
    /\ observed = 0
    /\ worker = [w \in Workers |-> [at |-> "idle", calls |-> 0, generation |-> 0,
                                    evidence |-> None, terminal |-> None]]
    /\ answer = [w \in Workers |-> NoAttestation]

---------------------------------------------------------------------------
(* Moving a worker.                                                        *)

GoTo(w, place) == worker' = [worker EXCEPT ![w].at = place]

\* The call of w ends, with an attestation or by raising (NoAttestation).
Return(w, value) ==
    /\ worker' = [worker EXCEPT ![w].at = "idle", ![w].generation = 0,
                                ![w].evidence = None, ![w].terminal = None]
    /\ answer' = [answer EXCEPT ![w] = value]

\* reserve handed w the row to execute (no evidence) or to resume.
Grant(w, generation, evidence) ==
    worker' = [worker EXCEPT ![w].at = "granted", ![w].generation = generation,
                             ![w].evidence = evidence]

---------------------------------------------------------------------------
(* Entering: replay of a completed fingerprint, then reserve.              *)

\* run_at_commit is called; a completed row of this fingerprint is replayed.
Call(w) ==
    /\ worker[w].at = "idle"
    /\ worker[w].calls < MaxCalls
    /\ IF row.state = "completed"
       THEN /\ answer' = [answer EXCEPT ![w] = row.result]
            /\ worker' = [worker EXCEPT ![w].calls = @ + 1]
       ELSE /\ worker' = [worker EXCEPT ![w].calls = @ + 1, ![w].at = "replayed"]
            /\ UNCHANGED answer
    /\ UNCHANGED <<configuration, row, terminal, outside>>

\* reserve, no row for the job: insert one that says executing.
ReserveNew(w) ==
    /\ worker[w].at = "replayed"
    /\ row.state = "absent"
    /\ row' = [row EXCEPT !.state = "executing", !.generation = @ + 1,
                          !.active = TRUE]
    /\ Grant(w, row.generation + 1, None)
    /\ UNCHANGED <<configuration, terminal, outside, answer>>

\* What reserve does with a row that nobody else holds.
ReserveSettled(w) ==
    \/ /\ row.state = "completed"
       /\ Return(w, row.result)
       /\ UNCHANGED row
    \/ /\ row.state = "failed"
       /\ Return(w, NoAttestation)
       /\ UNCHANGED row
    \/ /\ row.state = "checkpointed"
       /\ row' = [row EXCEPT !.active = TRUE]
       /\ Grant(w, row.generation, row.checkpoint)
       /\ UNCHANGED answer

\* A row somebody executes or resumes, as the memory store sees it.
Held == row.state = "executing" \/ (row.state = "checkpointed" /\ row.active)

\* Mutant: an executing row is waited for, as in the memory store.
ReserveRepositoryWaiting(w) ==
    /\ store = "repository"
    /\ worker[w].at = "replayed"
    /\ \/ ReserveSettled(w)
       \/ /\ row.state = "executing"
          /\ UNCHANGED <<worker, row, answer>>
    /\ UNCHANGED <<configuration, terminal, outside>>

\* The repository keeps no owner: an executing row cannot be told from one
\* its caller abandoned in a crash, and is refused; a checkpoint is handed out.
ReserveRepository(w) ==
    /\ store = "repository"
    /\ worker[w].at = "replayed"
    /\ \/ ReserveSettled(w)
       \/ /\ row.state = "executing"
          /\ Return(w, NoAttestation)
          /\ UNCHANGED row
    /\ UNCHANGED <<configuration, terminal, outside>>

ReserveMemory(w) ==
    /\ store = "memory"
    /\ worker[w].at = "replayed"
    /\ \/ /\ ~Held
          /\ ReserveSettled(w)
       \/ /\ Held
          /\ worker' = [worker EXCEPT ![w].at = "waiting",
                                      ![w].generation = row.generation]
          /\ UNCHANGED <<row, answer>>
    /\ UNCHANGED <<configuration, terminal, outside>>

\* The condition's loop tests the reservation object the caller found when it
\* began to wait, not the one the table holds now.
Wake(w) ==
    /\ worker[w].at = "waiting"
    /\ row.generation = worker[w].generation
    /\ row.state # "absent"
    /\ ~Held
    /\ ReserveSettled(w)
    /\ UNCHANGED <<configuration, terminal, outside>>

---------------------------------------------------------------------------
(* Preflight and execution, outside the store.                             *)

Executing(w) == worker[w].at = "granted" /\ worker[w].evidence = None
Resuming(w) == worker[w].at = "granted" /\ worker[w].evidence # None

\* Mutant: a resumed call signs at once.
ResumeToSign(w) ==
    /\ Resuming(w)
    /\ GoTo(w, "signing")
    /\ UNCHANGED <<configuration, row, terminal, outside, answer>>

\* Preflight passes and the evidence of the checkpoint resolves.
Resume(w) ==
    /\ Resuming(w)
    /\ GoTo(w, "committing")
    /\ UNCHANGED <<configuration, row, terminal, outside, answer>>

\* The runtime is not ready: the reservation is given back for a later try.
WaitForRuntime(w) ==
    /\ Executing(w)
    /\ GoTo(w, "releasing")
    /\ UNCHANGED <<configuration, row, terminal, outside, answer>>

\* Preflight refuses the job, or the executor fails before it starts anything.
Reject(w) ==
    /\ Executing(w)
    /\ GoTo(w, "failing")
    /\ UNCHANGED <<configuration, row, terminal, outside, answer>>

\* Docker answers that the container runs: _execution_started becomes true.
StartContainer(w) ==
    /\ Executing(w)
    /\ containers' = containers + 1
    /\ observed' = observed + 1
    /\ GoTo(w, "running")
    /\ UNCHANGED <<configuration, row, terminal, answer>>

\* The Docker client is killed by its 30 s bound after the daemon accepted the
\* start: a RunnerWaitingRuntimeError while _execution_started is still false.
LoseStartAnswer(w) ==
    /\ Executing(w)
    /\ containers' = containers + 1
    /\ GoTo(w, "releasing")
    /\ UNCHANGED <<configuration, row, terminal, observed, answer>>

\* Mutant: container runs are numbered from zero.
FinishFromZero(w) ==
    /\ worker[w].at = "running"
    /\ \E status \in {"success", "terminal_failure"} :
          worker' = [worker EXCEPT ![w].at = "checkpointing",
                        ![w].evidence = [status |-> status, run |-> containers - 1]]
    /\ UNCHANGED <<configuration, row, terminal, outside, answer>>

\* The container ended and execute returned its evidence.
Finish(w) ==
    /\ worker[w].at = "running"
    /\ \E status \in {"success", "terminal_failure"} :
          worker' = [worker EXCEPT ![w].at = "checkpointing",
                        ![w].evidence = [status |-> status, run |-> containers]]
    /\ UNCHANGED <<configuration, row, terminal, outside, answer>>

\* Mutant: a runtime that is not ready is retried, though the container ran.
AbortReleases(w) ==
    /\ worker[w].at \in {"running", "checkpointing"}
    /\ GoTo(w, "releasing")
    /\ UNCHANGED <<configuration, row, terminal, outside, answer>>

\* After the start anything that raises becomes evidence of a failed run.
Abort(w) ==
    /\ worker[w].at \in {"running", "checkpointing"}
    /\ worker' = [worker EXCEPT ![w].at = "recording",
                     ![w].evidence = [status |-> "terminal_failure",
                                      run |-> containers]]
    /\ UNCHANGED <<configuration, row, terminal, outside, answer>>

---------------------------------------------------------------------------
(* Checkpoint, terminal commit, attestation.                               *)

\* The step a worker takes next on each of the two paths.
After(place) ==
    CASE place = "checkpointing" -> "committing"
      [] place = "recording" -> "record_committing"
      [] place = "committing" -> "signing"
      [] place = "record_committing" -> "record_signing"

\* Where an error sends it: run_at_commit's handlers give a checkpointed row
\* back, the handler around _record_started_failure marks the row failed.
OnError(place) ==
    CASE place \in {"granted", "committing", "signing"} -> "releasing"
      [] place \in {"recording", "record_committing", "record_signing"} -> "failing"

Checkpoint(w) ==
    /\ worker[w].at \in {"checkpointing", "recording"}
    /\ row.state = "executing"
    /\ row' = [row EXCEPT !.state = "checkpointed",
                          !.checkpoint = worker[w].evidence]
    /\ GoTo(w, After(worker[w].at))
    /\ UNCHANGED <<configuration, terminal, outside, answer>>

\* The lifecycle commit is a compare-and-set on the Run's head, and replays
\* the receipt of the same process record.
CommitTerminal(w) ==
    /\ worker[w].at \in {"committing", "record_committing"}
    /\ IF endsRun
       THEN /\ terminal \in {None, worker[w].evidence}
            /\ terminal' = worker[w].evidence
            /\ worker' = [worker EXCEPT ![w].at = After(@),
                                        ![w].terminal = worker[w].evidence]
       ELSE GoTo(w, After(worker[w].at)) /\ UNCHANGED terminal
    /\ UNCHANGED <<configuration, row, outside, answer>>

\* The store, the lifecycle, the signer or a resumed preflight raises.
StepRaises(w) ==
    /\ \/ Resuming(w)
       \/ worker[w].at \in {"committing", "signing", "recording",
                            "record_committing", "record_signing"}
    /\ GoTo(w, OnError(worker[w].at))
    /\ UNCHANGED <<configuration, row, terminal, outside, answer>>

\* The terminal result the repository expects an attestation to bind.
ExpectedTerminal == IF terminal = row.checkpoint THEN terminal ELSE None

Binds(attestation) ==
    /\ row.checkpoint # None
    /\ attestation.evidence = row.checkpoint
    /\ attestation.terminal = ExpectedTerminal

Complete(attestation) ==
    row' = [row EXCEPT !.state = "completed", !.result = attestation,
                       !.active = FALSE]

\* Mutant: a completed row takes a second attestation.
RepositoryAcceptsAgain(attestation) ==
    Binds(attestation) /\ row.state \in {"checkpointed", "completed"}

\* finalize_runner_execution accepts a first attestation of the checkpoint,
\* and afterwards only the same bytes again.
RepositoryAccepts(attestation) ==
    /\ Binds(attestation)
    /\ \/ row.state = "checkpointed"
       \/ row.state = "completed" /\ row.result = attestation

Signed(w) == [evidence |-> worker[w].evidence, terminal |-> worker[w].terminal,
              signer |-> w, call |-> worker[w].calls]

\* Sign with a fresh nonce and commit to the store.
Finalize(w) ==
    /\ worker[w].at \in {"signing", "record_signing"}
    /\ \/ /\ IF store = "repository" THEN RepositoryAccepts(Signed(w))
                                     ELSE row.state # "absent"
          /\ Complete(Signed(w))
          /\ Return(w, Signed(w))
       \/ /\ store = "repository"
          /\ ~RepositoryAccepts(Signed(w))
          /\ GoTo(w, OnError(worker[w].at))
          /\ UNCHANGED <<row, answer>>
    /\ UNCHANGED <<configuration, terminal, outside>>

\* ArtifactRepositoryRunnerCheckpointFinalizer: the gate attests a successful
\* checkpoint itself, binding the terminal result exactly when there is one.
FinalizeCheckpoint ==
    LET attestation == [evidence |-> row.checkpoint, terminal |-> terminal,
                        signer |-> "finalizer", call |-> 0] IN
    /\ store = "repository"
    /\ row.checkpoint.status = "success"
    /\ endsRun => terminal # None
    /\ RepositoryAccepts(attestation)
    /\ Complete(attestation)
    /\ UNCHANGED <<configuration, terminal, outside, worker, answer>>

---------------------------------------------------------------------------
(* Leaving with an error.                                                  *)

\* release: an executing row is deleted so that a retry may execute; a
\* checkpoint stays.  A settled row refuses, which raises all the same.
Release(w) ==
    /\ worker[w].at = "releasing"
    /\ row' = CASE row.state = "executing" ->
                       [row EXCEPT !.state = "absent", !.active = FALSE]
                [] row.state = "checkpointed" -> [row EXCEPT !.active = FALSE]
                [] OTHER -> row
    /\ Return(w, NoAttestation)
    /\ UNCHANGED <<configuration, terminal, outside>>

\* fail: the row is settled as failed, whatever had been checkpointed.
Fail(w) ==
    /\ worker[w].at = "failing"
    /\ row' = IF row.state \in {"executing", "checkpointed"}
              THEN [row EXCEPT !.state = "failed", !.active = FALSE]
              ELSE row
    /\ Return(w, NoAttestation)
    /\ UNCHANGED <<configuration, terminal, outside>>

\* The caller's process dies; only the repository's row outlives it.
Crash(w) ==
    /\ store = "repository"
    /\ worker[w].at # "idle"
    /\ Return(w, NoAttestation)
    /\ UNCHANGED <<configuration, row, terminal, outside>>

---------------------------------------------------------------------------
\* What a worker does inside a call, its choices among them.
Proceed(w) ==
    \/ ReserveNew(w) \/ ReserveRepository(w) \/ ReserveMemory(w) \/ Wake(w)
    \/ Resume(w) \/ WaitForRuntime(w) \/ Reject(w)
    \/ StartContainer(w) \/ LoseStartAnswer(w) \/ Finish(w) \/ Abort(w)
    \/ Checkpoint(w) \/ CommitTerminal(w) \/ StepRaises(w) \/ Finalize(w)
    \/ Release(w) \/ Fail(w)

Next ==
    \/ \E w \in Workers : Call(w) \/ Proceed(w) \/ Crash(w)
    \/ FinalizeCheckpoint

Spec == Init /\ [][Next]_vars

\* A thread in a call is scheduled again: every blocking call it makes, the
\* container's run included, has a wall-clock bound.  Nobody is obliged to call.
FairSpec == Spec /\ \A w \in Workers : WF_vars(Proceed(w))

---------------------------------------------------------------------------
(* Properties.                                                             *)

\* Every call that returned an attestation returned the one the row holds:
\* concurrent callers, resumed callers and replays never see two, though each
\* signs with a nonce of its own (run_at_commit; finalize_runner_execution).
AnswersAgree ==
    \A w \in Workers : answer[w] # NoAttestation =>
        row.state = "completed" /\ answer[w] = row.result

\* The attestation a job ends with is about the checkpointed container run,
\* and names the Run's terminal result exactly when the job ended the Run:
\* none is signed before the terminal commit or about another run of the job.
\* And a successful checkpoint is never lost: whatever raises afterwards, the row
\* stays resumable until it is attested (release and not fail).
AttestationIsBound ==
    /\ row.result # NoAttestation =>
        /\ row.result.evidence = row.checkpoint
        /\ row.result.terminal = terminal
        /\ endsRun <=> terminal # None
    /\ row.checkpoint.status = "success" => row.state \in {"checkpointed", "completed"}

\* Once a runner saw a container of this job run, no further call starts
\* another, through crashes, retries and releases
\* (test_started_execution_failure_is_never_released_for_retry).
StartedIsNeverRetried == [][observed > 0 => containers' = containers]_vars

\* A call on the persistent store always ends: it fails closed instead of
\* waiting for a caller that may be dead.
PersistentCallsReturn ==
    \A w \in Workers : (store = "repository") ~> (worker[w].at = "idle")

\* Every call ends, whichever the store: what the tests of concurrent and of
\* released callers take for granted.
CallsReturn == \A w \in Workers : []<>(worker[w].at = "idle")

=============================================================================
