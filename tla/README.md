# AutoMarkov in TLA+

AutoMarkov turns a written task into a formal decision process, builds an
environment for it, and lets the candidate pass a ladder of validations before
anything is trained or released. This directory models the parts of
`src/automarkov` that keep state, run concurrently or survive a crash, checks the
models with TLC and proves theorems about them with TLAPS. Paths below are relative to
`src/src/automarkov` of the repository unless they start with `docs/` or `tests/`.

`PROJECT.json` lists, for machines, what this file explains: the components, the runs,
the mutants, the source lines every definition stands for, the hazards, the findings and
the theorems.

## The system

A **run** is an append-only log of typed events. Everything that happens to it is a
*command*: a batch of events, with a command id and an idempotency key, that names the
event it was built on. The *lifecycle* says which commands are legal in which state; the
*repository* makes a command durable at most once and atomically. The other components
produce what commands carry: evidence (Tavily gateway), text (LLM runtime), verdicts about
a candidate (fixed-commit runner, RemoteEnv workers, sealed gate).

| Component | State it keeps | Operations | Hard behaviour |
|---|---|---|---|
| run lifecycle `lifecycle.py` | the projection of a log: state, waiting binding, approval snapshots, budget, terminal result, audits | append, commit terminal, replace, audit commands; the reducer | long legal sequences of waits, revisions and revocations; budgets at their limit |
| lifecycle repository `adapters/repository/_core.py` | event, receipt, result, audit, artifact and edge tables; two stores (memory, SQLite) | `commit`, replay, lookups | clients race on one head; commits fail between two table writes; answers are lost |
| sealed end-to-end gate `sealed_evaluation.py` | materialised decisions, claims on identifiers, the runner's row | `evaluate`, atomic materialisation | decision taken before the transaction that records it; identifiers used twice |
| fixed-commit runner `fixed_commit_runner.py` | a reservation row per job, in memory or in the repository | `run_at_commit`: reserve, run a container, checkpoint, commit, attest | concurrent and dead callers, lost start answers, two transactions that belong together |
| Tavily gateway `tavily_gateway.py` | key slots, request windows, cursors and a credit budget in SQLite | acquire, complete, project the pool; the retry loop | leases that run out, late clock readings, crashes, exhausted pools |
| RemoteEnv session `remote_env.py` | transport, serving thread, two grant verifiers, worker | connect, exchange, serve, close | timeouts after an action took effect, expiry between two checks |
| local LLM runtime `local_llm_runtime.py` | attached manifest, probe evidence, ready flag, semaphore, request claims | start, probe, complete, close | completions outside the lock while the attachment changes |
| artifact tables `adapters/repository/_core.py` | artifacts with their parents, payload blobs, schema contracts, the version of the file | open (create, migrate), put, derived puts of commits, get | processes with different registries, migration of files of another release, damage |
| compile pipeline `application/compile.py`, `application/stages/` | current stage, event head | `advance`, `chain`, recovery over sixteen stages | exceptions that lose results, recovery from a head or from none, references where artifacts are expected |
| run coordinator `application/coordinator.py` | phase, event head, recovery flag | transitions, recovery, cancel | methods that bypass the transition table |
| public validation ladder `public_validation.py` | (none; reads and appends lifecycle events) | `evaluate`, the events of an outcome | judgements that are committed later than they were made; counts of revisions that nobody compares with the log |
| clarification evaluation `clarification.py` | the replay index of signed artifacts | `record`, bindings | failures between the claims of one artifact |
| statistics, benchmark grid `experiments/` | none | Holm step-down, exact grid, bootstrap | the direction in which adjusted p-values accumulate |
| suite adapters `suite_adapters.py`, `multi_agent_suite_adapters.py` | episode lifecycle of a suite, its environment, action tokens | build, reset, snapshot, step, close | environments that raise before or after they acted; threads with old tokens |
| pilots `pilots.py`, `pilot_worker.py` | a worker process, a workspace, the published output | `run_engineering_pilot` | calls that race, are interrupted and crash |
| production Tavily adapter `adapters/tavily_gateway.py` | in-process key pool | search, extract, crawl | cooldowns and a window |
| training, sandbox | an external library; a launcher | train; check and launch | - |
| freeze, baseline, release gates; evidence access; formal AST; domain; provenance; public interface | none | predicates, schemas, the command line | - |

**How they interact.** `RunLifecycle` is what the repository enforces inside every commit
(it calls the reducer on the log a command would produce). The gate and the runner commit
lifecycle commands through the repository, in the same transaction as their own rows
(gate) or in one before it (runner). The gate attests the runner's checkpointed row. The
Tavily gateway and the LLM runtime hand artifacts to callers who put references to them into
commands; nothing flows back. RemoteEnv workers are driven by a runner or an evaluator
over TLS and share no state with the rest; behind them are the suite adapters. The
evaluators of the public ladder read a run's log and commit their judgement to it later, as
any client of the repository. The compile pipeline returns values to one caller and commits
nothing itself; the coordinator is a value of its caller too. What a commit derives from a
terminal job it puts into the artifact tables in the same transaction.

**What makes each part correct**, in one sentence each:

- lifecycle: no sequence of legal commands reaches release without its gates, ends twice,
  works on an exhausted budget, or builds on an approval that was revoked;
- repository: clients see an atomic ledger that executes each command at most once;
- gate: a run is decided once, at the head it was asked about, by identifiers used once;
- runner: a job's container runs once, what is attested is what ran, and a success is kept;
- Tavily gateway: ceilings hold, dead keys stay dead, and "nothing to wait for" is true;
- RemoteEnv: what the client learned is what the worker did;
- artifact tables: what a put admits a get admits, until something it descends from is damaged;
- public ladder: the candidate that goes to the sealed gate is the one that passed, frozen
  under its own plan, and the revisions keep to their budget as long as those who judge count
  what the log holds;
- compile pipeline: what a run has got to is backed by results, and nothing unimplemented is
  passed; coordinator: a run that is over stays over;
- clarification: a question is judged once;
- suites: agents act on the state there is, in the partition they were given, after a reset;
- pilot: what a call returns is what is published, whole;
- LLM runtime: the server in use is the one that was probed, never with more requests than
  it may have, and each request is sent once.

## Modules

| Module | Models | Composed with |
|---|---|---|
| `RunProtocol` | abstract specification: what a run promises to readers of its status | implemented by `RunLifecycle` |
| `RunLifecycle` | `lifecycle.py`: commands, reducer, frozen tables | |
| `RunLifecycle_proofs` | proofs about it and about `PublicValidation` | |
| `CommandLedger` | abstract specification: what the repository promises its clients | implemented by `LifecycleRepository` |
| `LifecycleRepository` | `commit` of `adapters/repository/_core.py` | abstracts the run's state to four values; `RunLifecycle` has it in full |
| `LifecycleRepository_proofs` | proofs about it | |
| `RunnerExecution` | `FixedCommitRunner.run_at_commit` and both reservation stores | `OciExecution` is its container run in full; contains the finalizer through which the gate attests a row |
| `RunnerExecution_proofs` | proofs about it and about `OciExecution` | |
| `OciExecution` | `OciFixedCommitExecutor.execute`: checkout, profile, container, collector, outputs, cleanup | runs beside `RunnerExecution` |
| `E2EGate` | `SealedE2EGate.evaluate`, `materialize_e2e_gate_atomically` | contains the run's log and the runner's rows as the gate sees them |
| `E2EGate_proofs` | proofs about it and about `ClarificationReplay` | |
| `TavilyKeyPool` | `KeyLeaseStore` and the loop of one logical call | |
| `TavilyKeyPool_proofs` | proofs about it | |
| `RemoteEnvSession` | transport, server thread and worker of one session | |
| `LocalLlmRuntime` | `AttachedLocalLlmRuntime` | |
| `LocalLlmRuntime_proofs` | proofs about it | |
| `PublicValidation` | `PublicValidationPipeline`, the outcomes and their events | runs beside `RunLifecycle` |
| `CompileStages` | the stage functions, as operators | used by `CompilePipeline` |
| `CompilePipeline` | `CompileOrchestrator` and its caller | |
| `RunCoordinator` | `RunCoordinator` | |
| `ArtifactStore` | abstract specification: a growing set of immutable artifacts, as the memory repository keeps it | implemented by `ArtifactRepository` |
| `ArtifactRepository` | the artifact tables of the SQLite repository: open, migrate, put, get | |
| `CompilePipeline_proofs` | proofs about the pipeline, the coordinator and the artifact tables | |
| `ClarificationReplay` | the replay index of `clarification.py`, in memory and in SQLite | |
| `SingleAgentSuites` | Taxi, MiniGrid and MetaDrive workers with their environments and partitions | |
| `MultiAgentSuites` | the SMACv2 and CityLearn adapters | |
| `PilotPublication` | `run_engineering_pilot` and its worker | |
| `Environments_proofs` | proofs about the remote session, the suites and the pilot | |
| `HolmStepDown` | `compute_holm_step_down`, as a function over bounded families | |
| `RunAndLadder`, `JobAndContainer`, `GateAndIndex`, `CompileAndTables`, `Environments` | compositions of components that share no state | |

Every `MC<module>` gives the constants of its module small values; a statement of the
documentation that the code does not keep is defined in an `MC` module too, unless it
uses the vocabulary of the component's own properties. Components that share no state are
checked in one run where that saves a second one. Five modules put them together: the variable `part`
says, from the initial state on, which of them a behaviour is about, and the others stand still.
`RunAndLadder` has the lifecycle and the public ladder, `JobAndContainer` the runner and its
container, `GateAndIndex` the gate and the replay index, `CompileAndTables` the pipeline, the
coordinator and the artifact tables, and `Environments` the suites, the
remote session and the pilot. A run's configuration and the proofs about its components extend the same
composition, so that what is proved names the very properties the run checks.
(`MCArtifactRepository` has the artifacts and registries of `MCCompilePipeline`.)

### State and actions

**RunLifecycle.** The variables are the fields of `RunProjection` the properties talk about,
plus the last event (a transition may name only the event immediately before it as its
trigger) and the gates passed since the last revision. An action is one accepted command:
the validator of the batch, the reducer on each of its events, and all the fields it changes.
The four disjuncts of `Next` are the four commands of the repository: `AppendStep`,
`TerminalStep`, `ReplacementStep`, `AuditStep`. Longer batches are compositions of actions.

**LifecycleRepository.** `db` holds the tables. `Ask` is a client that builds a command from the
head it read; `Replay`, `Refuse` and `Begin` are the outcomes of the checks at the top of
`commit`; `WriteTable` writes the next table in the order of the code; `Fail` is an exception
between two writes, after which each kind of command restores the tables its handler
names; `RefuseLate` is a command older than the clock skew, which is refused before its
receipt is looked for; `FinishUnheard` commits but loses the answer, so that the client sends the command
again. `Committed` is what other clients can read.

**RunnerExecution.** `row` is the reservation, `worker[w].at` the place of caller `w` in
`run_at_commit`. Store methods are single steps, because each runs under the store's lock or in
a transaction. `LoseStartAnswer` is the Docker client killed by its time limit after the daemon
accepted the start. `Crash` kills a caller of the persistent store.

**E2EGate.** A call of `evaluate` reads clock, keys and registries (`Evaluate`) and commits later
(`Commit`, `Replay`, `Raise`), with other calls, other lifecycle commands (`Elsewhere`) and
crashes in between. `stored`, `owner` and `process` are the receipts, the claims and the rows
of the runner; `Commit` writes all of them, as the transaction does.

**TavilyKeyPool.** One step per SQLite transaction. An acquire that finds no key is rolled back, the
reaping of leases and cooldowns with it; the pool is then projected in a second transaction
(`ProjectPool`), which commits the reaping whatever the acquire said (`refused` or `deferred`). Time is relative: `Tick` shortens leases and
cooldowns and ages windows, and a clock reading made before a transaction is a number of
ticks by which it is late.

**RemoteEnvSession.** `client`, `server` and `worker` with one message in each direction on the
`wire`. `Terminate` is a timeout, a broken connection or a check that fails at the client;
`EndSession` the same at the server; `Tick` may expire the grant between the server's check of
it (`ReadRequest`) and the worker's (`Work`, `WorkRaises`).

**LocalLlmRuntime.** `Start`, `StartFails`, `Probe`, `Close`, `Admit` and `Leave` hold the state
lock, including the network calls of a probe; `Post`, `Answer`, `Store`, `Drift` and `Raise` do not and
work on what `Admit` took along. `capacity` tells the semaphores of successive attachments apart.

**PublicValidation.** `Evaluate(e)` reads the log and makes the report and the events of its
outcome; `Commit(e)` offers them to the lifecycle at the head of that reading; `Elsewhere` is any
other command of the run. `gates` are the reports somebody holds, any of which may be given as
the prior unit gate. The number of earlier revisions (`prior_revision_count`) is any number the caller
names: the code compares it with its own successor and never with the log. `truthful` is a history
variable: every failure was judged by the count the log held. A plan carries its own
`revision_budget`; the model assumes that the plans of one run name the same (`RevisionBudget`).
The budget snapshots of commands are the caller's too and are compared only with each other
(`lifecycle.py:2973`); they are in `RunLifecycle` (`BudgetAccepts`), not in the ladder.

**OciExecution.** `Step` is the executor's thread; `Exit`, `Exceed`, `Delay` and `WaiterReturns` are the
container, its usage, the clock and the thread that waits for it. A command to the daemon that
fails may have been carried out.

**CompilePipeline.** `Begin` fixes the inputs of a chain, `RunStage` runs one stage of it, `StageRaises`
loses it, `Return` hands its results to the caller, who may `Advance` by them one by one or
`Recover`. **RunCoordinator** has one action per method.

**ArtifactRepository.** Opening is one exclusive transaction and putting one immediate one, so each
is an action. `AlterRow` and `AlterBlob` are damage of the file. What a process may read follows
from its registry, the contracts of the file and the lineage. `InitOld` is a file that the release of
schema version 8 left: `OldFiles` are the files there may be, and `OldFileHolds` says what such a file
keeps.

**ClarificationReplay.** `Enter` takes the lock or begins the transaction; `Insert` is one row;
`Fail` is anything raised inside the transaction, a connection closed under it, or a death.

**SingleAgentSuites, MultiAgentSuites.** Every call of an external environment may raise before or
after it acted, or return what the adapter refuses. `stepped`, `ran`, `given` and `act` are histories.

**PilotPublication.** One action per place where another call, an interrupt or a crash makes a
difference: looking for the output, the worker, each artifact, each file, the rename.

## Runs

All are exhaustive. The numbers are distinct states.

| Run | Instance | What it shows |
|---|---|---|
| `run_lifecycle` (1,114,575) | 2 approvals of a task, 1 of another artifact, 2 bindings, 1 counter with limit 2, 1 audit; ladder: 2 evaluators, 2 candidates, 2 methods, 2 classes of failure, 1 revision | `GateLadder`, `ClassifiedTaskApproved`, `RevocationRollsBack`; implements `RunProtocol`; `FrozenCandidateIsValidated`, `TruthfulCountsKeepTheBudget` of the ladder |
| `repository_commits` (165,238) | 2 runs, 2 clients, 3 command ids, 1 failure | tables agree after any failure, replays never change, answers are true; implements `CommandLedger` |
| `runner_execution` (563,363) | 2 callers with 3 calls each, both stores, with and without the terminal commit; 2 attempts in a container with a time limit of 2 and a grace of 1 | answers agree, attestations are bound to what ran, a started job is never retried, calls on the persistent store return; `VerdictIsEarned`, `AttemptsEnd` of the container |
| `e2e_gate` (203,084) | 2 calls at once, 2 runs, 3 requests of which two share an identifier, 3 verdicts of which two share one, logs to 4; index: 10 signed artifacts | a decision is the run's step; receipt, claims and attestation agree; a clarification is judged once |
| `tavily_pool` (1,706,771) | 2 processes, 2 keys, lease 1 tick, window 2 ticks and 2 requests, readings 1 tick late | reservations cover costs under the ceiling, a refused pool is dead, slot states and leases are kept |
| `environments` (2,264,273) | session: 5 requests, steps to 2, expiring grant; suites: 2 MetaDrive workers with 24 manifests, a Taxi and a MiniGrid worker, 2 policy threads; pilot: 2 calls, 1 edit | transcript is execution, the verifiers agree; the only environment out of reach is one that Taxi's factory refused; partitions stay apart, agents act on the state there is; what a pilot returned is what is published |
| `llm_runtime` (384,406) | 3 threads, 4 request ids with 3 claims, manifests of concurrency 1 and 2, 2 starts, 2 probes | calls are current, drift ends readiness, traces are backed |
| `compile_pipeline` (767,397) | 14 dossiers, chains of 1 or 16 stages from 2 entries, 2 manifests; coordinator: 2 heads, 2 manifests; tables: 14 artifacts, one of them with a payload that refers to less than its parents, 2 registries, files of version 8, 1 damage | progress is backed, a run ends once, what is intact is readable; implements `ArtifactStore` |

Why these bounds: two actors are needed for every race here, and a third only where two
already hold different things (LLM: a permit each, and one more that must be refused). Two
commands that claim one run and one id used twice need three ids. One failure is enough in
`repository_commits` because a failure restores the tables and leaves nothing behind that a
second could build on; that it does so is `TablesAgree`. A counter with limit 2 has the three
kinds of snapshot: empty, in between, exhausted. Leases of one tick with readings one tick
late are the smallest instance in which a reading can be taken before and used after a
deadline. One revision tells the last from the one after it; two candidates tell the judged one
from the one the run has come to. Artifacts of different kinds claim nothing in common, so the
replay index is explored for one kind at a time. One damage is enough for a read to notice, and
the artifacts include a lineage of five. A second MetaDrive environment is the one a failed reset
could leave behind. The bounds themselves (`MaxLog`, `MaxCalls`, `MaxFailures`, `MaxStarts`, `MaxProbes`,
`MaxTime`, `MaxAudits`, `MaxUsage`, `MaxLate`,
`MaxHead`, `MaxFailed`, `MaxAttempts`, `MaxManifests`, `MaxQueries`, `MaxDamage`, `MaxMade`, `MaxSteps`,
`MaxTicks`, `MaxEdits`, `MaxHypotheses`) are guards named in their modules; `MaxSequence`,
`MaxStep`, `MaxClaims`, `Limit`, `Rpm` and the ceilings are the code's own limits.

`CHECK_DEADLOCK FALSE` is set where the program may stop: a run is over and its audits are
used up, a session has ended, callers have made all their calls, command ids are used up. The
gate with the replay index, the LLM runtime and the Tavily pool can always move and are checked for deadlock.

**Fairness.** Two places state any: weak fairness of `Proceed(w)` in `RunnerExecution`, a caller's
next step inside a call, and of `Step` in `OciExecution`, the executor's thread. Every blocking call
the runner makes has a wall-clock limit, the collector polls by a monotonic clock, and threads
are scheduled. Of the container, the daemon and the thread that waits for the container nothing
is assumed, so that `AttemptsEnd` holds although the container never ends and kills are lost. Nobody is obliged to call. There is no fairness of
`Crash`, of the choice among outcomes, or of other callers, so `PersistentCallsReturn` does not
rest on luck. Elsewhere nothing promises progress: clients may stop retrying.

**Mutants.** Each property of a passing run has an operator beside the action it concerns,
marked `Mutant:`, that changes the action as a plausible bug would; put in its place, TLC
finds the property violated. They are not part of the models.

## Findings

Runs that are expected to be violated, each a disagreement between the code and a
statement of the repository:

- `runner_waiters`: `release` deletes an executing reservation of the memory store but leaves
  the object's state at `executing`; a caller that waits on that object is never woken
  (`fixed_commit_runner.py:4476`).
- `approval_of_failed_validation`: the approval gate makes one reason for rejection of each item a
  failed report left uncovered; a report that failed and names none is approved
  (`application/stages/stage11_approval_gate.py:58`, against its docstring at 101).
- `suite_reset`: a step is refused without a successful reset, but what the guards look at is kept
  from an earlier one when the last reset raised (`suite_adapters.py:1238` and 1184,
  `multi_agent_suite_adapters.py:514`); MetaDrive then steps an environment it has closed.
- `holm_adjustment`: the adjusted p-values take the maximum with the rank after instead of the rank
  before (`experiments/statistics.py:747`, against
  `docs/AutoMarkov_complete_development_specification.md:4283`): p = (0.01, 0.90) at 0.05 rejects
  nothing, p = (0.04, 0.045) rejects the larger one only.

Disagreements seen while modelling that have no run of their own:

- The revision budget is compared with what the caller says was revised before, and nobody compares
  that with the log (`public_validation.py:1018`; the lines before check only that the next number
  follows it). A caller that repeats 0 revises without end, in the model too (a run is revised twice
  under a budget of one), where the specification
  (`docs/AutoMarkov_complete_development_specification.md:2885`) has every back edge bounded and
  allows no endless loop. What the code keeps is `TruthfulCountsKeepTheBudget`.
- A retry is the same command with a later context; when it is older than the clock skew it is
  refused before its receipt is looked for (`adapters/repository/_core.py:3371`), so a lost answer is
  lost for good after that, where the specification (:2823) has the same key return the same
  result. The action `RefuseLate` models it.
- A decision turned into FAILED because an identifier is taken is committed under the
  fingerprint of the rewritten command; the committer compares it with the one it sent and
  raises, for ever (`sealed_evaluation.py:1550`), where the committers of the tests return it
  (`tests/contract/test_e2e_gate_protocol.py:1291`).
- Full request windows count as something to wait for even if they are of dead keys or long over,
  so a dead pool reports "temporarily unavailable" (`tavily_gateway.py:567`; the specification, :3376,
  has it block the run).
- The worker answers a second `Close` with the bytes of the first, envelope included, which the
  transport refuses (`remote_env.py:1617`).
- A run blocked while it waits for evidence names a state that a blocked run cannot go to
  (`lifecycle.py:2126`).
- In the default registry a terminal record has a `fixed_commit_job_manifest` for a parent
  (`adapters/repository/_core.py:1530`); the records of the last schema version have a `job_manifest`, so
  that under that registry they are unreadable after the migration, where
  `tests/contract/test_run_lifecycle.py:4099` has them stay readable. The run's registries are those of
  the tests; `default` in `MCArtifactRepository` is the other.
- The docstring of the production Tavily adapter calls its window sliding; it starts with the
  first request and is fixed, and crawls count against the window of the others
  (`adapters/tavily_gateway.py:196`).

Observations made while modelling, without a run of their own:

- The Docker client can be killed after the daemon accepted a start; `execution_started` is still
  false, the row is released and a retry starts a second container. `StartedIsNeverRetried` is
  therefore about starts the runner saw succeed.
- After a terminal result was committed, an error while it is being attested can mark the row
  failed; the result is then never attested.
- A retry of `evaluate` after the verdict expired raises although the first call succeeded, because
  the time windows are checked before the stored decision is looked up.
- The credit ceiling compares reservations only; usage that a provider reports beyond what was
  reserved is recorded and never compared (`tavily_gateway.py:590`).
- Taxi's factory builds the environment, compares it with what is pinned, and raises when they differ;
  nobody has the environment then and it is never closed (`suite_adapters.py:965`). No statement of
  the repository is about it. `OnlyARefusedTaxiStaysOpen` says that it is the only one.
- A lease can run out during a slow request, and a second request is then sent with the same
  key; the late answer changes nothing (`SlotsAreKept`).
- One completion with a wrong manifest hash makes the LLM runtime not ready for everybody, and a
  request declined for want of a permit keeps its id.
- `cli/main.py:34` calls `run_engineering_pilot` with a dictionary and without `repository_root`.
- A published pilot that did not pass is found and raised for ever; its name must be freed by hand.
- A worker of the pilot that fails with an empty message makes a report its schema rejects, so that
  nothing is published; an interrupt leaves the worker running in its own session.
- The source hashes of a pilot's report are taken after its worker ended (`pilots.py:867`): an edit
  while it trains is attested as what was run.
- The default registry has no contract for seven artifact types that commands name (`ood_handoff`,
  `signed_answer_bundle`, `slot_decision`, `replacement_policy`,
  `clarification_continuation_policy`, `job_manifest`, `run_audit_projection`); those commands
  need a registry of the caller's.
- `begin_recovery` and `begin_planning` of the coordinator set the phase without the transition
  table, and accept phases the table has no edge for (`application/coordinator.py:215`); `RunsEndOnce`
  holds all the same.

## Proofs

TLC checks the instances above; TLAPS proves for every value of the constants that satisfies the
named assumptions of the modules. Eight modules hold the proofs; those of components that a run
composes are in one module, about the composition. `BothAreThemselves` and `AllAreThemselves` prove that
a composed specification implies that of each component, so that every theorem about a component is
one about the run's specification too, and `TypesCorrect` proves the composed `TypesOK`. Every invariant, every action property and both refinements
that a passing run checks are proved, but for the fairness properties (below).

**`RunLifecycle_proofs`, the run** (from `RunLifecycleAssumption`). `TypeOK` is inductive. So is
`WaitingBound` with it: the suspension and resumption tables are small enough to expand, and a
run that waits carries what its table allows. `BudgetClosed` needs the case of the absent run,
`BudgetInv`. The other invariants are about `Stage`, the stage a suspended run left, which most
actions leave alone; the lemma `StageStep` says once what a step does to it (it stays, begins,
passes a gate, decides, goes back or ends) and each proof is then a case for each of the six.
`ResultInv` adds that the result is there exactly in terminal states. Theorems: `TypeCorrect`,
`WaitingCorrect`, `BudgetCorrect`, `LadderCorrect`, `ClassifiedCorrect`, `RevocationCorrect`,
`FinalCorrect`, and `Refinement`, that the run implements `RunProtocol` step by step.

**The public ladder**, in the same module (from `BudgetAssumption`). An evaluator commits what it judged
earlier, so the invariant `PublicInv` is about what it carries: a batch made at the present head
holds of the run as it is (`BatchesHold`), because every commit moves the head and makes the other
batches late. With it a unit gate, once passed, was passed by the candidate the run has
(`GatePassed`), what is frozen is that candidate at a level its reports earned (`FreezeEarned`), and
a batch at the present head, if every count so far was the log's, was judged by the revisions the
run has (`BudgetKept`), so that of two evaluators who count the same the second spends nothing.
Theorems: `PublicTypeCorrect`, `FrozenCorrect`, `TruthfulCountsCorrect`.

**`E2EGate_proofs`, the gate** (from the assumptions on requests, verdicts and the bound). The inductive
invariant is `Inductive`: the type, the three properties of the run and
`LogIsOpenBeforeItsEnd`, that a log holds a decision nowhere but at its end. It is needed for
`DecisionIsTheRunsStep`: that a run has one decision follows from a commit being possible only
while the last state is the sealed one. Theorems: `TypeCorrect`, `DecisionCorrect`,
`IdentifierCorrect`, `RecordsCorrect`.

**The replay index**, in the same module (from `ArtifactsAssumption`). The claims of one artifact are rows
written one by one. `ReplayInv` says that what can be read is all of an artifact or nothing
(`Whole`), that a claim has one owner (`Unique`), and that while a recorder has written some rows and
not all, they are claims of its own artifact, none of which anybody else has (`InTransaction`).
What a recorder heard stays true (`HeardHolds`) because nothing is ever taken back. Two artifacts
about the same thing share a claim, so both cannot be recorded. Theorems: `IndexTypeCorrect`,
`JudgedOnce`.

**`LocalLlmRuntime_proofs`** (from `ManifestAssumption`, and `CallerAssumption` for the permits).
The inductive invariant `Inductive` adds to the checked properties what they rest on: a runtime
that is ready was probed and the evidence is stored (`ReadyIsProbed`); so it was for every
completion in progress, and one about to store its trace has stored its response
(`CompletionsAreBacked`); suspects are evidence that exists, so that new evidence is none of them
(`SuspectsAreKnown`); a request in progress is claimed by nobody else and not yet sent while its
prompt is counted (`RequestsAreClaimed`); and the permits of a semaphore, not only the requests
at the server, are bounded (`PermitsAreBounded`, which needs `CallsAreCurrent`: all completions in
progress share one semaphore). `Steps` sorts the steps: `start`, `probe` and `close` are one kind
(`Attaches`), nothing being in progress. Theorems: `TypeCorrect`, `CurrentCorrect`,
`CapacityCorrect`, `DriftCorrect`, `RequestCorrect`, `TracesCorrect`.

**`LifecycleRepository_proofs`** (from `RepositoryAssumption`). The inductive invariant `Inv` says what
a commit in progress has done (`CommitsAreWhole`): the tables are those it found, but for the ones
it wrote so far, which are those of the finished command, and the command was acceptable to the
tables it found. It is needed because a table by itself is not consistent between two writes.
From it follows that what a reader sees (`Committed`) changes only when a commit ends, and then
from `d` to the result of one acceptable command on `d`; that is one lemma for every kind of command
and both stores, and everything else is proved of that step: the ledger's `Execute`
(`LedgerCorrect`), what clients heard (`AnswersCorrect`, with `Heard`), the agreement of the tables
(`TablesCorrect`), and that what a receipt is verified against is untouched by every later command
(`ReplayCorrect`: a receipt, once its records, artifacts, indexes and edge hold, is stable).

**`RunnerExecution_proofs`, the job** (from `WorkersAssumption`, `MaxCallsAssumption`). While a row says
executing one caller at most is past `reserve`, in memory one at most ever is (`Exclusive`); what each
state of the row implies (`RowHolds`); what a caller past the checkpoint carries; and that a job whose
container was seen has a row that never executes again (`StartSeen`). Theorems: `TypeCorrect`,
`AnswersCorrect`, `AttestationCorrect`, `StartedCorrect`.

**The container of an attempt**, in the same module (from `TimesAssumption`). The collector's verdict is
drawn from a container it does not control, so `OciInv` ties what it has recorded to what is over for
good: evidence of a success is of a container that exited with code 0, has written all of its
output and was never asked to stop (`EvidenceHolds`); on the way out, unless an error was raised, the
container, the image and the scratch directory are gone one after the other (`Cleaned`); the clock of the poll stays within the wall
time and the grace (`Clock`). Theorems: `OciTypeCorrect`, `VerdictCorrect`.

**`TavilyKeyPool_proofs`** (from `TavilyAssumption`, `CallersAssumption`). The strengthening is small: a key
that is leased is available, and when a call was refused every key is dead. Most of the proof is
that a clock reading that is late by no more than `MaxLate` cannot end a lease early. Theorems:
`TypeCorrect` (with it, that no window ever counts more than its limit), `SlotsCorrect`, `PoolCorrect`.
`AccountCorrect` is about a sum over all calls in flight, for any number of callers: what failed requests
may have cost and what is in flight never exceeds what was reserved (`Account`). A step moves the
credits of one call, and that the rest of the sum stays what it was is proved by the smallest set
for which it would not.

**`Environments_proofs`, the remote session** (from `GrantAssumption`, `MaxTimeAssumption`). There is one
request at most; the invariant follows it: on its way to the server it has not been executed, at
the server it has been if the worker is done, on its way back it has been and is the only one
unanswered; and the two verifiers have accepted the same number of requests whenever none is
between them. Theorems: `TypeCorrect`, `TranscriptCorrect`, `VerifiersCorrect`. The steps since the last
reset are counted along a recursive function, which one more request unfolds.

**The single-agent suites** (from `SuitesAssumption`, `BoundsAssumption`; for the type also that the manifest
a worker is given has all three partitions, `Given`). `SuitesInv`: a MetaDrive worker that was built
has a well-formed manifest, and has run scenarios of its own partition only (`OwnPartition`); that
partitions are apart then follows from the manifest being well-formed for every worker. Theorems:
`SuitesTypeCorrect`, `OpenCorrect` (of any number of workers and environments), `PartitionsApart`.
`OpenCorrect` rests on `WorkerLeavesNothing`: an environment its worker does not hold is closed,
but for what a refusal of Taxi's factory left.

**The multi-agent suites** (from `ManifestAssumption`, `MaxTicksAssumption`). `AgentsInv`: no snapshot of a policy
thread is ahead of the adapter, those of its own step are of the state the battle is in
(`SnapshotsInOrder`), and CityLearn's simulation has moved as often as its time step says
(`TransitionsInOrder`); both while no reset has failed, as the property says. Theorems:
`AgentsTypeCorrect`, `AgentsActCorrectly`.

**The pilot** (from `PilotAssumption`). What is published was published by a call that is over (`Backs`), so
that its report is not overwritten; a call that stores, writes or publishes has the report of its
own worker's ending and, when it publishes, all artifacts and files (`CallInv`). Theorems:
`PilotTypeCorrect`, `ReturnedCorrect`.

**`CompilePipeline_proofs`, the pipeline** (from the assumptions on stages and manifests). What moves an
orchestrator is the result of some chain, so `PipelineInv` follows an output from the chain that made
it (`CallHolds`) through the results that came back (`ResultsHold`) and what the caller holds
(`HoldingsHold`) into the chain that uses it: it is of a stage that returns at all, a manifest comes with
an event, a routed request has the route of its own kind and name, and a reused candidate is
official. Theorems: `PipelineTypeCorrect`, `ProgressCorrect`. Both assume that no caller constructs its
orchestrator at `package_candidate` or `terminal_cas` (`Entries \cap Unreached = {}`): the class does not
forbid it, and an orchestrator constructed behind a stage that only raises is behind it.

**The artifact tables**, in the same module (from `TablesAssumption`). `TablesInv`: what is stored has its
parents stored and says of them what they say (`Closed`); the table has a contract for every type
something is stored of (`ContractsKept`); whoever has the table's contracts of an artifact and its
parents has ones that admit it (`Admitted`); and until the migration, everything is stored under the
contracts it was written with (`OldHolds`). A read verifies the whole lineage. That `Lineage`, a
recursive function, is the fixpoint it looks like, and closed under parents, is
`LineageUnfolds` and `LineageComplete`. Theorems: `TablesTypeCorrect`, `ReadableCorrect`,
`TablesImplementMemory`. The assumptions say what the code relies on: registries are frozen and name
every type; identifiers are hashes that cover the parents, so that no line of ancestors is
endless (`AncestryAssumption`); `Refs` finds in a payload what a schema binds; and an old file is one
the old release could write, whose artifacts the contracts of the migrating registry admit
(`OldFilesAssumption`). The last is not checked by the migration: it replaces contracts without
looking at what is stored under them. The default registry satisfies the assumption only because it
has no contract for a `job_manifest`, so that under it old terminal records cannot be read at all (see
Findings).

**The coordinator**, in the same module (from `AbsentAssumption`). An idle run has no recovery behind it; with
that, the two methods that bypass the table keep `RunsEndOnce` (`EndCorrect`).

Proved but in no run, having been checked by one before it gave way to another property:
`WaitingBound`, `BudgetClosed`, `ResultIsFinal`, `IdentifierServesOnce`, `ServerIsNotOverloaded`,
`RequestIsSentOnce`, and the type invariant of the pool.

Only model-checked: `PersistentCallsReturn` and `AttemptsEnd`, which hold under fairness, for the
prover has no liveness and no ENABLED; and the statements the code does not keep,
`AdjustedAsSpecified` of `HolmStepDown` among them, which a run refutes. The library's induction
theorems take an operator as a parameter, which no installed prover can instantiate; where a proof
needs induction over a set or a lineage it takes the least counterexample instead, and where it
needs a recursive function, that the function `CHOOSE` picks satisfies its equation.

## Not modelled

- Signatures, hashes and schemas are what they decide: a check passes or it does not. Equal
  payloads have equal hashes and nobody forges one; that is `domain/canonical.py` and
  cryptography. Equal fingerprints mean equal commands.
- A crash of the process loses a memory store; nothing is left to be wrong about, so `Crash` in
  `RunnerExecution` is of the persistent store.
- The committers that only tests use (`sealed_evaluation.py:1700`) record a second FAILED result
  for a run that is already decided; the repository's, which is modelled, does not.
- The preflight of the runner (git tree, mounts, arguments) passes or fails; the scanners of outputs
  are a choice.
- Schemas and reports of the sealed training phases, payload schemas of artifacts, and the frozen
  default registry are data.
- Stages 14 to 16 of the compile pipeline exist but nothing registers them; the registry's
  functions for them, which fail, are modelled.
- MPE2's actor inputs are stateless projections; the profile contracts of the suites are records
  compared with frozen ones. What a pilot's worker trains is the library's.
- The bindings of clarification verdicts and outcomes to their requests are comparisons of
  immutable fields, as are the freeze, baseline and release gates and evidence access: a model
  would repeat each predicate.
- The production Tavily adapter has one table under one lock, of which every step only moves a
  deadline forward.
- Bootstrap and normal quantiles, training, the sandbox launcher, formal AST schemas, canonical JSON,
  the command line and provenance reports: numerics, external libraries, data, input and output.

## Plan

Done: every component with state of its own, and proofs of everything its runs check but the
fairness properties. What is left, in this order:

1. Lemmas of the proof modules that say the same of two components (a sum over a set, one actor's
   step leaves the others) as a module of their own.
2. `LifecycleRepository` with the states of `RunLifecycle` instead of four values, as a refinement.
3. The batches of the public ladder as commands of `RunLifecycle` instead of the vocabulary of its own.
4. The schemas of the sealed training phases as payloads of `RunLifecycle`.
