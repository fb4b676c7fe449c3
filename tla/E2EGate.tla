------------------------------ MODULE E2EGate ------------------------------
(***************************************************************************)
(* The sealed end-to-end gate: SealedE2EGate.evaluate turns a signed       *)
(* request and a signed verdict into a decision, and the artifact          *)
(* repository materialises the decision: the lifecycle events of the run,  *)
(* the attestation of the runner's process, the receipt and the claims on  *)
(* every identifier the decision used, all in one transaction.             *)
(*                                                                         *)
(* A call reads the clock, the keys and the registries first and commits   *)
(* later, so other calls, other lifecycle commands and a crash come in     *)
(* between.  Requests and verdicts are signed artifacts; what their        *)
(* signatures, hashes and time windows say is whether a call verifies.     *)
(***************************************************************************)
EXTENDS Integers, Sequences

CONSTANTS
    Callers,      \* calls of evaluate under way at once
    Runs,
    Ids,          \* request and verdict identifiers, with their nonces
    Requests,     \* E2EGateEvaluationRequest artifacts
    Verdicts,     \* E2EGateVerdict artifacts, one process execution for each
    MaxLog        \* bound: transitions of a run from its first sealed head

ASSUME RequestAssumption == Requests \subseteq [id: Ids, run: Runs, head: Nat \ {0}]
ASSUME VerdictAssumption ==
    Verdicts \subseteq [id: Ids, request: Requests, passed: BOOLEAN]
ASSUME MaxLogAssumption == MaxLog \in Nat

VARIABLES
    log,      \* states a run went through since it was first sealed
    process,  \* the runner's row of the process that produced a verdict
    stored,   \* e2e_gate_materializations: position of the decision in the log
    owner,    \* e2e_gate_claims
    call      \* the command a call has built, and how the last one ended

vars == <<log, process, stored, owner, call>>

Decisions == {"TRAINING_SMOKE_TESTING", "PARTIAL", "FAILED"}
States == Decisions \cup {"SEALED_E2E_VALIDATING", "WAITING_RUNTIME",
                          "BUDGET_EXHAUSTED"}

\* An E2EGateCommitCommand without committed_at, which is what its fingerprint
\* covers.
Commands == [request: Requests, verdict: Verdicts, decision: Decisions]

\* A decision claims what belongs to its run (the candidate, the coordinator's,
\* the evaluator's and the three workers' keys there) and the request's and the
\* verdict's identifier and nonce, wherever they are used.
ClaimKeys == [kind: {"subject"}, key: Runs] \cup [kind: {"request", "verdict"}, key: Ids]
Claims(c) == {[kind |-> "subject", key |-> c.request.run],
              [kind |-> "request", key |-> c.request.id],
              [kind |-> "verdict", key |-> c.verdict.id]}

NoCommand == [decision |-> "none"]

TypeOK ==
    /\ log \in [Runs -> Seq(States)]
    /\ process \in [Verdicts -> {"running", "checkpointed", "attested", "terminal"}]
    /\ stored \in [Commands -> Nat]
    /\ owner \in [ClaimKeys -> Commands \cup {NoCommand}]
    /\ call \in [Callers -> [command: Commands \cup {NoCommand},
                             ended: {"none", "answered", "raised", "refused"}]]

Init ==
    /\ log = [r \in Runs |-> <<"SEALED_E2E_VALIDATING">>]
    /\ process = [v \in Verdicts |-> "running"]
    /\ stored = [c \in Commands |-> 0]
    /\ owner = [k \in ClaimKeys |-> NoCommand]
    /\ call = [p \in Callers |-> [command |-> NoCommand, ended |-> "none"]]

---------------------------------------------------------------------------
(* What goes on around the gate.                                           *)

\* FixedCommitRunner finishes the process whose only output is the verdict.
Checkpoint(v) ==
    /\ process[v] = "running"
    /\ process' = [process EXCEPT ![v] = "checkpointed"]
    /\ UNCHANGED <<log, stored, owner, call>>

\* Lifecycle commands of anybody else: the run waits for the evaluator and is
\* resumed, is given up, or is moved on by a command that is not the gate's.
Moves(s) == IF s = "SEALED_E2E_VALIDATING" THEN States \ {s}
            ELSE IF s = "WAITING_RUNTIME" THEN {"SEALED_E2E_VALIDATING", "PARTIAL"}
            ELSE {}

Elsewhere(r) ==
    /\ Len(log[r]) < MaxLog
    /\ \E s \in Moves(log[r][Len(log[r])]) : log' = [log EXCEPT ![r] = Append(@, s)]
    /\ UNCHANGED <<process, stored, owner, call>>

---------------------------------------------------------------------------
(* SealedE2EGate.evaluate.                                                 *)

\* Only a verdict on this very request can verify; it does not when a signature,
\* a key, a time window or a registry says no, or when a registry cannot be
\* read, and then the decision is an integrity failure.
DecisionsOn(request, verdict) ==
    {"FAILED"} \cup
    (IF verdict.request # request THEN {}
     ELSE IF verdict.passed THEN {"TRAINING_SMOKE_TESTING"} ELSE {"PARTIAL"})

Evaluate(p, request, verdict) ==
    /\ call[p].command = NoCommand
    /\ \E decision \in DecisionsOn(request, verdict) :
         call' = [call EXCEPT ![p] =
           [command |-> [request |-> request, verdict |-> verdict, decision |-> decision],
            ended |-> "none"]]
    /\ UNCHANGED <<log, process, stored, owner>>

\* The process of the call dies before it commits.
Crash(p) ==
    /\ call[p].command # NoCommand
    /\ call' = [call EXCEPT ![p] = [command |-> NoCommand, ended |-> "none"]]
    /\ UNCHANGED <<log, process, stored, owner>>

---------------------------------------------------------------------------
(* materialize_e2e_gate_atomically.                                        *)

Conflicts(c) == \E k \in Claims(c) : owner[k] \notin {c, NoCommand}

\* A command that needs a claim another one holds becomes an integrity failure,
\* whatever it was decided.
Admitted(c) == IF stored[c] = 0 /\ Conflicts(c) THEN [c EXCEPT !.decision = "FAILED"] ELSE c

\* The plan needs the run to be sealed at exactly the head the request names and
\* a finished process of that run, not attested yet, whose only output is the
\* verdict; the lifecycle's own compare-and-swap needs that head to be the last.
Plannable(c) ==
    /\ c.request.head <= Len(log[c.request.run])
    /\ log[c.request.run][c.request.head] = "SEALED_E2E_VALIDATING"
    /\ process[c.verdict] = "checkpointed"
    /\ c.verdict.request.run = c.request.run

\* Mutant: the head the request names need not be the last one.
AtHeadOrLater(c) == Len(log[c.request.run]) >= c.request.head

AtHead(c) == Len(log[c.request.run]) = c.request.head

\* An attestation names the terminal result, or that there is none.
Attestation(c) == IF c.decision = "TRAINING_SMOKE_TESTING" THEN "attested" ELSE "terminal"

\* Mutant: an integrity failure claims nothing.
MaterializeUnclaimed(c) ==
    /\ log' = [log EXCEPT ![c.request.run] = Append(@, c.decision)]
    /\ process' = [process EXCEPT ![c.verdict] = Attestation(c)]
    /\ stored' = [stored EXCEPT ![c] = Len(log[c.request.run]) + 1]
    /\ owner' = [k \in ClaimKeys |->
                   IF c.decision # "FAILED" /\ k \in Claims(c) /\ owner[k] = NoCommand
                   THEN c ELSE owner[k]]

Materialize(c) ==
    /\ log' = [log EXCEPT ![c.request.run] = Append(@, c.decision)]
    /\ process' = [process EXCEPT ![c.verdict] = Attestation(c)]
    /\ stored' = [stored EXCEPT ![c] = Len(log[c.request.run]) + 1]
    /\ owner' = [k \in ClaimKeys |->
                   IF k \in Claims(c) /\ owner[k] = NoCommand THEN c ELSE owner[k]]

\* ArtifactLifecycleE2EGateCommitter takes a receipt for the command it sent and
\* no other.
Return(p, c) ==
    call' = [call EXCEPT ![p] =
               [command |-> NoCommand,
                ended |-> IF c = call[p].command THEN "answered" ELSE "refused"]]

Commit(p) ==
    /\ call[p].command # NoCommand
    /\ LET c == Admitted(call[p].command) IN
         /\ stored[c] = 0
         /\ Plannable(c)
         /\ AtHead(c)
         /\ Materialize(c)
         /\ Return(p, c)

\* The command has been materialised: the stored receipt is checked against the
\* lifecycle's and the runner's records and returned again.
Replay(p) ==
    /\ call[p].command # NoCommand
    /\ LET c == Admitted(call[p].command) IN stored[c] # 0 /\ Return(p, c)
    /\ UNCHANGED <<log, process, stored, owner>>

\* The plan, the compare-and-swap or the runner refuse: nothing is written.
Raise(p) ==
    /\ call[p].command # NoCommand
    /\ LET c == Admitted(call[p].command) IN
         /\ stored[c] = 0
         /\ ~(Plannable(c) /\ AtHead(c))
    /\ call' = [call EXCEPT ![p] = [command |-> NoCommand, ended |-> "raised"]]
    /\ UNCHANGED <<log, process, stored, owner>>

Next ==
    \/ \E v \in Verdicts : Checkpoint(v)
    \/ \E r \in Runs : Elsewhere(r)
    \/ \E p \in Callers :
         \/ \E request \in Requests, verdict \in Verdicts : Evaluate(p, request, verdict)
         \/ Commit(p)
         \/ Replay(p)
         \/ Raise(p)
         \/ Crash(p)

Spec == Init /\ [][Next]_vars

---------------------------------------------------------------------------
(* Properties.                                                             *)

Materialized == {c \in Commands : stored[c] # 0}

\* A run is decided by the gate at most once, at the sealed head the request was
\* signed for, and what its log says there is the decision: two evaluations that
\* race for a run, or one signed before the run waited and came back, cannot both
\* be recorded.
DecisionIsTheRunsStep ==
    /\ \A c \in Materialized :
         /\ stored[c] = c.request.head + 1
         /\ stored[c] <= Len(log[c.request.run])
         /\ log[c.request.run][stored[c]] = c.decision
         /\ log[c.request.run][c.request.head] = "SEALED_E2E_VALIDATING"
    /\ \A c, d \in Materialized : c.request.run = d.request.run => c = d

\* An identifier or nonce stands behind one judgement: whoever uses it again, for
\* another run or with another verdict, ends as an integrity failure.
IdentifierServesOnce ==
    \A c, d \in Materialized :
      c # d /\ Claims(c) \cap Claims(d) # {} => "FAILED" \in {c.decision, d.decision}

\* The receipt, its claims and the runner's attestation are written together: every
\* claim of a decision is held, by a decision that has it, and the process behind
\* it is attested to end the run exactly if the decision does.
RecordsAgree ==
    /\ \A c \in Materialized : \A k \in Claims(c) : owner[k] # NoCommand
    /\ \A k \in ClaimKeys : owner[k] # NoCommand =>
         owner[k] \in Materialized /\ k \in Claims(owner[k])
    /\ \A v \in Verdicts :
         IF process[v] \in {"running", "checkpointed"}
           THEN \A c \in Materialized : c.verdict # v
           ELSE \E c \in Materialized : c.verdict = v /\ process[v] = Attestation(c)

=============================================================================
