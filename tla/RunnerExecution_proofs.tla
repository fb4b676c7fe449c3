------------------------ MODULE RunnerExecution_proofs ------------------------
(***************************************************************************)
(* A fixed-commit job with any number of callers and calls, either store.  *)
(* The strengthening is who may be inside the job: while a row says        *)
(* executing one caller at most is past reserve, so that only it can give  *)
(* the row back or settle it; in memory one caller at most ever is; and a  *)
(* caller past the checkpoint carries the checkpoint's evidence and, when  *)
(* it signs, the terminal result of the run.  The second part is about the *)
(* container of one attempt, for every wall time and number of attempts.   *)
(***************************************************************************)
EXTENDS JobAndContainer, TLAPS

At(w) == worker[w].at

\* Past reserve, and not back yet.
Inside(w) == At(w) \notin {"idle", "replayed", "waiting"}

\* Before the checkpoint, and after it.
Owner(w) == Executing(w) \/ At(w) \in {"running", "checkpointing", "recording"}
Settled(w) == Resuming(w) \/ At(w) \in {"committing", "signing", "record_committing", "record_signing"}

Exclusive ==
    /\ row.state = "executing" \/ store = "memory" =>
         \A v, w \in Workers : Inside(v) /\ Inside(w) => v = w
    /\ store = "memory" => \A w \in Workers : Inside(w) => Held

RowHolds ==
    /\ row.state \in {"absent", "executing"} => row.checkpoint = None /\ terminal = None
    /\ row.state \in {"checkpointed", "completed"} => row.checkpoint # None
    /\ row.state = "executing" => row.active
    /\ row.result # NoAttestation => row.state = "completed"
    /\ terminal \in {None, row.checkpoint}
    /\ ~endsRun => terminal = None
    /\ AttestationIsBound

WorkerHolds(w) ==
    /\ Inside(w) => row.state # "absent"
    /\ Owner(w) => row.state = "executing"
    /\ Settled(w) => row.state \in {"checkpointed", "completed", "failed"}
    /\ Settled(w) => worker[w].evidence = row.checkpoint
    /\ Settled(w) \/ At(w) \in {"checkpointing", "recording"} => worker[w].evidence # None
    /\ At(w) \in {"running", "checkpointing"} => containers > 0
    /\ At(w) \in {"recording", "record_committing", "record_signing"} =>
         worker[w].evidence.status = "terminal_failure"
    /\ At(w) \in {"signing", "record_signing"} =>
         worker[w].terminal = terminal /\ (endsRun => terminal # None)
    /\ ~endsRun => worker[w].terminal = None
    /\ At(w) = "failing" => row.checkpoint.status # "success"

\* Once a start was seen, no caller is before its start, and none can give the row back.
StartSeen ==
    observed > 0 =>
      /\ row.state # "absent"
      /\ row.state = "executing" => \A w \in Workers : ~Executing(w) /\ At(w) # "releasing"

Inv ==
    /\ TypeOK
    /\ Exclusive
    /\ RowHolds
    /\ \A w \in Workers : WorkerHolds(w)
    /\ StartSeen
    /\ AnswersAgree

LEMMA InvInit == Init => Inv
<1> SUFFICES ASSUME Init PROVE Inv
  OBVIOUS
<1>1. TypeOK
  BY MaxCallsAssumption DEF Init, TypeOK, Rows, RowStates, Worker, Positions
<1>2. /\ row = [state |-> "absent", generation |-> 0, checkpoint |-> None,
                result |-> NoAttestation, active |-> FALSE]
      /\ terminal = None /\ observed = 0
      /\ \A w \in Workers : /\ worker[w] = [at |-> "idle", calls |-> 0, generation |-> 0,
                                            evidence |-> None, terminal |-> None]
                            /\ answer[w] = NoAttestation
  BY DEF Init
<1> QED
  BY <1>1, <1>2 DEF Inv, Exclusive, Inside, At, RowHolds, WorkerHolds, Owner, Settled, Executing, Resuming,
      StartSeen, AnswersAgree, AttestationIsBound, None

\* The values a step draws on have their types.
LEMMA Types ==
    ASSUME TypeOK, NEW w \in Workers
    PROVE  /\ row = [state |-> row.state, generation |-> row.generation, checkpoint |-> row.checkpoint,
                     result |-> row.result, active |-> row.active]
           /\ row.generation \in Nat /\ row.state \in RowStates /\ row.active \in BOOLEAN
           /\ row.checkpoint \in Evidence \cup {None}
           /\ row.result \in Attestation \cup {NoAttestation}
           /\ worker[w] \in Worker
           /\ worker[w].at \in Positions /\ worker[w].calls \in 0..MaxCalls
           /\ worker[w].generation \in Nat
           /\ worker[w].evidence \in Evidence \cup {None}
           /\ worker[w].terminal \in Evidence \cup {None}
  BY DEF TypeOK, Rows, Worker

USE DEF At, Inside, Owner, Settled, Executing, Resuming

LEMMA ReturnMoves ==
    ASSUME TypeOK, NEW w \in Workers, NEW value \in Attestation \cup {NoAttestation}, Return(w, value)
    PROVE  /\ worker' \in [Workers -> Worker]
           /\ worker'[w].at = "idle" /\ worker'[w].terminal = None
           /\ \A v \in Workers : v # w => worker'[v] = worker[v]
           /\ answer' \in [Workers -> Attestation \cup {NoAttestation}]
           /\ answer'[w] = value
           /\ \A v \in Workers : v # w => answer'[v] = answer[v]
<1> DEFINE x == [worker[w] EXCEPT !.at = "idle", !.generation = 0, !.evidence = None, !.terminal = None]
<1>1. x \in Worker /\ x.at = "idle" /\ x.terminal = None
  BY Types DEF Worker, Positions
<1>2. worker' = [worker EXCEPT ![w] = x]
  BY DEF Return
<1> HIDE DEF x
<1>3. /\ worker' \in [Workers -> Worker] /\ worker'[w] = x
      /\ \A v \in Workers : v # w => worker'[v] = worker[v]
  BY <1>1, <1>2 DEF TypeOK
<1>4. /\ answer' \in [Workers -> Attestation \cup {NoAttestation}]
      /\ answer'[w] = value
      /\ \A v \in Workers : v # w => answer'[v] = answer[v]
  BY DEF Return, TypeOK
<1> QED
  BY <1>1, <1>3, <1>4

LEMMA GoToMoves ==
    ASSUME TypeOK, NEW w \in Workers, NEW place \in Positions, GoTo(w, place)
    PROVE  /\ worker' \in [Workers -> Worker]
           /\ worker'[w] = [worker[w] EXCEPT !.at = place]
           /\ worker'[w].at = place /\ worker'[w].evidence = worker[w].evidence
           /\ worker'[w].terminal = worker[w].terminal
           /\ \A v \in Workers : v # w => worker'[v] = worker[v]
<1> DEFINE x == [worker[w] EXCEPT !.at = place]
<1>1. x \in Worker /\ x.at = place /\ x.evidence = worker[w].evidence /\ x.terminal = worker[w].terminal
  BY Types DEF Worker
<1>2. worker' = [worker EXCEPT ![w] = x]
  BY DEF GoTo
<1>3. x = [worker[w] EXCEPT !.at = place]
  OBVIOUS
<1> HIDE DEF x
<1> QED
  BY <1>1, <1>2, <1>3 DEF TypeOK

LEMMA GrantMoves ==
    ASSUME TypeOK, NEW w \in Workers, NEW n \in Nat, NEW kept \in Evidence \cup {None},
           Grant(w, n, kept)
    PROVE  /\ worker' \in [Workers -> Worker]
           /\ worker'[w].at = "granted" /\ worker'[w].evidence = kept
           /\ worker'[w].terminal = worker[w].terminal
           /\ \A v \in Workers : v # w => worker'[v] = worker[v]
<1> DEFINE x == [worker[w] EXCEPT !.at = "granted", !.generation = n, !.evidence = kept]
<1>1. /\ x \in Worker /\ x.at = "granted" /\ x.evidence = kept /\ x.terminal = worker[w].terminal
  BY Types DEF Worker, Positions
<1>2. worker' = [worker EXCEPT ![w] = x]
  BY DEF Grant
<1> HIDE DEF x
<1> QED
  BY <1>1, <1>2 DEF TypeOK

\* A call that ends and leaves the row as it is.
LEMMA BackStep ==
    ASSUME Inv, NEW w \in Workers, NEW value,
           value = NoAttestation \/ (row.state = "completed" /\ value = row.result),
           Return(w, value), UNCHANGED <<configuration, row, terminal, outside>>
    PROVE  Inv'
<1>0. value \in Attestation \cup {NoAttestation}
  BY Types DEF Inv
<1>1. /\ worker' \in [Workers -> Worker]
      /\ worker'[w].at = "idle" /\ worker'[w].terminal = None
      /\ \A v \in Workers : v # w => worker'[v] = worker[v]
      /\ answer' \in [Workers -> Attestation \cup {NoAttestation}]
      /\ answer'[w] = value
      /\ \A v \in Workers : v # w => answer'[v] = answer[v]
  BY <1>0, ReturnMoves DEF Inv
<1>2. TypeOK'
  BY <1>1 DEF Inv, TypeOK, configuration, outside
<1>3. Exclusive'
  BY <1>1 DEF Inv, Exclusive, Held, configuration
<1>4. RowHolds'
  BY DEF Inv, RowHolds, AttestationIsBound, configuration
<1>5. \A v \in Workers : WorkerHolds(v)'
  BY <1>1 DEF Inv, WorkerHolds, configuration, outside
<1>6. StartSeen'
  BY <1>1 DEF Inv, StartSeen, outside
<1>7. AnswersAgree'
  BY <1>1 DEF Inv, AnswersAgree
<1> QED
  BY <1>2, <1>3, <1>4, <1>5, <1>6, <1>7 DEF Inv

\* reserve hands out a checkpoint.
LEMMA ResumptionStep ==
    ASSUME Inv, NEW w \in Workers, At(w) \in {"replayed", "waiting"},
           row.state = "checkpointed", store = "memory" => ~Held,
           row' = [row EXCEPT !.active = TRUE], Grant(w, row.generation, row.checkpoint),
           UNCHANGED <<configuration, terminal, outside, answer>>
    PROVE  Inv'
<1>1. /\ worker' \in [Workers -> Worker]
      /\ worker'[w].at = "granted" /\ worker'[w].evidence = row.checkpoint
      /\ worker'[w].terminal = worker[w].terminal
      /\ \A v \in Workers : v # w => worker'[v] = worker[v]
  BY Types, GrantMoves DEF Inv
<1>2. row' \in Rows /\ row'.state = row.state /\ row'.checkpoint = row.checkpoint
      /\ row'.result = row.result /\ row'.active = TRUE
  BY Types DEF Inv, TypeOK, Rows
<1>3. TypeOK'
  BY <1>1, <1>2 DEF Inv, TypeOK, configuration, outside
<1>4. Exclusive'
  BY <1>1, <1>2 DEF Inv, Exclusive, Held, configuration
<1>5. RowHolds'
  BY <1>2 DEF Inv, RowHolds, AttestationIsBound, configuration
<1>6. \A v \in Workers : WorkerHolds(v)'
  BY <1>1, <1>2 DEF Inv, RowHolds, WorkerHolds, configuration, outside
<1>7. StartSeen'
  BY <1>1, <1>2 DEF Inv, StartSeen, outside
<1>8. AnswersAgree'
  BY <1>2 DEF Inv, AnswersAgree
<1> QED
  BY <1>3, <1>4, <1>5, <1>6, <1>7, <1>8 DEF Inv

LEMMA SettledStep ==
    ASSUME Inv, NEW w \in Workers, At(w) \in {"replayed", "waiting"},
           store = "memory" => ~Held, ReserveSettled(w),
           UNCHANGED <<configuration, terminal, outside>>
    PROVE  Inv'
<1>1. CASE row.state = "completed" /\ Return(w, row.result) /\ UNCHANGED row
  BY <1>1, BackStep
<1>2. CASE row.state = "failed" /\ Return(w, NoAttestation) /\ UNCHANGED row
  BY <1>2, BackStep
<1>3. CASE /\ row.state = "checkpointed" /\ row' = [row EXCEPT !.active = TRUE]
           /\ Grant(w, row.generation, row.checkpoint) /\ UNCHANGED answer
  BY <1>3, ResumptionStep
<1> QED
  BY <1>1, <1>2, <1>3 DEF ReserveSettled

LEMMA CallStep ==
    ASSUME Inv, NEW w \in Workers, Call(w) PROVE Inv'
<1>1. CASE row.state = "completed"
  <2> DEFINE x == [worker[w] EXCEPT !.calls = @ + 1]
  <2>1. x \in Worker /\ x.at = "idle" /\ x.evidence = worker[w].evidence /\ x.terminal = worker[w].terminal
    BY Types, MaxCallsAssumption DEF Inv, Call, Worker
  <2>2. worker' = [worker EXCEPT ![w] = x] /\ answer' = [answer EXCEPT ![w] = row.result]
    BY <1>1 DEF Call
  <2> HIDE DEF x
  <2>3. /\ worker' \in [Workers -> Worker] /\ worker'[w] = x
        /\ \A v \in Workers : v # w => worker'[v] = worker[v]
    BY <2>1, <2>2 DEF Inv, TypeOK
  <2>4. /\ answer' \in [Workers -> Attestation \cup {NoAttestation}]
        /\ answer'[w] = row.result
        /\ \A v \in Workers : v # w => answer'[v] = answer[v]
    BY <2>2, Types DEF Inv, TypeOK
  <2>5. worker[w].at = "idle"
    BY DEF Call
  <2>6. \A v \in Workers : worker'[v].at = worker[v].at /\ worker'[v].evidence = worker[v].evidence
                           /\ worker'[v].terminal = worker[v].terminal
    BY <2>1, <2>3, <2>5
  <2>7. UNCHANGED <<configuration, row, terminal, outside>>
    BY DEF Call
  <2>8. TypeOK'
    BY <2>3, <2>4, <2>7 DEF Inv, TypeOK, configuration, outside
  <2>9. Exclusive' /\ RowHolds' /\ StartSeen'
    BY <2>6, <2>7 DEF Inv, Exclusive, Held, RowHolds, AttestationIsBound, StartSeen, configuration, outside
  <2>10. \A v \in Workers : WorkerHolds(v)'
    BY <2>6, <2>7 DEF Inv, WorkerHolds, configuration, outside
  <2>11. AnswersAgree'
    BY <1>1, <2>4, <2>7 DEF Inv, AnswersAgree
  <2> QED
    BY <2>8, <2>9, <2>10, <2>11 DEF Inv
<1>2. CASE row.state # "completed"
  <2> DEFINE x == [worker[w] EXCEPT !.calls = @ + 1, !.at = "replayed"]
  <2>1. x \in Worker /\ x.at = "replayed" /\ x.terminal = worker[w].terminal
    <3>1. worker[w].calls + 1 \in 0..MaxCalls
      BY Types, MaxCallsAssumption DEF Inv, Call
    <3> QED
      BY <3>1, Types DEF Inv, Worker, Positions
  <2>2. worker' = [worker EXCEPT ![w] = x] /\ UNCHANGED <<configuration, row, terminal, outside, answer>>
    BY <1>2 DEF Call
  <2> HIDE DEF x
  <2>3. /\ worker' \in [Workers -> Worker] /\ worker'[w] = x
        /\ \A v \in Workers : v # w => worker'[v] = worker[v]
    BY <2>1, <2>2 DEF Inv, TypeOK
  <2>4. TypeOK'
    BY <2>2, <2>3 DEF Inv, TypeOK, configuration, outside
  <2>5. Exclusive'
    BY <2>1, <2>2, <2>3 DEF Inv, Exclusive, Held, configuration
  <2>6. RowHolds' /\ AnswersAgree'
    BY <2>2 DEF Inv, RowHolds, AttestationIsBound, AnswersAgree, configuration
  <2>7. \A v \in Workers : WorkerHolds(v)'
    BY <2>1, <2>2, <2>3 DEF Inv, WorkerHolds, configuration, outside
  <2>8. StartSeen'
    BY <2>1, <2>2, <2>3 DEF Inv, StartSeen, outside
  <2> QED
    BY <2>4, <2>5, <2>6, <2>7, <2>8 DEF Inv
<1> QED
  BY <1>1, <1>2

LEMMA ReserveStep ==
    ASSUME Inv, NEW w \in Workers, ReserveRepository(w) \/ ReserveMemory(w) \/ Wake(w)
    PROVE  Inv'
<1>1. CASE ReserveRepository(w)
  <2>1. CASE ReserveSettled(w)
    BY <1>1, <2>1, SettledStep DEF ReserveRepository
  <2>2. CASE Return(w, NoAttestation) /\ UNCHANGED row
    BY <1>1, <2>2, BackStep DEF ReserveRepository
  <2> QED
    BY <1>1, <2>1, <2>2 DEF ReserveRepository
<1>2. CASE ReserveMemory(w)
  <2>1. CASE ~Held /\ ReserveSettled(w)
    BY <1>2, <2>1, SettledStep DEF ReserveMemory
  <2>2. CASE Held
    <3> DEFINE x == [worker[w] EXCEPT !.at = "waiting", !.generation = row.generation]
    <3>1. x \in Worker /\ x.at = "waiting" /\ x.terminal = worker[w].terminal
      BY Types DEF Inv, Worker, Positions
    <3>2. worker' = [worker EXCEPT ![w] = x] /\ UNCHANGED <<configuration, row, terminal, outside, answer>>
      BY <1>2, <2>2 DEF ReserveMemory
    <3> HIDE DEF x
    <3>3. /\ worker' \in [Workers -> Worker] /\ worker'[w] = x
          /\ \A v \in Workers : v # w => worker'[v] = worker[v]
      BY <3>1, <3>2 DEF Inv, TypeOK
    <3>4. TypeOK'
      BY <3>2, <3>3 DEF Inv, TypeOK, configuration, outside
    <3>5. Exclusive'
      BY <3>1, <3>2, <3>3 DEF Inv, Exclusive, Held, configuration
    <3>6. RowHolds' /\ AnswersAgree'
      BY <3>2 DEF Inv, RowHolds, AttestationIsBound, AnswersAgree, configuration
    <3>7. \A v \in Workers : WorkerHolds(v)'
      BY <3>1, <3>2, <3>3 DEF Inv, WorkerHolds, configuration, outside
    <3>8. StartSeen'
      BY <3>1, <3>2, <3>3 DEF Inv, StartSeen, outside
    <3> QED
      BY <3>4, <3>5, <3>6, <3>7, <3>8 DEF Inv
  <2> QED
    BY <1>2, <2>1, <2>2 DEF ReserveMemory
<1>3. CASE Wake(w)
  BY <1>3, SettledStep DEF Wake
<1> QED
  BY <1>1, <1>2, <1>3

LEMMA ReserveNewStep ==
    ASSUME Inv, NEW w \in Workers, ReserveNew(w) PROVE Inv'
<1>1. /\ worker' \in [Workers -> Worker]
      /\ worker'[w].at = "granted" /\ worker'[w].evidence = None
      /\ worker'[w].terminal = worker[w].terminal
      /\ \A v \in Workers : v # w => worker'[v] = worker[v]
  BY Types, GrantMoves DEF Inv, ReserveNew
<1>2. /\ row' \in Rows /\ row'.state = "executing" /\ row'.checkpoint = row.checkpoint
      /\ row'.result = row.result /\ row'.active
  <2>1. row \in Rows /\ row.generation + 1 \in Nat
    BY Types DEF Inv, TypeOK
  <2> DEFINE n == row.generation + 1
  <2>2. row' = [row EXCEPT !.state = "executing", !.generation = n, !.active = TRUE]
    BY DEF ReserveNew
  <2> HIDE DEF n
  <2> QED
    BY <2>1, <2>2 DEF n, Rows, RowStates
<1>3. row.state = "absent" /\ UNCHANGED <<configuration, terminal, outside, answer>>
  BY DEF ReserveNew
<1>4. TypeOK'
  BY <1>1, <1>2, <1>3 DEF Inv, TypeOK, configuration, outside
<1>5. Exclusive'
  BY <1>1, <1>2, <1>3 DEF Inv, Exclusive, Held, WorkerHolds, configuration
<1>6. RowHolds' /\ AnswersAgree'
  BY <1>2, <1>3 DEF Inv, RowHolds, AttestationIsBound, AnswersAgree, configuration, None
<1>7. \A v \in Workers : WorkerHolds(v)'
  BY <1>1, <1>2, <1>3 DEF Inv, WorkerHolds, configuration, outside
<1>8. StartSeen'
  BY <1>1, <1>2, <1>3 DEF Inv, StartSeen, outside
<1> QED
  BY <1>4, <1>5, <1>6, <1>7, <1>8 DEF Inv

\* Steps that only move a caller between the store and the daemon.
LEMMA MoveStep ==
    ASSUME Inv, NEW w \in Workers,
           \/ Resume(w) \/ WaitForRuntime(w) \/ Reject(w) \/ StartContainer(w)
           \/ LoseStartAnswer(w) \/ StepRaises(w)
    PROVE  Inv'
<1>1. PICK place \in Positions \ {"idle", "replayed", "waiting", "granted", "recording", "record_committing",
                                  "record_signing", "checkpointing", "signing"} : GoTo(w, place)
  BY DEF Resume, WaitForRuntime, Reject, StartContainer, LoseStartAnswer, StepRaises, OnError, Positions
<1>2. /\ worker' \in [Workers -> Worker]
      /\ worker'[w].at = place /\ worker'[w].evidence = worker[w].evidence
      /\ worker'[w].terminal = worker[w].terminal
      /\ \A v \in Workers : v # w => worker'[v] = worker[v]
  BY <1>1, GoToMoves DEF Inv
<1>3. /\ containers' \in Nat /\ observed' \in Nat /\ containers <= containers'
      /\ UNCHANGED <<configuration, row, terminal, answer>>
  BY DEF Resume, WaitForRuntime, Reject, StartContainer, LoseStartAnswer, StepRaises, outside, Inv, TypeOK
<1>4. /\ place = "committing" => Resuming(w)
      /\ place = "running" => Executing(w) /\ containers' > 0
      /\ place = "releasing" => \/ Settled(w)
                                \/ Executing(w) /\ observed' = observed
      /\ place = "failing" => \/ Executing(w)
                              \/ At(w) \in {"recording", "record_committing", "record_signing"}
      /\ place \in {"committing", "running", "releasing", "failing"}
      /\ observed' # observed => place = "running"
      /\ Inside(w)
  <2>1. CASE Resume(w)
    BY <1>2, <2>1 DEF Resume, outside, GoTo, Inv, TypeOK
  <2>2. CASE WaitForRuntime(w)
    BY <1>2, <2>2 DEF WaitForRuntime, outside, GoTo, Inv, TypeOK
  <2>3. CASE Reject(w)
    BY <1>2, <2>3 DEF Reject, outside, GoTo, Inv, TypeOK
  <2>4. CASE StartContainer(w)
    BY <1>2, <2>4 DEF StartContainer, outside, GoTo, Inv, TypeOK
  <2>5. CASE LoseStartAnswer(w)
    BY <1>2, <2>5 DEF LoseStartAnswer, outside, GoTo, Inv, TypeOK
  <2>6. CASE StepRaises(w)
    BY <1>2, <2>6 DEF StepRaises, OnError, outside, GoTo, Inv, TypeOK
  <2> QED
    BY <2>1, <2>2, <2>3, <2>4, <2>5, <2>6
<1>5. TypeOK'
  BY <1>2, <1>3 DEF Inv, TypeOK, configuration
<1>6. Exclusive'
  BY <1>2, <1>3, <1>4 DEF Inv, Exclusive, Held, configuration
<1>7. RowHolds' /\ AnswersAgree'
  BY <1>3 DEF Inv, RowHolds, AttestationIsBound, AnswersAgree, configuration
<1>8. \A v \in Workers : WorkerHolds(v)'
  <2>1. ASSUME NEW v \in Workers, v # w PROVE WorkerHolds(v)'
    BY <1>2, <1>3, <2>1 DEF Inv, WorkerHolds, configuration, TypeOK
  <2>2. WorkerHolds(w)'
    BY <1>2, <1>3, <1>4 DEF Inv, WorkerHolds, RowHolds, configuration, None
  <2> QED
    BY <2>1, <2>2
<1>9. StartSeen'
  <2>1. \A v \in Workers : v # w => /\ Executing(v)' <=> Executing(v)
                                    /\ At(v)' = At(v)
    BY <1>2
  <2>2. CASE observed' = observed
    BY <1>2, <1>3, <1>4, <2>1, <2>2 DEF Inv, StartSeen, WorkerHolds
  <2>3. CASE observed' # observed
    <3>1. row.state = "executing" /\ Inside(w) /\ place = "running"
      BY <1>4, <2>3 DEF Inv, WorkerHolds
    <3>2. \A v \in Workers : v # w => ~Inside(v)
      BY <3>1 DEF Inv, Exclusive
    <3> QED
      BY <1>2, <1>3, <2>1, <3>1, <3>2 DEF StartSeen
  <2> QED
    BY <2>2, <2>3
<1> QED
  BY <1>5, <1>6, <1>7, <1>8, <1>9 DEF Inv

\* The evidence of a container that ran.
LEMMA EvidenceStep ==
    ASSUME Inv, NEW w \in Workers, Finish(w) \/ Abort(w)
    PROVE  Inv'
<1>1. containers \in Nat /\ containers > 0 /\ row.state = "executing"
  BY DEF Inv, TypeOK, WorkerHolds, Finish, Abort
<1>2. PICK place \in {"checkpointing", "recording"}, status \in {"success", "terminal_failure"} :
        /\ worker' = [worker EXCEPT ![w].at = place, ![w].evidence = [status |-> status, run |-> containers]]
        /\ place = "recording" => status = "terminal_failure"
  BY DEF Finish, Abort
<1> DEFINE e == [status |-> status, run |-> containers]
           x == [worker[w] EXCEPT !.at = place, !.evidence = e]
<1>3. e \in Evidence /\ e # None /\ e.status = status
  BY <1>1 DEF Evidence, None
<1>4. worker' = [worker EXCEPT ![w] = x]
  BY <1>2
<1> HIDE DEF e
<1>5. x \in Worker /\ x.at = place /\ x.evidence = e /\ x.terminal = worker[w].terminal
  BY <1>3, Types DEF Inv, Worker, Positions
<1> HIDE DEF x
<1>6. /\ worker' \in [Workers -> Worker] /\ worker'[w] = x
      /\ \A v \in Workers : v # w => worker'[v] = worker[v]
  BY <1>4, <1>5 DEF Inv, TypeOK
<1>7. UNCHANGED <<configuration, row, terminal, outside, answer>> /\ At(w) \in {"running", "checkpointing"}
  BY DEF Finish, Abort
<1>8. TypeOK'
  BY <1>6, <1>7 DEF Inv, TypeOK, configuration, outside
<1>9. Exclusive'
  BY <1>1, <1>5, <1>6, <1>7 DEF Inv, Exclusive, Held, configuration
<1>10. RowHolds' /\ AnswersAgree'
  BY <1>7 DEF Inv, RowHolds, AttestationIsBound, AnswersAgree, configuration
<1>11. \A v \in Workers : WorkerHolds(v)'
  BY <1>1, <1>2, <1>3, <1>5, <1>6, <1>7 DEF Inv, WorkerHolds, configuration, outside
<1>12. StartSeen'
  BY <1>5, <1>6, <1>7 DEF Inv, StartSeen, outside
<1> QED
  BY <1>8, <1>9, <1>10, <1>11, <1>12 DEF Inv

LEMMA CheckpointStep ==
    ASSUME Inv, NEW w \in Workers, Checkpoint(w) PROVE Inv'
<1>1. /\ At(w) \in {"checkpointing", "recording"} /\ row.state = "executing"
      /\ UNCHANGED <<configuration, terminal, outside, answer>>
      /\ worker[w].evidence \in Evidence /\ worker[w].evidence # None
  BY Types DEF Inv, Checkpoint, WorkerHolds
<1>2. PICK place \in {"committing", "record_committing"} :
        GoTo(w, place) /\ (place = "record_committing" <=> At(w) = "recording")
  BY <1>1 DEF Checkpoint, After
<1>3. /\ worker' \in [Workers -> Worker]
      /\ worker'[w].at = place /\ worker'[w].evidence = worker[w].evidence
      /\ worker'[w].terminal = worker[w].terminal
      /\ \A v \in Workers : v # w => worker'[v] = worker[v]
  BY <1>2, GoToMoves DEF Inv, Positions
<1>4. /\ row' \in Rows /\ row'.state = "checkpointed" /\ row'.checkpoint = worker[w].evidence
      /\ row'.result = row.result /\ row'.active = row.active
  BY <1>1, Types DEF Inv, TypeOK, Rows, RowStates, Checkpoint
<1>5. \A v \in Workers : v # w => ~Inside(v)
  BY <1>1 DEF Inv, Exclusive
<1>6. TypeOK'
  BY <1>1, <1>3, <1>4 DEF Inv, TypeOK, configuration, outside
<1>7. Exclusive'
  BY <1>1, <1>3, <1>4, <1>5 DEF Inv, Exclusive, Held, RowHolds, configuration
<1>8. RowHolds'
  BY <1>1, <1>4 DEF Inv, RowHolds, AttestationIsBound, configuration
<1>9. \A v \in Workers : WorkerHolds(v)'
  <2>1. ASSUME NEW v \in Workers, v # w PROVE WorkerHolds(v)'
    BY <1>1, <1>3, <1>4, <1>5, <2>1 DEF Inv, WorkerHolds, configuration, outside
  <2>2. WorkerHolds(w)'
    BY <1>1, <1>2, <1>3, <1>4 DEF Inv, WorkerHolds, configuration, outside
  <2> QED
    BY <2>1, <2>2
<1>10. StartSeen'
  BY <1>1, <1>4 DEF Inv, StartSeen, outside
<1>11. AnswersAgree'
  BY <1>1, <1>4 DEF Inv, AnswersAgree
<1> QED
  BY <1>6, <1>7, <1>8, <1>9, <1>10, <1>11 DEF Inv

LEMMA CommitTerminalStep ==
    ASSUME Inv, NEW w \in Workers, CommitTerminal(w) PROVE Inv'
<1> DEFINE e == worker[w].evidence
<1>1. /\ At(w) \in {"committing", "record_committing"} /\ Settled(w)
      /\ row.state \in {"checkpointed", "completed", "failed"}
      /\ e = row.checkpoint /\ e # None /\ e \in Evidence
      /\ UNCHANGED <<configuration, row, outside, answer>>
  BY Types DEF Inv, WorkerHolds, CommitTerminal
<1>2. PICK place \in {"signing", "record_signing"} :
        /\ place = After(At(w)) /\ (place = "record_signing" <=> At(w) = "record_committing")
  BY <1>1 DEF After
<1>3. CASE endsRun
  <2>1. /\ terminal \in {None, e} /\ terminal' = e
        /\ worker' = [worker EXCEPT ![w].at = place, ![w].terminal = e]
    BY <1>2, <1>3 DEF CommitTerminal
  <2> DEFINE x == [worker[w] EXCEPT !.at = place, !.terminal = e]
  <2>2. x \in Worker /\ x.at = place /\ x.evidence = e /\ x.terminal = e
    BY <1>1, <1>2, Types DEF Inv, Worker, Positions
  <2>3. worker' = [worker EXCEPT ![w] = x]
    BY <2>1
  <2> HIDE DEF x
  <2>4. /\ worker' \in [Workers -> Worker] /\ worker'[w] = x
        /\ \A v \in Workers : v # w => worker'[v] = worker[v]
    BY <2>2, <2>3 DEF Inv, TypeOK
  <2> HIDE DEF e
  <2>5. TypeOK'
    BY <1>1, <2>1, <2>4 DEF Inv, TypeOK, configuration, outside
  <2>6. Exclusive'
    BY <1>1, <1>2, <2>2, <2>4 DEF Inv, Exclusive, Held, configuration
  <2>7. RowHolds'
    BY <1>1, <1>3, <2>1 DEF Inv, RowHolds, AttestationIsBound, configuration
  <2>8. \A v \in Workers : WorkerHolds(v)'
    <3>1. ASSUME NEW v \in Workers, v # w PROVE WorkerHolds(v)'
      BY <1>1, <1>3, <2>1, <2>4, <3>1 DEF Inv, WorkerHolds, configuration, outside
    <3>2. WorkerHolds(w)'
      BY <1>1, <1>2, <1>3, <2>1, <2>2, <2>4 DEF Inv, WorkerHolds, configuration, outside
    <3> QED
      BY <3>1, <3>2
  <2>9. StartSeen' /\ AnswersAgree'
    BY <1>1, <1>2, <2>2, <2>4 DEF Inv, StartSeen, AnswersAgree, outside
  <2> QED
    BY <2>5, <2>6, <2>7, <2>8, <2>9 DEF Inv
<1>4. CASE ~endsRun
  <2>1. GoTo(w, place) /\ UNCHANGED terminal
    BY <1>2, <1>4 DEF CommitTerminal
  <2>2. /\ worker' \in [Workers -> Worker]
        /\ worker'[w].at = place /\ worker'[w].evidence = e
        /\ worker'[w].terminal = worker[w].terminal
        /\ \A v \in Workers : v # w => worker'[v] = worker[v]
    BY <2>1, GoToMoves DEF Inv, Positions
  <2> HIDE DEF e
  <2>3. TypeOK'
    BY <1>1, <2>1, <2>2 DEF Inv, TypeOK, configuration, outside
  <2>4. Exclusive'
    BY <1>1, <1>2, <2>2 DEF Inv, Exclusive, Held, configuration
  <2>5. RowHolds'
    BY <1>1, <2>1 DEF Inv, RowHolds, AttestationIsBound, configuration
  <2>6. \A v \in Workers : WorkerHolds(v)'
    <3>1. ASSUME NEW v \in Workers, v # w PROVE WorkerHolds(v)'
      BY <1>1, <2>1, <2>2, <3>1 DEF Inv, WorkerHolds, configuration, outside
    <3>2. WorkerHolds(w)'
      BY <1>1, <1>2, <1>4, <2>1, <2>2 DEF Inv, RowHolds, WorkerHolds, configuration, outside, e
    <3> QED
      BY <3>1, <3>2
  <2>7. StartSeen' /\ AnswersAgree'
    BY <1>1, <1>2, <2>2 DEF Inv, StartSeen, AnswersAgree, outside
  <2> QED
    BY <2>3, <2>4, <2>5, <2>6, <2>7 DEF Inv
<1> QED
  BY <1>3, <1>4 DEF Inv, TypeOK

\* The row is completed with an attestation of the checkpoint that names the terminal
\* result, by a caller that returns it or by the checkpoint finalizer.
LEMMA Completed ==
    ASSUME Inv, NEW a \in Attestation, Complete(a),
           row.state \in {"checkpointed", "completed"},
           a.evidence = row.checkpoint, a.terminal = terminal, endsRun => terminal # None,
           row.state = "completed" => row.result = a,
           UNCHANGED <<configuration, terminal, outside>>,
           \A v \in Workers : /\ worker'[v] = worker[v] \/ (At(v)' = "idle" /\ worker'[v].terminal = None)
                              /\ answer'[v] = answer[v] \/ answer'[v] = a,
           store = "memory" => \A v \in Workers : ~Inside(v)',
           worker' \in [Workers -> Worker], answer' \in [Workers -> Attestation \cup {NoAttestation}]
    PROVE  Inv'
<1>1. /\ row' \in Rows /\ row'.state = "completed" /\ row'.checkpoint = row.checkpoint
      /\ row'.result = a
  BY Types DEF Inv, TypeOK, Rows, RowStates, Complete
<1>2. TypeOK'
  BY <1>1 DEF Inv, TypeOK, configuration, outside
<1>3. Exclusive'
  BY <1>1 DEF Inv, Exclusive, Held, configuration
<1>4. RowHolds'
  BY <1>1 DEF Inv, RowHolds, AttestationIsBound, configuration
<1>5. \A v \in Workers : WorkerHolds(v)'
  BY <1>1 DEF Inv, WorkerHolds, configuration, outside
<1>6. StartSeen'
  BY <1>1 DEF Inv, StartSeen, outside
<1>7. AnswersAgree'
  BY <1>1 DEF Inv, AnswersAgree
<1> QED
  BY <1>2, <1>3, <1>4, <1>5, <1>6, <1>7 DEF Inv

LEMMA FinalizeStep ==
    ASSUME Inv, NEW w \in Workers, Finalize(w) PROVE Inv'
<1> DEFINE a == Signed(w)
<1>1. /\ At(w) \in {"signing", "record_signing"} /\ Settled(w) /\ Inside(w)
      /\ row.state \in {"checkpointed", "completed", "failed"}
      /\ worker[w].evidence = row.checkpoint /\ worker[w].evidence \in Evidence
      /\ worker[w].terminal = terminal /\ (endsRun => terminal # None)
      /\ UNCHANGED <<configuration, terminal, outside>>
  BY Types DEF Inv, WorkerHolds, Finalize
<1>2. a \in Attestation /\ a.evidence = row.checkpoint /\ a.terminal = terminal
  BY <1>1, Types DEF Inv, Signed, Attestation
<1>3. CASE /\ IF store = "repository" THEN RepositoryAccepts(a) ELSE row.state # "absent"
           /\ Complete(a) /\ Return(w, a)
  <2>1. row.state \in {"checkpointed", "completed"} /\ (row.state = "completed" => row.result = a)
    <3>1. CASE store = "repository"
      BY <1>3, <3>1 DEF RepositoryAccepts
    <3>2. CASE store # "repository"
      <4>1. store = "memory"
        BY <3>2, WorkersAssumption DEF Inv, TypeOK, StoreKinds
      <4> QED
        BY <1>1, <4>1 DEF Inv, Exclusive, Held
    <3> QED
      BY <3>1, <3>2
  <2>2. /\ worker' \in [Workers -> Worker]
        /\ worker'[w].at = "idle" /\ worker'[w].terminal = None
        /\ \A v \in Workers : v # w => worker'[v] = worker[v]
        /\ answer' \in [Workers -> Attestation \cup {NoAttestation}]
        /\ answer'[w] = a
        /\ \A v \in Workers : v # w => answer'[v] = answer[v]
    BY <1>2, <1>3, ReturnMoves DEF Inv
  <2>3. store = "memory" => \A v \in Workers : ~Inside(v)'
    BY <1>1, <2>2 DEF Inv, Exclusive
  <2> HIDE DEF a
  <2> QED
    BY <1>1, <1>2, <1>3, <2>1, <2>2, <2>3, Completed
<1>4. CASE /\ store = "repository" /\ GoTo(w, OnError(At(w))) /\ UNCHANGED <<row, answer>>
           /\ ~RepositoryAccepts(a)
  <2>1. PICK place \in {"releasing", "failing"} :
          GoTo(w, place) /\ (place = "failing" => At(w) = "record_signing")
    BY <1>1, <1>4 DEF OnError
  <2>2. /\ worker' \in [Workers -> Worker]
        /\ worker'[w].at = place /\ worker'[w].evidence = worker[w].evidence
        /\ worker'[w].terminal = worker[w].terminal
        /\ \A v \in Workers : v # w => worker'[v] = worker[v]
    BY <2>1, GoToMoves DEF Inv, Positions
  <2>3. TypeOK'
    BY <1>1, <1>4, <2>2 DEF Inv, TypeOK, configuration, outside
  <2>4. Exclusive'
    BY <1>1, <1>4, <2>2 DEF Inv, Exclusive, Held, configuration
  <2>5. RowHolds' /\ AnswersAgree'
    BY <1>1, <1>4 DEF Inv, RowHolds, AttestationIsBound, AnswersAgree, configuration
  <2>6. \A v \in Workers : WorkerHolds(v)'
    <3>1. ASSUME NEW v \in Workers, v # w PROVE WorkerHolds(v)'
      BY <1>1, <1>4, <2>2, <3>1 DEF Inv, WorkerHolds, configuration, outside
    <3>2. WorkerHolds(w)'
      BY <1>1, <1>4, <2>1, <2>2 DEF Inv, WorkerHolds, configuration, outside
    <3> QED
      BY <3>1, <3>2
  <2>7. StartSeen'
    BY <1>1, <1>4, <2>2 DEF Inv, StartSeen, outside
  <2> QED
    BY <2>3, <2>4, <2>5, <2>6, <2>7 DEF Inv
<1> QED
  BY <1>3, <1>4 DEF Finalize

LEMMA FinalizeCheckpointStep == Inv /\ FinalizeCheckpoint => Inv'
<1> SUFFICES ASSUME Inv, FinalizeCheckpoint PROVE Inv'
  OBVIOUS
<1> DEFINE a == [evidence |-> row.checkpoint, terminal |-> terminal, signer |-> "finalizer", call |-> 0]
<1>1. /\ store = "repository" /\ row.checkpoint.status = "success"
      /\ (endsRun => terminal # None) /\ RepositoryAccepts(a) /\ Complete(a)
      /\ UNCHANGED <<configuration, terminal, outside, worker, answer>>
  BY DEF FinalizeCheckpoint
<1>2. row.checkpoint \in Evidence /\ terminal \in Evidence \cup {None}
  BY <1>1 DEF Inv, TypeOK, Rows, RepositoryAccepts, Binds
<1>3. a \in Attestation /\ a.evidence = row.checkpoint /\ a.terminal = terminal
  BY <1>2, MaxCallsAssumption DEF Attestation
<1>4. row.state \in {"checkpointed", "completed"} /\ (row.state = "completed" => row.result = a)
  BY <1>1 DEF RepositoryAccepts
<1> HIDE DEF a
<1>5. store # "memory"
  BY <1>1
<1>6. worker' \in [Workers -> Worker] /\ answer' \in [Workers -> Attestation \cup {NoAttestation}]
  BY <1>1 DEF Inv, TypeOK
<1>7. UNCHANGED <<configuration, terminal, outside>> /\ UNCHANGED <<worker, answer>>
  BY <1>1
<1> QED
  BY <1>1, <1>3, <1>4, <1>5, <1>6, <1>7, Completed

LEMMA ReleaseStep ==
    ASSUME Inv, NEW w \in Workers, Release(w) PROVE Inv'
<1>1. /\ At(w) = "releasing" /\ Inside(w) /\ row.state # "absent" /\ Return(w, NoAttestation)
      /\ UNCHANGED <<configuration, terminal, outside>>
  BY DEF Release, Inv, WorkerHolds
<1>2. CASE row.state \in {"completed", "failed"}
  <2>1. UNCHANGED row
    BY <1>2 DEF Release
  <2> QED
    BY <1>1, <2>1, BackStep
<1>3. CASE row.state \in {"executing", "checkpointed"}
  <2>1. /\ worker' \in [Workers -> Worker]
        /\ worker'[w].at = "idle" /\ worker'[w].terminal = None
        /\ \A v \in Workers : v # w => worker'[v] = worker[v]
        /\ answer' \in [Workers -> Attestation \cup {NoAttestation}]
        /\ answer'[w] = NoAttestation
        /\ \A v \in Workers : v # w => answer'[v] = answer[v]
    BY <1>1, ReturnMoves DEF Inv
  <2>2. /\ row' \in Rows /\ row'.checkpoint = row.checkpoint /\ row'.result = row.result
        /\ row'.active = FALSE
        /\ row'.state = IF row.state = "executing" THEN "absent" ELSE "checkpointed"
    <3>1. row' = [row EXCEPT !.state = IF row.state = "executing" THEN "absent" ELSE "checkpointed",
                             !.active = FALSE]
      BY <1>3, Types DEF Release, Inv, TypeOK, Rows
    <3> QED
      BY <3>1 DEF Inv, TypeOK, Rows, RowStates
  <2>3. TypeOK'
    BY <1>1, <2>1, <2>2 DEF Inv, TypeOK, configuration, outside
  <2>4. row.state = "executing" \/ store = "memory" => \A v \in Workers : v # w => ~Inside(v)
    BY <1>1 DEF Inv, Exclusive
  <2>5. Exclusive'
    BY <1>1, <2>1, <2>2, <2>4 DEF Inv, Exclusive, Held, configuration
  <2>6. RowHolds'
    BY <1>1, <1>3, <2>2 DEF Inv, RowHolds, AttestationIsBound, configuration, None
  <2>7. \A v \in Workers : WorkerHolds(v)'
    BY <1>1, <1>3, <2>1, <2>2, <2>4 DEF Inv, WorkerHolds, configuration, outside
  <2>8. StartSeen'
    BY <1>1, <1>3, <2>1, <2>2 DEF Inv, StartSeen, outside
  <2>9. AnswersAgree'
    BY <1>3, <2>1, <2>2 DEF Inv, AnswersAgree
  <2> QED
    BY <2>3, <2>5, <2>6, <2>7, <2>8, <2>9 DEF Inv
<1> QED
  BY <1>1, <1>2, <1>3, Types DEF Inv, RowStates

LEMMA FailStep ==
    ASSUME Inv, NEW w \in Workers, Fail(w) PROVE Inv'
<1>1. /\ At(w) = "failing" /\ Inside(w) /\ row.state # "absent" /\ Return(w, NoAttestation)
      /\ row.checkpoint.status # "success"
      /\ UNCHANGED <<configuration, terminal, outside>>
  BY DEF Fail, Inv, WorkerHolds
<1>2. CASE row.state \notin {"executing", "checkpointed"}
  <2>1. UNCHANGED row
    BY <1>2 DEF Fail
  <2> QED
    BY <1>1, <2>1, BackStep
<1>3. CASE row.state \in {"executing", "checkpointed"}
  <2>1. /\ worker' \in [Workers -> Worker]
        /\ worker'[w].at = "idle" /\ worker'[w].terminal = None
        /\ \A v \in Workers : v # w => worker'[v] = worker[v]
        /\ answer' \in [Workers -> Attestation \cup {NoAttestation}]
        /\ answer'[w] = NoAttestation
        /\ \A v \in Workers : v # w => answer'[v] = answer[v]
    BY <1>1, ReturnMoves DEF Inv
  <2>2. /\ row' \in Rows /\ row'.checkpoint = row.checkpoint /\ row'.result = row.result
        /\ row'.state = "failed"
    <3>1. row' = [row EXCEPT !.state = "failed", !.active = FALSE]
      BY <1>3 DEF Fail
    <3> QED
      BY <3>1 DEF Inv, TypeOK, Rows, RowStates
  <2>3. TypeOK'
    BY <1>1, <2>1, <2>2 DEF Inv, TypeOK, configuration, outside
  <2>4. row.state = "executing" \/ store = "memory" => \A v \in Workers : v # w => ~Inside(v)
    BY <1>1 DEF Inv, Exclusive
  <2>5. Exclusive'
    BY <1>1, <2>1, <2>2, <2>4 DEF Inv, Exclusive, Held, configuration
  <2>6. RowHolds'
    BY <1>1, <1>3, <2>2 DEF Inv, RowHolds, AttestationIsBound, configuration, None
  <2>7. \A v \in Workers : WorkerHolds(v)'
    BY <1>1, <1>3, <2>1, <2>2, <2>4 DEF Inv, WorkerHolds, configuration, outside
  <2>8. StartSeen'
    BY <1>1, <1>3, <2>1, <2>2 DEF Inv, StartSeen, outside
  <2>9. AnswersAgree'
    BY <1>3, <2>1, <2>2 DEF Inv, AnswersAgree
  <2> QED
    BY <2>3, <2>5, <2>6, <2>7, <2>8, <2>9 DEF Inv
<1> QED
  BY <1>2, <1>3

LEMMA InvStep == Inv /\ [Next]_vars => Inv'
<1> SUFFICES ASSUME Inv, [Next]_vars PROVE Inv'
  OBVIOUS
<1>1. ASSUME NEW w \in Workers, Call(w) \/ Proceed(w) \/ Crash(w) PROVE Inv'
  <2>1. CASE Call(w)
    BY <2>1, CallStep
  <2>2. CASE ReserveNew(w)
    BY <2>2, ReserveNewStep
  <2>3. CASE ReserveRepository(w) \/ ReserveMemory(w) \/ Wake(w)
    BY <2>3, ReserveStep
  <2>4. CASE Resume(w) \/ WaitForRuntime(w) \/ Reject(w) \/ StartContainer(w) \/ LoseStartAnswer(w) \/ StepRaises(w)
    BY <2>4, MoveStep
  <2>5. CASE Finish(w) \/ Abort(w)
    BY <2>5, EvidenceStep
  <2>6. CASE Checkpoint(w)
    BY <2>6, CheckpointStep
  <2>7. CASE CommitTerminal(w)
    BY <2>7, CommitTerminalStep
  <2>8. CASE Finalize(w)
    BY <2>8, FinalizeStep
  <2>9. CASE Release(w)
    BY <2>9, ReleaseStep
  <2>10. CASE Fail(w)
    BY <2>10, FailStep
  <2>11. CASE Crash(w)
    BY <2>11, BackStep DEF Crash
  <2> QED
    BY <1>1, <2>1, <2>2, <2>3, <2>4, <2>5, <2>6, <2>7, <2>8, <2>9, <2>10, <2>11 DEF Proceed
<1>2. CASE FinalizeCheckpoint
  BY <1>2, FinalizeCheckpointStep
<1>3. CASE UNCHANGED vars
  BY <1>3 DEF vars, configuration, outside, Inv, TypeOK, Exclusive, Held, RowHolds, AttestationIsBound,
      WorkerHolds, StartSeen, AnswersAgree
<1> QED
  BY <1>1, <1>2, <1>3 DEF Next

\* The strengthening holds of every reachable state.
THEOREM InvHolds == Spec => []Inv
  BY InvInit, InvStep, PTL DEF Spec

\* Every variable keeps its type: the row, the callers' locals and what they were answered.
THEOREM TypeCorrect == Spec => []TypeOK
<1>1. Inv => TypeOK
  BY DEF Inv
<1> QED
  BY <1>1, InvHolds, PTL

\* Whatever callers come, crash, resume and are answered again, one job has one
\* attestation: run_at_commit never returns two.
THEOREM AnswersCorrect == Spec => []AnswersAgree
<1>1. Inv => AnswersAgree
  BY DEF Inv
<1> QED
  BY <1>1, InvHolds, PTL

\* The attestation is about the checkpointed run and names the terminal result exactly
\* when the job ended the Run; a successful checkpoint is never given up.
THEOREM AttestationCorrect == Spec => []AttestationIsBound
<1>1. Inv => AttestationIsBound
  BY DEF Inv, RowHolds
<1> QED
  BY <1>1, InvHolds, PTL

\* No step starts a container when a start was seen before.
LEMMA StartStep ==
    ASSUME Inv, [Next]_vars, observed > 0
    PROVE  containers' = containers
<1>1. \A w \in Workers : ~Executing(w)
  BY DEF Inv, StartSeen, WorkerHolds
<1>2. ASSUME NEW w \in Workers, Call(w) \/ Proceed(w) \/ Crash(w) PROVE containers' = containers
  <2>1. ~StartContainer(w) /\ ~LoseStartAnswer(w)
    BY <1>1 DEF StartContainer, LoseStartAnswer
  <2> QED
    BY <1>2, <2>1 DEF Proceed, Call, ReserveNew, ReserveRepository, ReserveMemory, Wake, Resume,
         WaitForRuntime,
        Reject, Finish, Abort, Checkpoint, CommitTerminal, StepRaises, Finalize, Release, Fail, Crash, outside
<1>3. CASE FinalizeCheckpoint
  BY <1>3 DEF FinalizeCheckpoint, outside
<1>4. CASE UNCHANGED vars
  BY <1>4 DEF vars, outside
<1> QED
  BY <1>2, <1>3, <1>4 DEF Next

\* Once a runner saw a container start, nobody starts another, however many callers there
\* are and however often they retry.
THEOREM StartedCorrect == Spec => StartedIsNeverRetried
<1>1. Inv /\ [Next]_vars => [observed > 0 => containers' = containers]_vars
  BY StartStep
<1> QED
  BY <1>1, InvHolds, PTL DEF Spec, StartedIsNeverRetried

-----------------------------------------------------------------------------
(* The container of one job.  The strengthening follows an attempt: what   *)
(* the collector saw by the time the executor decides, what of the process *)
(* can no longer change once success is recorded, and what a cleanup that  *)
(* raised nothing has removed.                                             *)

Flags ==
    /\ at \in Oci!Places /\ attempt \in 0..MaxAttempts
    /\ at # "idle" => attempt \in 1..MaxAttempts
    /\ started \in BOOLEAN /\ loaded \in BOOLEAN /\ scratch \in BOOLEAN
    /\ id \in {"none", "known", "garbled"} /\ source \in {"none", "frozen"}
    /\ raised \in Oci!Kinds \cup {"none"}
    /\ verdict \in {"none", "success", "terminal_failure", "failed"}

BoxesTyped == boxes \in [1..MaxAttempts -> {"none", "created", "running", "exited", "removed"}]

ProcessKind == [code : Nat, outputs : {"none", "whole", "broken"}, over : SUBSET {"disk", "cgroup"}]
ProcessTyped == process \in ProcessKind

WatchKind == [now : Nat, deadline : Nat, waited : {"no", "answered", "failed"}, sampled : BOOLEAN,
              over : BOOLEAN, timedOut : BOOLEAN, asked : BOOLEAN, early : BOOLEAN]

\* The deadline is moved once, by the kill, and a kill has a reason.
Clock ==
    /\ watch \in WatchKind
    /\ watch.now <= WallTime + Grace + 1
    /\ ~watch.asked => watch.deadline = WallTime /\ watch.now <= WallTime + 1
    /\ watch.asked => watch.deadline <= WallTime + 1 + Grace /\ (watch.over \/ watch.timedOut)

Decidable ==
    /\ boxes[attempt] = "exited"
    /\ watch.over \/ watch.early \/ "disk" \notin process.over

\* From the start to the decision the container is known, and decided is only when it ended.
InContainer ==
    /\ at \in {"starting", "inspecting", "collecting", "deciding"} => id = "known"
    /\ at \in {"inspecting", "collecting", "deciding"} => started
    /\ at \in {"admitting", "checkout", "loading", "mounting", "creating", "starting", "inspecting"} =>
          watch.waited = "no" /\ evidence = Oci!None
    /\ at \in {"collecting", "deciding"} => evidence = Oci!None
    /\ at = "collecting" /\ watch.waited = "answered" => boxes[attempt] = "exited"
    /\ at = "deciding" => Decidable

EvidenceKind == [status : {"success", "terminal_failure"}, code : Nat,
                 outputs : {"none", "whole", "broken"}, wall : Nat]

\* What evidence says stays true: the container of a success has ended for good.
EvidenceHolds ==
    /\ evidence = Oci!None \/
         evidence \in EvidenceKind
    /\ evidence # Oci!None => started
    /\ evidence.status = "terminal_failure" => evidence.code # 0 /\ evidence.outputs = "none"
    /\ evidence.status = "success" =>
          /\ boxes[attempt] \in {"exited", "removed"}
          /\ process.code = 0 /\ process.outputs = "whole"
          /\ ~watch.asked /\ "disk" \notin process.over

\* What is gone when nothing was raised on the way out.
Cleaned ==
    /\ at = "removing" /\ raised = "none" => id = "known"
    /\ at \in {"removing", "unloading", "leaving", "returned"} /\ raised = "none" => evidence # Oci!None
    /\ at \in {"unloading", "leaving", "returned"} /\ raised = "none" => boxes[attempt] = "removed"
    /\ at \in {"leaving", "returned"} /\ raised = "none" => ~loaded
    /\ at = "returned" => raised = "none" /\ ~scratch

Judged ==
    /\ (verdict # "none") = (at = "done")
    /\ at = "idle" => ~started
    /\ verdict = "success" =>
          /\ evidence.status = "success" /\ evidence.wall <= WallTime
          /\ boxes[attempt] = "removed" /\ ~loaded /\ ~scratch
    /\ verdict = "terminal_failure" => evidence.status = "terminal_failure"

OciInv == Flags /\ BoxesTyped /\ ProcessTyped /\ Clock /\ InContainer /\ EvidenceHolds /\ Cleaned /\ Judged

LEMMA ProcessEnds ==
    ASSUME NEW p \in ProcessKind, NEW code \in Nat, NEW outputs \in {"none", "whole", "broken"}
    PROVE  [p EXCEPT !.code = code, !.outputs = outputs] \in ProcessKind
  BY DEF ProcessKind

LEMMA FailureIsEvidence ==
    ASSUME NEW last, last = Oci!None \/ last \in EvidenceKind,
           last.status = "terminal_failure" => last.code # 0 /\ last.outputs = "none"
    PROVE  /\ Oci!TerminalFailure(last) \in EvidenceKind
           /\ Oci!TerminalFailure(last).status = "terminal_failure"
           /\ Oci!TerminalFailure(last).code # 0
           /\ Oci!TerminalFailure(last).outputs = "none"
<1>1. ASSUME last = Oci!None PROVE Oci!TerminalFailure(last) = Oci!Synthesized
  BY <1>1 DEF Oci!TerminalFailure, Oci!None
<1>2. ASSUME last \in EvidenceKind, last # Oci!None, last.status = "success"
      PROVE  Oci!TerminalFailure(last) = [status |-> "terminal_failure", code |-> 126,
                                          outputs |-> "none", wall |-> last.wall]
  BY <1>2 DEF Oci!TerminalFailure, EvidenceKind
<1>3. ASSUME last \in EvidenceKind, last # Oci!None, last.status = "terminal_failure"
      PROVE  Oci!TerminalFailure(last) = last
  BY <1>3 DEF Oci!TerminalFailure
<1>4. CASE last = Oci!None
  BY <1>1, <1>4 DEF Oci!Synthesized, EvidenceKind
<1>5. CASE last \in EvidenceKind /\ last # Oci!None
  <2>1. last.wall \in Nat /\ (last.status = "success" \/ last.status = "terminal_failure")
    BY <1>5 DEF EvidenceKind
  <2>2. CASE last.status = "success"
    BY <1>2, <1>5, <2>1, <2>2 DEF EvidenceKind
  <2>3. CASE last.status = "terminal_failure"
    BY <1>3, <1>5, <2>3
  <2> QED
    BY <2>1, <2>2, <2>3
<1> QED
  BY <1>4, <1>5

LEMMA OciInit ==
    ASSUME Oci!TimesAssumption, Oci!Init PROVE OciInv
<1>1. Flags
  <2>1. 0 \in 0..MaxAttempts
    BY DEF Oci!TimesAssumption
  <2> QED
    BY <2>1 DEF Oci!Init, Oci!Places, Flags
<1>4. BoxesTyped /\ ProcessTyped
  BY DEF Oci!Init, Oci!Fresh, BoxesTyped, ProcessTyped, ProcessKind
<1>2. Clock
  BY DEF Oci!TimesAssumption, Oci!Init, Oci!NotWatching, WatchKind, Clock
<1>3. InContainer /\ EvidenceHolds /\ Cleaned /\ Judged
  BY DEF Oci!Init, Oci!None, Decidable, InContainer, EvidenceHolds, Cleaned, Judged
<1> QED
  BY <1>1, <1>2, <1>3, <1>4 DEF OciInv

LEMMA OciExecuteStep ==
    ASSUME Oci!TimesAssumption, OciInv, Oci!Execute PROVE OciInv'
<1> USE DEF Oci!Execute, Oci!GoTo, Oci!Raise, Oci!Kinds, Oci!Box, Oci!place, Oci!host, Oci!job, Oci!Fresh,
     Oci!NotWatching, Oci!None, Oci!host
<1>1. Flags'
  <2>1. attempt' = attempt + 1 /\ attempt \in 0..MaxAttempts /\ attempt < MaxAttempts
    BY DEF OciInv, Flags
  <2>2. attempt' \in 1..MaxAttempts /\ attempt' \in 0..MaxAttempts
    BY <2>1 DEF Oci!TimesAssumption
  <2> QED
    BY <2>2 DEF OciInv, Flags, Oci!Places
<1>2. BoxesTyped'
  BY DEF OciInv, Flags, BoxesTyped
<1>3. ProcessTyped'
  BY DEF OciInv, ProcessTyped, ProcessKind
<1>4. Clock'
  BY DEF OciInv, Clock, WatchKind, Oci!TimesAssumption
<1>5. InContainer'
  BY DEF OciInv, Flags, BoxesTyped, ProcessTyped, ProcessKind, WatchKind, Clock, EvidenceKind, Decidable,
       InContainer, EvidenceHolds, Cleaned, Judged
<1>6. EvidenceHolds'
  BY DEF OciInv, Flags, BoxesTyped, ProcessTyped, ProcessKind, WatchKind, Clock, EvidenceKind, Decidable,
       InContainer, EvidenceHolds, Cleaned, Judged
<1>7. Cleaned'
  BY DEF OciInv, Flags, BoxesTyped, ProcessTyped, ProcessKind, WatchKind, Clock, EvidenceKind, Decidable,
       InContainer, EvidenceHolds, Cleaned, Judged
<1>8. Judged'
  BY DEF OciInv, Flags, BoxesTyped, ProcessTyped, ProcessKind, WatchKind, Clock, EvidenceKind, Decidable,
       InContainer, EvidenceHolds, Cleaned, Judged
<1> QED
  BY <1>1, <1>2, <1>3, <1>4, <1>5, <1>6, <1>7, <1>8 DEF OciInv

LEMMA OciAdmitStep ==
    ASSUME Oci!TimesAssumption, OciInv, Oci!Admit PROVE OciInv'
<1> USE DEF Oci!Admit, Oci!GoTo, Oci!Raise, Oci!Kinds, Oci!Box, Oci!place, Oci!host, Oci!job
<1>1. Flags'
  BY DEF OciInv, Flags, Judged, Oci!TimesAssumption, Oci!Places, Oci!Kinds
<1>2. BoxesTyped'
  BY DEF OciInv, Flags, BoxesTyped
<1>3. ProcessTyped'
  BY DEF OciInv, ProcessTyped, ProcessKind
<1>4. Clock'
  BY DEF OciInv, Clock, WatchKind, Oci!TimesAssumption
<1>5. InContainer'
  BY DEF OciInv, Flags, BoxesTyped, ProcessTyped, ProcessKind, WatchKind, Clock, EvidenceKind, Decidable,
       InContainer, EvidenceHolds, Cleaned, Judged
<1>6. EvidenceHolds'
  BY DEF OciInv, Flags, BoxesTyped, ProcessTyped, ProcessKind, WatchKind, Clock, EvidenceKind, Decidable,
       InContainer, EvidenceHolds, Cleaned, Judged
<1>7. Cleaned'
  BY DEF OciInv, Flags, BoxesTyped, ProcessTyped, ProcessKind, WatchKind, Clock, EvidenceKind, Decidable,
       InContainer, EvidenceHolds, Cleaned, Judged
<1>8. Judged'
  BY DEF OciInv, Flags, BoxesTyped, ProcessTyped, ProcessKind, WatchKind, Clock, EvidenceKind, Decidable,
       InContainer, EvidenceHolds, Cleaned, Judged
<1> QED
  BY <1>1, <1>2, <1>3, <1>4, <1>5, <1>6, <1>7, <1>8 DEF OciInv

LEMMA OciCheckoutStep ==
    ASSUME Oci!TimesAssumption, OciInv, Oci!Checkout PROVE OciInv'
<1> USE DEF Oci!Checkout, Oci!GoTo, Oci!Raise, Oci!Kinds, Oci!Box, Oci!place, Oci!host, Oci!job
<1>1. Flags'
  BY DEF OciInv, Flags, Judged, Oci!TimesAssumption, Oci!Places, Oci!Kinds
<1>2. BoxesTyped'
  BY DEF OciInv, Flags, BoxesTyped
<1>3. ProcessTyped'
  BY DEF OciInv, ProcessTyped, ProcessKind
<1>4. Clock'
  BY DEF OciInv, Clock, WatchKind, Oci!TimesAssumption
<1>5. InContainer'
  BY DEF OciInv, Flags, BoxesTyped, ProcessTyped, ProcessKind, WatchKind, Clock, EvidenceKind, Decidable,
       InContainer, EvidenceHolds, Cleaned, Judged
<1>6. EvidenceHolds'
  BY DEF OciInv, Flags, BoxesTyped, ProcessTyped, ProcessKind, WatchKind, Clock, EvidenceKind, Decidable,
       InContainer, EvidenceHolds, Cleaned, Judged
<1>7. Cleaned'
  BY DEF OciInv, Flags, BoxesTyped, ProcessTyped, ProcessKind, WatchKind, Clock, EvidenceKind, Decidable,
       InContainer, EvidenceHolds, Cleaned, Judged
<1>8. Judged'
  BY DEF OciInv, Flags, BoxesTyped, ProcessTyped, ProcessKind, WatchKind, Clock, EvidenceKind, Decidable,
       InContainer, EvidenceHolds, Cleaned, Judged
<1> QED
  BY <1>1, <1>2, <1>3, <1>4, <1>5, <1>6, <1>7, <1>8 DEF OciInv

LEMMA OciCheckoutFailsStep ==
    ASSUME Oci!TimesAssumption, OciInv, Oci!CheckoutFails PROVE OciInv'
<1> USE DEF Oci!CheckoutFails, Oci!GoTo, Oci!Raise, Oci!Kinds, Oci!Box, Oci!place, Oci!host, Oci!job
<1>1. Flags'
  BY DEF OciInv, Flags, Judged, Oci!TimesAssumption, Oci!Places, Oci!Kinds
<1>2. BoxesTyped'
  BY DEF OciInv, Flags, BoxesTyped
<1>3. ProcessTyped'
  BY DEF OciInv, ProcessTyped, ProcessKind
<1>4. Clock'
  BY DEF OciInv, Clock, WatchKind, Oci!TimesAssumption
<1>5. InContainer'
  BY DEF OciInv, Flags, BoxesTyped, ProcessTyped, ProcessKind, WatchKind, Clock, EvidenceKind, Decidable,
       InContainer, EvidenceHolds, Cleaned, Judged
<1>6. EvidenceHolds'
  BY DEF OciInv, Flags, BoxesTyped, ProcessTyped, ProcessKind, WatchKind, Clock, EvidenceKind, Decidable,
       InContainer, EvidenceHolds, Cleaned, Judged
<1>7. Cleaned'
  BY DEF OciInv, Flags, BoxesTyped, ProcessTyped, ProcessKind, WatchKind, Clock, EvidenceKind, Decidable,
       InContainer, EvidenceHolds, Cleaned, Judged
<1>8. Judged'
  BY DEF OciInv, Flags, BoxesTyped, ProcessTyped, ProcessKind, WatchKind, Clock, EvidenceKind, Decidable,
       InContainer, EvidenceHolds, Cleaned, Judged
<1> QED
  BY <1>1, <1>2, <1>3, <1>4, <1>5, <1>6, <1>7, <1>8 DEF OciInv

LEMMA OciLoadProfileStep ==
    ASSUME Oci!TimesAssumption, OciInv, Oci!LoadProfile PROVE OciInv'
<1> USE DEF Oci!LoadProfile, Oci!GoTo, Oci!Raise, Oci!Kinds, Oci!Box, Oci!place, Oci!host, Oci!job
<1>1. Flags'
  BY DEF OciInv, Flags, Judged, Oci!TimesAssumption, Oci!Places, Oci!Kinds
<1>2. BoxesTyped'
  BY DEF OciInv, Flags, BoxesTyped
<1>3. ProcessTyped'
  BY DEF OciInv, ProcessTyped, ProcessKind
<1>4. Clock'
  BY DEF OciInv, Clock, WatchKind, Oci!TimesAssumption
<1>5. InContainer'
  BY DEF OciInv, Flags, BoxesTyped, ProcessTyped, ProcessKind, WatchKind, Clock, EvidenceKind, Decidable,
       InContainer, EvidenceHolds, Cleaned, Judged
<1>6. EvidenceHolds'
  BY DEF OciInv, Flags, BoxesTyped, ProcessTyped, ProcessKind, WatchKind, Clock, EvidenceKind, Decidable,
       InContainer, EvidenceHolds, Cleaned, Judged
<1>7. Cleaned'
  BY DEF OciInv, Flags, BoxesTyped, ProcessTyped, ProcessKind, WatchKind, Clock, EvidenceKind, Decidable,
       InContainer, EvidenceHolds, Cleaned, Judged
<1>8. Judged'
  BY DEF OciInv, Flags, BoxesTyped, ProcessTyped, ProcessKind, WatchKind, Clock, EvidenceKind, Decidable,
       InContainer, EvidenceHolds, Cleaned, Judged
<1> QED
  BY <1>1, <1>2, <1>3, <1>4, <1>5, <1>6, <1>7, <1>8 DEF OciInv

LEMMA OciMountStep ==
    ASSUME Oci!TimesAssumption, OciInv, Oci!Mount PROVE OciInv'
<1> USE DEF Oci!Mount, Oci!GoTo, Oci!Raise, Oci!Kinds, Oci!Box, Oci!place, Oci!host, Oci!job
<1>1. Flags'
  BY DEF OciInv, Flags, Judged, Oci!TimesAssumption, Oci!Places, Oci!Kinds
<1>2. BoxesTyped'
  BY DEF OciInv, Flags, BoxesTyped
<1>3. ProcessTyped'
  BY DEF OciInv, ProcessTyped, ProcessKind
<1>4. Clock'
  BY DEF OciInv, Clock, WatchKind, Oci!TimesAssumption
<1>5. InContainer'
  BY DEF OciInv, Flags, BoxesTyped, ProcessTyped, ProcessKind, WatchKind, Clock, EvidenceKind, Decidable,
       InContainer, EvidenceHolds, Cleaned, Judged
<1>6. EvidenceHolds'
  BY DEF OciInv, Flags, BoxesTyped, ProcessTyped, ProcessKind, WatchKind, Clock, EvidenceKind, Decidable,
       InContainer, EvidenceHolds, Cleaned, Judged
<1>7. Cleaned'
  BY DEF OciInv, Flags, BoxesTyped, ProcessTyped, ProcessKind, WatchKind, Clock, EvidenceKind, Decidable,
       InContainer, EvidenceHolds, Cleaned, Judged
<1>8. Judged'
  BY DEF OciInv, Flags, BoxesTyped, ProcessTyped, ProcessKind, WatchKind, Clock, EvidenceKind, Decidable,
       InContainer, EvidenceHolds, Cleaned, Judged
<1> QED
  BY <1>1, <1>2, <1>3, <1>4, <1>5, <1>6, <1>7, <1>8 DEF OciInv

LEMMA OciCreateStep ==
    ASSUME Oci!TimesAssumption, OciInv, Oci!Create PROVE OciInv'
<1> USE DEF Oci!Create, Oci!GoTo, Oci!Raise, Oci!Kinds, Oci!Box, Oci!place, Oci!host, Oci!job, Oci!None
<1>1. Flags'
  BY DEF OciInv, Flags, Judged, Oci!TimesAssumption, Oci!Places, Oci!Kinds
<1>2. BoxesTyped'
  BY DEF OciInv, Flags, BoxesTyped
<1>3. ProcessTyped'
  BY DEF OciInv, ProcessTyped, ProcessKind
<1>4. Clock'
  BY DEF OciInv, Clock, WatchKind, Oci!TimesAssumption
<1>5. InContainer'
  BY DEF OciInv, Flags, BoxesTyped, ProcessTyped, ProcessKind, WatchKind, Clock, EvidenceKind, Decidable,
       InContainer, EvidenceHolds, Cleaned, Judged
<1>6. EvidenceHolds'
  BY DEF OciInv, Flags, BoxesTyped, ProcessTyped, ProcessKind, WatchKind, Clock, EvidenceKind, Decidable,
       InContainer, EvidenceHolds, Cleaned, Judged
<1>7. Cleaned'
  BY DEF OciInv, Flags, BoxesTyped, ProcessTyped, ProcessKind, WatchKind, Clock, EvidenceKind, Decidable,
       InContainer, EvidenceHolds, Cleaned, Judged
<1>8. Judged'
  BY DEF OciInv, Flags, BoxesTyped, ProcessTyped, ProcessKind, WatchKind, Clock, EvidenceKind, Decidable,
       InContainer, EvidenceHolds, Cleaned, Judged
<1> QED
  BY <1>1, <1>2, <1>3, <1>4, <1>5, <1>6, <1>7, <1>8 DEF OciInv

LEMMA OciStartStep ==
    ASSUME Oci!TimesAssumption, OciInv, Oci!Start PROVE OciInv'
<1> USE DEF Oci!Start, Oci!GoTo, Oci!Raise, Oci!Kinds, Oci!Box, Oci!place, Oci!host, Oci!job, Oci!None
<1>1. Flags'
  BY DEF OciInv, Flags, Judged, Oci!TimesAssumption, Oci!Places, Oci!Kinds
<1>2. BoxesTyped'
  BY DEF OciInv, Flags, BoxesTyped
<1>3. ProcessTyped'
  BY DEF OciInv, ProcessTyped, ProcessKind
<1>4. Clock'
  BY DEF OciInv, Clock, WatchKind, Oci!TimesAssumption
<1>5. InContainer'
  BY DEF OciInv, Flags, BoxesTyped, ProcessTyped, ProcessKind, WatchKind, Clock, EvidenceKind, Decidable,
       InContainer, EvidenceHolds, Cleaned, Judged
<1>6. EvidenceHolds'
  BY DEF OciInv, Flags, BoxesTyped, ProcessTyped, ProcessKind, WatchKind, Clock, EvidenceKind, Decidable,
       InContainer, EvidenceHolds, Cleaned, Judged
<1>7. Cleaned'
  BY DEF OciInv, Flags, BoxesTyped, ProcessTyped, ProcessKind, WatchKind, Clock, EvidenceKind, Decidable,
       InContainer, EvidenceHolds, Cleaned, Judged
<1>8. Judged'
  BY DEF OciInv, Flags, BoxesTyped, ProcessTyped, ProcessKind, WatchKind, Clock, EvidenceKind, Decidable,
       InContainer, EvidenceHolds, Cleaned, Judged
<1> QED
  BY <1>1, <1>2, <1>3, <1>4, <1>5, <1>6, <1>7, <1>8 DEF OciInv

LEMMA OciInspectStep ==
    ASSUME Oci!TimesAssumption, OciInv, Oci!Inspect PROVE OciInv'
<1> USE DEF Oci!Inspect, Oci!GoTo, Oci!Raise, Oci!Kinds, Oci!Box, Oci!place, Oci!host, Oci!job
<1>1. Flags'
  BY DEF OciInv, Flags, Judged, Oci!TimesAssumption, Oci!Places, Oci!Kinds
<1>2. BoxesTyped'
  BY DEF OciInv, Flags, BoxesTyped
<1>3. ProcessTyped'
  BY DEF OciInv, ProcessTyped, ProcessKind
<1>4. Clock'
  BY DEF OciInv, Clock, WatchKind, Oci!TimesAssumption
<1>5. InContainer'
  BY DEF OciInv, Flags, BoxesTyped, ProcessTyped, ProcessKind, WatchKind, Clock, EvidenceKind, Decidable,
       InContainer, EvidenceHolds, Cleaned, Judged
<1>6. EvidenceHolds'
  BY DEF OciInv, Flags, BoxesTyped, ProcessTyped, ProcessKind, WatchKind, Clock, EvidenceKind, Decidable,
       InContainer, EvidenceHolds, Cleaned, Judged
<1>7. Cleaned'
  BY DEF OciInv, Flags, BoxesTyped, ProcessTyped, ProcessKind, WatchKind, Clock, EvidenceKind, Decidable,
       InContainer, EvidenceHolds, Cleaned, Judged
<1>8. Judged'
  BY DEF OciInv, Flags, BoxesTyped, ProcessTyped, ProcessKind, WatchKind, Clock, EvidenceKind, Decidable,
       InContainer, EvidenceHolds, Cleaned, Judged
<1> QED
  BY <1>1, <1>2, <1>3, <1>4, <1>5, <1>6, <1>7, <1>8 DEF OciInv

LEMMA KillIsWatched ==
    ASSUME NEW w \in WatchKind, NEW g \in Nat
    PROVE  [w EXCEPT !.asked = TRUE, !.timedOut = ~w.over, !.deadline = w.now + g] \in WatchKind
<1> DEFINE t == ~w.over
           d == w.now + g
<1>1. t \in BOOLEAN /\ d \in Nat
  BY DEF WatchKind
<1> HIDE DEF t, d
<1>2. [w EXCEPT !.asked = TRUE, !.timedOut = t, !.deadline = d] \in WatchKind
  BY <1>1 DEF WatchKind
<1> QED
  BY <1>2 DEF t, d

\* What one poll does to the clock, the container and the place, and what it saw.
LEMMA PollDoes ==
    ASSUME OciInv, Oci!Poll
    PROVE  \E seen \in WatchKind :
        /\ seen.now = watch.now /\ seen.deadline = watch.deadline /\ seen.waited = watch.waited
        /\ seen.timedOut = watch.timedOut /\ seen.asked = watch.asked /\ (watch.over => seen.over)
        /\ \/ at' = "deciding" /\ raised' = raised /\ seen.waited = "answered" /\ watch' = seen
              /\ UNCHANGED <<boxes, process>> /\ (seen.over \/ "disk" \notin process.over)
           \/ at' = "removing" /\ raised' \in Oci!Kinds /\ watch' = seen /\ UNCHANGED <<boxes, process>>
           \/ ~seen.asked /\ seen.waited = "no" /\ Oci!Kill
              /\ watch' = [seen EXCEPT !.asked = TRUE, !.timedOut = ~seen.over, !.deadline = seen.now + Grace]
           \/ seen.now < seen.deadline /\ watch' = [seen EXCEPT !.now = @ + 1] /\ (~seen.asked => ~seen.over)
              /\ UNCHANGED <<at, raised, boxes, process>>
<1>1. watch \in WatchKind
  BY DEF OciInv, Clock
<1>2. ASSUME NEW seen \in Oci!Samples
      PROVE  /\ seen \in WatchKind
             /\ seen.now = watch.now /\ seen.deadline = watch.deadline /\ seen.waited = watch.waited
             /\ seen.timedOut = watch.timedOut /\ seen.asked = watch.asked /\ (watch.over => seen.over)
             /\ seen.over \/ "disk" \notin process.over
  BY <1>1, <1>2 DEF Oci!Samples, WatchKind
<1>3. CASE Oci!Gone /\ (watch.waited = "no" \/ ~watch.sampled)
           /\ Oci!Raise(Oci!Kinds, "removing") /\ UNCHANGED <<watch, boxes, process>>
  BY <1>1, <1>3 DEF Oci!Raise
<1>4. CASE \E seen \in Oci!Samples :
          \/ seen.waited = "answered" /\ Oci!GoTo("deciding") /\ watch' = seen /\ UNCHANGED <<boxes, process>>
          \/ Oci!Raise({"waiting"}, "removing") /\ watch' = seen /\ UNCHANGED <<boxes, process>>
          \/ seen.waited = "no" /\ ~seen.asked /\ Oci!Kill
             /\ watch' = [seen EXCEPT !.asked = TRUE, !.timedOut = ~seen.over, !.deadline = seen.now + Grace]
          \/ seen.now < seen.deadline /\ (seen.asked \/ ~seen.over)
             /\ watch' = [seen EXCEPT !.now = @ + 1] /\ UNCHANGED <<Oci!place, boxes, process>>
  BY <1>2, <1>4 DEF Oci!Raise, Oci!GoTo, Oci!Kinds, Oci!place
<1> QED
  BY <1>3, <1>4 DEF Oci!Poll

LEMMA OciPollStep ==
    ASSUME Oci!TimesAssumption, OciInv, Oci!Poll PROVE OciInv'
<1>1. /\ at = "collecting" /\ attempt \in 1..MaxAttempts /\ started /\ id = "known" /\ evidence = Oci!None
      /\ UNCHANGED <<attempt, started, id, evidence, verdict, loaded, scratch, source>>
  BY DEF OciInv, Flags, InContainer, Oci!Poll, Oci!job, Oci!host
<1>2. PICK seen \in WatchKind :
        /\ seen.now = watch.now /\ seen.deadline = watch.deadline /\ seen.waited = watch.waited
        /\ seen.timedOut = watch.timedOut /\ seen.asked = watch.asked /\ (watch.over => seen.over)
        /\ \/ at' = "deciding" /\ raised' = raised /\ seen.waited = "answered" /\ watch' = seen
              /\ UNCHANGED <<boxes, process>> /\ (seen.over \/ "disk" \notin process.over)
           \/ at' = "removing" /\ raised' \in Oci!Kinds /\ watch' = seen /\ UNCHANGED <<boxes, process>>
           \/ ~seen.asked /\ seen.waited = "no" /\ Oci!Kill
              /\ watch' = [seen EXCEPT !.asked = TRUE, !.timedOut = ~seen.over, !.deadline = seen.now + Grace]
           \/ seen.now < seen.deadline /\ watch' = [seen EXCEPT !.now = @ + 1] /\ (~seen.asked => ~seen.over)
              /\ UNCHANGED <<at, raised, boxes, process>>
  BY PollDoes
<1>3. \/ at' \in {"collecting", "deciding"} /\ raised' = raised
      \/ at' = "removing" /\ raised' \in Oci!Kinds
  BY <1>1, <1>2 DEF Oci!Kill, Oci!Raise, Oci!place, Oci!Kinds
<1>4. \/ UNCHANGED <<boxes, process>>
      \/ /\ boxes[attempt] = "running" /\ boxes' = [boxes EXCEPT ![attempt] = "exited"]
         /\ process' = [process EXCEPT !.code = 137, !.outputs = "broken"]
  BY <1>2 DEF Oci!Kill, Oci!Running, Oci!Box
<1>5. Flags'
  BY <1>1, <1>3 DEF OciInv, Flags, Oci!Places
<1>6. BoxesTyped' /\ ProcessTyped'
  <2>1. BoxesTyped'
    BY <1>1, <1>4 DEF OciInv, BoxesTyped
  <2>2. process \in ProcessKind /\ 137 \in Nat /\ "broken" \in {"none", "whole", "broken"}
    BY DEF OciInv, ProcessTyped
  <2>3. [process EXCEPT !.code = 137, !.outputs = "broken"] \in ProcessKind
    BY <2>2, ProcessEnds
  <2>4. ProcessTyped'
    BY <1>4, <2>2, <2>3 DEF ProcessTyped
  <2> QED
    BY <2>1, <2>4
<1>7. Clock'
  <2>1. /\ WallTime \in Nat /\ Grace \in Nat
        /\ seen.now \in Nat /\ seen.deadline \in Nat /\ seen.now <= WallTime + Grace + 1
        /\ ~seen.asked => seen.deadline = WallTime /\ seen.now <= WallTime + 1
        /\ seen.asked => seen.deadline <= WallTime + 1 + Grace /\ (seen.over \/ seen.timedOut)
        /\ seen.over \in BOOLEAN
    <3>1. /\ seen.now = watch.now /\ seen.deadline = watch.deadline /\ seen.timedOut = watch.timedOut
          /\ seen.asked = watch.asked /\ (watch.over => seen.over)
      BY <1>2
    <3>2. seen.now \in Nat /\ seen.deadline \in Nat /\ seen.over \in BOOLEAN
      BY DEF WatchKind
    <3> QED
      BY <3>1, <3>2 DEF Oci!TimesAssumption, OciInv, Clock
  <2>2. CASE watch' = seen
    BY <2>1, <2>2 DEF Clock, WatchKind
  <2>3. CASE ~seen.asked /\ watch' = [seen EXCEPT !.asked = TRUE, !.timedOut = ~seen.over, !.deadline = seen.now + Grace]
    <3>1. watch' \in WatchKind
      BY <2>1, <2>3, KillIsWatched
    <3>2. watch'.now = seen.now /\ watch'.deadline = seen.now + Grace /\ watch'.asked = TRUE
      BY <2>3 DEF WatchKind
    <3>3. watch'.over = seen.over /\ watch'.timedOut = ~seen.over
      BY <2>3 DEF WatchKind
    <3>4. watch'.over \/ watch'.timedOut
      BY <2>1, <3>3
    <3> QED
      BY <2>1, <2>3, <3>1, <3>2, <3>4 DEF Clock
  <2>4. CASE seen.now < seen.deadline /\ watch' = [seen EXCEPT !.now = @ + 1]
    BY <2>1, <2>4 DEF Clock, WatchKind
  <2> QED
    BY <1>2, <2>2, <2>3, <2>4
<1>8. watch'.waited = watch.waited
  BY <1>2 DEF WatchKind
<1>9. InContainer'
  <2>1. at' = "deciding" => Decidable'
    BY <1>1, <1>2 DEF OciInv, InContainer, Decidable, Oci!Kill, Oci!place, Oci!Raise
  <2>2. boxes[attempt] = "exited" => boxes'[attempt'] = "exited"
    BY <1>1, <1>4
  <2> QED
    <3>1. at' \in {"collecting", "deciding", "removing"}
      BY <1>3
    <3>2. at' = "collecting" /\ watch'.waited = "answered" => boxes'[attempt'] = "exited"
      BY <1>1, <1>8, <2>2 DEF OciInv, InContainer
    <3>3. id' = "known" /\ started' /\ evidence' = Oci!None
      BY <1>1
    <3>4. CASE at' = "collecting"
      BY <3>2, <3>3, <3>4 DEF InContainer
    <3>5. CASE at' = "deciding"
      BY <2>1, <3>3, <3>5 DEF InContainer
    <3>6. CASE at' = "removing"
      BY <3>6 DEF InContainer
    <3> QED
      BY <3>1, <3>4, <3>5, <3>6
<1>10. EvidenceHolds' /\ Cleaned' /\ Judged'
  BY <1>1, <1>3 DEF OciInv, EvidenceHolds, Cleaned, Judged, Oci!None, Oci!Kinds
<1> QED
  BY <1>5, <1>6, <1>7, <1>9, <1>10 DEF OciInv

LEMMA OciDecideStep ==
    ASSUME Oci!TimesAssumption, OciInv, Oci!Decide PROVE OciInv'
<1> USE DEF Oci!Decide, Oci!GoTo, Oci!Raise, Oci!Kinds, Oci!Box, Oci!place, Oci!host, Oci!job, Oci!Record,
     Oci!OutputsRead, Oci!ExitCode, Oci!None
<1>1. Flags'
  BY DEF OciInv, Flags, Judged, Oci!TimesAssumption, Oci!Places, Oci!Kinds
<1>2. BoxesTyped'
  BY DEF OciInv, Flags, BoxesTyped
<1>3. ProcessTyped'
  BY DEF OciInv, ProcessTyped, ProcessKind
<1>4. Clock'
  BY DEF OciInv, Clock, WatchKind, Oci!TimesAssumption
<1>5. InContainer'
  BY DEF OciInv, Flags, BoxesTyped, ProcessTyped, ProcessKind, WatchKind, Clock, EvidenceKind, Decidable,
       InContainer, EvidenceHolds, Cleaned, Judged
<1>6. EvidenceHolds'
  BY DEF OciInv, Flags, BoxesTyped, ProcessTyped, ProcessKind, WatchKind, Clock, EvidenceKind, Decidable,
       InContainer, EvidenceHolds, Cleaned, Judged
<1>7. Cleaned'
  BY DEF OciInv, Flags, BoxesTyped, ProcessTyped, ProcessKind, WatchKind, Clock, EvidenceKind, Decidable,
       InContainer, EvidenceHolds, Cleaned, Judged
<1>8. Judged'
  BY DEF OciInv, Flags, BoxesTyped, ProcessTyped, ProcessKind, WatchKind, Clock, EvidenceKind, Decidable,
       InContainer, EvidenceHolds, Cleaned, Judged
<1> QED
  BY <1>1, <1>2, <1>3, <1>4, <1>5, <1>6, <1>7, <1>8 DEF OciInv

LEMMA OciRemoveStep ==
    ASSUME Oci!TimesAssumption, OciInv, Oci!Remove PROVE OciInv'
<1> USE DEF Oci!Remove, Oci!GoTo, Oci!Raise, Oci!Kinds, Oci!Box, Oci!place, Oci!host, Oci!job
<1>1. Flags'
  BY DEF OciInv, Flags, Judged, Oci!TimesAssumption, Oci!Places, Oci!Kinds
<1>2. BoxesTyped'
  BY DEF OciInv, Flags, BoxesTyped
<1>3. ProcessTyped'
  BY DEF OciInv, ProcessTyped, ProcessKind
<1>4. Clock'
  BY DEF OciInv, Clock, WatchKind, Oci!TimesAssumption
<1>5. InContainer'
  BY DEF OciInv, Flags, BoxesTyped, ProcessTyped, ProcessKind, WatchKind, Clock, EvidenceKind, Decidable,
       InContainer, EvidenceHolds, Cleaned, Judged
<1>6. EvidenceHolds'
  BY DEF OciInv, Flags, BoxesTyped, ProcessTyped, ProcessKind, WatchKind, Clock, EvidenceKind, Decidable,
       InContainer, EvidenceHolds, Cleaned, Judged
<1>7. Cleaned'
  BY DEF OciInv, Flags, BoxesTyped, ProcessTyped, ProcessKind, WatchKind, Clock, EvidenceKind, Decidable,
       InContainer, EvidenceHolds, Cleaned, Judged
<1>8. Judged'
  BY DEF OciInv, Flags, BoxesTyped, ProcessTyped, ProcessKind, WatchKind, Clock, EvidenceKind, Decidable,
       InContainer, EvidenceHolds, Cleaned, Judged
<1> QED
  BY <1>1, <1>2, <1>3, <1>4, <1>5, <1>6, <1>7, <1>8 DEF OciInv

LEMMA OciUnloadStep ==
    ASSUME Oci!TimesAssumption, OciInv, Oci!Unload PROVE OciInv'
<1> USE DEF Oci!Unload, Oci!GoTo, Oci!Raise, Oci!Kinds, Oci!Box, Oci!place, Oci!host, Oci!job
<1>1. Flags'
  BY DEF OciInv, Flags, Judged, Oci!TimesAssumption, Oci!Places, Oci!Kinds
<1>2. BoxesTyped'
  BY DEF OciInv, Flags, BoxesTyped
<1>3. ProcessTyped'
  BY DEF OciInv, ProcessTyped, ProcessKind
<1>4. Clock'
  BY DEF OciInv, Clock, WatchKind, Oci!TimesAssumption
<1>5. InContainer'
  BY DEF OciInv, Flags, BoxesTyped, ProcessTyped, ProcessKind, WatchKind, Clock, EvidenceKind, Decidable,
       InContainer, EvidenceHolds, Cleaned, Judged
<1>6. EvidenceHolds'
  BY DEF OciInv, Flags, BoxesTyped, ProcessTyped, ProcessKind, WatchKind, Clock, EvidenceKind, Decidable,
       InContainer, EvidenceHolds, Cleaned, Judged
<1>7. Cleaned'
  BY DEF OciInv, Flags, BoxesTyped, ProcessTyped, ProcessKind, WatchKind, Clock, EvidenceKind, Decidable,
       InContainer, EvidenceHolds, Cleaned, Judged
<1>8. Judged'
  BY DEF OciInv, Flags, BoxesTyped, ProcessTyped, ProcessKind, WatchKind, Clock, EvidenceKind, Decidable,
       InContainer, EvidenceHolds, Cleaned, Judged
<1> QED
  BY <1>1, <1>2, <1>3, <1>4, <1>5, <1>6, <1>7, <1>8 DEF OciInv

LEMMA OciLeaveStep ==
    ASSUME Oci!TimesAssumption, OciInv, Oci!Leave PROVE OciInv'
<1> USE DEF Oci!Leave, Oci!GoTo, Oci!Raise, Oci!Kinds, Oci!Box, Oci!place, Oci!host, Oci!job
<1>1. Flags'
  BY DEF OciInv, Flags, Judged, Oci!TimesAssumption, Oci!Places, Oci!Kinds
<1>2. BoxesTyped'
  BY DEF OciInv, Flags, BoxesTyped
<1>3. ProcessTyped'
  BY DEF OciInv, ProcessTyped, ProcessKind
<1>4. Clock'
  BY DEF OciInv, Clock, WatchKind, Oci!TimesAssumption
<1>5. InContainer'
  BY DEF OciInv, Flags, BoxesTyped, ProcessTyped, ProcessKind, WatchKind, Clock, EvidenceKind, Decidable,
       InContainer, EvidenceHolds, Cleaned, Judged
<1>6. EvidenceHolds'
  BY DEF OciInv, Flags, BoxesTyped, ProcessTyped, ProcessKind, WatchKind, Clock, EvidenceKind, Decidable,
       InContainer, EvidenceHolds, Cleaned, Judged
<1>7. Cleaned'
  BY DEF OciInv, Flags, BoxesTyped, ProcessTyped, ProcessKind, WatchKind, Clock, EvidenceKind, Decidable,
       InContainer, EvidenceHolds, Cleaned, Judged
<1>8. Judged'
  BY DEF OciInv, Flags, BoxesTyped, ProcessTyped, ProcessKind, WatchKind, Clock, EvidenceKind, Decidable,
       InContainer, EvidenceHolds, Cleaned, Judged
<1> QED
  BY <1>1, <1>2, <1>3, <1>4, <1>5, <1>6, <1>7, <1>8 DEF OciInv

LEMMA OciAcceptStep ==
    ASSUME Oci!TimesAssumption, OciInv, Oci!Accept PROVE OciInv'
<1> USE DEF Oci!Accept, Oci!GoTo, Oci!Raise, Oci!Kinds, Oci!Box, Oci!place, Oci!host, Oci!job, Oci!Accepted,
     Oci!None
<1>1. Flags'
  <2>1. evidence.status \in {"none", "success", "terminal_failure"}
    BY DEF OciInv, EvidenceHolds, EvidenceKind
  <2> QED
    BY <2>1 DEF OciInv, Flags, Oci!Places
<1>2. BoxesTyped'
  BY DEF OciInv, Flags, BoxesTyped
<1>3. ProcessTyped'
  BY DEF OciInv, ProcessTyped, ProcessKind
<1>4. Clock'
  BY DEF OciInv, Clock, WatchKind, Oci!TimesAssumption
<1>5. InContainer'
  BY DEF OciInv, Flags, BoxesTyped, ProcessTyped, ProcessKind, WatchKind, Clock, EvidenceKind, Decidable,
       InContainer, EvidenceHolds, Cleaned, Judged
<1>6. EvidenceHolds'
  BY DEF OciInv, Flags, BoxesTyped, ProcessTyped, ProcessKind, WatchKind, Clock, EvidenceKind, Decidable,
       InContainer, EvidenceHolds, Cleaned, Judged
<1>7. Cleaned'
  BY DEF OciInv, Flags, BoxesTyped, ProcessTyped, ProcessKind, WatchKind, Clock, EvidenceKind, Decidable,
       InContainer, EvidenceHolds, Cleaned, Judged
<1>8. Judged'
  BY DEF OciInv, Flags, BoxesTyped, ProcessTyped, ProcessKind, WatchKind, Clock, EvidenceKind, Decidable,
       InContainer, EvidenceHolds, Cleaned, Judged
<1> QED
  BY <1>1, <1>2, <1>3, <1>4, <1>5, <1>6, <1>7, <1>8 DEF OciInv

LEMMA OciSettleStep ==
    ASSUME Oci!TimesAssumption, OciInv, Oci!Settle PROVE OciInv'
<1> USE DEF Oci!Settle, Oci!GoTo, Oci!Raise, Oci!Kinds, Oci!Box, Oci!place, Oci!host, Oci!job,
     Oci!TerminalFailure, Oci!Synthesized, Oci!None
<1>1. Flags'
  BY DEF OciInv, Flags, Judged, Oci!TimesAssumption, Oci!Places, Oci!Kinds
<1>2. BoxesTyped'
  BY DEF OciInv, Flags, BoxesTyped
<1>3. ProcessTyped'
  BY DEF OciInv, ProcessTyped, ProcessKind
<1>4. Clock'
  BY DEF OciInv, Clock, WatchKind, Oci!TimesAssumption
<1>5. InContainer'
  BY DEF OciInv, Flags, BoxesTyped, ProcessTyped, ProcessKind, WatchKind, Clock, EvidenceKind, Decidable,
       InContainer, EvidenceHolds, Cleaned, Judged
<1>6. EvidenceHolds'
  <2> HIDE DEF Oci!TerminalFailure
  <2> QED
    BY FailureIsEvidence DEF OciInv, EvidenceHolds
<1>7. Cleaned'
  BY DEF OciInv, Flags, BoxesTyped, ProcessTyped, ProcessKind, WatchKind, Clock, EvidenceKind, Decidable,
       InContainer, EvidenceHolds, Cleaned, Judged
<1>8. Judged'
  <2> HIDE DEF Oci!TerminalFailure
  <2> QED
    BY FailureIsEvidence DEF OciInv, EvidenceHolds, Judged
<1> QED
  BY <1>1, <1>2, <1>3, <1>4, <1>5, <1>6, <1>7, <1>8 DEF OciInv

LEMMA OciExitStep ==
    ASSUME Oci!TimesAssumption, OciInv, Oci!Exit PROVE OciInv'
<1> USE DEF Oci!Exit, Oci!GoTo, Oci!Raise, Oci!Kinds, Oci!Box, Oci!place, Oci!host, Oci!job, Oci!Running
<1>1. Flags'
  BY DEF OciInv, Flags, Judged, Oci!TimesAssumption, Oci!Places, Oci!Kinds
<1>2. BoxesTyped'
  BY DEF OciInv, Flags, BoxesTyped
<1>3. ProcessTyped'
  <2>1. PICK code \in {0, 1}, outputs \in {"whole", "broken"} :
           process' = [process EXCEPT !.code = code, !.outputs = outputs]
    OBVIOUS
  <2> QED
    BY <2>1, ProcessEnds DEF OciInv, ProcessTyped
<1>4. Clock'
  BY DEF OciInv, Clock, WatchKind, Oci!TimesAssumption
<1>5. InContainer'
  BY DEF OciInv, Flags, BoxesTyped, ProcessTyped, ProcessKind, WatchKind, Clock, EvidenceKind, Decidable,
       InContainer, EvidenceHolds, Cleaned, Judged
<1>6. EvidenceHolds'
  BY DEF OciInv, Flags, BoxesTyped, ProcessTyped, ProcessKind, WatchKind, Clock, EvidenceKind, Decidable,
       InContainer, EvidenceHolds, Cleaned, Judged
<1>7. Cleaned'
  BY DEF OciInv, Flags, BoxesTyped, ProcessTyped, ProcessKind, WatchKind, Clock, EvidenceKind, Decidable,
       InContainer, EvidenceHolds, Cleaned, Judged
<1>8. Judged'
  BY DEF OciInv, Flags, BoxesTyped, ProcessTyped, ProcessKind, WatchKind, Clock, EvidenceKind, Decidable,
       InContainer, EvidenceHolds, Cleaned, Judged
<1> QED
  BY <1>1, <1>2, <1>3, <1>4, <1>5, <1>6, <1>7, <1>8 DEF OciInv

LEMMA OciExceedStep ==
    ASSUME Oci!TimesAssumption, OciInv, Oci!Exceed PROVE OciInv'
<1> USE DEF Oci!Exceed, Oci!GoTo, Oci!Raise, Oci!Kinds, Oci!Box, Oci!place, Oci!host, Oci!job, Oci!Running
<1>1. Flags'
  BY DEF OciInv, Flags, Judged, Oci!TimesAssumption, Oci!Places, Oci!Kinds
<1>2. BoxesTyped'
  BY DEF OciInv, Flags, BoxesTyped
<1>3. ProcessTyped'
  BY DEF OciInv, ProcessTyped, ProcessKind
<1>4. Clock'
  BY DEF OciInv, Clock, WatchKind, Oci!TimesAssumption
<1>5. InContainer'
  BY DEF OciInv, Flags, BoxesTyped, ProcessTyped, ProcessKind, WatchKind, Clock, EvidenceKind, Decidable,
       InContainer, EvidenceHolds, Cleaned, Judged
<1>6. EvidenceHolds'
  BY DEF OciInv, Flags, BoxesTyped, ProcessTyped, ProcessKind, WatchKind, Clock, EvidenceKind, Decidable,
       InContainer, EvidenceHolds, Cleaned, Judged
<1>7. Cleaned'
  BY DEF OciInv, Flags, BoxesTyped, ProcessTyped, ProcessKind, WatchKind, Clock, EvidenceKind, Decidable,
       InContainer, EvidenceHolds, Cleaned, Judged
<1>8. Judged'
  BY DEF OciInv, Flags, BoxesTyped, ProcessTyped, ProcessKind, WatchKind, Clock, EvidenceKind, Decidable,
       InContainer, EvidenceHolds, Cleaned, Judged
<1> QED
  BY <1>1, <1>2, <1>3, <1>4, <1>5, <1>6, <1>7, <1>8 DEF OciInv

LEMMA OciDelayStep ==
    ASSUME Oci!TimesAssumption, OciInv, Oci!Delay PROVE OciInv'
<1> USE DEF Oci!Delay, Oci!GoTo, Oci!Raise, Oci!Kinds, Oci!Box, Oci!place, Oci!host, Oci!job
<1>1. Flags'
  BY DEF OciInv, Flags, Judged, Oci!TimesAssumption, Oci!Places, Oci!Kinds
<1>2. BoxesTyped'
  BY DEF OciInv, Flags, BoxesTyped
<1>3. ProcessTyped'
  BY DEF OciInv, ProcessTyped, ProcessKind
<1>4. Clock'
  BY DEF OciInv, Clock, WatchKind, Oci!TimesAssumption
<1>5. InContainer'
  BY DEF OciInv, Flags, BoxesTyped, ProcessTyped, ProcessKind, WatchKind, Clock, EvidenceKind, Decidable,
       InContainer, EvidenceHolds, Cleaned, Judged
<1>6. EvidenceHolds'
  BY DEF OciInv, Flags, BoxesTyped, ProcessTyped, ProcessKind, WatchKind, Clock, EvidenceKind, Decidable,
       InContainer, EvidenceHolds, Cleaned, Judged
<1>7. Cleaned'
  BY DEF OciInv, Flags, BoxesTyped, ProcessTyped, ProcessKind, WatchKind, Clock, EvidenceKind, Decidable,
       InContainer, EvidenceHolds, Cleaned, Judged
<1>8. Judged'
  BY DEF OciInv, Flags, BoxesTyped, ProcessTyped, ProcessKind, WatchKind, Clock, EvidenceKind, Decidable,
       InContainer, EvidenceHolds, Cleaned, Judged
<1> QED
  BY <1>1, <1>2, <1>3, <1>4, <1>5, <1>6, <1>7, <1>8 DEF OciInv

LEMMA OciWaiterReturnsStep ==
    ASSUME Oci!TimesAssumption, OciInv, Oci!WaiterReturns PROVE OciInv'
<1> USE DEF Oci!WaiterReturns, Oci!GoTo, Oci!Raise, Oci!Kinds, Oci!Box, Oci!place, Oci!host, Oci!job
<1>1. Flags'
  BY DEF OciInv, Flags, Judged, Oci!TimesAssumption, Oci!Places, Oci!Kinds
<1>2. BoxesTyped'
  BY DEF OciInv, Flags, BoxesTyped
<1>3. ProcessTyped'
  BY DEF OciInv, ProcessTyped, ProcessKind
<1>4. Clock'
  BY DEF OciInv, Clock, WatchKind, Oci!TimesAssumption
<1>5. InContainer'
  BY DEF OciInv, Flags, BoxesTyped, ProcessTyped, ProcessKind, WatchKind, Clock, EvidenceKind, Decidable,
       InContainer, EvidenceHolds, Cleaned, Judged
<1>6. EvidenceHolds'
  BY DEF OciInv, Flags, BoxesTyped, ProcessTyped, ProcessKind, WatchKind, Clock, EvidenceKind, Decidable,
       InContainer, EvidenceHolds, Cleaned, Judged
<1>7. Cleaned'
  BY DEF OciInv, Flags, BoxesTyped, ProcessTyped, ProcessKind, WatchKind, Clock, EvidenceKind, Decidable,
       InContainer, EvidenceHolds, Cleaned, Judged
<1>8. Judged'
  BY DEF OciInv, Flags, BoxesTyped, ProcessTyped, ProcessKind, WatchKind, Clock, EvidenceKind, Decidable,
       InContainer, EvidenceHolds, Cleaned, Judged
<1> QED
  BY <1>1, <1>2, <1>3, <1>4, <1>5, <1>6, <1>7, <1>8 DEF OciInv

LEMMA OciStep ==
    ASSUME Oci!TimesAssumption, OciInv, [Oci!Next]_(Oci!vars) PROVE OciInv'
<1>1. CASE UNCHANGED Oci!vars
  BY <1>1 DEF Oci!vars, OciInv, Flags, BoxesTyped, ProcessTyped, Clock, Decidable, InContainer,
       EvidenceHolds, Cleaned, Judged
<1>2. CASE Oci!Next
  BY <1>2, OciExecuteStep, OciAdmitStep, OciCheckoutStep, OciCheckoutFailsStep, OciLoadProfileStep,
       OciMountStep, OciCreateStep, OciStartStep, OciInspectStep, OciPollStep, OciDecideStep, OciRemoveStep,
       OciUnloadStep, OciLeaveStep, OciAcceptStep, OciSettleStep, OciExitStep, OciExceedStep, OciDelayStep,
       OciWaiterReturnsStep
  DEF Oci!Next, Oci!Step
<1> QED
  BY <1>1, <1>2

LEMMA OciHolds ==
    ASSUME Oci!TimesAssumption PROVE Oci!Spec => []OciInv
<1>1. Oci!Init => OciInv
  BY OciInit
<1>2. OciInv /\ [Oci!Next]_(Oci!vars) => OciInv'
  BY OciStep
<1> QED
  BY <1>1, <1>2, PTL DEF Oci!Spec

\* Type correctness of an attempt; the clock of the collector stays within the wall time
\* and the grace a kill is given.
THEOREM OciTypeCorrect ==
    ASSUME Oci!TimesAssumption PROVE Oci!Spec => []Oci!TypeOK
<1>1. OciInv => Oci!TypeOK
  BY DEF OciInv, Flags, BoxesTyped, WatchKind, Clock, Oci!TimesAssumption, Oci!TypeOK
<1> QED
  BY <1>1, OciHolds, PTL

\* A success is of a container that ended by itself in time, wrote its whole output and
\* left nothing behind; a started run is followed by no other; for every wall time, grace
\* and number of attempts.
THEOREM VerdictCorrect ==
    ASSUME Oci!TimesAssumption PROVE Oci!Spec => []VerdictIsEarned
<1>1. OciInv => VerdictIsEarned
  BY DEF OciInv, VerdictIsEarned, EvidenceHolds, Judged, Oci!VerdictIsEarned
<1> QED
  BY <1>1, OciHolds, PTL

-----------------------------------------------------------------------------
(* The two together.                                                        *)

\* What is proved of the job and of the attempt is proved of the two together, for
\* neither is disturbed by the other.
THEOREM BothAreThemselves == JobSpec => Spec /\ Oci!Spec
<1>1. JobInit => Init /\ Oci!Init
  BY DEF JobInit
<1>2. [JobNext]_jobVars => [Next]_vars /\ [Oci!Next]_(Oci!vars)
  BY DEF JobNext, jobVars, ociVars, Oci!vars
<1> QED
  BY <1>1, <1>2, PTL DEF JobSpec, Spec, Oci!Spec

\* Type correctness of both, whichever a behaviour is about.
THEOREM TypesCorrect ==
    ASSUME Oci!TimesAssumption PROVE JobSpec => []TypesOK
<1>1. TypeOK /\ Oci!TypeOK => TypesOK
  BY DEF TypesOK
<1> QED
  BY <1>1, BothAreThemselves, TypeCorrect, OciTypeCorrect, PTL
=============================================================================
