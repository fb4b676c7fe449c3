--------------------------- MODULE E2EGate_proofs ---------------------------
(***************************************************************************)
(* The invariants of E2EGate for any runs, requests, verdicts, callers and *)
(* lengths of a log.  The strengthening is that a log leaves a state only  *)
(* if the run is open there: a decision is always the last entry.          *)
(* And the replay index of the clarification evaluation, for any signed    *)
(* artifacts and recorders.                                                *)
(***************************************************************************)
EXTENDS GateAndIndex, TLAPS

OpenStates == {"SEALED_E2E_VALIDATING", "WAITING_RUNTIME"}

LogIsOpenBeforeItsEnd ==
    \A r \in Runs : \A i \in 1..(Len(log[r]) - 1) : log[r][i] \in OpenStates

Inductive ==
    /\ TypeOK
    /\ LogIsOpenBeforeItsEnd
    /\ DecisionIsTheRunsStep
    /\ IdentifierServesOnce
    /\ RecordsAgree

---------------------------------------------------------------------------
(* Commands and their claims.                                              *)

\* A command is made of a request and a verdict; its run and identifiers are known.
LEMMA CommandParts ==
    ASSUME NEW c \in Commands
    PROVE  /\ c.request \in Requests /\ c.verdict \in Verdicts /\ c.decision \in Decisions
           /\ c.request.run \in Runs /\ c.request.head \in Nat \ {0}
           /\ c.request.id \in Ids /\ c.verdict.id \in Ids
           /\ c.verdict.request \in Requests
           /\ c.verdict.request.run \in Runs
           /\ Claims(c) \subseteq ClaimKeys
           /\ c # NoCommand
<1>1. c.request \in Requests /\ c.verdict \in Verdicts /\ c.decision \in Decisions
  BY DEF Commands
<1>2. c.request.run \in Runs /\ c.request.head \in Nat \ {0} /\ c.request.id \in Ids
  BY <1>1, RequestAssumption
<1>3. c.verdict.id \in Ids /\ c.verdict.request \in Requests
  BY <1>1, VerdictAssumption
<1>4. c.verdict.request.run \in Runs
  BY <1>3, RequestAssumption
<1>5. Claims(c) \subseteq ClaimKeys
  BY <1>2, <1>3 DEF Claims, ClaimKeys
<1>6. c # NoCommand
  BY <1>1 DEF NoCommand, Decisions
<1> QED
  BY <1>1, <1>2, <1>3, <1>4, <1>5, <1>6

\* Admission changes nothing but the decision.
LEMMA AdmittedCommand ==
    ASSUME NEW c \in Commands
    PROVE  /\ Admitted(c) \in Commands
           /\ Admitted(c).request = c.request
           /\ Admitted(c).verdict = c.verdict
           /\ Claims(Admitted(c)) = Claims(c)
           /\ Admitted(c) # c => Admitted(c).decision = "FAILED"
<1>1. CASE Admitted(c) = c
  BY <1>1
<1>2. CASE Admitted(c) = [c EXCEPT !.decision = "FAILED"]
  BY <1>2 DEF Commands, Decisions, Claims
<1> QED
  BY <1>1, <1>2 DEF Admitted

\* What is admitted and not recorded yet shares a claim with no recorded command,
\* unless it is an integrity failure.
LEMMA AdmittedIsFresh ==
    ASSUME Inductive, NEW c \in Commands, stored[Admitted(c)] = 0,
           Admitted(c).decision # "FAILED",
           NEW d \in Materialized
    PROVE  Claims(Admitted(c)) \cap Claims(d) = {}
<1> DEFINE a == Admitted(c)
<1>1. a = c /\ stored[c] = 0
  BY AdmittedCommand
<1>2. ~Conflicts(c)
  <2>1. SUFFICES ASSUME Conflicts(c) PROVE FALSE
    OBVIOUS
  <2>2. a = [c EXCEPT !.decision = "FAILED"]
    BY <1>1, <2>1 DEF Admitted
  <2> QED
    BY <2>2 DEF Commands
<1>3. SUFFICES ASSUME NEW k \in Claims(c) \cap Claims(d) PROVE FALSE
  BY <1>1
<1>4. d \in Commands /\ k \in ClaimKeys
  BY CommandParts DEF Materialized
<1>5. owner[k] # NoCommand /\ owner[k] \in Materialized
  BY <1>3, <1>4 DEF Inductive, RecordsAgree
<1>6. owner[k] = c
  BY <1>2, <1>3, <1>5 DEF Conflicts
<1> QED
  BY <1>1, <1>5, <1>6 DEF Materialized

---------------------------------------------------------------------------
(* Type correctness.                                                       *)

LEMMA InitTypeOK == Init => TypeOK
<1> SUFFICES ASSUME Init PROVE TypeOK
  OBVIOUS
<1>1. log \in [Runs -> Seq(States)]
  BY DEF Init, States
<1>2. process \in [Verdicts -> {"running", "checkpointed", "attested", "terminal"}]
  BY DEF Init
<1>3. stored \in [Commands -> Nat]
  BY DEF Init
<1>4. owner \in [ClaimKeys -> Commands \cup {NoCommand}]
  BY DEF Init
<1>5. call \in [Callers -> [command: Commands \cup {NoCommand},
                            ended: {"none", "answered", "raised", "refused"}]]
  BY DEF Init
<1> QED
  BY <1>1, <1>2, <1>3, <1>4, <1>5 DEF TypeOK

\* Where the log can go from a state is a state.
LEMMA MovesAreStates ==
    ASSUME NEW s, NEW t \in Moves(s)
    PROVE  t \in States /\ s \in OpenStates
  BY DEF Moves, States, Decisions, OpenStates

LEMMA TypeOKStep == TypeOK /\ [Next]_vars => TypeOK'
<1> SUFFICES ASSUME TypeOK, [Next]_vars PROVE TypeOK'
  OBVIOUS
<1> USE DEF TypeOK
<1>1. ASSUME NEW v \in Verdicts, Checkpoint(v) PROVE TypeOK'
  BY <1>1 DEF Checkpoint
<1>2. ASSUME NEW r \in Runs, Elsewhere(r) PROVE TypeOK'
  <2>1. PICK s \in Moves(log[r][Len(log[r])]) : log' = [log EXCEPT ![r] = Append(@, s)]
    BY <1>2 DEF Elsewhere
  <2>2. s \in States
    BY MovesAreStates
  <2>3. Append(log[r], s) \in Seq(States)
    BY <2>2
  <2> QED
    BY <1>2, <2>1, <2>3 DEF Elsewhere
<1>3. ASSUME NEW p \in Callers, NEW request \in Requests, NEW verdict \in Verdicts,
             Evaluate(p, request, verdict)
      PROVE  TypeOK'
  <2>1. PICK decision \in DecisionsOn(request, verdict) :
          call' = [call EXCEPT ![p] =
            [command |-> [request |-> request, verdict |-> verdict, decision |-> decision],
             ended |-> "none"]]
    BY <1>3 DEF Evaluate
  <2>2. decision \in Decisions
    BY DEF DecisionsOn, Decisions
  <2>3. [request |-> request, verdict |-> verdict, decision |-> decision] \in Commands
    BY <2>2 DEF Commands
  <2> QED
    BY <1>3, <2>1, <2>3 DEF Evaluate
<1>4. ASSUME NEW p \in Callers, Commit(p) PROVE TypeOK'
  <2> DEFINE c == Admitted(call[p].command)
  <2>1. call[p].command \in Commands
    BY <1>4 DEF Commit
  <2>2. c \in Commands
    BY <2>1, AdmittedCommand
  <2>3. Materialize(c) /\ Return(p, c)
    BY <1>4 DEF Commit
  <2> HIDE DEF c
  <2>4. c.request.run \in Runs /\ c.decision \in States
    BY <2>2, CommandParts DEF States
  <2>5. log' \in [Runs -> Seq(States)]
    BY <2>3, <2>4 DEF Materialize
  <2>6. process' \in [Verdicts -> {"running", "checkpointed", "attested", "terminal"}]
    BY <2>2, <2>3, CommandParts DEF Materialize, Attestation
  <2>7. stored' \in [Commands -> Nat]
    BY <2>2, <2>3, <2>4 DEF Materialize
  <2>8. owner' \in [ClaimKeys -> Commands \cup {NoCommand}]
    BY <2>2, <2>3 DEF Materialize
  <2>9. call' \in [Callers -> [command: Commands \cup {NoCommand},
                              ended: {"none", "answered", "raised", "refused"}]]
    BY <2>3 DEF Return
  <2> QED
    BY <2>5, <2>6, <2>7, <2>8, <2>9
<1>5. ASSUME NEW p \in Callers, Replay(p) PROVE TypeOK'
  BY <1>5 DEF Replay, Return
<1>6. ASSUME NEW p \in Callers, Raise(p) PROVE TypeOK'
  BY <1>6 DEF Raise
<1>7. ASSUME NEW p \in Callers, Crash(p) PROVE TypeOK'
  BY <1>7 DEF Crash
<1>8. CASE UNCHANGED vars
  BY <1>8 DEF vars
<1> QED
  BY <1>1, <1>2, <1>3, <1>4, <1>5, <1>6, <1>7, <1>8 DEF Next

\* Every value the type invariant gives a variable is kept by every step, for any
\* constants.
THEOREM TypeCorrect == Spec => []TypeOK
  BY InitTypeOK, TypeOKStep, PTL DEF Spec

---------------------------------------------------------------------------
(* The records.                                                            *)

LEMMA InitInductive == Init => Inductive
<1> SUFFICES ASSUME Init PROVE Inductive
  OBVIOUS
<1>1. TypeOK
  BY InitTypeOK
<1>2. LogIsOpenBeforeItsEnd
  BY DEF Init, LogIsOpenBeforeItsEnd
<1>3. Materialized = {}
  BY DEF Init, Materialized
<1>4. DecisionIsTheRunsStep /\ IdentifierServesOnce
  BY <1>3 DEF DecisionIsTheRunsStep, IdentifierServesOnce
<1>5. RecordsAgree
  BY <1>3 DEF RecordsAgree, Init
<1> QED
  BY <1>1, <1>2, <1>4, <1>5 DEF Inductive

\* What a step keeps that leaves the log and the records alone, but for a process
\* that becomes checkpointed.
LEMMA RecordsKept ==
    ASSUME Inductive, TypeOK', UNCHANGED <<log, stored, owner>>,
           \/ UNCHANGED process
           \/ \E v \in Verdicts : /\ process[v] = "running"
                                /\ process' = [process EXCEPT ![v] = "checkpointed"]
    PROVE  Inductive'
<1>1. Materialized' = Materialized
  BY DEF Materialized
<1>2. LogIsOpenBeforeItsEnd'
  BY DEF Inductive, LogIsOpenBeforeItsEnd
<1>3. DecisionIsTheRunsStep' /\ IdentifierServesOnce'
  BY <1>1 DEF Inductive, DecisionIsTheRunsStep, IdentifierServesOnce
<1>4. \A v \in Verdicts :
        IF process'[v] \in {"running", "checkpointed"}
          THEN \A c \in Materialized : c.verdict # v
          ELSE \E c \in Materialized : c.verdict = v /\ process'[v] = Attestation(c)
  <2> SUFFICES ASSUME NEW v \in Verdicts
               PROVE  IF process'[v] \in {"running", "checkpointed"}
                        THEN \A c \in Materialized : c.verdict # v
                        ELSE \E c \in Materialized :
                               c.verdict = v /\ process'[v] = Attestation(c)
    OBVIOUS
  <2>1. CASE process'[v] = process[v]
    BY <2>1 DEF Inductive, RecordsAgree
  <2>2. CASE process[v] = "running" /\ process'[v] = "checkpointed"
    BY <2>2 DEF Inductive, RecordsAgree
  <2>3. process'[v] = process[v] \/ (process[v] = "running" /\ process'[v] = "checkpointed")
    BY DEF Inductive, TypeOK
  <2> QED
    BY <2>1, <2>2, <2>3
<1>5. RecordsAgree'
  BY <1>1, <1>4 DEF Inductive, RecordsAgree, Attestation
<1> QED
  BY <1>2, <1>3, <1>5 DEF Inductive

\* Lifecycle commands that are not the gate's move a run only where it is open, so
\* what the gate recorded stays the last entry.
LEMMA ElsewhereKeeps ==
    ASSUME Inductive, TypeOK', NEW r \in Runs, Elsewhere(r)
    PROVE  Inductive'
<1>1. PICK s \in Moves(log[r][Len(log[r])]) : log' = [log EXCEPT ![r] = Append(@, s)]
  BY DEF Elsewhere
<1>2. log[r] \in Seq(States) /\ log \in [Runs -> Seq(States)]
  BY DEF Inductive, TypeOK
<1>3. s \in States /\ log[r][Len(log[r])] \in OpenStates
  BY MovesAreStates
<1>4. /\ Len(log'[r]) = Len(log[r]) + 1
      /\ \A i \in 1..Len(log[r]) : log'[r][i] = log[r][i]
      /\ \A q \in Runs : q # r => log'[q] = log[q]
  BY <1>1, <1>2, <1>3
<1>5. UNCHANGED <<process, stored, owner>> /\ Materialized' = Materialized
  BY DEF Elsewhere, Materialized
<1>6. LogIsOpenBeforeItsEnd'
  <2> SUFFICES ASSUME NEW q \in Runs, NEW i \in 1..(Len(log'[q]) - 1)
               PROVE  log'[q][i] \in OpenStates
    BY DEF LogIsOpenBeforeItsEnd
  <2>1. CASE q # r
    BY <1>4, <2>1 DEF Inductive, LogIsOpenBeforeItsEnd
  <2>2. CASE q = r
    <3>1. Len(log[r]) \in Nat
      BY <1>2
    <3>2. i \in 1..Len(log[r]) /\ (i = Len(log[r]) \/ i \in 1..(Len(log[r]) - 1))
      BY <1>4, <2>2, <3>1
    <3>3. log[r][i] \in OpenStates
      BY <1>3, <3>2 DEF Inductive, LogIsOpenBeforeItsEnd
    <3> QED
      BY <1>4, <2>2, <3>2, <3>3
  <2> QED
    BY <2>1, <2>2
<1>7. ASSUME NEW c \in Materialized
      PROVE  /\ stored[c] = c.request.head + 1
             /\ stored[c] <= Len(log'[c.request.run])
             /\ log'[c.request.run][stored[c]] = c.decision
             /\ log'[c.request.run][c.request.head] = "SEALED_E2E_VALIDATING"
  <2>1. /\ stored[c] = c.request.head + 1
        /\ stored[c] <= Len(log[c.request.run])
        /\ log[c.request.run][stored[c]] = c.decision
        /\ log[c.request.run][c.request.head] = "SEALED_E2E_VALIDATING"
    BY DEF Inductive, DecisionIsTheRunsStep
  <2>2. c.request.run \in Runs /\ c.request.head \in Nat \ {0}
    BY CommandParts DEF Materialized
  <2>3. Len(log[r]) \in Nat
    BY <1>2
  <2>4. CASE c.request.run # r
    BY <1>4, <2>1, <2>2, <2>4
  <2>5. CASE c.request.run = r
    <3>1. stored[c] \in 1..Len(log[r]) /\ c.request.head \in 1..Len(log[r])
      BY <2>1, <2>2, <2>3, <2>5
    <3>2. /\ log'[r][stored[c]] = log[r][stored[c]]
          /\ log'[r][c.request.head] = log[r][c.request.head]
      BY <1>4, <3>1
    <3>3. stored[c] <= Len(log'[r])
      BY <1>4, <2>3, <3>1
    <3> QED
      BY <2>1, <2>5, <3>2, <3>3
  <2> QED
    BY <2>4, <2>5
<1>8. DecisionIsTheRunsStep'
  BY <1>5, <1>7 DEF Inductive, DecisionIsTheRunsStep
<1>9. IdentifierServesOnce'
  BY <1>5 DEF Inductive, IdentifierServesOnce
<1>10. RecordsAgree'
  BY <1>5 DEF Inductive, RecordsAgree, Attestation
<1> QED
  BY <1>6, <1>8, <1>9, <1>10 DEF Inductive

\* No decision of the run is recorded when the plan and the compare-and-swap agree
\* to one: the log would end with it.
LEMMA NotDecidedYet ==
    ASSUME Inductive, NEW c \in Commands, Plannable(c), AtHead(c),
           NEW d \in Materialized, d.request.run = c.request.run
    PROVE  FALSE
<1> DEFINE r == c.request.run
<1>1. r \in Runs /\ d \in Commands /\ d.decision \in Decisions
  BY CommandParts DEF Materialized
<1>2. log[r] \in Seq(States) /\ Len(log[r]) \in Nat
  BY <1>1 DEF Inductive, TypeOK
<1>3. /\ stored[d] = d.request.head + 1
      /\ stored[d] <= Len(log[r])
      /\ log[r][stored[d]] = d.decision
  BY DEF Inductive, DecisionIsTheRunsStep
<1>4. d.request.head \in Nat \ {0}
  BY <1>1, CommandParts
<1>5. stored[d] = Len(log[r])
  <2>1. SUFFICES ASSUME stored[d] \in 1..(Len(log[r]) - 1) PROVE FALSE
    BY <1>2, <1>3, <1>4
  <2>2. log[r][stored[d]] \in OpenStates
    BY <1>1, <2>1 DEF Inductive, LogIsOpenBeforeItsEnd
  <2> QED
    BY <1>1, <1>3, <2>2 DEF OpenStates, Decisions
<1>6. log[r][Len(log[r])] = "SEALED_E2E_VALIDATING"
  BY DEF Plannable, AtHead
<1> QED
  BY <1>1, <1>3, <1>5, <1>6 DEF Decisions

\* The commit of a decision: what it appends is the run's decision, what it claims
\* was free, and the process it attests is its own.
LEMMA CommitKeeps ==
    ASSUME Inductive, TypeOK', NEW p \in Callers, Commit(p)
    PROVE  Inductive'
<1> DEFINE c == Admitted(call[p].command)
           r == c.request.run
<1>1. call[p].command \in Commands
  BY DEF Commit, Inductive, TypeOK
<1>2. c \in Commands
  BY <1>1, AdmittedCommand
<1>3. stored[c] = 0 /\ Plannable(c) /\ AtHead(c) /\ Materialize(c)
  BY DEF Commit
<1>4. ASSUME c.decision # "FAILED", NEW d \in Materialized
      PROVE  Claims(c) \cap Claims(d) = {}
  BY <1>1, <1>3, <1>4, AdmittedIsFresh
<1> HIDE DEF c
<1>5. /\ c.request \in Requests /\ c.verdict \in Verdicts /\ c.decision \in Decisions
      /\ r \in Runs /\ c.request.head \in Nat \ {0}
      /\ Claims(c) \subseteq ClaimKeys
  BY <1>2, CommandParts
<1>6. log \in [Runs -> Seq(States)] /\ log[r] \in Seq(States) /\ Len(log[r]) \in Nat
  BY <1>5 DEF Inductive, TypeOK
<1>7. c.request.head = Len(log[r]) /\ log[r][Len(log[r])] = "SEALED_E2E_VALIDATING"
  BY <1>3 DEF Plannable, AtHead
<1>8. /\ log'[r] = Append(log[r], c.decision)
      /\ Len(log'[r]) = Len(log[r]) + 1
      /\ log'[r][Len(log[r]) + 1] = c.decision
      /\ \A i \in 1..Len(log[r]) : log'[r][i] = log[r][i]
      /\ \A q \in Runs : q # r => log'[q] = log[q]
  BY <1>3, <1>5, <1>6 DEF Materialize
<1>9. /\ stored'[c] = Len(log[r]) + 1
      /\ \A d \in Commands : d # c => stored'[d] = stored[d]
  BY <1>2, <1>3 DEF Materialize, Inductive, TypeOK
<1>10. Materialized' = Materialized \cup {c}
  BY <1>2, <1>3, <1>6, <1>9 DEF Materialized
<1>11. \A d \in Materialized : d \in Commands /\ d # c /\ d.request.run # r
  BY <1>2, <1>3, NotDecidedYet DEF Materialized
<1>12. LogIsOpenBeforeItsEnd'
  <2> SUFFICES ASSUME NEW q \in Runs, NEW i \in 1..(Len(log'[q]) - 1)
               PROVE  log'[q][i] \in OpenStates
    BY DEF LogIsOpenBeforeItsEnd
  <2>1. CASE q # r
    BY <1>8, <2>1 DEF Inductive, LogIsOpenBeforeItsEnd
  <2>2. CASE q = r
    <3>1. i \in 1..Len(log[r]) /\ (i = Len(log[r]) \/ i \in 1..(Len(log[r]) - 1))
      BY <1>6, <1>8, <2>2
    <3>2. log[r][i] \in OpenStates
      BY <1>5, <1>7, <3>1 DEF Inductive, LogIsOpenBeforeItsEnd, OpenStates
    <3> QED
      BY <1>8, <2>2, <3>1, <3>2
  <2> QED
    BY <2>1, <2>2
<1>13. DecisionIsTheRunsStep'
  <2>1. ASSUME NEW d \in Materialized'
        PROVE  /\ stored'[d] = d.request.head + 1
               /\ stored'[d] <= Len(log'[d.request.run])
               /\ log'[d.request.run][stored'[d]] = d.decision
               /\ log'[d.request.run][d.request.head] = "SEALED_E2E_VALIDATING"
    <3>1. CASE d = c
      <4>1. Len(log[r]) \in 1..Len(log[r])
        BY <1>5, <1>6, <1>7
      <4>2. stored'[c] = c.request.head + 1 /\ stored'[c] = Len(log'[r])
        BY <1>7, <1>8, <1>9
      <4>3. log'[r][stored'[c]] = c.decision
        BY <1>8, <1>9
      <4>4. log'[r][c.request.head] = "SEALED_E2E_VALIDATING"
        BY <1>7, <1>8, <4>1
      <4>5. stored'[c] <= Len(log'[r])
        BY <1>6, <1>8, <4>2
      <4> QED
        BY <3>1, <4>2, <4>3, <4>4, <4>5
    <3>2. CASE d \in Materialized
      <4>1. d \in Commands /\ d # c /\ d.request.run # r /\ d.request.run \in Runs
        BY <1>11, <3>2, CommandParts
      <4>2. stored'[d] = stored[d] /\ log'[d.request.run] = log[d.request.run]
        BY <1>8, <1>9, <4>1
      <4> QED
        BY <3>2, <4>2 DEF Inductive, DecisionIsTheRunsStep
    <3> QED
      BY <1>10, <3>1, <3>2
  <2>2. ASSUME NEW d \in Materialized', NEW e \in Materialized',
               d.request.run = e.request.run
        PROVE  d = e
    BY <1>10, <1>11, <2>2 DEF Inductive, DecisionIsTheRunsStep
  <2> QED
    BY <2>1, <2>2 DEF DecisionIsTheRunsStep
<1>14. IdentifierServesOnce'
  <2> SUFFICES ASSUME NEW d \in Materialized', NEW e \in Materialized',
                      d # e, Claims(d) \cap Claims(e) # {},
                      d.decision # "FAILED", e.decision # "FAILED"
               PROVE  FALSE
    BY DEF IdentifierServesOnce, Claims
  <2>1. CASE d \in Materialized /\ e \in Materialized
    BY <2>1 DEF Inductive, IdentifierServesOnce
  <2>2. CASE d = c
    BY <1>4, <1>10, <2>2
  <2>3. CASE e = c
    BY <1>4, <1>10, <2>3
  <2> QED
    BY <1>10, <2>1, <2>2, <2>3
<1>15. \A k \in ClaimKeys :
         owner'[k] = IF k \in Claims(c) /\ owner[k] = NoCommand THEN c ELSE owner[k]
  BY <1>3 DEF Materialize
<1>16. \A d \in Materialized' : \A k \in Claims(d) : owner'[k] # NoCommand
  <2> SUFFICES ASSUME NEW d \in Materialized', NEW k \in Claims(d)
               PROVE  owner'[k] # NoCommand
    OBVIOUS
  <2>1. k \in ClaimKeys /\ c # NoCommand
    BY <1>2, <1>5, <1>10, <1>11, CommandParts
  <2>2. d \in Materialized => owner[k] # NoCommand
    BY DEF Inductive, RecordsAgree
  <2> QED
    BY <1>10, <1>15, <2>1, <2>2
<1>17. \A k \in ClaimKeys : owner'[k] # NoCommand =>
         owner'[k] \in Materialized' /\ k \in Claims(owner'[k])
  BY <1>10, <1>15 DEF Inductive, RecordsAgree
<1>18. \A v \in Verdicts : process'[v] = IF v = c.verdict THEN Attestation(c) ELSE process[v]
  BY <1>3, <1>5 DEF Materialize, Inductive, TypeOK
<1>19. \A v \in Verdicts :
         IF process'[v] \in {"running", "checkpointed"}
           THEN \A d \in Materialized' : d.verdict # v
           ELSE \E d \in Materialized' : d.verdict = v /\ process'[v] = Attestation(d)
  <2> SUFFICES ASSUME NEW v \in Verdicts
               PROVE  IF process'[v] \in {"running", "checkpointed"}
                        THEN \A d \in Materialized' : d.verdict # v
                        ELSE \E d \in Materialized' :
                               d.verdict = v /\ process'[v] = Attestation(d)
    OBVIOUS
  <2>1. CASE v = c.verdict
    BY <1>10, <1>18, <2>1 DEF Attestation
  <2>2. CASE v # c.verdict
    BY <1>10, <1>18, <2>2 DEF Inductive, RecordsAgree
  <2> QED
    BY <2>1, <2>2
<1>20. RecordsAgree'
  BY <1>16, <1>17, <1>19 DEF RecordsAgree, Attestation
<1> QED
  BY <1>12, <1>13, <1>14, <1>20 DEF Inductive

LEMMA InductiveStep == Inductive /\ [Next]_vars => Inductive'
<1> SUFFICES ASSUME Inductive, [Next]_vars PROVE Inductive'
  OBVIOUS
<1>1. TypeOK'
  BY TypeOKStep DEF Inductive
<1>2. ASSUME NEW v \in Verdicts, Checkpoint(v) PROVE Inductive'
  BY <1>1, <1>2, RecordsKept DEF Checkpoint
<1>3. ASSUME NEW r \in Runs, Elsewhere(r) PROVE Inductive'
  BY <1>1, <1>3, ElsewhereKeeps
<1>4. ASSUME NEW p \in Callers, Commit(p) PROVE Inductive'
  BY <1>1, <1>4, CommitKeeps
<1>5. ASSUME NEW p \in Callers,
             \/ \E request \in Requests, verdict \in Verdicts : Evaluate(p, request, verdict)
             \/ Replay(p)
             \/ Raise(p)
             \/ Crash(p)
      PROVE  Inductive'
  <2>1. UNCHANGED <<log, process, stored, owner>>
    BY <1>5 DEF Evaluate, Replay, Raise, Crash
  <2> QED
    BY <1>1, <2>1, RecordsKept
<1>6. CASE UNCHANGED vars
  BY <1>1, <1>6, RecordsKept DEF vars
<1> QED
  BY <1>2, <1>3, <1>4, <1>5, <1>6 DEF Next

LEMMA InductiveCorrect == Spec => []Inductive
  BY InitInductive, InductiveStep, PTL DEF Spec

\* A run is decided by the gate at most once, at the sealed head its request names,
\* and its log says so, however many calls and lifecycle commands race.
THEOREM DecisionCorrect == Spec => []DecisionIsTheRunsStep
<1>1. Inductive => DecisionIsTheRunsStep
  BY DEF Inductive
<1> QED
  BY <1>1, InductiveCorrect, PTL

\* Of the decisions that share an identifier or a nonce, all but one are integrity
\* failures.
THEOREM IdentifierCorrect == Spec => []IdentifierServesOnce
<1>1. Inductive => IdentifierServesOnce
  BY DEF Inductive
<1> QED
  BY <1>1, InductiveCorrect, PTL

\* Receipts, claims and attestations are written together.
THEOREM RecordsCorrect == Spec => []RecordsAgree
<1>1. Inductive => RecordsAgree
  BY DEF Inductive
<1> QED
  BY <1>1, InductiveCorrect, PTL
---------------------------------------------------------------------------
(* The replay index of the clarification evaluation.  The strengthening:   *)
(* a claim holds one artifact, an artifact that holds one of its claims    *)
(* holds all of them, and what a transaction has inserted so far are the   *)
(* claims of an artifact none of whose claims was taken when it began.     *)

IndexTyped ==
    /\ claims \subseteq UNION {ReplayIndex!Claims(a) \X {a} : a \in Artifacts}
    /\ artifact \in Artifacts
    /\ index \in {"memory", "sqlite"}
    /\ holder \in Recorders \cup {ReplayIndex!Nobody}
    /\ heard \subseteq Artifacts \X {"recorded", "known", "conflict"}

HoldsAll(a) == \A k \in ReplayIndex!Claims(a) : <<k, a>> \in claims
Free(a) == \A k \in ReplayIndex!Claims(a) : \A b \in Artifacts : <<k, b>> \notin claims

Whole == \A a \in Artifacts : \A k \in ReplayIndex!Claims(a) : <<k, a>> \in claims => HoldsAll(a)

Unique == \A k, a, b : <<k, a>> \in claims /\ <<k, b>> \in claims => a = b

InTransaction ==
    /\ inserted \subseteq ReplayIndex!Claims(artifact)
    /\ holder = ReplayIndex!Nobody => inserted = {}
    /\ inserted # {} => Free(artifact)

\* A refused artifact shares a claim with a recorded one, and an artifact said to be
\* recorded is.
HeardHolds ==
    \A x \in heard :
       /\ x[2] \in {"recorded", "known"} => HoldsAll(x[1])
       /\ x[2] = "conflict" =>
             \E b \in Artifacts : /\ b # x[1] /\ HoldsAll(b)
                                 /\ ReplayIndex!Claims(x[1]) \cap ReplayIndex!Claims(b) # {}

ReplayInv == IndexTyped /\ Whole /\ Unique /\ InTransaction /\ HeardHolds

\* Every artifact claims its nonce.
LEMMA ClaimsSomething ==
    ASSUME NEW a PROVE ReplayIndex!Claims(a) # {}
  BY DEF ReplayIndex!Claims

\* The index as a set of pairs.
LEMMA ClaimPairs ==
    ASSUME IndexTyped
    PROVE  /\ \A x \in claims : \E a \in Artifacts : \E k \in ReplayIndex!Claims(a) : x = <<k, a>>
           /\ \A k, a : a \in ReplayIndex!Stored(k) <=> <<k, a>> \in claims
           /\ \A k, a : <<k, a>> \in claims => a \in Artifacts /\ k \in ReplayIndex!Claims(a)
<1>1. ASSUME NEW x \in claims PROVE \E a \in Artifacts : \E k \in ReplayIndex!Claims(a) : x = <<k, a>>
  <2>1. PICK a \in Artifacts : x \in ReplayIndex!Claims(a) \X {a}
    BY DEF IndexTyped
  <2> QED
    BY <2>1
<1>2. ASSUME NEW k, NEW a, <<k, a>> \in claims PROVE a \in Artifacts /\ k \in ReplayIndex!Claims(a)
  BY <1>1, <1>2
<1>3. ASSUME NEW k, NEW a PROVE a \in ReplayIndex!Stored(k) <=> <<k, a>> \in claims
  <2>1. ASSUME <<k, a>> \in claims PROVE a \in ReplayIndex!Stored(k)
    <3>1. <<k, a>>[1] = k /\ <<k, a>>[2] = a
      OBVIOUS
    <3> QED
      BY <2>1, <3>1 DEF ReplayIndex!Stored
  <2>2. ASSUME a \in ReplayIndex!Stored(k) PROVE <<k, a>> \in claims
    <3>1. PICK x \in claims : x[1] = k /\ x[2] = a
      BY <2>2 DEF ReplayIndex!Stored
    <3>2. PICK b \in Artifacts : \E j \in ReplayIndex!Claims(b) : x = <<j, b>>
      BY <1>1
    <3> QED
      BY <3>1, <3>2
  <2> QED
    BY <2>1, <2>2
<1> QED
  BY <1>1, <1>2, <1>3

\* What is recorded are the artifacts that hold their claims.
LEMMA RecordedHolds ==
    ASSUME IndexTyped, Whole
    PROVE  \A a : a \in ReplayIndex!Recorded <=> a \in Artifacts /\ HoldsAll(a)
<1> TAKE a
<1>1. ASSUME a \in ReplayIndex!Recorded PROVE a \in Artifacts /\ HoldsAll(a)
  <2>1. PICK x \in claims : x[2] = a
    BY <1>1 DEF ReplayIndex!Recorded
  <2>2. PICK b \in Artifacts : \E k \in ReplayIndex!Claims(b) : x = <<k, b>>
    BY ClaimPairs
  <2> QED
    BY <2>1, <2>2 DEF Whole
<1>2. ASSUME a \in Artifacts, HoldsAll(a) PROVE a \in ReplayIndex!Recorded
  <2>1. PICK k : k \in ReplayIndex!Claims(a)
    BY ClaimsSomething
  <2>2. <<k, a>> \in claims /\ <<k, a>>[2] = a
    BY <1>2, <2>1 DEF HoldsAll
  <2> QED
    BY <2>2 DEF ReplayIndex!Recorded
<1> QED
  BY <1>1, <1>2

\* An artifact in conflict shares a claim with another, which is recorded.
LEMMA ConflictIsReal ==
    ASSUME ReplayInv, ReplayIndex!Conflicts
    PROVE  \E b \in Artifacts : /\ b # artifact /\ HoldsAll(b)
                               /\ ReplayIndex!Claims(artifact) \cap ReplayIndex!Claims(b) # {}
<1> USE DEF ReplayInv
<1>1. CASE \E k \in ReplayIndex!Claims(artifact) : ReplayIndex!Stored(k) \ {artifact} # {}
  <2>1. PICK k \in ReplayIndex!Claims(artifact) : ReplayIndex!Stored(k) \ {artifact} # {}
    BY <1>1
  <2>3. PICK b : b \in ReplayIndex!Stored(k) /\ b # artifact
    BY <2>1
  <2>2. b \in Artifacts /\ k \in ReplayIndex!Claims(b) /\ <<k, b>> \in claims
    BY <2>3, ClaimPairs
  <2> QED
    BY <2>1, <2>2, <2>3 DEF Whole
<1>2. CASE ReplayIndex!Missing \notin {{}, ReplayIndex!Claims(artifact)}
  <2>1. PICK k \in ReplayIndex!Claims(artifact), j \in ReplayIndex!Claims(artifact) :
           k \in ReplayIndex!Missing /\ j \notin ReplayIndex!Missing
    BY <1>2 DEF ReplayIndex!Missing
  <2>2. PICK b : b \in ReplayIndex!Stored(j)
    BY <2>1 DEF ReplayIndex!Missing
  <2>3. b \in Artifacts /\ j \in ReplayIndex!Claims(b) /\ <<j, b>> \in claims
    BY <2>2, ClaimPairs
  <2>4. HoldsAll(b)
    BY <2>3 DEF Whole
  <2>5. b # artifact
    BY <2>1, <2>4, ClaimPairs DEF HoldsAll, ReplayIndex!Missing
  <2> QED
    BY <2>1, <2>3, <2>4, <2>5
<1> QED
  BY <1>1, <1>2 DEF ReplayIndex!Conflicts

\* Without a conflict all claims of the artifact are taken, by it, or all are free.
LEMMA NoConflict ==
    ASSUME ReplayInv, ~ReplayIndex!Conflicts
    PROVE  /\ ReplayIndex!Missing # {} => Free(artifact)
           /\ ReplayIndex!Missing = {} => HoldsAll(artifact)
<1> USE DEF ReplayInv
<1>1. ASSUME ReplayIndex!Missing # {} PROVE Free(artifact)
  <2>1. \A k \in ReplayIndex!Claims(artifact) : ReplayIndex!Stored(k) = {}
    BY <1>1 DEF ReplayIndex!Conflicts, ReplayIndex!Missing
  <2> QED
    BY <2>1, ClaimPairs DEF Free
<1>2. ASSUME ReplayIndex!Missing = {} PROVE HoldsAll(artifact)
  <2>1. \A k \in ReplayIndex!Claims(artifact) : ReplayIndex!Stored(k) # {} /\ ReplayIndex!Stored(k) \ {artifact} = {}
    BY <1>2 DEF ReplayIndex!Conflicts, ReplayIndex!Missing
  <2>2. \A k \in ReplayIndex!Claims(artifact) : artifact \in ReplayIndex!Stored(k)
    BY <2>1
  <2> QED
    BY <2>2, ClaimPairs DEF HoldsAll
<1> QED
  BY <1>1, <1>2

\* A step that leaves the claims, and says nothing false.
LEMMA ClaimsStay ==
    ASSUME ReplayInv, UNCHANGED <<index, claims>>,
           artifact' \in Artifacts, holder' \in Recorders \cup {ReplayIndex!Nobody},
           heard' = heard \/ \E x \in Artifacts \X {"known", "conflict"} :
              /\ heard' = heard \cup {x}
              /\ x[2] = "known" => HoldsAll(x[1])
              /\ x[2] = "conflict" => \E b \in Artifacts : /\ b # x[1] /\ HoldsAll(b)
                                       /\ ReplayIndex!Claims(x[1]) \cap ReplayIndex!Claims(b) # {}
    PROVE  IndexTyped' /\ Whole' /\ Unique' /\ HeardHolds'
<1>1. IndexTyped'
  BY DEF ReplayInv, IndexTyped
<1>2. Whole' /\ Unique'
  BY DEF ReplayInv, Whole, Unique, HoldsAll
<1>3. HeardHolds'
  <2> SUFFICES ASSUME NEW x \in heard'
               PROVE  /\ x[2] \in {"recorded", "known"} => HoldsAll(x[1])
                      /\ x[2] = "conflict" =>
                            \E b \in Artifacts : /\ b # x[1] /\ HoldsAll(b)
                                                /\ ReplayIndex!Claims(x[1]) \cap ReplayIndex!Claims(b) # {}
    BY DEF HeardHolds, HoldsAll
  <2>1. CASE x \in heard
    BY <2>1 DEF ReplayInv, HeardHolds
  <2>2. CASE x \notin heard
    BY <2>2
  <2> QED
    BY <2>1, <2>2
<1> QED
  BY <1>1, <1>2, <1>3

\* All claims of a free artifact are taken at once, and it is said to be recorded or not.
LEMMA ClaimsTaken ==
    ASSUME ReplayInv, Free(artifact), artifact' = artifact, index' = index,
           claims' = claims \cup (ReplayIndex!Claims(artifact) \X {artifact}),
           holder' = ReplayIndex!Nobody, inserted' = {},
           heard' \in {heard, heard \cup {<<artifact, "recorded">>}}
    PROVE  ReplayInv'
<1>1. artifact \in Artifacts
  BY DEF ReplayInv, IndexTyped
<1>2. IndexTyped'
  BY <1>1 DEF ReplayInv, IndexTyped
<1>3. \A k, a : <<k, a>> \in claims' <=> \/ <<k, a>> \in claims
                                         \/ a = artifact /\ k \in ReplayIndex!Claims(artifact)
  OBVIOUS
<1>4. \A a \in Artifacts : HoldsAll(a) => HoldsAll(a)'
  BY <1>3 DEF HoldsAll
<1>5. HoldsAll(artifact)'
  BY <1>3 DEF HoldsAll
<1>6. Whole'
  <2> SUFFICES ASSUME NEW a \in Artifacts, NEW k \in ReplayIndex!Claims(a), <<k, a>> \in claims'
               PROVE  HoldsAll(a)'
    BY DEF Whole
  <2> QED
    BY <1>3, <1>4, <1>5 DEF ReplayInv, Whole
<1>7. Unique'
  <2>1. \A k, b : k \in ReplayIndex!Claims(artifact) => <<k, b>> \notin claims
    BY ClaimPairs DEF ReplayInv, Free
  <2> QED
    BY <1>3, <2>1 DEF ReplayInv, Unique
<1>8. InTransaction'
  BY DEF InTransaction
<1>9. HeardHolds'
  <2> SUFFICES ASSUME NEW x \in heard'
               PROVE  /\ x[2] \in {"recorded", "known"} => HoldsAll(x[1])'
                      /\ x[2] = "conflict" =>
                            \E b \in Artifacts : /\ b # x[1] /\ HoldsAll(b)'
                                                /\ ReplayIndex!Claims(x[1]) \cap ReplayIndex!Claims(b) # {}
    BY DEF HeardHolds
  <2>1. CASE x \in heard
    <3>1. x[1] \in Artifacts
      BY <2>1 DEF ReplayInv, IndexTyped
    <3> QED
      BY <1>4, <2>1, <3>1 DEF ReplayInv, HeardHolds
  <2>2. CASE x = <<artifact, "recorded">>
    BY <1>5, <2>2
  <2> QED
    BY <2>1, <2>2
<1> QED
  BY <1>2, <1>6, <1>7, <1>8, <1>9 DEF ReplayInv

LEMMA ReplayInit ==
    ASSUME ReplayIndex!Init PROVE ReplayInv
  BY DEF ReplayIndex!Init, ReplayInv, IndexTyped, Whole, Unique, InTransaction, HeardHolds

LEMMA ReplayStep ==
    ASSUME ReplayInv, [ReplayIndex!Next]_(ReplayIndex!vars) PROVE ReplayInv'
<1>1. CASE UNCHANGED ReplayIndex!vars
  BY <1>1 DEF ReplayIndex!vars, ReplayInv, IndexTyped, Whole, Unique, InTransaction, HeardHolds, HoldsAll, Free
<1>2. ASSUME NEW c \in Recorders, NEW a \in Artifacts, ReplayIndex!Enter(c, a) PROVE ReplayInv'
  <2>1. /\ holder = ReplayIndex!Nobody /\ holder' = c /\ artifact' = a
        /\ UNCHANGED <<index, claims, inserted, heard>>
    BY <1>2 DEF ReplayIndex!Enter
  <2>2. inserted' = {}
    BY <2>1 DEF ReplayInv, InTransaction
  <2>3. IndexTyped' /\ Whole' /\ Unique' /\ HeardHolds'
    BY <2>1, ClaimsStay
  <2> QED
    BY <2>2, <2>3 DEF ReplayInv, InTransaction
<1>3. ASSUME ReplayIndex!Refuse \/ ReplayIndex!Known \/ ReplayIndex!Fail PROVE ReplayInv'
  <2>1. /\ holder' = ReplayIndex!Nobody /\ inserted' = {} /\ UNCHANGED <<index, artifact, claims>>
        /\ artifact \in Artifacts
    BY <1>3 DEF ReplayIndex!Refuse, ReplayIndex!Known, ReplayIndex!Fail, ReplayIndex!Leave, ReplayInv, IndexTyped
  <2>2. \/ heard' = heard
        \/ heard' = heard \cup {<<artifact, "conflict">>} /\ ReplayIndex!Conflicts
        \/ heard' = heard \cup {<<artifact, "known">>} /\ ~ReplayIndex!Conflicts /\ ReplayIndex!Missing = {}
    BY <1>3 DEF ReplayIndex!Refuse, ReplayIndex!Known, ReplayIndex!Fail, ReplayIndex!Leave
  <2>3. IndexTyped' /\ Whole' /\ Unique' /\ HeardHolds'
    <3>1. CASE heard' = heard
      BY <2>1, <3>1, ClaimsStay
    <3>2. CASE heard' = heard \cup {<<artifact, "conflict">>} /\ ReplayIndex!Conflicts
      <4> DEFINE x == <<artifact, "conflict">>
      <4>1. x \in Artifacts \X {"known", "conflict"} /\ x[1] = artifact /\ x[2] = "conflict"
        BY <2>1
      <4> HIDE DEF x
      <4> QED
        BY <2>1, <3>2, <4>1, ConflictIsReal, ClaimsStay DEF x
    <3>3. CASE heard' = heard \cup {<<artifact, "known">>} /\ ~ReplayIndex!Conflicts /\ ReplayIndex!Missing = {}
      <4> DEFINE x == <<artifact, "known">>
      <4>1. x \in Artifacts \X {"known", "conflict"} /\ x[1] = artifact /\ x[2] = "known"
        BY <2>1
      <4>2. HoldsAll(artifact)
        BY <3>3, NoConflict
      <4> QED
        BY <2>1, <3>3, <4>1, <4>2, ClaimsStay
    <3> QED
      BY <2>2, <3>1, <3>2, <3>3
  <2> QED
    BY <2>1, <2>3 DEF ReplayInv, InTransaction
<1>4. ASSUME ReplayIndex!Update PROVE ReplayInv'
  <2>1. /\ holder' = ReplayIndex!Nobody /\ inserted' = {} /\ UNCHANGED <<index, artifact>>
        /\ claims' = claims \cup (ReplayIndex!Claims(artifact) \X {artifact})
        /\ heard' = heard \cup {<<artifact, "recorded">>}
        /\ ~ReplayIndex!Conflicts /\ ReplayIndex!Missing # {}
    BY <1>4 DEF ReplayIndex!Update, ReplayIndex!Leave
  <2> QED
    BY <2>1, NoConflict, ClaimsTaken
<1>5. ASSUME ReplayIndex!Commit PROVE ReplayInv'
  <2>1. /\ holder' = ReplayIndex!Nobody /\ inserted' = {} /\ UNCHANGED <<index, artifact>>
        /\ inserted = ReplayIndex!Claims(artifact)
        /\ claims' = claims \cup (ReplayIndex!Claims(artifact) \X {artifact})
        /\ heard' \in {heard, heard \cup {<<artifact, "recorded">>}}
    BY <1>5 DEF ReplayIndex!Commit, ReplayIndex!Leave
  <2>2. Free(artifact)
    BY <2>1, ClaimsSomething DEF ReplayInv, InTransaction
  <2> QED
    BY <2>1, <2>2, ClaimsTaken
<1>6. ASSUME NEW k, ReplayIndex!Insert(k) PROVE ReplayInv'
  <2>1. /\ holder # ReplayIndex!Nobody /\ ~ReplayIndex!Conflicts
        /\ k \in ReplayIndex!Missing /\ inserted' = inserted \cup {k}
        /\ UNCHANGED <<index, claims, holder, artifact, heard>>
    BY <1>6 DEF ReplayIndex!Insert
  <2>2. Free(artifact) /\ k \in ReplayIndex!Claims(artifact)
    BY <2>1, NoConflict DEF ReplayIndex!Missing
  <2> QED
    BY <2>1, <2>2 DEF ReplayInv, IndexTyped, Whole, Unique, InTransaction, HeardHolds, HoldsAll, Free
<1> QED
  BY <1>1, <1>2, <1>3, <1>4, <1>5, <1>6 DEF ReplayIndex!Next

\* Type correctness of the index.
THEOREM IndexTypeCorrect == ReplayIndex!Spec => []ReplayIndex!TypeOK
<1>1. ReplayInv => ReplayIndex!TypeOK
  BY DEF ReplayInv, IndexTyped, InTransaction, ReplayIndex!TypeOK
<1> QED
  BY <1>1, ReplayInit, ReplayStep, PTL DEF ReplayIndex!Spec

\* A question is judged once, and what a recorder was told stays true; for any signed
\* artifacts and any number of recorders, in either index.
THEOREM JudgedOnce ==
    ASSUME ReplayIndex!ArtifactsAssumption
    PROVE  ReplayIndex!Spec => []OneJudgementEach
<1>1. ReplayInv => OneJudgementEach
  <2> SUFFICES ASSUME ReplayInv PROVE ReplayIndex!OneJudgementEach
    BY DEF OneJudgementEach
  <2> USE DEF ReplayInv
  <2>1. ASSUME NEW a \in ReplayIndex!Recorded, NEW b \in ReplayIndex!Recorded,
               a.kind = b.kind, a.kind # "answers", a.about = b.about
        PROVE  a = b
    <3>1. a \in Artifacts /\ b \in Artifacts /\ HoldsAll(a) /\ HoldsAll(b)
      BY RecordedHolds
    <3>2. a.kind \in {"request", "verdict", "outcome"}
      BY <2>1, <3>1 DEF ReplayIndex!ArtifactsAssumption
    <3>3. PICK k : k \in ReplayIndex!Claims(a) /\ k \in ReplayIndex!Claims(b)
      <4>1. CASE a.kind = "request"
        BY <2>1, <4>1 DEF ReplayIndex!Claims
      <4>2. CASE a.kind = "verdict"
        BY <2>1, <4>2 DEF ReplayIndex!Claims
      <4>3. CASE a.kind = "outcome"
        BY <2>1, <4>3 DEF ReplayIndex!Claims
      <4> QED
        BY <3>2, <4>1, <4>2, <4>3
    <3> QED
      BY <3>1, <3>3 DEF HoldsAll, Unique
  <2>2. ASSUME NEW x \in heard, x[2] \in {"recorded", "known"} PROVE x[1] \in ReplayIndex!Recorded
    BY <2>2, RecordedHolds DEF HeardHolds, IndexTyped
  <2>3. ASSUME NEW x \in heard, x[2] = "conflict"
        PROVE  /\ x[1] \notin ReplayIndex!Recorded
               /\ \E b \in ReplayIndex!Recorded : ReplayIndex!Claims(x[1]) \cap ReplayIndex!Claims(b) # {}
    <3>1. PICK b \in Artifacts : /\ b # x[1] /\ HoldsAll(b)
                                /\ ReplayIndex!Claims(x[1]) \cap ReplayIndex!Claims(b) # {}
      BY <2>3 DEF HeardHolds
    <3>2. b \in ReplayIndex!Recorded
      BY <3>1, RecordedHolds
    <3>3. x[1] \notin ReplayIndex!Recorded
      BY <3>1, RecordedHolds DEF HoldsAll, Unique
    <3> QED
      BY <3>1, <3>2, <3>3
  <2> QED
    BY <2>1, <2>2, <2>3 DEF ReplayIndex!OneJudgementEach
<1> QED
  BY <1>1, ReplayInit, ReplayStep, PTL DEF ReplayIndex!Spec

---------------------------------------------------------------------------
(* The two together.                                                       *)

\* What is proved of the gate and of the index is proved of the two together, for
\* neither is disturbed by the other.
THEOREM BothAreThemselves == BothSpec => Spec /\ ReplayIndex!Spec
<1>1. BothInit => Init /\ ReplayIndex!Init
  BY DEF BothInit
<1>2. [BothNext]_bothVars => [Next]_vars /\ [ReplayIndex!Next]_(ReplayIndex!vars)
  BY DEF BothNext, bothVars, indexVars, ReplayIndex!vars
<1> QED
  BY <1>1, <1>2, PTL DEF BothSpec, Spec, ReplayIndex!Spec
===========================================================================
