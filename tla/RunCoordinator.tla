--------------------------- MODULE RunCoordinator ---------------------------
(***************************************************************************)
(* application/coordinator.py: the phase of one run, the event head it was *)
(* built on, its manifest and whether it was recovered.  Every method      *)
(* returns a new coordinator that replaces the old one, or raises, which   *)
(* changes nothing.  The caller may call any of them at any time.          *)
(***************************************************************************)
EXTENDS Naturals

CONSTANTS
    EventHeads,   \* verified event heads of the run's log
    Manifests

Absent == "none"

ASSUME AbsentAssumption == Absent \notin EventHeads /\ Absent \notin Manifests

VARIABLES
    phase,
    eventHead,
    manifest,
    recoveryAttempted

coordinator == <<phase, eventHead, manifest, recoveryAttempted>>

TerminalPhases == {"completed", "failed", "cancelled"}
Phases == {"idle", "planning", "executing", "recovering"} \cup TerminalPhases

AllowedTransitions ==
    {<<"idle", "planning">>, <<"idle", "recovering">>,
     <<"planning", "executing">>, <<"planning", "failed">>,
     <<"executing", "completed">>, <<"executing", "failed">>,
     <<"executing", "cancelled">>, <<"executing", "recovering">>,
     <<"recovering", "executing">>, <<"recovering", "planning">>,
     <<"recovering", "failed">>}

CoordinatorInit ==
    /\ phase = "idle"
    /\ eventHead = Absent
    /\ manifest = Absent
    /\ recoveryAttempted = FALSE

\* transition, and the methods that are one: finish_planning, finish_execution,
\* finish_recovery_to_execution, finish_recovery_to_planning, fail_recovery and,
\* since nothing else may end so, cancel and fail_execution.
Transition(to) ==
    /\ <<phase, to>> \in AllowedTransitions
    /\ phase' = to
    /\ UNCHANGED <<eventHead, manifest, recoveryAttempted>>

CreateRun(m, head) ==
    /\ phase = "idle"
    /\ phase' = "planning"
    /\ manifest' = m
    /\ eventHead' = head
    /\ recoveryAttempted' = FALSE

BeginPlanning ==
    /\ phase \in {"idle", "recovering"}
    /\ phase' = "planning"
    /\ UNCHANGED <<eventHead, manifest, recoveryAttempted>>

BeginRecoveryFromAny ==    \* Mutant: a failed run may be recovered
    /\ phase # "idle"
    /\ phase' = "recovering"
    /\ recoveryAttempted' = TRUE
    /\ UNCHANGED <<eventHead, manifest>>

\* Not by the table, in which a run that is planned cannot be recovered.
BeginRecovery ==
    /\ phase \in {"executing", "planning"}
    /\ phase' = "recovering"
    /\ recoveryAttempted' = TRUE
    /\ UNCHANGED <<eventHead, manifest>>

\* recover_from_event_head: from any phase, a terminal one too.  Without a head
\* the run starts over, under the manifest it has.
RecoverFromEventHead(head) ==
    /\ eventHead' = head
    /\ phase' = IF head = Absent THEN "idle" ELSE phase
    /\ recoveryAttempted' = (head # Absent /\ recoveryAttempted)
    /\ UNCHANGED manifest

CoordinatorNext ==
    \/ \E to \in Phases : Transition(to)
    \/ \E m \in Manifests, head \in EventHeads : CreateRun(m, head)
    \/ BeginPlanning
    \/ BeginRecovery
    \/ \E head \in EventHeads \cup {Absent} : RecoverFromEventHead(head)

CoordinatorSpec == CoordinatorInit /\ [][CoordinatorNext]_coordinator

---------------------------------------------------------------------------

CoordinatorTypeOK ==
    /\ phase \in Phases
    /\ eventHead \in EventHeads \cup {Absent}
    /\ manifest \in Manifests \cup {Absent}
    /\ recoveryAttempted \in BOOLEAN

\* A run that is over stays over: the only way out of a terminal phase is to start
\* the run over without an event head, and an idle run has no recovery behind it.
\* The methods that set a phase without the transition table keep this too.
RunsEndOnce ==
    [][/\ phase \in TerminalPhases =>
            phase' = phase \/ (phase' = "idle" /\ eventHead' = Absent)
       /\ phase' = "idle" => ~recoveryAttempted']_coordinator
=============================================================================
