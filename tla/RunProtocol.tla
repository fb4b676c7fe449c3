---------------------------- MODULE RunProtocol ----------------------------
(***************************************************************************)
(* What a run promises to whoever reads its status: it goes through four   *)
(* phases, may be sent back to an earlier one only while the candidate is  *)
(* not sealed, may be suspended and continued where it was, and ends once, *)
(* with an outcome its last phase can justify.                             *)
(***************************************************************************)
EXTENDS Integers

\* 0 not created, 1 writing the task text, 2 modelling, 3 implementing and
\* validating the environment, 4 evaluating and packaging a sealed candidate,
\* 5 over.
Sealed == 4
Over == 5

Outcomes == {"none", "COMPLETED", "CLARIFICATION_REQUIRED", "OOD_PACKAGED",
             "PARTIAL", "BUDGET_EXHAUSTED", "FAILED", "CANCELLED"}

VARIABLES phase, suspended, outcome

vars == <<phase, suspended, outcome>>

Init == phase = 0 /\ suspended = FALSE /\ outcome = "none"

Open == phase \in 1..Sealed

Create ==
    /\ phase = 0
    /\ phase' = 1
    /\ UNCHANGED <<suspended, outcome>>

\* Phases are entered one at a time, never from a suspension.
Advance ==
    /\ Open
    /\ ~suspended
    /\ phase < Sealed
    /\ phase' = phase + 1
    /\ UNCHANGED <<suspended, outcome>>

SendBack ==
    /\ Open
    /\ ~suspended
    /\ phase < Sealed
    /\ phase' \in 1..(phase - 1)
    /\ UNCHANGED <<suspended, outcome>>

SuspendOrContinue ==
    /\ Open
    /\ suspended' = ~suspended
    /\ UNCHANGED <<phase, outcome>>

\* The outcomes a run may end with where it is. A partial result needs a sealed
\* candidate or a wait that is given up; a failure is a verdict of a stage, never
\* of a wait; a cancellation withdraws a run that has not begun or that waits.
Justified ==
    {"BUDGET_EXHAUSTED"}
    \cup (IF suspended \/ phase = Sealed THEN {"PARTIAL"} ELSE {})
    \cup (IF suspended \/ phase = 1 THEN {"CANCELLED"} ELSE {})
    \cup (IF suspended THEN {} ELSE {"FAILED"})
    \cup (IF phase = 1 /\ ~suspended THEN {"CLARIFICATION_REQUIRED"} ELSE {})
    \cup (IF phase = 2 /\ ~suspended THEN {"OOD_PACKAGED"} ELSE {})
    \cup (IF phase = Sealed /\ ~suspended THEN {"COMPLETED"} ELSE {})

End ==
    /\ Open
    /\ outcome' \in Justified
    /\ phase' = Over
    /\ suspended' = FALSE

Next == Create \/ Advance \/ SendBack \/ SuspendOrContinue \/ End

Spec == Init /\ [][Next]_vars
=============================================================================
