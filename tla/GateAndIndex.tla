---------------------------- MODULE GateAndIndex ----------------------------
(***************************************************************************)
(* The sealed gate, and the replay index of the clarification evaluation.  *)
(* Both guard identifiers against a second use; they share no state, and a *)
(* behaviour is about one of them.                                         *)
(***************************************************************************)
EXTENDS E2EGate

CONSTANTS Recorders, Artifacts

VARIABLES
    part,    \* "gate", or the kind of the artifacts that are recorded
    index, claims, holder, artifact, inserted, heard

ReplayIndex == INSTANCE ClarificationReplay

indexVars == <<index, claims, holder, artifact, inserted, heard>>
bothVars == <<part, vars, indexVars>>

BothInit == part \in {"gate"} \cup {a.kind : a \in Artifacts} /\ Init /\ ReplayIndex!Init
BothNext ==
    \/ part = "gate" /\ Next /\ UNCHANGED <<part, indexVars>>
    \/ part # "gate" /\ ReplayIndex!Next /\ UNCHANGED <<part, vars>>
BothSpec == BothInit /\ [][BothNext]_bothVars

\* A clarification is judged once (ClarificationReplay).
OneJudgementEach == ReplayIndex!OneJudgementEach
=============================================================================
