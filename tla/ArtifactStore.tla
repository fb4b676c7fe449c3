----------------------------- MODULE ArtifactStore -----------------------------
(***************************************************************************)
(* What an artifact repository promises, as InMemoryArtifactRepository     *)
(* keeps it: a set of immutable artifacts that grows one at a time, each   *)
(* after its parents.                                                      *)
(*                                                                         *)
(* The identifier of an artifact is the hash of its envelope, so what an   *)
(* identifier stands for never changes: the constant functions below.      *)
(***************************************************************************)
EXTENDS Naturals, FiniteSets

CONSTANTS
    Artifacts,    \* identifiers that somebody may come to use
    Parents,      \* the parents each one names in its envelope
    Refs,         \* the artifacts its payload refers to, for payload-bound schemas
    Coherent      \* those that agree with what their parents say

ParentsAssumption == Parents \in [Artifacts -> SUBSET Artifacts]

VARIABLE stored

\* What an artifact must be to be put: its parents are there, and what it says of
\* them is true.
Puttable(a) == Parents[a] \subseteq stored /\ Refs[a] = Parents[a] /\ a \in Coherent

Put(a) == Puttable(a) /\ stored' = stored \cup {a}

\* No artifact is there without its parents, or says of them what is not true.
Closed(set) == \A a \in set : Parents[a] \subseteq set /\ Refs[a] = Parents[a] /\ a \in Coherent

Init == stored \in SUBSET Artifacts /\ Closed(stored)
Next == \E a \in Artifacts : Put(a)
Spec == Init /\ [][Next]_stored
================================================================================
