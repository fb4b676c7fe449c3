---------------------------- MODULE MCE2EGate ----------------------------
(* Two runs.  The coordinator signed a request for each at its first sealed   *)
(* head, the second one under the identifier of the first, and one for the    *)
(* second run after a wait.  Two verdicts of different runs share their       *)
(* identifier.  Beside the gate, and sharing nothing with it, the replay index *)
(* of the clarification evaluation: four requests, of which two share an       *)
(* identifier, two a subject and two their run and coordinator, and two       *)
(* verdicts, outcomes and answer bundles each that claim the same.            *)
EXTENDS GateAndIndex, TLC

CONSTANTS r1, r2, i1, i2

Request1 == [id |-> i1, run |-> r1, head |-> 1]
Request2 == [id |-> i1, run |-> r2, head |-> 1]
Request3 == [id |-> i2, run |-> r2, head |-> 3]
RequestsMC == {Request1, Request2, Request3}

VerdictsMC == {[id |-> i1, request |-> Request1, passed |-> TRUE],
               [id |-> i2, request |-> Request2, passed |-> TRUE],
               [id |-> i1, request |-> Request3, passed |-> FALSE]}

SymmetricCallers == Permutations(Callers)

Signed(kind, id, signer, run, about) ==
    [kind |-> kind, id |-> id, signer |-> signer, nonce |-> id, run |-> run, about |-> about]
SignedMC ==
    {Signed("request", "q1", "k1", 1, "s1"), Signed("request", "q1", "k2", 2, "s2"),
     Signed("request", "q2", "k2", 1, "s1"), Signed("request", "q3", "k1", 1, "s3"),
     Signed("verdict", "v1", "k3", 1, "q1"),
     Signed("verdict", "v2", "k3", 1, "q1"), Signed("outcome", "o1", "k4", 1, "slot"),
     Signed("outcome", "o2", "k4", 1, "slot"), Signed("answers", "b1", "k5", 1, "a1"),
     Signed("answers", "b1", "k5", 1, "a2")}

RecordersMC == Callers

ASSUME ReplayIndex!ArtifactsAssumption

-----------------------------------------------------------------------------
\* Artifacts of different kinds claim nothing in common: one kind at a time.
MCInit ==
    /\ BothInit
    /\ IF part = "gate" THEN index = "memory" /\ artifact = CHOOSE a \in Artifacts : TRUE
                        ELSE artifact.kind = part
MCNext == BothNext /\ (part # "gate" => artifact'.kind = part)
MCSpec == MCInit /\ [][MCNext]_bothVars
=============================================================================
