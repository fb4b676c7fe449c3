----------------------------- MODULE MCEnvironments -----------------------------
(* The environments a run works with, which share no state: a behaviour is one of  *)
(* two MetaDrive workers of one partition manifest, whose seed contracts name the  *)
(* same scenario; of a Taxi and a MiniGrid worker; of a multi-agent adapter; of a  *)
(* remote session of five requests whose grant expires within the clock's range;   *)
(* or of two calls for one pilot while its sources are edited once.                *)
EXTENDS Environments

CONSTANTS trainer, evaluator, taxi, minigrid, s1, s2, s3, s4, m3

SuiteMC == [w \in Workers |-> CASE w = taxi -> "taxi_mdp" [] w = minigrid -> "memory_pomdp" [] OTHER -> "metadrive_pomdp"]
SelectedMC == [w \in Workers |-> IF w = evaluator THEN "evaluation" ELSE "training"]
ScenarioMC == [w \in Workers |-> s1]

ASSUME Single!SuitesAssumption /\ Single!BoundsAssumption
ASSUME Multi!ManifestAssumption /\ Multi!MaxTicksAssumption
ASSUME Pilot!PilotAssumption

\* Who has the scenario of the seed contracts, and one thing that can be wrong.
Attestation(holders, wrong) ==
    [scenarios |-> [k \in Single!Kinds |->
        CASE k = "training" -> {s2} \cup (IF k \in holders THEN {s1} ELSE {})
          [] k = "evaluation" -> {s3} \cup (IF k \in holders THEN {s1} ELSE {})
          [] k = "validation" -> IF wrong = "empty" THEN {} ELSE {s4}],
     revision |-> [k \in Single!Kinds |-> IF wrong = "revision" /\ k = "validation" THEN 2 ELSE 1],
     of |-> 1,
     signer |-> IF wrong = "manifest" THEN "other" ELSE "publisher",
     signers |-> [k \in Single!Kinds |-> IF wrong = "partition" /\ k = "training" THEN "other" ELSE "publisher"],
     bound |-> wrong # "binding"]
Attestations == {Attestation(holders, wrong) : holders \in SUBSET {"training", "evaluation"},
                 wrong \in {"nothing", "empty", "revision", "manifest", "partition", "binding"}}
Candidates == [attested: BOOLEAN, built: {"generated", "official", "incomplete"}]

MCInit ==
    /\ part \in {"metadrive", "gymnasium", "multi", "remote", "pilot"}
    /\ attestation \in (IF part = "metadrive" THEN Attestations ELSE {Attestation({}, "empty")})
    /\ candidate \in (IF part = "gymnasium" THEN Candidates ELSE {[attested |-> FALSE, built |-> "generated"]})
    /\ AllInit
    /\ part # "multi" => suite = "citylearn_posg" /\ battle = [tick |-> 0, mask |-> CHOOSE m \in Masks : TRUE]
    /\ part # "pilot" => manifest = [c \in Callers |-> m3]
MCNext == AllNext /\ (part = "metadrive" => phase'[minigrid] = "none")
MCSpec == MCInit /\ [][MCNext]_allVars

\* The environments of every suite step only after a reset that succeeded, as the
\* error messages of the adapters have it.
StepsFollowAReset == Single!StepsFollowAReset /\ Multi!StepsFollowAReset
=================================================================================
