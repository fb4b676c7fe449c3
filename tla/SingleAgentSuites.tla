---------------------------- MODULE SingleAgentSuites ----------------------------
(***************************************************************************)
(* The single-agent suites: a SingleAgentSuiteLifecycle for each worker,   *)
(* its backend (Taxi, MiniGrid or MetaDrive), the Gymnasium environments   *)
(* the backend makes, and the partitions of scenarios that MetaDrive       *)
(* workers train, validate and evaluate on.                                *)
(*                                                                         *)
(* The environments are not the repository's.  Any call of one can raise,  *)
(* before or after it did something, or return what the backend refuses;   *)
(* a refused request changes nothing and is not an action.                 *)
(***************************************************************************)
EXTENDS Naturals

CONSTANTS
    Workers,
    Suite,         \* suite_id of the manifest each worker has
    Selected,      \* the partition its manifest selects
    Scenario,      \* the scenario of its seed contract
    Scenarios,
    Trusted,       \* the keys whose signature counts
    MaxMade,       \* bound: environments a worker's factory makes
    MaxSteps       \* bound: steps of an episode

Kinds == {"training", "validation", "evaluation"}
NoEnvironment == 0

SuitesAssumption ==
    /\ Suite \in [Workers -> {"taxi_mdp", "memory_pomdp", "metadrive_pomdp"}]
    /\ Selected \in [Workers -> Kinds]
    /\ Scenario \in [Workers -> Scenarios]
BoundsAssumption == MaxMade \in Nat \ {0} /\ MaxSteps \in Nat

VARIABLES
    attestation,   \* the partition manifest attestation MetaDrive workers are given
    candidate,     \* what Taxi's runner attests and its builder builds
    phase,         \* of each lifecycle, "none" before it has a backend
    stepId,
    environment,   \* the environment the backend refers to
    made,          \* how many environments its factory made
    open,          \* those of them that are open
    reset,         \* history: its last reset succeeded
    stepped,       \* history: what the environment's last step followed
    ran            \* history: scenarios it has run

vars == <<attestation, candidate, phase, stepId, environment, made, open, reset, stepped, ran>>
histories == <<reset, stepped, ran>>
external == <<attestation, candidate>>

IsMetaDrive(w) == Suite[w] = "metadrive_pomdp"

TypeOK ==
    /\ DOMAIN attestation.scenarios = Kinds
    /\ candidate.attested \in BOOLEAN
    /\ phase \in [Workers -> {"none", "new", "described", "reset", "closed"}]
    /\ stepId \in [Workers -> 0..MaxSteps]
    /\ environment \in [Workers -> 0..MaxMade]
    /\ made \in [Workers -> 0..MaxMade]
    /\ open \in [Workers -> SUBSET (1..MaxMade)]
    /\ reset \in [Workers -> BOOLEAN]
    /\ stepped \in [Workers -> {"nothing", "a reset", "a failed reset"}]
    /\ ran \in [Workers -> SUBSET Scenarios]

Init ==
    /\ phase = [w \in Workers |-> "none"]
    /\ stepId = [w \in Workers |-> 0]
    /\ environment = [w \in Workers |-> NoEnvironment]
    /\ made = [w \in Workers |-> 0]
    /\ open = [w \in Workers |-> {}]
    /\ reset = [w \in Workers |-> FALSE]
    /\ stepped = [w \in Workers |-> "nothing"]
    /\ ran = [w \in Workers |-> {}]

---------------------------------------------------------------------------
(* Making a worker.                                                        *)

\* Mutant: a scenario may be in more than one partition.
NotOverlapping(scenarios) == FALSE

\* require_non_overlapping_scenario_partitions
Overlapping(scenarios) == \E j, k \in Kinds : j # k /\ scenarios[j] \cap scenarios[k] # {}

\* An attestation is the manifest's over three partitions, each with a signature of its
\* own, and all of one revision of the dataset.
WellFormed(a) ==
    /\ \A k \in Kinds : a.scenarios[k] # {} /\ a.revision[k] = a.of
    /\ ~Overlapping(a.scenarios)

Signed(a) == a.signer \in Trusted /\ \A k \in Kinds : a.signers[k] \in Trusted

\* The backend takes the attestation that its manifest names.
BuildMetaDrive(w) ==
    /\ IsMetaDrive(w)
    /\ phase[w] = "none"
    /\ WellFormed(attestation) /\ Signed(attestation) /\ attestation.bound
    /\ phase' = [phase EXCEPT ![w] = "new"]
    /\ UNCHANGED <<external, stepId, environment, made, open, histories>>

\* MiniGrid's environment is handed to its backend.
BuildMiniGrid(w) ==
    /\ Suite[w] = "memory_pomdp"
    /\ phase[w] = "none"
    /\ phase' = [phase EXCEPT ![w] = "new"]
    /\ environment' = [environment EXCEPT ![w] = 1]
    /\ made' = [made EXCEPT ![w] = 1]
    /\ open' = [open EXCEPT ![w] = {1}]
    /\ UNCHANGED <<external, stepId, histories>>

\* TaxiRunnerBoundFactory.create: what the builder built is refused after the fact, and
\* then nobody closes it.
BuildTaxi(w) ==
    /\ Suite[w] = "taxi_mdp"
    /\ phase[w] = "none" /\ made[w] = 0
    /\ candidate.attested
    /\ made' = [made EXCEPT ![w] = 1]
    /\ open' = [open EXCEPT ![w] = {1}]
    /\ IF candidate.built = "generated"
       THEN /\ phase' = [phase EXCEPT ![w] = "new"]
            /\ environment' = [environment EXCEPT ![w] = 1]
       ELSE UNCHANGED <<phase, environment>>
    /\ UNCHANGED <<external, stepId, histories>>

\* RemoteGymnasiumEnv describes the worker it is given.
Describe(w) ==
    /\ phase[w] = "new"
    /\ phase' = [phase EXCEPT ![w] = "described"]
    /\ UNCHANGED <<external, stepId, environment, made, open, histories>>

---------------------------------------------------------------------------
(* Reset.  What fails in the backend leaves the lifecycle as it was.       *)

\* The request names the seed and scenario of the manifest, and for MetaDrive one of
\* its partition.
Resettable(w, scenario) ==
    /\ phase[w] \in {"described", "reset"}
    /\ scenario = Scenario[w]
    /\ IsMetaDrive(w) => scenario \in attestation.scenarios[Selected[w]]

ResetDone(w) ==
    /\ phase' = [phase EXCEPT ![w] = "reset"]
    /\ stepId' = [stepId EXCEPT ![w] = 0]
    /\ reset' = [reset EXCEPT ![w] = TRUE]
    /\ ran' = [ran EXCEPT ![w] = @ \cup {Scenario[w]}]
    /\ UNCHANGED stepped

ResetFailed(w) ==
    /\ reset' = [reset EXCEPT ![w] = FALSE]
    /\ UNCHANGED <<phase, stepId, stepped, ran>>

\* TaxiGeneratedBackend.reset and MiniGridMemoryBackend.reset
ResetSame(w, scenario) ==
    /\ ~IsMetaDrive(w)
    /\ Resettable(w, scenario)
    /\ ResetDone(w) \/ ResetFailed(w)
    /\ UNCHANGED <<external, environment, made, open>>

\* Mutant: the environment of the last episode stays open.
MakeAnother(w) ==
    /\ made[w] < MaxMade
    /\ made' = [made EXCEPT ![w] = @ + 1]
    /\ environment' = [environment EXCEPT ![w] = made'[w]]
    /\ open' = [open EXCEPT ![w] = @ \cup {made'[w]}]

\* MetaDriveScenarioBackend.reset closes the environment it has, makes one for the
\* scenario and resets that.
MakeNext(w) ==
    /\ made[w] < MaxMade
    /\ made' = [made EXCEPT ![w] = @ + 1]
    /\ environment' = [environment EXCEPT ![w] = made'[w]]
    /\ open' = [open EXCEPT ![w] = (@ \ {environment[w]}) \cup {made'[w]}]

ResetScenario(w, scenario) ==
    /\ IsMetaDrive(w)
    /\ Resettable(w, scenario)
    /\ MakeNext(w)
    /\ ResetDone(w) \/ ResetFailed(w)
    /\ UNCHANGED external

\* Closing the last environment raises, or making the next does: the backend still
\* refers to the last one.
ResetScenarioEarly(w, scenario) ==
    /\ IsMetaDrive(w)
    /\ Resettable(w, scenario)
    /\ ResetFailed(w)
    /\ \/ UNCHANGED open
       \/ open' = [open EXCEPT ![w] = @ \ {environment[w]}]
    /\ environment[w] = NoEnvironment => UNCHANGED open
    /\ UNCHANGED <<external, environment, made>>

---------------------------------------------------------------------------
(* Step and close.                                                         *)

\* The backend calls the environment it refers to, whatever became of it; a
\* transition it refuses is a failed step.
Step(w) ==
    /\ phase[w] = "reset"
    /\ environment[w] # NoEnvironment
    /\ stepId[w] < MaxSteps
    /\ stepId' = [stepId EXCEPT ![w] = @ + 1] \/ UNCHANGED stepId
    /\ stepped' = [stepped EXCEPT ![w] = IF reset[w] THEN "a reset" ELSE "a failed reset"]
    /\ UNCHANGED <<external, phase, environment, made, open, reset, ran>>

\* A close that raises can be repeated, a second close does nothing.
Close(w) ==
    /\ phase[w] \in {"new", "described", "reset"}
    /\ open' = [open EXCEPT ![w] = @ \ {environment[w]}]
    /\ phase' = [phase EXCEPT ![w] = "closed"]
    /\ environment' = [environment EXCEPT ![w] = IF IsMetaDrive(w) THEN NoEnvironment ELSE @]
    /\ UNCHANGED <<external, stepId, made, histories>>

CloseFails(w) ==
    /\ phase[w] \in {"new", "described", "reset"}
    /\ environment[w] # NoEnvironment
    /\ open' = [open EXCEPT ![w] = @ \ {environment[w]}]
    /\ UNCHANGED <<external, phase, stepId, environment, made, histories>>

Next ==
    \E w \in Workers :
        \/ BuildMetaDrive(w) \/ BuildMiniGrid(w) \/ BuildTaxi(w) \/ Describe(w) \/ Step(w) \/ Close(w) \/ CloseFails(w)
        \/ \E scenario \in Scenarios :
              ResetSame(w, scenario) \/ ResetScenario(w, scenario) \/ ResetScenarioEarly(w, scenario)

Spec == Init /\ [][Next]_vars

---------------------------------------------------------------------------
(* Properties.                                                             *)

\* TaxiRunnerBoundFactory.create built an environment and refused it: there is no backend.
RefusedAfterBuilding(w) == phase[w] = "none" /\ made[w] > 0

\* Whatever raises on the way, the only environment that can be open is the one the
\* backend can still close, and none is after close: MetaDrive makes a simulator for
\* every episode.  The one exception is a candidate that Taxi's factory refuses after it
\* was built; it stays open, and nobody has it to close.
OnlyARefusedTaxiStaysOpen ==
    \A w \in Workers :
        /\ open[w] \subseteq {environment[w]} \/ RefusedAfterBuilding(w)
        /\ phase[w] = "closed" => open[w] = {}
        /\ RefusedAfterBuilding(w) => Suite[w] = "taxi_mdp" /\ candidate.built # "generated"

\* No scenario that a worker of one partition runs is ever run by a worker of another:
\* an evaluation shows nothing a training has seen.
PartitionsStayApart ==
    \A v, w \in Workers :
        IsMetaDrive(v) /\ IsMetaDrive(w) /\ Selected[v] # Selected[w] => ran[v] \cap ran[w] = {}

\* A step follows a reset that succeeded, as its error message has it.
StepsFollowAReset == \A w \in Workers : stepped[w] # "a failed reset"
=================================================================================
