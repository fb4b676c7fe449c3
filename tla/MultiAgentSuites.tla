---------------------------- MODULE MultiAgentSuites ----------------------------
(***************************************************************************)
(* The multi-agent suites: Smacv2SuiteAdapter, whose policy threads act on *)
(* snapshots under action tokens, and CityLearnSuiteAdapter, which follows *)
(* the time step of the simulation.                                        *)
(*                                                                         *)
(* The simulations are not the repository's: they move only when they are  *)
(* called, and a call can raise before or after it did so, or return what  *)
(* the adapter refuses.                                                    *)
(***************************************************************************)
EXTENDS Integers

CONSTANTS
    Policies,       \* threads that share a SMACv2 adapter
    Configs,        \* configuration IDs
    TrainConfigs, TestConfigs,    \* of the SMACv2 manifest
    Masks,          \* which agents live and what each may do
    Start, End,     \* CityLearn's evaluation_period
    MaxTicks        \* bound: changes of a simulation

NoToken == [partition |-> "none"]
NoTime == 0 - 1

ManifestAssumption ==
    /\ TrainConfigs \subseteq Configs /\ TestConfigs \subseteq Configs
    /\ TrainConfigs \cap TestConfigs = {}
    /\ Start \in Nat /\ End \in Nat /\ Start < End
MaxTicksAssumption == MaxTicks \in Nat

VARIABLES
    suite,       \* which of the two adapters this is
    battle,      \* the SMACv2 simulation: its state and the masks it exposes
    smac,        \* the SMACv2 adapter
    snapshots,   \* what each policy thread has been given, and of which state
    city,        \* the CityLearn simulation: its state and time step
    timeStep,    \* the CityLearn adapter's, NoTime before a reset
    given,       \* history: transitions it has returned since its reset
    reset,       \* history: the last reset succeeded
    act          \* history: the last step the simulation made for a caller

vars == <<suite, battle, smac, snapshots, city, timeStep, given, reset, act>>
smacVars == <<battle, smac, snapshots>>
cityVars == <<city, timeStep, given>>

\* Smacv2ActionToken
Tokens == [partition: {"training", "evaluation"}, config: Configs,
           episode: Nat, step: Nat, mask: Masks]

TypeOK ==
    /\ suite \in {"smacv2_posg", "citylearn_posg"}
    /\ battle \in [tick: 0..MaxTicks, mask: Masks]
    /\ smac \in [partition: {"training", "evaluation", "none"}, config: Configs \cup {"none"},
                 episode: Nat, step: Nat, latest: Tokens \cup {NoToken}]
    /\ smac.partition = "training" => smac.config \in TrainConfigs
    /\ smac.partition = "evaluation" => smac.config \in TestConfigs
    /\ \A p \in Policies : snapshots[p] \subseteq [token: Tokens, tick: 0..MaxTicks]
    /\ city \in [tick: 0..MaxTicks, time: Nat, moves: Nat]
    /\ timeStep \in Nat \cup {NoTime}
    /\ given \in Nat
    /\ reset \in BOOLEAN
    /\ act \in [from: Nat, at: Nat, reset: BOOLEAN]

Init ==
    /\ suite \in {"smacv2_posg", "citylearn_posg"}
    /\ battle \in [tick: {0}, mask: Masks]
    /\ smac = [partition |-> "none", config |-> "none", episode |-> 0, step |-> 0, latest |-> NoToken]
    /\ snapshots = [p \in Policies |-> {}]
    /\ city = [tick |-> 0, time |-> Start, moves |-> 0]
    /\ timeStep = NoTime
    /\ given = 0
    /\ reset = FALSE
    /\ act = [from |-> 0, at |-> 0, reset |-> TRUE]

---------------------------------------------------------------------------
(* SMACv2.  Every method holds the adapter's lock to its end.              *)

BattleMoves == battle.tick < MaxTicks /\ \E m \in Masks : battle' = [tick |-> battle.tick + 1, mask |-> m]

\* Mutant: any configuration of the manifest will do.
AnyConfig(partition) == TrainConfigs \cup TestConfigs

Allowed(partition) == IF partition = "training" THEN TrainConfigs ELSE TestConfigs

Smacv2Reset(partition, config) ==
    /\ suite = "smacv2_posg"
    /\ config \in Allowed(partition)
    /\ BattleMoves
    /\ smac' = [partition |-> partition, config |-> config, episode |-> smac.episode + 1,
                step |-> 0, latest |-> NoToken]
    /\ reset' = TRUE
    /\ UNCHANGED <<suite, snapshots, cityVars, act>>

\* The simulation's reset raises: the adapter keeps its episode and its token.
Smacv2ResetFails ==
    /\ suite = "smacv2_posg"
    /\ BattleMoves \/ UNCHANGED battle
    /\ reset' = FALSE
    /\ UNCHANGED <<suite, smac, snapshots, cityVars, act>>

\* Mutant: the token does not say which step it is for.
StateTokenOfMasks ==
    [partition |-> smac.partition, config |-> smac.config, episode |-> smac.episode,
     step |-> 0, mask |-> battle.mask]

\* _read_actor_state: the token names the episode, the step and the masks, and not
\* what the agents observe.
StateToken ==
    [partition |-> smac.partition, config |-> smac.config, episode |-> smac.episode,
     step |-> smac.step, mask |-> battle.mask]

ActorSnapshot(p) ==
    /\ suite = "smacv2_posg"
    /\ smac.partition # "none"
    /\ smac' = [smac EXCEPT !.latest = StateToken]
    /\ snapshots' = [snapshots EXCEPT ![p] = @ \cup {[token |-> StateToken, tick |-> battle.tick]}]
    /\ UNCHANGED <<suite, battle, cityVars, reset, act>>

TokenIsCurrent(token) == smac.latest = token /\ smac.partition # "none" /\ StateToken = token

\* The actions fit the masks of the snapshot, so they fit those of the simulation.
Smacv2Step(p, snapshot) ==
    /\ suite = "smacv2_posg"
    /\ TokenIsCurrent(snapshot.token)
    /\ BattleMoves
    /\ smac' = [smac EXCEPT !.latest = NoToken, !.step = @ + 1]
    /\ act' = [from |-> snapshot.tick, at |-> battle.tick, reset |-> reset]
    /\ UNCHANGED <<suite, snapshots, cityVars, reset>>

\* The simulation raises or returns what it should not: the episode is over.
Smacv2StepFails(p, snapshot) ==
    /\ suite = "smacv2_posg"
    /\ TokenIsCurrent(snapshot.token)
    /\ BattleMoves \/ UNCHANGED battle
    /\ smac' = [smac EXCEPT !.latest = NoToken, !.partition = "none", !.config = "none"]
    /\ act' = [from |-> snapshot.tick, at |-> battle.tick, reset |-> reset]
    /\ UNCHANGED <<suite, snapshots, cityVars, reset>>

\* The latest token, but the masks are no longer what it says.
Smacv2StepIsStale(p, snapshot) ==
    /\ suite = "smacv2_posg"
    /\ smac.latest = snapshot.token /\ smac.partition # "none"
    /\ StateToken # snapshot.token
    /\ smac' = [smac EXCEPT !.latest = NoToken]
    /\ UNCHANGED <<suite, battle, snapshots, cityVars, reset, act>>

---------------------------------------------------------------------------
(* CityLearn.                                                              *)

CityTicks == city.tick < MaxTicks

\* The simulation starts at its first time step, and what it returns is refused if its
\* shape has drifted.
CityLearnReset ==
    /\ suite = "citylearn_posg"
    /\ CityTicks
    /\ city' = [tick |-> city.tick + 1, time |-> Start, moves |-> 0]
    /\ timeStep' = Start
    /\ given' = 0
    /\ reset' = TRUE
    /\ UNCHANGED <<suite, smacVars, act>>

CityLearnResetFails ==
    /\ suite = "citylearn_posg"
    /\ \/ CityTicks /\ city' = [tick |-> city.tick + 1, time |-> Start, moves |-> 0]
       \/ UNCHANGED city
    /\ reset' = FALSE
    /\ UNCHANGED <<suite, smacVars, timeStep, given, act>>

\* A simulation at the end of its period does not move.
CityMoves ==
    /\ CityTicks
    /\ city.time < End
    /\ city' = [tick |-> city.tick + 1, time |-> city.time + 1, moves |-> city.moves + 1]

\* The transition is the next one of the period, and nothing else of it is refused.
CityLearnStep ==
    /\ suite = "citylearn_posg"
    /\ timeStep # NoTime
    /\ CityMoves
    /\ city'.time = timeStep + 1
    /\ city'.time <= End
    /\ timeStep' = city'.time
    /\ given' = given + 1
    /\ act' = [from |-> given', at |-> city'.moves, reset |-> reset]
    /\ UNCHANGED <<suite, smacVars, reset>>

\* It raised, or what it returned is refused: the simulation may have moved, the
\* adapter has not.
CityLearnStepFails ==
    /\ suite = "citylearn_posg"
    /\ timeStep # NoTime
    /\ CityMoves \/ UNCHANGED city
    /\ UNCHANGED <<suite, smacVars, timeStep, given, reset, act>>

---------------------------------------------------------------------------

Next ==
    \/ \E partition \in {"training", "evaluation"}, config \in Configs : Smacv2Reset(partition, config)
    \/ Smacv2ResetFails
    \/ \E p \in Policies : ActorSnapshot(p)
    \/ \E p \in Policies : \E snapshot \in snapshots[p] :
          Smacv2Step(p, snapshot) \/ Smacv2StepFails(p, snapshot) \/ Smacv2StepIsStale(p, snapshot)
    \/ CityLearnReset \/ CityLearnResetFails \/ CityLearnStep \/ CityLearnStepFails

Spec == Init /\ [][Next]_vars

---------------------------------------------------------------------------
(* Properties.                                                             *)

\* While no reset fails: the actions a SMACv2 battle executes were chosen from a
\* snapshot of the very state it is in, whichever thread took it and however many
\* others did; and the transitions CityLearn's agents are given are all the
\* simulation made since its reset, in order and without a gap.
AgentsActOnWhatIs == act.reset => act.from = act.at

\* A step follows a reset that succeeded, as its error message has it.
StepsFollowAReset == act.reset
=================================================================================
