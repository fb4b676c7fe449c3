------------------------------ MODULE Environments ------------------------------
(***************************************************************************)
(* The environments a run works with: a remote session, the workers of the *)
(* single-agent and multi-agent suites, and a pilot.  A session's worker   *)
(* calls a suite adapter and uses nothing of it but answers, which         *)
(* RemoteEnvSession chooses: none shares state with another, and a         *)
(* behaviour is about one of them.                                         *)
(***************************************************************************)
EXTENDS RemoteEnvSession

CONSTANTS
    Workers, Suite, Selected, Scenario, Scenarios, Trusted, MaxMade, MaxSteps,
    Policies, Configs, TrainConfigs, TestConfigs, Masks, Start, Finish, MaxTicks,
    Callers, Manifests, Nothing, MaxEdits

VARIABLES
    part,    \* "metadrive", "gymnasium", "multi", "remote" or "pilot"
    attestation, candidate, phase, stepId, environment, made, open, resets, stepped, ran,
    suite, battle, smac, snapshots, city, timeStep, given, reset, act,
    sources, target, pc, manifest, process, space, report

Single == INSTANCE SingleAgentSuites WITH reset <- resets
Multi == INSTANCE MultiAgentSuites WITH End <- Finish
Pilot == INSTANCE PilotPublication WITH worker <- process

singleVars == <<attestation, candidate, phase, stepId, environment, made, open, resets, stepped, ran>>
multiVars == <<suite, battle, smac, snapshots, city, timeStep, given, reset, act>>
pilotVars == <<sources, target, pc, manifest, process, space, report>>
allVars == <<part, singleVars, multiVars, vars, pilotVars>>

\* What a worker is given: of the right form, if not of the right content.
Given == DOMAIN attestation.scenarios = Single!Kinds /\ candidate.attested \in BOOLEAN

AllInit ==
    /\ part \in {"metadrive", "gymnasium", "multi", "remote", "pilot"}
    /\ Given
    /\ Single!Init /\ Multi!Init /\ Init /\ Pilot!Init
AllNext ==
    \/ part \in {"metadrive", "gymnasium"} /\ Single!Next /\ UNCHANGED <<part, multiVars, vars, pilotVars>>
    \/ part = "multi" /\ Multi!Next /\ UNCHANGED <<part, singleVars, vars, pilotVars>>
    \/ part = "remote" /\ Next /\ UNCHANGED <<part, singleVars, multiVars, pilotVars>>
    \/ part = "pilot" /\ Pilot!Next /\ UNCHANGED <<part, singleVars, multiVars, vars>>
AllSpec == AllInit /\ [][AllNext]_allVars

\* The type invariants of all.
TypesOK == Single!TypeOK /\ Multi!TypeOK /\ TypeOK /\ Pilot!TypeOK

\* The only environment that can be open is the one close can reach, but for a candidate
\* Taxi's factory built and refused (SingleAgentSuites).
OnlyARefusedTaxiStaysOpen == Single!OnlyARefusedTaxiStaysOpen

\* A training runs no scenario of an evaluation (SingleAgentSuites).
PartitionsStayApart == Single!PartitionsStayApart

\* Agents act on the state the simulation is in (MultiAgentSuites).
AgentsActOnWhatIs == Multi!AgentsActOnWhatIs

\* What a call returned is what is published, whole (PilotPublication).
ReturnedIsPublished == Pilot!ReturnedIsPublished
=================================================================================
