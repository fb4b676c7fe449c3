--------------------------- MODULE PilotPublication ---------------------------
(***************************************************************************)
(* The engineering pilot (pilots.py, pilot_worker.py): a call looks for the *)
(* published output of the pilot, and otherwise runs the worker in a process*)
(* group of its own under a time limit, stores four artifacts, writes five  *)
(* files beside them in a workspace of its own, and renames the workspace   *)
(* to the name of the pilot.  Calls race, are interrupted and crash.        *)
(***************************************************************************)
EXTENDS Naturals, Sequences

CONSTANTS
    Callers,     \* calls of run_engineering_pilot for one pilot
    Manifests,   \* contents of the pilot manifest
    Nothing,
    MaxEdits     \* bound: edits of the source files the report names

VARIABLES
    sources,   \* the version of the source files
    target,    \* what is published under the name of the pilot, or Nothing
    pc,        \* pc[c]: where call c is
    manifest,  \* manifest[c]: the manifest c was given
    worker,    \* worker[c]: its worker process: "none", "running", or how it ended
    space,     \* space[c]: its workspace, or Nothing
    report     \* report[c]: the report it assembled or returned, or Nothing

vars == <<sources, target, pc, manifest, worker, space, report>>

-----------------------------------------------------------------------------
Artifacts == <<"manifest", "metrics", "resource", "report">>
Files == <<"pilot_manifest.json", "metrics.jsonl", "terminal_record.json", "compact_report.json",
           "compact_report.md">>

\* How a worker ends: with a response, with one whose error message is empty, with none,
\* or killed at the time limit, when the caller makes the response up.
Endings == {"success", "failure", "failure without message", "no response", "timeout"}

ExitCode(ending) == IF ending = "success" THEN 0 ELSE IF ending = "no response" THEN 1 ELSE 4

\* A terminal failure must say why (require_discriminated_payload).
ResponseIsValid(ending) == ending \in {"success", "failure", "timeout"}

Status(exit) ==
    CASE exit = 0 -> "passed" [] exit = 3 -> "waiting" [] exit = 130 -> "interrupted"
      [] OTHER -> "failed"

Report(c, exit) == [manifest |-> manifest[c], exit |-> exit, status |-> Status(exit), sources |-> sources]

Reports == [manifest : Manifests, exit : 0..4, status : {"passed", "waiting", "interrupted", "failed"},
            sources : 0..MaxEdits]
Outputs == [report : Reports, artifacts : {Len(Artifacts)}, files : {Len(Files)}]

PilotAssumption == MaxEdits \in Nat /\ Nothing \notin Outputs

EmptySpace == [artifacts |-> 0, files |-> 0]

\* May the published output stand for the output of a call with this manifest?
Reusable(given) ==
    /\ target.files = Len(Files) /\ target.artifacts = Len(Artifacts)
    /\ target.report.manifest = given
    /\ target.report.status = "passed"
    /\ target.report.sources = sources

-----------------------------------------------------------------------------
Steps == {"called", "checking", "launching", "waiting", "reporting", "storing", "writing",
          "publishing", "published", "returned", "raised", "crashed"}

TypeOK ==
    /\ sources \in 0..MaxEdits
    /\ pc \in [Callers -> Steps]
    /\ manifest \in [Callers -> Manifests]
    /\ worker \in [Callers -> Endings \cup {"none", "running"}]
    /\ \A c \in Callers :
          space[c] # Nothing => space[c] \in [artifacts : 0..Len(Artifacts), files : 0..Len(Files)]

Init ==
    /\ sources = 0
    /\ target = Nothing
    /\ pc = [c \in Callers |-> "called"]
    /\ manifest \in [Callers -> Manifests]
    /\ worker = [c \in Callers |-> "none"]
    /\ space = [c \in Callers |-> Nothing]
    /\ report = [c \in Callers |-> Nothing]

GoTo(c, step) == pc' = [pc EXCEPT ![c] = step]

\* An error on the way removes the workspace and leaves nothing else behind.
Abandon(c) == GoTo(c, "raised") /\ space' = [space EXCEPT ![c] = Nothing]

\* The profile, its lock file and its interpreter are those of the manifest, or not.
Preflight(c) ==
    /\ pc[c] = "called"
    /\ GoTo(c, "checking") \/ GoTo(c, "raised")
    /\ UNCHANGED <<sources, target, manifest, worker, space, report>>

\* _existing: the published output is returned or refused; without one a workspace is made.
Check(c) ==
    /\ pc[c] = "checking"
    /\ \/ /\ target = Nothing
          /\ GoTo(c, "launching")
          /\ space' = [space EXCEPT ![c] = EmptySpace]
          /\ UNCHANGED report
       \/ /\ target # Nothing /\ Reusable(manifest[c])
          /\ GoTo(c, "returned")
          /\ report' = [report EXCEPT ![c] = target.report]
          /\ UNCHANGED space
       \/ /\ target # Nothing /\ ~Reusable(manifest[c])
          /\ GoTo(c, "raised")
          /\ UNCHANGED <<space, report>>
    /\ UNCHANGED <<sources, target, manifest, worker>>

Launch(c) ==
    /\ pc[c] = "launching"
    /\ GoTo(c, "waiting")
    /\ worker' = [worker EXCEPT ![c] = "running"]
    /\ UNCHANGED <<sources, target, manifest, space, report>>

\* The worker trains and evaluates, catches what goes wrong and writes its response; or
\* it dies first. It runs on after its caller is gone.
WorkerEnds(c) ==
    /\ worker[c] = "running"
    /\ \E ending \in Endings \ {"timeout"} : worker' = [worker EXCEPT ![c] = ending]
    /\ UNCHANGED <<sources, target, pc, manifest, space, report>>

\* The time limit: the process group is terminated, then killed, and waited for.
TimeOut(c) ==
    /\ pc[c] = "waiting"
    /\ worker[c] = "running"
    /\ worker' = [worker EXCEPT ![c] = "timeout"]
    /\ UNCHANGED <<sources, target, pc, manifest, space, report>>

\* The response is read and validated.
Collect(c) ==
    /\ pc[c] = "waiting"
    /\ worker[c] \in Endings
    /\ IF ResponseIsValid(worker[c]) THEN GoTo(c, "reporting") /\ UNCHANGED space ELSE Abandon(c)
    /\ UNCHANGED <<sources, target, manifest, worker, report>>

\* The report takes the sources as they are now that the worker has ended.
Identify(c) ==
    /\ pc[c] = "reporting"
    /\ report' = [report EXCEPT ![c] = Report(c, ExitCode(worker[c]))]
    /\ GoTo(c, "storing")
    /\ UNCHANGED <<sources, target, manifest, worker, space>>

\* One artifact after the other is committed to the store of the workspace, some of them
\* before anything else happens.
Put(c) ==
    /\ pc[c] = "storing"
    /\ \E n \in (space[c].artifacts + 1)..Len(Artifacts) : space' = [space EXCEPT ![c].artifacts = n]
    /\ IF space'[c].artifacts = Len(Artifacts) THEN GoTo(c, "writing") ELSE UNCHANGED pc
    /\ UNCHANGED <<sources, target, manifest, worker, report>>

\* So are the files.
Write(c) ==
    /\ pc[c] = "writing"
    /\ \E n \in (space[c].files + 1)..Len(Files) : space' = [space EXCEPT ![c].files = n]
    /\ IF space'[c].files = Len(Files) THEN GoTo(c, "publishing") ELSE UNCHANGED pc
    /\ UNCHANGED <<sources, target, manifest, worker, report>>

Output(c) == [report |-> report[c], artifacts |-> space[c].artifacts, files |-> space[c].files]

\* Mutant: as if os.replace did with directories what it does with files.
PublishOver(c) ==
    /\ pc[c] = "publishing"
    /\ target' = Output(c)
    /\ GoTo(c, "published")
    /\ space' = [space EXCEPT ![c] = Nothing]
    /\ UNCHANGED <<sources, manifest, worker, report>>

\* os.replace fails if there is a directory of that name with something in it.
Publish(c) ==
    /\ pc[c] = "publishing"
    /\ IF target = Nothing
       THEN /\ target' = Output(c)
            /\ GoTo(c, "published")
            /\ space' = [space EXCEPT ![c] = Nothing]
       ELSE Abandon(c) /\ UNCHANGED target
    /\ UNCHANGED <<sources, manifest, worker, report>>

Return(c) ==
    /\ pc[c] = "published"
    /\ GoTo(c, "returned")
    /\ UNCHANGED <<sources, target, manifest, worker, space, report>>

\* An exception of a step, or a KeyboardInterrupt, which does not reach the worker in its
\* own session.
Interrupt(c) ==
    /\ pc[c] \in {"launching", "waiting", "reporting", "storing", "writing", "publishing"}
    /\ Abandon(c)
    /\ UNCHANGED <<sources, target, manifest, worker, report>>

\* The process of the call dies: its workspace stays.
Crash(c) ==
    /\ pc[c] \in {"launching", "waiting", "reporting", "storing", "writing", "publishing", "published"}
    /\ GoTo(c, "crashed")
    /\ UNCHANGED <<sources, target, manifest, worker, space, report>>

Edit ==
    /\ sources < MaxEdits
    /\ sources' = sources + 1
    /\ UNCHANGED <<target, pc, manifest, worker, space, report>>

Next ==
    \/ Edit
    \/ \E c \in Callers :
         \/ Preflight(c) \/ Check(c) \/ Launch(c) \/ WorkerEnds(c) \/ TimeOut(c) \/ Collect(c)
         \/ Identify(c) \/ Put(c) \/ Write(c) \/ Publish(c) \/ Return(c) \/ Interrupt(c) \/ Crash(c)

Spec == Init /\ [][Next]_vars

-----------------------------------------------------------------------------
(* Properties.                                                             *)

\* However calls race, fail and die, what is published is whole and of one call; and
\* every report a call returned, run or found, is the one that is published: it is
\* never replaced, and a call that lost the race returns nothing.
ReturnedIsPublished ==
    /\ target # Nothing => /\ target.artifacts = Len(Artifacts) /\ target.files = Len(Files)
                           /\ \E c \in Callers : /\ report[c] = target.report
                                                 /\ manifest[c] = target.report.manifest
                                                 /\ ExitCode(worker[c]) = target.report.exit
    /\ \A c \in Callers :
         pc[c] = "returned" => target # Nothing /\ report[c] = target.report
=============================================================================
