---------------------------- MODULE OciExecution ----------------------------
(***************************************************************************)
(* What RunnerExecution takes as one container run: the attempts of        *)
(* OciFixedCommitExecutor to execute a job in a Docker container, with the *)
(* collector that watches it, and what FixedCommitRunner makes of the      *)
(* evidence or of the exception an attempt ends with.                      *)
(*                                                                         *)
(* Every command to git, docker and apparmor_parser runs under a time      *)
(* limit.  When it fails, the daemon may or may not have done what it was  *)
(* told.  An attempt that raises before the start was answered with        *)
(* RunnerWaitingRuntimeError gives the reservation back and may be         *)
(* followed by another; after the start none is.                           *)
(***************************************************************************)
EXTENDS Naturals

CONSTANTS
    WallTime,      \* the wall clock limit of the job, in polls
    Grace,         \* how long a killed container may take to end
    MaxAttempts    \* bound: calls of execute

TimesAssumption == WallTime \in Nat \ {0} /\ Grace \in Nat \ {0} /\ MaxAttempts \in Nat

VARIABLES
    at,          \* where execute, or the runner behind it, is
    attempt,     \* calls of execute so far
    started,     \* _execution_started
    id,          \* the container's identifier as the executor knows it
    boxes,       \* the container of each attempt, as the daemon has it
    loaded,      \* whether the kernel has the AppArmor profile of the job
    scratch,     \* whether the temporary directory exists
    source,      \* the checkout the container is given
    process,     \* the container's process: exit code, output tree, usage
    watch,       \* the collector: its clock, deadline and what it saw
    evidence,    \* _last_terminal_evidence
    raised,      \* the exception under way
    verdict      \* how the job ended for the runner

vars == <<at, attempt, started, id, boxes, loaded, scratch, source, process, watch, evidence, raised, verdict>>
place == <<at, raised>>
host == <<loaded, scratch, source>>
job == <<attempt, started, id, evidence, verdict>>

None == [status |-> "none"]
Fresh == [code |-> 0, outputs |-> "none", over |-> {}]
NotWatching == [now |-> 0, deadline |-> WallTime, waited |-> "no", sampled |-> FALSE,
                over |-> FALSE, timedOut |-> FALSE, asked |-> FALSE, early |-> FALSE]

GoTo(p) == at' = p /\ UNCHANGED raised
\* An exception is raised, or replaces the one under way, and control goes on at p.
Raise(kinds, p) == at' = p /\ raised' \in kinds
Kinds == {"waiting", "error"}

Box(state) == boxes' = [boxes EXCEPT ![attempt] = state]

---------------------------------------------------------------------------
(* Before the container.                                                   *)

\* execute is called; what an earlier attempt left in the fields is reset.
Execute ==
    /\ at = "idle"
    /\ attempt < MaxAttempts
    /\ attempt' = attempt + 1
    /\ started' = FALSE
    /\ evidence' = None
    /\ id' = "none"
    /\ process' = Fresh
    /\ watch' = NotWatching
    /\ at' = "admitting"
    /\ raised' = "none"
    /\ UNCHANGED <<boxes, host, verdict>>

\* The frozen policies resolve, are of the closed kind, and the image is the frozen one.
Admit ==
    /\ at = "admitting"
    /\ \/ GoTo("checkout") /\ scratch' = TRUE
       \/ Raise(Kinds, "raised") /\ UNCHANGED scratch
    /\ UNCHANGED <<job, boxes, loaded, source, process, watch>>

\* The remote may have another commit under the name, or a blob may be damaged.
Checkout ==
    /\ at = "checkout"
    /\ \E fetched \in {"frozen", "other"}, intact \in BOOLEAN :
          IF fetched = "frozen" /\ intact
          THEN GoTo("loading") /\ source' = fetched
          ELSE Raise({"error"}, "leaving") /\ UNCHANGED source
    /\ UNCHANGED <<job, boxes, loaded, scratch, process, watch>>

\* git does not answer in time or is too old.
CheckoutFails ==
    /\ at = "checkout"
    /\ Raise({"waiting"}, "leaving")
    /\ UNCHANGED <<job, boxes, host, process, watch>>

\* A failure here is in front of the block that unloads the profile.
LoadProfile ==
    /\ at = "loading"
    /\ \/ GoTo("mounting") /\ loaded' = TRUE
       \/ Raise({"waiting"}, "leaving") /\ loaded' \in {loaded, TRUE}
       \/ Raise({"error"}, "leaving") /\ UNCHANGED loaded
    /\ UNCHANGED <<job, boxes, scratch, source, process, watch>>

Mount ==
    /\ at = "mounting"
    /\ GoTo("creating") \/ Raise(Kinds, "unloading")
    /\ UNCHANGED <<job, boxes, host, process, watch>>

Create ==
    /\ at = "creating"
    /\ \/ GoTo("starting") /\ id' = "known" /\ Box("created")
       \/ Raise({"error"}, "removing") /\ id' \in {"garbled", "none"} /\ Box("created")
       \/ Raise({"waiting"}, "removing") /\ UNCHANGED id
          /\ \E state \in {"none", "created"} : Box(state)
    /\ UNCHANGED <<attempt, started, evidence, verdict, host, process, watch>>

Start ==
    /\ at = "starting"
    /\ \/ GoTo("inspecting") /\ started' = TRUE /\ Box("running")
       \/ Raise({"waiting"}, "removing") /\ UNCHANGED started
          /\ \E state \in {"created", "running"} : Box(state)
    /\ UNCHANGED <<attempt, id, evidence, verdict, host, process, watch>>

---------------------------------------------------------------------------
(* The container.                                                          *)

Running == attempt > 0 /\ boxes[attempt] = "running"

\* It ends by itself, having written what it was to write or not.
Exit ==
    /\ Running
    /\ Box("exited")
    /\ \E code \in {0, 1}, outputs \in {"whole", "broken"} :
          process' = [process EXCEPT !.code = code, !.outputs = outputs]
    /\ UNCHANGED <<place, job, host, watch>>

\* It exceeds a limit: on disk, where it stays to be seen, or of its cgroup, which
\* may be gone with the container.
Exceed ==
    /\ Running
    /\ \E resource \in {"disk", "cgroup"} : process' = [process EXCEPT !.over = @ \cup {resource}]
    /\ UNCHANGED <<place, job, boxes, host, watch>>

\* Time that passes while the executor does something else.
Delay ==
    /\ at \in {"starting", "inspecting", "collecting"}
    /\ watch.now <= WallTime
    /\ watch' = [watch EXCEPT !.now = @ + 1]
    /\ UNCHANGED <<place, job, boxes, host, process>>

\* A container that is gone already has no cgroup to watch and is a failure.
Inspect ==
    /\ at = "inspecting"
    /\ \/ boxes[attempt] = "running" /\ GoTo("collecting") /\ UNCHANGED watch
       \/ boxes[attempt] = "exited" /\ GoTo("deciding") /\ watch' = [watch EXCEPT !.early = TRUE]
       \/ Raise(Kinds, "removing") /\ UNCHANGED watch
    /\ UNCHANGED <<job, boxes, host, process>>

\* The thread in docker container wait.
WaiterReturns ==
    /\ at = "collecting"
    /\ watch.waited = "no"
    /\ \/ boxes[attempt] = "exited" /\ watch' = [watch EXCEPT !.waited = "answered"]
       \/ watch' = [watch EXCEPT !.waited = "failed"]
    /\ UNCHANGED <<place, job, boxes, host, process>>

\* docker container kill, whose result nobody looks at unless it takes too long.
Kill ==
    \/ Raise({"waiting"}, "removing") /\ UNCHANGED <<boxes, process>>
    \/ UNCHANGED <<place, boxes, process>>
    \/ Running /\ Box("exited") /\ process' = [process EXCEPT !.code = 137, !.outputs = "broken"] /\ UNCHANGED place

\* The samples one poll may end with: of a cgroup that is there, or that is gone.
Gone == boxes[attempt] = "exited"
Samples ==
    {[watch EXCEPT !.sampled = TRUE, !.over = @ \/ process.over # {}]}
    \cup (IF Gone /\ watch.waited # "no" /\ watch.sampled
          THEN {[watch EXCEPT !.over = @ \/ "disk" \in process.over]} ELSE {})

\* Mutant: the deadline after a kill is checked only for a container that timed out.
PollWithoutGrace ==
    /\ at = "collecting"
    /\ \E seen \in Samples :
        \/ /\ seen.waited = "answered"
           /\ GoTo("deciding") /\ watch' = seen /\ UNCHANGED <<boxes, process>>
        \/ /\ seen.waited = "no"
           /\ \/ /\ ~seen.asked /\ (seen.over \/ seen.now >= seen.deadline)
                 /\ watch' = [seen EXCEPT !.asked = TRUE, !.timedOut = ~seen.over]
                 /\ Kill
              \/ /\ seen.asked \/ ~(seen.over \/ seen.now >= seen.deadline)
                 /\ watch' = [seen EXCEPT !.now = IF seen.asked THEN @ ELSE @ + 1]
                 /\ UNCHANGED <<place, boxes, process>>
    /\ UNCHANGED <<job, host>>

\* One round of LinuxCgroupV2ResourceCollector.collect.
Poll ==
    /\ at = "collecting"
    /\ \/ \E seen \in Samples :
          \/ /\ seen.waited = "answered"
             /\ GoTo("deciding")
             /\ watch' = seen
             /\ UNCHANGED <<boxes, process>>
          \/ /\ seen.waited = "failed"
             /\ Raise({"waiting"}, "removing")
             /\ watch' = seen
             /\ UNCHANGED <<boxes, process>>
          \/ /\ seen.waited = "no" /\ ~seen.asked /\ (seen.over \/ seen.now >= seen.deadline)
             /\ watch' = [seen EXCEPT !.asked = TRUE, !.timedOut = ~seen.over, !.deadline = seen.now + Grace]
             /\ Kill
          \/ /\ seen.waited = "no" /\ seen.asked /\ seen.now >= seen.deadline
             /\ Raise({"waiting"}, "removing")
             /\ watch' = seen
             /\ UNCHANGED <<boxes, process>>
          \/ /\ seen.waited = "no" /\ seen.now < seen.deadline /\ (seen.asked \/ ~seen.over)
             /\ watch' = [seen EXCEPT !.now = @ + 1]
             /\ UNCHANGED <<place, boxes, process>>
       \/ /\ Gone /\ (watch.waited = "no" \/ ~watch.sampled)    \* the cgroup went before it was read
          /\ Raise(Kinds, "removing")
          /\ UNCHANGED <<watch, boxes, process>>
    /\ UNCHANGED <<job, host>>

---------------------------------------------------------------------------
(* Evidence.                                                               *)

\* Mutant: what the container said comes before what the collector saw.
ExitCodeOfProcess ==
    IF process.code # 0 THEN process.code ELSE IF watch.early THEN 126 ELSE 0

ExitCode ==
    CASE watch.timedOut -> 124
      [] watch.over /\ ~watch.timedOut -> 125
      [] watch.early -> 126
      [] OTHER -> process.code

Record(code) ==
    evidence' = [status |-> IF code = 0 THEN "success" ELSE "terminal_failure", code |-> code,
                 outputs |-> IF code = 0 THEN process.outputs ELSE "none", wall |-> watch.now]

\* The output files are there, regular, complete and within their limits.
OutputsRead == ExitCode = 0 /\ process.outputs = "whole"

\* Logs, outputs and their scan: each of them failing makes the run a failure.
\* Writing the records themselves may raise.
Decide ==
    /\ at = "deciding"
    /\ \/ /\ OutputsRead
          /\ Record(0) /\ GoTo("removing")
       \/ /\ \E code \in ({126, ExitCode} \ {0}) : Record(code)
          /\ GoTo("removing")
       \/ /\ Raise(Kinds, "removing") /\ UNCHANGED evidence
    /\ UNCHANGED <<attempt, started, id, verdict, boxes, host, process, watch>>

Remove ==
    /\ at = "removing"
    /\ \/ id = "none" /\ GoTo("unloading") /\ UNCHANGED boxes
       \/ id = "known" /\ GoTo("unloading") /\ Box("removed")
       \/ id # "none" /\ Raise({"waiting"}, "unloading")
          /\ \E state \in {boxes[attempt]} \cup (IF id = "known" THEN {"removed"} ELSE {}) : Box(state)
    /\ UNCHANGED <<job, host, process, watch>>

Unload ==
    /\ at = "unloading"
    /\ \/ GoTo("leaving") /\ loaded' = FALSE
       \/ Raise({"waiting"}, "leaving") /\ loaded' \in {loaded, FALSE}
    /\ UNCHANGED <<job, boxes, scratch, source, process, watch>>

\* The temporary directory is removed, which files of the container's user can prevent.
Leave ==
    /\ at = "leaving"
    /\ source' = "none"
    /\ \/ scratch' = FALSE /\ GoTo(IF raised = "none" THEN "returned" ELSE "raised")
       \/ UNCHANGED scratch /\ Raise({"error"}, "raised")
    /\ UNCHANGED <<job, boxes, loaded, process, watch>>

---------------------------------------------------------------------------
(* The runner.                                                             *)

\* _resolve_execution_evidence: a success is held against every limit once more.
Accepted(value) == value.status = "success" => value.wall <= WallTime

Accept ==
    /\ at = "returned"
    /\ \/ /\ Accepted(evidence)
          /\ GoTo("done")
          /\ verdict' = evidence.status
       \/ /\ Raise({"error"}, "raised")
          /\ UNCHANGED verdict
    /\ UNCHANGED <<attempt, started, id, evidence, boxes, host, process, watch>>

\* Evidence made up for a run that left none.
Synthesized == [status |-> "terminal_failure", code |-> 126, outputs |-> "none", wall |-> 0]

TerminalFailure(last) ==
    CASE last = None -> Synthesized
      [] last.status = "terminal_failure" -> last
      [] last.status = "success" ->
             [last EXCEPT !.status = "terminal_failure", !.code = 126, !.outputs = "none"]

\* Before the start a runtime that is not ready gives the job back and anything else
\* fails it; after the start the failure is recorded, or that fails too.
Settle ==
    /\ at = "raised"
    /\ \/ /\ started
          /\ evidence' = TerminalFailure(evidence)
          /\ verdict' = "terminal_failure"
          /\ GoTo("done")
       \/ /\ started \/ raised = "error"
          /\ verdict' = "failed"
          /\ GoTo("done")
          /\ UNCHANGED evidence
       \/ /\ ~started /\ raised = "waiting"
          /\ GoTo("idle")
          /\ UNCHANGED <<verdict, evidence>>
    /\ UNCHANGED <<attempt, started, id, boxes, host, process, watch>>

---------------------------------------------------------------------------

Init ==
    /\ at = "idle"
    /\ attempt = 0
    /\ started = FALSE
    /\ id = "none"
    /\ boxes = [a \in 1..MaxAttempts |-> "none"]
    /\ loaded = FALSE
    /\ scratch = FALSE
    /\ source = "none"
    /\ process = Fresh
    /\ watch = NotWatching
    /\ evidence = None
    /\ raised = "none"
    /\ verdict = "none"

Step ==
    \/ Admit \/ Checkout \/ CheckoutFails \/ LoadProfile \/ Mount \/ Create \/ Start
    \/ Inspect \/ Poll \/ Decide \/ Remove \/ Unload \/ Leave \/ Accept \/ Settle

Next == Execute \/ Step \/ Exit \/ Exceed \/ Delay \/ WaiterReturns

Spec == Init /\ [][Next]_vars

\* The thread in execute goes on.  Nothing is assumed of the container or the daemon.
FairSpec == Spec /\ WF_vars(Step)

---------------------------------------------------------------------------
(* Properties.                                                             *)

Places == {"idle", "admitting", "checkout", "loading", "mounting", "creating", "starting", "inspecting",
           "collecting", "deciding", "removing", "unloading", "leaving", "returned", "raised", "done"}

TypeOK ==
    /\ at \in Places
    /\ attempt \in 0..MaxAttempts
    /\ started \in BOOLEAN /\ loaded \in BOOLEAN /\ scratch \in BOOLEAN
    /\ id \in {"none", "known", "garbled"}
    /\ boxes \in [1..MaxAttempts -> {"none", "created", "running", "exited", "removed"}]
    /\ source \in {"none", "frozen"}
    /\ watch.now \in 0..(WallTime + Grace + 1)
    /\ raised \in Kinds \cup {"none"}
    /\ verdict \in {"none", "success", "terminal_failure", "failed"}

\* A job is a success only of a container that ended by itself with code 0, before it
\* was killed and in time, wrote the whole output set within its disk limit, and of
\* which nothing is left: no container, no profile, no directory.  A cleanup that
\* fails takes a success back, and then neither its outputs nor its code are given
\* out.  A run that was started is followed by no other.
VerdictIsEarned ==
    /\ verdict = "success" =>
        /\ boxes[attempt] = "removed" /\ ~loaded /\ ~scratch
        /\ process.code = 0 /\ process.outputs = "whole"
        /\ ~watch.asked /\ "disk" \notin process.over
        /\ evidence.wall <= WallTime
    /\ verdict = "terminal_failure" =>
           evidence.status = "terminal_failure" /\ evidence.code # 0 /\ evidence.outputs = "none"
    /\ started /\ at \in {"idle", "done"} => at = "done" /\ verdict # "none"

\* execute ends, though the container never does and kills are lost.
AttemptsEnd == []<>(at \in {"idle", "done"})
=============================================================================
