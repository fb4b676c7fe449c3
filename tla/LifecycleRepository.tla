------------------------ MODULE LifecycleRepository ------------------------
(***************************************************************************)
(* The lifecycle repository (adapters/repository/_core.py): several clients*)
(* commit lifecycle commands to the event logs of related runs.  A client  *)
(* builds a command from the head it read, sends it, and sends it again    *)
(* while it has no answer.  A commit holds the repository lock (or the     *)
(* write transaction of the database), computes every record it will write *)
(* from the tables it found, writes table after table, and restores what   *)
(* it saved if anything fails on the way.  The store in memory restores the*)
(* tables its handler lists; the store in a file rolls the transaction back*)
(*                                                                         *)
(* A log is abstracted to the state each event leaves the run in: "waiting"*)
(* is a state from which the run may be replaced, "over" every terminal    *)
(* state other than CLARIFICATION_REQUIRED.  RunLifecycle has the run in   *)
(* full; ArtifactRepository has the artifact tables.                       *)
(***************************************************************************)
EXTENDS Integers, SequencesExt, FiniteSets

CONSTANTS
    Runs,         \* run identities
    Clients,      \* callers of commit
    CommandIds,   \* command and idempotency key, drawn together
    NoRun, NoClient, NoCommand,
    MaxFailures   \* bound: commits that fail half-way

ASSUME RepositoryAssumption ==
    /\ NoRun \notin Runs
    /\ NoClient \notin Clients
    /\ IsFiniteSet(Runs)
    /\ MaxFailures \in Nat

VARIABLES
    store,      \* "memory" or "file"
    db,         \* the tables
    saved,      \* the tables as the commit in progress found them, or db
    holder,     \* the client whose commit is in progress
    wrote,      \* how many tables it has written
    request,    \* request[c]: the command c has sent, or NoCommand
    answer,     \* answer[c]: what c knows of it
    failures

vars == <<store, db, saved, holder, wrote, request, answer, failures>>

-----------------------------------------------------------------------------
TerminalStates == {"clarification", "over"}
States == {"running", "waiting"} \cup TerminalStates

EmptyTables ==
    [events        |-> [r \in Runs |-> <<>>],    \* run_events, run_heads
     artifacts     |-> {},                       \* lifecycle artifacts
     results       |-> [r \in Runs |-> 0],       \* sequence of the terminal event
     audits        |-> [r \in Runs |-> {}],      \* audit projections
     replacements  |-> [r \in Runs |-> NoRun],
     continuations |-> [r \in Runs |-> NoRun],
     receipts      |-> {}]                       \* lifecycle_commands

Tables == DOMAIN EmptyTables

HeadOf(d, r) == Len(d.events[r])

StateAt(d, r, h) == IF h = 0 THEN "absent" ELSE d.events[r][h].state

RunState(d, r) == StateAt(d, r, HeadOf(d, r))

AuditedAt(d, r) == {a.at : a \in d.audits[r]}

\* Mutant: the newest audit projection, whatever head is asked for.
LatestAudit(d, r, h) == Max(AuditedAt(d, r) \cup {0})

\* The audit projection that belongs to a head: the newest one not after it.
AuditAt(d, r, h) ==
    IF d.results[r] = 0 \/ h < d.results[r] THEN 0
    ELSE Max({s \in AuditedAt(d, r) : s <= h} \cup {0})

\* The run view as of a head: state, and audit projection if the run was over.
View(d, r, h) == [state |-> StateAt(d, r, h), audit |-> AuditAt(d, r, h)]

-----------------------------------------------------------------------------
(* Commands, and what a command asks of the tables.                        *)

Kinds == {"create", "append", "terminal", "audit", "replace", "continue"}

Commands ==
    [id : CommandIds, kind : Kinds, run : Runs, child : Runs \cup {NoRun}, to : States, head : Nat]

\* The targets a kind of command can give the run.
Targets(kind) ==
    CASE kind = "append"   -> {"running", "waiting"}
      [] kind = "terminal" -> TerminalStates
      [] kind = "replace"  -> {"over"}
      [] OTHER             -> {"running"}

ForksChild(kind) == kind \in {"replace", "continue"}

Children(kind, run) == IF ForksChild(kind) THEN Runs \ {run} ELSE {NoRun}

Expected(d, c) == c.head = HeadOf(d, c.run)

Edges(d) == {<<p, d.replacements[p]>> : p \in Runs} \cup {<<p, d.continuations[p]>> : p \in Runs}

\* Neither a second child for the parent, nor a second parent for the child, nor a
\* child that already has a log.
CrossRunAbsent(d, c) ==
    /\ HeadOf(d, c.child) = 0
    /\ \A e \in Edges(d) : e[2] # NoRun => e[1] # c.run /\ e[2] # c.child

AcceptsBatch(d, c) ==
    /\ Expected(d, c)
    /\ RunState(d, c.run) \in (IF c.kind = "create" THEN {"absent"} ELSE {"running", "waiting"})

\* Mutant: any state of the run will do.
AcceptsTerminalAnywhere(d, c) == Expected(d, c)

AcceptsTerminal(d, c) == Expected(d, c) /\ RunState(d, c.run) \in {"running", "waiting"}

\* A run that is over takes events as long as the projection they extend is there.
AcceptsAudit(d, c) ==
    /\ Expected(d, c)
    /\ RunState(d, c.run) \in TerminalStates
    /\ d.results[c.run] # 0 /\ d.audits[c.run] # {}

\* The cause of a replacement: the parent still waits for its runtime, or the newest
\* decision on an artifact of the frozen candidate revokes it.
ReplacementPrerequisite(d, c) == RunState(d, c.run) = "waiting"

AcceptsReplacement(d, c) ==
    Expected(d, c) /\ ReplacementPrerequisite(d, c) /\ CrossRunAbsent(d, c)

AcceptsContinuation(d, c) ==
    Expected(d, c) /\ RunState(d, c.run) = "clarification" /\ CrossRunAbsent(d, c)

Accepts(d, c) ==
    \/ c.kind \in {"create", "append"} /\ AcceptsBatch(d, c)
    \/ c.kind = "terminal" /\ AcceptsTerminal(d, c)
    \/ c.kind = "audit"    /\ AcceptsAudit(d, c)
    \/ c.kind = "replace"  /\ AcceptsReplacement(d, c)
    \/ c.kind = "continue" /\ AcceptsContinuation(d, c)

-----------------------------------------------------------------------------
(* What a commit computes from the tables it found.                        *)

Event(c, state) == [by |-> c.id, state |-> state]

\* The events a command adds to the log of its own run: a terminal command its cause
\* and the transition.
Batch(d, c) ==
    CASE c.kind \in {"create", "append"}    -> <<Event(c, c.to)>>
      [] c.kind \in {"terminal", "replace"} -> <<Event(c, RunState(d, c.run)), Event(c, c.to)>>
      [] c.kind = "audit"                   -> <<Event(c, RunState(d, c.run))>>
      [] c.kind = "continue"                -> <<>>

After(d, c) == HeadOf(d, c.run) + Len(Batch(d, c))

WrittenEvents(d, c) ==
    [r \in Runs |->
        IF r = c.run THEN d.events[r] \o Batch(d, c)
        ELSE IF ForksChild(c.kind) /\ r = c.child THEN <<Event(c, "running")>>
        ELSE d.events[r]]

\* The first projection of a run that is over: it has no predecessor and no events.
RootAudit(d, c) == [at |-> After(d, c), previous |-> 0, covers |-> {}]

\* The next projection names its predecessor, and adds the events of the batch to its.
NextAudit(d, c) ==
    LET previous == CHOOSE a \in d.audits[c.run] : \A b \in d.audits[c.run] : b.at <= a.at
    IN  [at |-> After(d, c), previous |-> previous.at,
         covers |-> previous.covers \cup (HeadOf(d, c.run) + 1)..After(d, c)]

TerminalArtifacts(d, c) ==
    {<<c.run, After(d, c), type>> : type \in {"process", "result", "audit"}}

ReplacementArtifacts(d, c) == TerminalArtifacts(d, c) \cup {<<c.run, After(d, c), "attestation">>}

NewArtifacts(d, c) ==
    CASE c.kind = "terminal" -> TerminalArtifacts(d, c)
      [] c.kind = "replace"  -> ReplacementArtifacts(d, c)
      [] c.kind = "audit"    -> {<<c.run, After(d, c), "audit">>}
      [] OTHER               -> {}

\* A receipt: the heads before and after, the artifacts, and the view after.
BatchReceipt(d, c) ==
    [command |-> c, after |-> After(d, c), artifacts |-> {},
     view |-> [state |-> c.to, audit |-> 0]]

TerminalReceipt(d, c) ==
    [command |-> c, after |-> After(d, c), artifacts |-> NewArtifacts(d, c),
     view |-> [state |-> c.to, audit |-> After(d, c)]]

AuditReceipt(d, c) ==
    [command |-> c, after |-> After(d, c), artifacts |-> NewArtifacts(d, c),
     view |-> [state |-> RunState(d, c.run), audit |-> After(d, c)]]

CrossRunReceipt(d, c) ==
    [command |-> c, after |-> After(d, c), artifacts |-> NewArtifacts(d, c),
     view |-> IF c.kind = "replace" THEN [state |-> c.to, audit |-> After(d, c)]
              ELSE View(d, c.run, c.head)]

Receipt(d, c) ==
    CASE c.kind \in {"create", "append"} -> BatchReceipt(d, c)
      [] c.kind = "terminal"             -> TerminalReceipt(d, c)
      [] c.kind = "audit"                -> AuditReceipt(d, c)
      [] ForksChild(c.kind)              -> CrossRunReceipt(d, c)

\* One table after the command's write; d holds the tables the commit found.
Written(table, d, c) ==
    CASE table = "events"        -> WrittenEvents(d, c)
      [] table = "artifacts"     -> d.artifacts \cup NewArtifacts(d, c)
      [] table = "results"       -> [d.results EXCEPT ![c.run] = After(d, c)]
      [] table = "audits"        ->
           [d.audits EXCEPT ![c.run] = @ \cup {IF c.kind = "audit" THEN NextAudit(d, c)
                                                ELSE RootAudit(d, c)}]
      [] table = "replacements"  -> [d.replacements EXCEPT ![c.run] = c.child]
      [] table = "continuations" -> [d.continuations EXCEPT ![c.run] = c.child]
      [] table = "receipts"      -> d.receipts \cup {Receipt(d, c)}

-----------------------------------------------------------------------------
(* The tables a command writes, in the order its code writes them, and those a *)
(* failure restores.                                                       *)

RunTables == {"artifacts", "events", "receipts", "results", "audits"}

MemoryBatch == [writes |-> <<"events", "receipts">>, restores |-> RunTables]
MemoryAudit == [writes |-> <<"artifacts", "audits", "events", "receipts">>, restores |-> RunTables]
MemoryTerminal ==
    [writes |-> <<"artifacts", "events", "results", "audits", "receipts">>, restores |-> RunTables]
MemoryReplacement ==
    [writes   |-> <<"artifacts", "events", "results", "audits", "replacements", "receipts">>,
     restores |-> RunTables \cup {"replacements", "continuations"}]

\* Mutant: the edge of a continuation outlives the failure.
MemoryContinuationKept ==
    [writes |-> <<"events", "continuations", "receipts">>, restores |-> {"events", "receipts"}]
MemoryContinuation ==
    [writes   |-> <<"events", "continuations", "receipts">>,
     restores |-> {"events", "receipts", "continuations"}]

FileBatch == [writes |-> <<"events", "receipts">>, restores |-> Tables]
FileAudit == [writes |-> <<"artifacts", "events", "audits", "receipts">>, restores |-> Tables]
FileTerminal ==
    [writes |-> <<"artifacts", "events", "results", "audits", "receipts">>, restores |-> Tables]
FileReplacement ==
    [writes   |-> <<"artifacts", "events", "results", "audits", "replacements", "receipts">>,
     restores |-> Tables]
FileContinuation ==
    [writes |-> <<"events", "continuations", "receipts">>, restores |-> Tables]

\* The code that commits a kind of command.
Code(kind) ==
    LET memory == store = "memory"
    IN  CASE kind \in {"create", "append"} -> IF memory THEN MemoryBatch ELSE FileBatch
          [] kind = "audit"    -> IF memory THEN MemoryAudit ELSE FileAudit
          [] kind = "terminal" -> IF memory THEN MemoryTerminal ELSE FileTerminal
          [] kind = "replace"  -> IF memory THEN MemoryReplacement ELSE FileReplacement
          [] kind = "continue" -> IF memory THEN MemoryContinuation ELSE FileContinuation

-----------------------------------------------------------------------------
(* What a replay verifies of the receipt it found (_prior_lifecycle_result,    *)
(* _prior_sql_lifecycle_result; either raises ArtifactIntegrityError otherwise)*)

\* The events it speaks of are where it says.
RecordsHold(d, r) ==
    LET c == r.command
    IN  /\ r.after <= HeadOf(d, c.run)
        /\ \A n \in (c.head + 1)..r.after : d.events[c.run][n].by = c.id
        /\ ForksChild(c.kind) => HeadOf(d, c.child) > 0 /\ d.events[c.child][1].by = c.id

\* A single-run receipt names exactly the artifacts its view calls for.
ArtifactsHold(d, r) ==
    LET types == CASE r.command.kind = "terminal" -> {"process", "result", "audit"}
                   [] r.command.kind = "audit" -> {"audit"} [] OTHER -> {}
    IN  r.artifacts = {<<r.command.run, r.after, t>> : t \in types} /\ r.artifacts \subseteq d.artifacts

CrossArtifactsHold(d, r) ==
    LET types == IF r.command.kind = "replace" THEN {"process", "result", "audit", "attestation"} ELSE {}
    IN  r.artifacts = {<<r.command.run, r.after, t>> : t \in types} /\ r.artifacts \subseteq d.artifacts

\* The indexes the view goes through lead to a result and an audit projection of the run.
IndexesHold(d, run, h) ==
    d.results[run] # 0 /\ h >= d.results[run] =>
        /\ AuditAt(d, run, h) # 0
        /\ {<<run, d.results[run], "result">>, <<run, AuditAt(d, run, h), "audit">>} \subseteq d.artifacts

EdgeHolds(d, c) ==
    /\ c.kind = "replace" => d.replacements[c.run] = c.child
    /\ c.kind = "continue" => d.continuations[c.run] = c.child

ReceiptHolds(d, r) ==
    /\ RecordsHold(d, r)
    /\ IF ForksChild(r.command.kind) THEN CrossArtifactsHold(d, r) ELSE ArtifactsHold(d, r)
    /\ IndexesHold(d, r.command.run, r.after)
    /\ r.view = View(d, r.command.run, r.after)
    /\ EdgeHolds(d, r.command)

-----------------------------------------------------------------------------
Answers == {"none", "receipt", "refused"}

TypeOK ==
    /\ store \in {"memory", "file"}
    /\ holder \in Clients \cup {NoClient}
    /\ wrote \in 0..6
    /\ \A c \in Clients : request[c] # NoCommand => request[c] \in Commands
    /\ answer \in [Clients -> Answers]
    /\ \A r \in Runs :
          /\ {db.replacements[r], db.continuations[r]} \subseteq Runs \cup {NoRun}
          /\ \A e \in Range(db.events[r]) : e \in [by : CommandIds, state : States]
    /\ \A r \in db.receipts : r.command \in Commands
    /\ failures \in 0..MaxFailures

Init ==
    /\ store \in {"memory", "file"}
    /\ db = EmptyTables
    /\ saved = EmptyTables
    /\ holder = NoClient
    /\ wrote = 0
    /\ request = [c \in Clients |-> NoCommand]
    /\ answer = [c \in Clients |-> "none"]
    /\ failures = 0

\* What a reader sees while a commit is in progress.
Committed == IF holder = NoClient THEN db ELSE saved

\* A client reads a run and builds a command from it. It may take a command id
\* that was used before.
Ask(c, id, kind, run, child, to) ==
    /\ request[c] = NoCommand \/ answer[c] # "none"
    /\ LET cmd == [id |-> id, kind |-> kind, run |-> run, child |-> child, to |-> to,
                   head |-> HeadOf(Committed, run)]
       IN  /\ Accepts(Committed, cmd)
           /\ request' = [request EXCEPT ![c] = cmd]
    /\ answer' = [answer EXCEPT ![c] = "none"]
    /\ UNCHANGED <<store, db, saved, holder, wrote, failures>>

Pending(c) == request[c] # NoCommand /\ answer[c] = "none" /\ holder = NoClient

\* _authenticate_command_context, before the receipts are looked up: the command is
\* compared with the time at which this call was received, which may be later than its
\* issue by more than max_clock_skew_ms. A command that is sent again is as it was, so
\* its client can only give it up.
RefuseLate(c) ==
    /\ Pending(c)
    /\ request' = [request EXCEPT ![c] = NoCommand]
    /\ UNCHANGED <<store, db, saved, holder, wrote, answer, failures>>

\* The receipts that bear the id of c's command.
Prior(c) == {r \in db.receipts : r.command.id = request[c].id}

\* The command was committed before, and the answer lost.
Replay(c) ==
    /\ Pending(c)
    /\ \E r \in Prior(c) : r.command = request[c] /\ ReceiptHolds(db, r)
    /\ answer' = [answer EXCEPT ![c] = "receipt"]
    /\ UNCHANGED <<store, db, saved, holder, wrote, request, failures>>

\* Mutant: the head is compared before the receipts are looked up.
RefuseStaleFirst(c) ==
    /\ Pending(c)
    /\ \/ \E r \in Prior(c) : r.command # request[c]
       \/ ~Accepts(db, request[c])
    /\ answer' = [answer EXCEPT ![c] = "refused"]
    /\ UNCHANGED <<store, db, saved, holder, wrote, request, failures>>

Refuse(c) ==
    /\ Pending(c)
    /\ \/ \E r \in Prior(c) : r.command # request[c]
       \/ Prior(c) = {} /\ ~Accepts(db, request[c])
    /\ answer' = [answer EXCEPT ![c] = "refused"]
    /\ UNCHANGED <<store, db, saved, holder, wrote, request, failures>>

\* Mutant: the receipts are not looked up.
BeginWithoutLookup(c) ==
    /\ Pending(c)
    /\ Accepts(db, request[c])
    /\ holder' = c
    /\ saved' = db
    /\ wrote' = 0
    /\ UNCHANGED <<store, db, request, answer, failures>>

Begin(c) ==
    /\ Pending(c)
    /\ Prior(c) = {}
    /\ Accepts(db, request[c])
    /\ holder' = c
    /\ saved' = db
    /\ wrote' = 0
    /\ UNCHANGED <<store, db, request, answer, failures>>

Writes(c) == Code(request[c].kind).writes

\* The next table is written.
WriteTable(c) ==
    /\ holder = c
    /\ wrote < Len(Writes(c))
    /\ LET table == Writes(c)[wrote + 1]
       IN  db' = [db EXCEPT ![table] = Written(table, saved, request[c])]
    /\ wrote' = wrote + 1
    /\ UNCHANGED <<store, saved, holder, request, answer, failures>>

\* The last table is written: the lock is given back, or the transaction committed.
Finish(c) ==
    /\ holder = c
    /\ wrote = Len(Writes(c))
    /\ holder' = NoClient
    /\ wrote' = 0
    /\ saved' = db
    /\ answer' = [answer EXCEPT ![c] = "receipt"]
    /\ UNCHANGED <<store, db, request, failures>>

\* The commit is over but its answer does not arrive: c sends the command again.
FinishUnheard(c) ==
    /\ holder = c
    /\ wrote = Len(Writes(c))
    /\ failures < MaxFailures
    /\ failures' = failures + 1
    /\ holder' = NoClient
    /\ wrote' = 0
    /\ saved' = db
    /\ UNCHANGED <<store, db, request, answer>>

\* An exception before the commit is over, or a crash of a process whose tables are in
\* a file.
Fail(c) ==
    /\ holder = c
    /\ failures < MaxFailures
    /\ failures' = failures + 1
    /\ db' = [t \in Tables |-> IF t \in Code(request[c].kind).restores THEN saved[t] ELSE db[t]]
    /\ holder' = NoClient
    /\ wrote' = 0
    /\ saved' = db'
    /\ UNCHANGED <<store, request, answer>>

Next ==
    \E c \in Clients :
       \/ \E id \in CommandIds, run \in Runs, kind \in Kinds :
          \E child \in Children(kind, run), to \in Targets(kind) : Ask(c, id, kind, run, child, to)
       \/ RefuseLate(c) \/ Replay(c) \/ Refuse(c) \/ Begin(c)
       \/ WriteTable(c) \/ Finish(c) \/ FinishUnheard(c) \/ Fail(c)

Spec == Init /\ [][Next]_vars

-----------------------------------------------------------------------------
(* Properties.                                                             *)

\* The tables agree with one another whenever no commit is in progress: a run has a
\* result and an audit of its head exactly when it is over, its audit projections form
\* a chain of which each covers every event after the end, no lifecycle artifact is
\* orphaned, and a run has at most one child, whose log its command began.
TablesAgree ==
    holder = NoClient =>
      /\ \A r \in Runs :
           /\ db.results[r] # 0 <=> RunState(db, r) \in TerminalStates
           /\ db.results[r] # 0 => {db.results[r], HeadOf(db, r)} \subseteq AuditedAt(db, r)
           /\ \A a \in db.audits[r] :
                /\ a.covers = (db.results[r] + 1)..a.at
                /\ a.at # db.results[r] => a.previous \in AuditedAt(db, r) /\ a.previous < a.at
           /\ NoRun \in {db.replacements[r], db.continuations[r]}
      /\ \A e \in Edges(db) : e[2] # NoRun => /\ db.results[e[1]] # 0
                                             /\ HeadOf(db, e[2]) > 0
                                             /\ \A f \in Edges(db) : f[2] = e[2] => f = e
      /\ {<<x[1], x[2]>> : x \in {y \in db.artifacts : y[3] = "audit"}}
           = UNION {{<<r, s>> : s \in AuditedAt(db, r)} : r \in Runs}
      /\ \A x \in db.artifacts : x[3] # "audit" => x[2] = db.results[x[1]]

\* A replay finds its receipt true for ever: later events, audits and children change
\* nothing of what is verified before the stored receipt is returned.
ReplayIsStable ==
    holder = NoClient => \A r \in db.receipts : ReceiptHolds(db, r)

\* What a client is told is true: a receipt for a command that took effect, a refusal
\* for one that never did and never will, however often it was sent.
AnswersAreTrue ==
    \A c \in Clients :
      /\ answer[c] = "receipt" => \E r \in Committed.receipts : r.command = request[c]
      /\ answer[c] = "refused" => \A r \in db.receipts : r.command # request[c]

Ledger == INSTANCE CommandLedger WITH
    events <- Committed.events,
    done <- {r.command.id : r \in Committed.receipts}

\* Table by table, with failures and lost answers, the repository is an atomic,
\* append-only ledger that executes each command at most once.
ImplementsLedger == Ledger!Spec
=============================================================================
