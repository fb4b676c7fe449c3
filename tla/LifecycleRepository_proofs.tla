--------------------- MODULE LifecycleRepository_proofs ---------------------
(***************************************************************************)
(* The lifecycle repository for any runs, clients, commands and failures.  *)
(* The strengthening is what a commit in progress has done so far: the     *)
(* tables are those it found, except the ones it wrote, and the command it *)
(* writes was acceptable to the tables it found.  So the tables a reader   *)
(* sees change only when a commit ends, and then from d to Result(d, q).   *)
(***************************************************************************)
EXTENDS LifecycleRepository, SequenceTheorems, FiniteSetTheorems, TLAPS

---------------------------------------------------------------------------
(* The invariant.                                                          *)

LogEvents == [by : CommandIds, state : States]

TablesTyped(d) ==
    /\ d = [t \in Tables |-> d[t]]
    /\ d.events \in [Runs -> Seq(LogEvents)]
    /\ d.results \in [Runs -> Nat]
    /\ DOMAIN d.audits = Runs
    /\ d.replacements \in [Runs -> Runs \cup {NoRun}]
    /\ d.continuations \in [Runs -> Runs \cup {NoRun}]
    /\ \A r \in d.receipts : r.command \in Commands

WellAsked(q) ==
    /\ q \in Commands
    /\ q.child \in Children(q.kind, q.run)
    /\ q.to \in Targets(q.kind)

\* The tables a kind of command writes, in some order.
TablesOf(kind) ==
    CASE kind \in {"create", "append"} -> {"events", "receipts"}
      [] kind = "audit"    -> {"artifacts", "audits", "events", "receipts"}
      [] kind = "terminal" -> {"artifacts", "events", "results", "audits", "receipts"}
      [] kind = "replace"  -> {"artifacts", "events", "results", "audits", "replacements", "receipts"}
      [] kind = "continue" -> {"events", "continuations", "receipts"}

\* The tables d after q wrote those in W.
Partial(d, q, W) == [t \in Tables |-> IF t \in W THEN Written(t, d, q) ELSE d[t]]

Result(d, q) == Partial(d, q, TablesOf(q.kind))

New(d, q) == \A r \in d.receipts : r.command.id # q.id

WrittenSoFar == {Writes(holder)[n] : n \in 1..wrote}

Typed ==
    /\ store \in {"memory", "file"}
    /\ holder \in Clients \cup {NoClient}
    /\ DOMAIN request = Clients
    /\ \A c \in Clients : request[c] # NoCommand => WellAsked(request[c])
    /\ answer \in [Clients -> Answers]
    /\ failures \in 0..MaxFailures
    /\ TablesTyped(db) /\ TablesTyped(saved)

InProgress ==
    /\ request[holder] # NoCommand
    /\ answer[holder] = "none"
    /\ New(saved, request[holder])
    /\ Accepts(saved, request[holder])
    /\ wrote \in 0..Len(Writes(holder))
    /\ db = Partial(saved, request[holder], WrittenSoFar)

CommitsAreWhole ==
    IF holder = NoClient THEN saved = db /\ wrote = 0 ELSE InProgress

Inv == Typed /\ CommitsAreWhole

---------------------------------------------------------------------------
(* The code of a commit.                                                   *)

\* Every commit writes the tables of its kind, each of them known to what restores them.
LEMMA CodeWrites ==
    ASSUME NEW kind \in Kinds, store \in {"memory", "file"}
    PROVE  LET w == Code(kind).writes
           IN  /\ Len(w) \in 2..6
               /\ {w[n] : n \in 1..Len(w)} = TablesOf(kind)
               /\ TablesOf(kind) \subseteq Code(kind).restores
               /\ TablesOf(kind) \subseteq Tables
<1> USE DEF TablesOf, RunTables, Tables, EmptyTables
<1>1. CASE kind \in {"create", "append"}
  <2>1. Code(kind) = MemoryBatch \/ Code(kind) = FileBatch
    BY <1>1 DEF Code
  <2> QED
    BY <1>1, <2>1 DEF MemoryBatch, FileBatch
<1>2. CASE kind = "audit"
  <2>1. Code(kind) = MemoryAudit \/ Code(kind) = FileAudit
    BY <1>2 DEF Code
  <2> QED
    BY <1>2, <2>1 DEF MemoryAudit, FileAudit
<1>3. CASE kind = "terminal"
  <2>1. Code(kind) = MemoryTerminal \/ Code(kind) = FileTerminal
    BY <1>3 DEF Code
  <2> QED
    BY <1>3, <2>1 DEF MemoryTerminal, FileTerminal
<1>4. CASE kind = "replace"
  <2>1. Code(kind) = MemoryReplacement \/ Code(kind) = FileReplacement
    BY <1>4 DEF Code
  <2> QED
    BY <1>4, <2>1 DEF MemoryReplacement, FileReplacement
<1>5. CASE kind = "continue"
  <2>1. Code(kind) = MemoryContinuation \/ Code(kind) = FileContinuation
    BY <1>5 DEF Code
  <2> QED
    BY <1>5, <2>1 DEF MemoryContinuation, FileContinuation
<1> QED
  BY <1>1, <1>2, <1>3, <1>4, <1>5 DEF Kinds

\* What the tables are after a command, one by one.
LEMMA ResultParts ==
    ASSUME NEW d, NEW q, WellAsked(q), TablesTyped(d)
    PROVE  /\ Result(d, q) = [t \in Tables |-> Result(d, q)[t]]
           /\ Result(d, q).events = WrittenEvents(d, q)
           /\ Result(d, q).receipts = d.receipts \cup {Receipt(d, q)}
           /\ Result(d, q).artifacts = IF q.kind \in {"audit", "terminal", "replace"}
                                       THEN d.artifacts \cup NewArtifacts(d, q) ELSE d.artifacts
           /\ Result(d, q).results = IF q.kind \in {"terminal", "replace"}
                                     THEN [d.results EXCEPT ![q.run] = After(d, q)] ELSE d.results
           /\ Result(d, q).audits =
                IF q.kind \in {"audit", "terminal", "replace"}
                THEN [d.audits EXCEPT ![q.run] = @ \cup {IF q.kind = "audit" THEN NextAudit(d, q)
                                                         ELSE RootAudit(d, q)}]
                ELSE d.audits
           /\ Result(d, q).replacements =
                IF q.kind = "replace" THEN [d.replacements EXCEPT ![q.run] = q.child] ELSE d.replacements
           /\ Result(d, q).continuations =
                IF q.kind = "continue" THEN [d.continuations EXCEPT ![q.run] = q.child] ELSE d.continuations
<1>1. Tables = {"events", "artifacts", "results", "audits", "replacements", "continuations", "receipts"}
  BY DEF Tables, EmptyTables
<1>2. q.kind \in Kinds
  BY DEF WellAsked, Commands
<1>3. \A t \in Tables : Result(d, q)[t] = IF t \in TablesOf(q.kind) THEN Written(t, d, q) ELSE d[t]
  BY DEF Result, Partial
<1>4. Result(d, q) = [t \in Tables |-> Result(d, q)[t]]
  BY DEF Result, Partial
<1>5. /\ Written("events", d, q) = WrittenEvents(d, q)
      /\ Written("receipts", d, q) = d.receipts \cup {Receipt(d, q)}
      /\ Written("artifacts", d, q) = d.artifacts \cup NewArtifacts(d, q)
      /\ Written("results", d, q) = [d.results EXCEPT ![q.run] = After(d, q)]
      /\ Written("audits", d, q) =
           [d.audits EXCEPT ![q.run] = @ \cup {IF q.kind = "audit" THEN NextAudit(d, q) ELSE RootAudit(d, q)}]
      /\ Written("replacements", d, q) = [d.replacements EXCEPT ![q.run] = q.child]
      /\ Written("continuations", d, q) = [d.continuations EXCEPT ![q.run] = q.child]
  BY DEF Written
<1>6. /\ {"events", "receipts"} \subseteq TablesOf(q.kind)
      /\ "artifacts" \in TablesOf(q.kind) <=> q.kind \in {"audit", "terminal", "replace"}
      /\ "audits" \in TablesOf(q.kind) <=> q.kind \in {"audit", "terminal", "replace"}
      /\ "results" \in TablesOf(q.kind) <=> q.kind \in {"terminal", "replace"}
      /\ "replacements" \in TablesOf(q.kind) <=> q.kind = "replace"
      /\ "continuations" \in TablesOf(q.kind) <=> q.kind = "continue"
  BY <1>2 DEF TablesOf, Kinds
<1> QED
  BY <1>1, <1>3, <1>4, <1>5, <1>6

\* Nothing written changes nothing.
LEMMA NothingWritten ==
    ASSUME NEW d, NEW q, TablesTyped(d)
    PROVE  Partial(d, q, {}) = d
  BY DEF TablesTyped, Partial

---------------------------------------------------------------------------
(* The events of a command.                                                *)

\* A command that is accepted adds at least one event to the logs, all its own.
LEMMA BatchTyped ==
    ASSUME NEW d, NEW q, TablesTyped(d), WellAsked(q), Accepts(d, q)
    PROVE  /\ Batch(d, q) \in Seq(LogEvents)
           /\ q.kind # "continue" => Batch(d, q) # <<>>
           /\ q.kind = "continue" => Batch(d, q) = <<>>
           /\ \A n \in 1..Len(Batch(d, q)) : Batch(d, q)[n].by = q.id
<1>1. /\ q.kind \in Kinds /\ q.id \in CommandIds /\ q.run \in Runs /\ q.to \in States
  BY DEF WellAsked, Commands
<1>2. Event(q, q.to) \in LogEvents /\ Event(q, q.to).by = q.id
  BY <1>1 DEF Event, LogEvents
<1>3. CASE q.kind \in {"create", "append"}
  <2>1. Batch(d, q) = <<Event(q, q.to)>>
    BY <1>3 DEF Batch
  <2> QED
    BY <1>2, <1>3, <2>1
<1>4. CASE q.kind \in {"terminal", "replace", "audit"}
  <2>1. RunState(d, q.run) \in States
    BY <1>4 DEF Accepts, AcceptsTerminal, AcceptsReplacement, ReplacementPrerequisite, AcceptsAudit,
        States, TerminalStates
  <2>2. Event(q, RunState(d, q.run)) \in LogEvents /\ Event(q, RunState(d, q.run)).by = q.id
    BY <1>1, <2>1 DEF Event, LogEvents
  <2>3. CASE q.kind \in {"terminal", "replace"}
    <3>1. Batch(d, q) = <<Event(q, RunState(d, q.run)), Event(q, q.to)>>
      BY <2>3 DEF Batch
    <3> QED
      BY <1>2, <2>2, <2>3, <3>1
  <2>4. CASE q.kind = "audit"
    <3>1. Batch(d, q) = <<Event(q, RunState(d, q.run))>>
      BY <2>4 DEF Batch
    <3> QED
      BY <2>2, <2>4, <3>1
  <2> QED
    BY <1>4, <2>3, <2>4
<1>5. CASE q.kind = "continue"
  <2>1. Batch(d, q) = <<>>
    BY <1>5 DEF Batch
  <2> QED
    BY <1>5, <2>1, EmptySeq
<1> QED
  BY <1>1, <1>3, <1>4, <1>5 DEF Kinds

\* Sequences of one element, and sequences that are appended to.
LEMMA OneElement ==
    ASSUME NEW S, NEW x \in S
    PROVE  <<x>> \in Seq(S) /\ Len(<<x>>) = 1 /\ <<x>>[1] = x /\ <<x>> # <<>>
  OBVIOUS

LEMMA Appended ==
    ASSUME NEW S, NEW s \in Seq(S), NEW b \in Seq(S)
    PROVE  /\ s \o b \in Seq(S)
           /\ Len(s) \in Nat /\ Len(s \o b) \in Nat /\ Len(s) <= Len(s \o b)
           /\ \A n \in 1..Len(s) : (s \o b)[n] = s[n]
           /\ \A n \in (Len(s) + 1)..Len(s \o b) :
                 n - Len(s) \in 1..Len(b) /\ (s \o b)[n] = b[n - Len(s)]
<1>1. Len(s) \in Nat /\ Len(b) \in Nat
  BY LenProperties
<1>2. /\ s \o b \in Seq(S) /\ Len(s \o b) = Len(s) + Len(b)
      /\ \A i \in 1..(Len(s) + Len(b)) : (s \o b)[i] = IF i <= Len(s) THEN s[i] ELSE b[i - Len(s)]
  BY ConcatProperties
<1> DEFINE k == Len(s)
           l == Len(b)
           c == s \o b
<1>3. k \in Nat /\ l \in Nat /\ Len(c) = k + l
      /\ \A i \in 1..(k + l) : c[i] = IF i <= k THEN s[i] ELSE b[i - k]
  BY <1>1, <1>2
<1>4. c \in Seq(S)
  BY <1>2
<1> HIDE DEF k, l, c
<1>5. Len(c) \in Nat /\ k <= Len(c)
  BY <1>3
<1>6. \A n \in 1..k : c[n] = s[n]
  BY <1>3
<1>7. \A n \in (k + 1)..Len(c) : n - k \in 1..l /\ c[n] = b[n - k]
  BY <1>3
<1> QED
  BY <1>3, <1>4, <1>5, <1>6, <1>7 DEF k, l, c

\* What a command does to the logs: its run's log grows by its batch, its child's log
\* is begun, and nothing else changes.
LEMMA LogsGrow ==
    ASSUME NEW d, NEW q, TablesTyped(d), WellAsked(q), Accepts(d, q)
    PROVE  LET e == WrittenEvents(d, q)
           IN  /\ e \in [Runs -> Seq(LogEvents)]
               /\ \A r \in Runs : e[r] # d.events[r] => r = q.run \/ (ForksChild(q.kind) /\ r = q.child)
               /\ e[q.run] = d.events[q.run] \o Batch(d, q)
               /\ ForksChild(q.kind) =>
                    /\ q.child \in Runs /\ q.child # q.run
                    /\ d.events[q.child] = <<>>
                    /\ Len(e[q.child]) = 1 /\ e[q.child][1] = Event(q, "running")
               /\ \E r \in Runs : e[r] # d.events[r]
               /\ \A r \in Runs :
                    /\ Len(e[r]) \in Nat /\ Len(d.events[r]) <= Len(e[r])
                    /\ \A n \in 1..Len(d.events[r]) : e[r][n] = d.events[r][n]
                    /\ \A n \in (Len(d.events[r]) + 1)..Len(e[r]) : e[r][n].by = q.id
<1> DEFINE e == WrittenEvents(d, q)
<1>0. d.events \in [Runs -> Seq(LogEvents)]
  BY DEF TablesTyped
<1>1. q.run \in Runs /\ q.id \in CommandIds /\ q.kind \in Kinds
  BY DEF WellAsked, Commands
<1>2. ForksChild(q.kind) => /\ q.child \in Runs /\ q.child # q.run
                            /\ d.events[q.child] = <<>>
  <2>1. SUFFICES ASSUME ForksChild(q.kind)
                 PROVE  /\ q.child \in Runs /\ q.child # q.run
                        /\ d.events[q.child] = <<>>
    OBVIOUS
  <2>2. q.child \in Runs /\ q.child # q.run
    BY <2>1 DEF WellAsked, Children
  <2>3. CrossRunAbsent(d, q)
    BY <2>1 DEF ForksChild, Accepts, AcceptsReplacement, AcceptsContinuation
  <2>4. Len(d.events[q.child]) = 0
    BY <2>3 DEF CrossRunAbsent, HeadOf
  <2> QED
    BY <1>0, <2>2, <2>4, EmptySeq
<1>3. Event(q, "running") \in LogEvents /\ Event(q, "running").by = q.id
  BY <1>1 DEF Event, LogEvents, States
<1>4. /\ e = [r \in Runs |-> e[r]]
      /\ e[q.run] = d.events[q.run] \o Batch(d, q)
      /\ \A r \in Runs : r # q.run /\ ~(ForksChild(q.kind) /\ r = q.child) => e[r] = d.events[r]
      /\ ForksChild(q.kind) => e[q.child] = <<Event(q, "running")>>
  BY <1>1, <1>2 DEF WrittenEvents
<1> HIDE DEF e
<1>5. d.events[q.run] \in Seq(LogEvents) /\ Batch(d, q) \in Seq(LogEvents)
  BY <1>0, <1>1, BatchTyped
<1>6. \A r \in Runs : d.events[r] \in Seq(LogEvents) /\ Len(d.events[r]) \in Nat
  BY <1>0
<1>7. \A m \in 1..Len(Batch(d, q)) : Batch(d, q)[m].by = q.id
  BY BatchTyped
<1>8. ASSUME NEW r \in Runs
      PROVE  /\ e[r] \in Seq(LogEvents)
             /\ Len(e[r]) \in Nat /\ Len(d.events[r]) <= Len(e[r])
             /\ \A n \in 1..Len(d.events[r]) : e[r][n] = d.events[r][n]
             /\ \A n \in (Len(d.events[r]) + 1)..Len(e[r]) : e[r][n].by = q.id
  <2>1. CASE r = q.run
    <3>1. e[r] = d.events[r] \o Batch(d, q)
      BY <1>4, <2>1
    <3>2. /\ e[r] \in Seq(LogEvents)
          /\ Len(e[r]) \in Nat /\ Len(d.events[r]) <= Len(e[r])
          /\ \A n \in 1..Len(d.events[r]) : e[r][n] = d.events[r][n]
          /\ \A n \in (Len(d.events[r]) + 1)..Len(e[r]) :
                n - Len(d.events[r]) \in 1..Len(Batch(d, q)) /\ e[r][n] = Batch(d, q)[n - Len(d.events[r])]
      BY <1>5, <2>1, <3>1, Appended
    <3>3. \A n \in (Len(d.events[r]) + 1)..Len(e[r]) : e[r][n].by = q.id
      BY <1>7, <3>2
    <3> QED
      BY <3>2, <3>3
  <2>2. CASE ForksChild(q.kind) /\ r = q.child
    <3>1. e[r] = <<Event(q, "running")>> /\ d.events[r] = <<>>
      BY <1>2, <1>4, <2>2
    <3> QED
      BY <1>3, <3>1
  <2>3. CASE r # q.run /\ ~(ForksChild(q.kind) /\ r = q.child)
    BY <1>4, <1>6, <2>3
  <2> QED
    BY <2>1, <2>2, <2>3
<1>9. \E r \in Runs : e[r] # d.events[r]
  <2>1. CASE ForksChild(q.kind)
    BY <1>2, <1>3, <1>4, <2>1, OneElement
  <2>2. CASE ~ForksChild(q.kind)
    <3>1. Batch(d, q) # <<>>
      BY <2>2, BatchTyped DEF ForksChild
    <3>2. d.events[q.run] \o Batch(d, q) # d.events[q.run]
      BY <1>5, <3>1, ConcatEqualIffEmpty
    <3> QED
      BY <1>1, <1>4, <3>2
  <2> QED
    BY <2>1, <2>2
<1>10. e \in [Runs -> Seq(LogEvents)]
  BY <1>4, <1>8
<1>11. ForksChild(q.kind) => Len(e[q.child]) = 1 /\ e[q.child][1] = Event(q, "running")
  BY <1>3, <1>4, OneElement
<1> QED
  BY <1>2, <1>4, <1>8, <1>9, <1>10, <1>11 DEF e

---------------------------------------------------------------------------
(* Types are kept.                                                         *)

LEMMA PartialTyped ==
    ASSUME NEW d, NEW q, NEW W, TablesTyped(d), WellAsked(q), Accepts(d, q)
    PROVE  TablesTyped(Partial(d, q, W))
<1> DEFINE p == Partial(d, q, W)
<1>1. {"events", "results", "audits", "replacements", "continuations", "receipts"} \subseteq Tables
  BY DEF Tables, EmptyTables
<1>2. p = [t \in Tables |-> p[t]] /\ \A t \in Tables : p[t] = IF t \in W THEN Written(t, d, q) ELSE d[t]
  BY DEF Partial
<1> HIDE DEF p
<1>3. /\ d.events \in [Runs -> Seq(LogEvents)]
      /\ d.results \in [Runs -> Nat]
      /\ DOMAIN d.audits = Runs
      /\ d.replacements \in [Runs -> Runs \cup {NoRun}]
      /\ d.continuations \in [Runs -> Runs \cup {NoRun}]
      /\ \A r \in d.receipts : r.command \in Commands
  BY DEF TablesTyped
<1>4. q.run \in Runs /\ q.child \in Runs \cup {NoRun} /\ q \in Commands
  BY DEF WellAsked, Commands
<1>5. p.events \in [Runs -> Seq(LogEvents)]
  <2>1. Written("events", d, q) \in [Runs -> Seq(LogEvents)]
    BY LogsGrow DEF Written
  <2> QED
    BY <1>1, <1>2, <1>3, <2>1
<1>6. p.results \in [Runs -> Nat]
  <2>1. After(d, q) \in Nat
    <3>1. d.events[q.run] \in Seq(LogEvents) /\ Batch(d, q) \in Seq(LogEvents)
      BY <1>3, <1>4, BatchTyped
    <3>2. Len(d.events[q.run]) \in Nat /\ Len(Batch(d, q)) \in Nat
      BY <3>1, LenProperties
    <3> QED
      BY <3>2 DEF After, HeadOf
  <2>2. Written("results", d, q) = [d.results EXCEPT ![q.run] = After(d, q)]
    BY DEF Written
  <2>3. [d.results EXCEPT ![q.run] = After(d, q)] \in [Runs -> Nat]
    BY <1>3, <1>4, <2>1
  <2>4. p.results = Written("results", d, q) \/ p.results = d.results
    BY <1>1, <1>2
  <2> QED
    BY <1>3, <2>2, <2>3, <2>4
<1>7. DOMAIN p.audits = Runs
  <2>1. Written("audits", d, q) =
          [d.audits EXCEPT ![q.run] = @ \cup {IF q.kind = "audit" THEN NextAudit(d, q) ELSE RootAudit(d, q)}]
    BY DEF Written
  <2> QED
    BY <1>1, <1>2, <1>3, <2>1
<1>8. p.replacements \in [Runs -> Runs \cup {NoRun}]
  <2>1. Written("replacements", d, q) = [d.replacements EXCEPT ![q.run] = q.child]
    BY DEF Written
  <2> QED
    BY <1>1, <1>2, <1>3, <1>4, <2>1
<1>9. p.continuations \in [Runs -> Runs \cup {NoRun}]
  <2>1. Written("continuations", d, q) = [d.continuations EXCEPT ![q.run] = q.child]
    BY DEF Written
  <2> QED
    BY <1>1, <1>2, <1>3, <1>4, <2>1
<1>10. \A r \in p.receipts : r.command \in Commands
  <2>1. Receipt(d, q).command = q
    BY DEF WellAsked, Commands, Kinds, Receipt, ForksChild, BatchReceipt, TerminalReceipt, AuditReceipt, CrossRunReceipt
  <2>2. Written("receipts", d, q) = d.receipts \cup {Receipt(d, q)}
    BY DEF Written
  <2> QED
    BY <1>1, <1>2, <1>3, <1>4, <2>1, <2>2
<1> QED
  BY <1>2, <1>5, <1>6, <1>7, <1>8, <1>9, <1>10 DEF TablesTyped, p

LEMMA EmptyTyped == TablesTyped(EmptyTables)
<1>1. EmptyTables = [t \in Tables |-> EmptyTables[t]]
  BY DEF Tables, EmptyTables
<1> QED
  BY <1>1 DEF TablesTyped, EmptyTables

---------------------------------------------------------------------------
(* The invariant is inductive.                                             *)

\* A commit in progress goes on while others ask, are answered or give up.
LEMMA StillInProgress ==
    ASSUME InProgress, UNCHANGED <<store, db, saved, holder, wrote>>,
           request'[holder] = request[holder], answer'[holder] = answer[holder]
    PROVE  InProgress'
<1>1. Writes(holder)' = Writes(holder)
  BY DEF Writes, Code
<1> QED
  BY <1>1 DEF InProgress, WrittenSoFar, New, Accepts, AcceptsBatch, AcceptsTerminal, AcceptsAudit,
      AcceptsReplacement, AcceptsContinuation

LEMMA InvInit == Init => Inv
<1> SUFFICES ASSUME Init PROVE Inv
  OBVIOUS
<1>1. Typed
  BY EmptyTyped, RepositoryAssumption DEF Init, Typed, Answers
<1>2. CommitsAreWhole
  BY DEF Init, CommitsAreWhole
<1> QED
  BY <1>1, <1>2 DEF Inv

\* A client that builds a command.
LEMMA AskStep ==
    ASSUME Inv, NEW c \in Clients, NEW id \in CommandIds, NEW run \in Runs, NEW kind \in Kinds,
           NEW child \in Children(kind, run), NEW to \in Targets(kind),
           Ask(c, id, kind, run, child, to)
    PROVE  Inv'
<1> DEFINE cmd == [id |-> id, kind |-> kind, run |-> run, child |-> child, to |-> to,
                   head |-> HeadOf(Committed, run)]
<1>1. /\ request' = [request EXCEPT ![c] = cmd]
      /\ answer' = [answer EXCEPT ![c] = "none"]
      /\ UNCHANGED <<store, db, saved, holder, wrote, failures>>
      /\ request[c] = NoCommand \/ answer[c] # "none"
  BY DEF Ask
<1>2. WellAsked(cmd)
  <2>1. Committed.events[run] \in Seq(LogEvents)
    BY DEF Inv, Typed, TablesTyped, Committed
  <2>2. HeadOf(Committed, run) \in Nat
    BY <2>1, LenProperties DEF HeadOf
  <2>3. child \in Runs \cup {NoRun}
    BY DEF Children
  <2>4. to \in States
    BY DEF Targets, Kinds, States, TerminalStates
  <2> QED
    BY <2>2, <2>3, <2>4 DEF WellAsked, Commands
<1> HIDE DEF cmd
<1>3. Typed'
  <2>1. \A d \in Clients : request'[d] # NoCommand => WellAsked(request'[d])
    BY <1>1, <1>2 DEF Inv, Typed
  <2> QED
    BY <1>1, <2>1 DEF Inv, Typed, Answers, TablesTyped
<1>4. CommitsAreWhole'
  <2>1. CASE holder = NoClient
    BY <1>1, <2>1 DEF Inv, CommitsAreWhole
  <2>2. CASE holder # NoClient
    <3>1. InProgress /\ holder # c
      BY <1>1, <2>2 DEF Inv, CommitsAreWhole, InProgress
    <3>2. request'[holder] = request[holder] /\ answer'[holder] = answer[holder]
      BY <1>1, <3>1 DEF Inv, Typed
    <3> QED
      BY <1>1, <2>2, <3>1, <3>2, StillInProgress DEF CommitsAreWhole
  <2> QED
    BY <2>1, <2>2
<1> QED
  BY <1>3, <1>4 DEF Inv

\* A client that is answered, or gives its command up, while no commit is in progress.
LEMMA AnswerStep ==
    ASSUME Inv, NEW c \in Clients, RefuseLate(c) \/ Replay(c) \/ Refuse(c)
    PROVE  Inv'
<1>1. /\ UNCHANGED <<store, db, saved, holder, wrote, failures>>
      /\ holder = NoClient
      /\ request' = [request EXCEPT ![c] = NoCommand] \/ request' = request
      /\ answer' \in [Clients -> Answers]
  BY DEF Inv, Typed, RefuseLate, Replay, Refuse, Pending, Answers
<1>2. Typed'
  <2>1. DOMAIN request' = Clients /\ \A d \in Clients : request'[d] # NoCommand => WellAsked(request'[d])
    BY <1>1 DEF Inv, Typed
  <2> QED
    BY <1>1, <2>1 DEF Inv, Typed, TablesTyped
<1>3. CommitsAreWhole'
  BY <1>1 DEF Inv, CommitsAreWhole
<1> QED
  BY <1>2, <1>3 DEF Inv

LEMMA BeginStep ==
    ASSUME Inv, NEW c \in Clients, Begin(c)
    PROVE  Inv'
<1>1. /\ UNCHANGED <<store, db, request, answer, failures>>
      /\ holder' = c /\ saved' = db /\ wrote' = 0
      /\ request[c] # NoCommand /\ answer[c] = "none" /\ Accepts(db, request[c]) /\ Prior(c) = {}
  BY DEF Begin, Pending
<1>2. Typed'
  BY <1>1 DEF Inv, Typed, TablesTyped
<1>3. InProgress'
  <2>1. New(db, request[c])
    BY <1>1 DEF Prior, New
  <2>2. WrittenSoFar' = {}
    BY <1>1 DEF WrittenSoFar
  <2>3. db = Partial(db, request[c], {})
    BY NothingWritten DEF Inv, Typed
  <2>4. 0 \in 0..Len(Writes(c))
    BY <1>1, CodeWrites DEF Inv, Typed, WellAsked, Commands, Writes
  <2>5. Writes(c)' = Writes(c)
    BY <1>1 DEF Writes, Code
  <2>6. (New(saved, request[holder]) /\ Accepts(saved, request[holder]))'
    BY <1>1, <2>1 DEF New, Accepts, AcceptsBatch, AcceptsTerminal, AcceptsAudit, AcceptsReplacement,
        AcceptsContinuation
  <2>7. (db = Partial(saved, request[holder], WrittenSoFar))'
    BY <1>1, <2>2, <2>3
  <2>8. (wrote \in 0..Len(Writes(holder)))'
    BY <1>1, <2>4, <2>5
  <2> QED
    BY <1>1, <2>6, <2>7, <2>8 DEF InProgress
<1>4. CommitsAreWhole'
  BY <1>1, <1>3, RepositoryAssumption DEF CommitsAreWhole
<1> QED
  BY <1>2, <1>4 DEF Inv

LEMMA WriteStep ==
    ASSUME Inv, NEW c \in Clients, WriteTable(c)
    PROVE  Inv'
<1> DEFINE table == Writes(c)[wrote + 1]
           W == WrittenSoFar
<1>1. /\ UNCHANGED <<store, saved, holder, request, answer, failures>>
      /\ holder = c /\ wrote < Len(Writes(c)) /\ wrote' = wrote + 1
      /\ db' = [db EXCEPT ![table] = Written(table, saved, request[c])]
  BY DEF WriteTable
<1>2. InProgress /\ c # NoClient
  BY <1>1, RepositoryAssumption DEF Inv, CommitsAreWhole
<1>3. /\ wrote \in 0..Len(Writes(c))
      /\ db = Partial(saved, request[c], W)
      /\ WellAsked(request[c]) /\ Accepts(saved, request[c]) /\ TablesTyped(saved)
  BY <1>1, <1>2 DEF InProgress, Inv, Typed
<1>4. Len(Writes(c)) \in 2..6 /\ {Writes(c)[n] : n \in 1..Len(Writes(c))} \subseteq Tables
  <2>1. request[c].kind \in Kinds /\ store \in {"memory", "file"}
    BY <1>3 DEF WellAsked, Commands, Inv, Typed
  <2> QED
    BY <2>1, CodeWrites DEF Writes
<1>5. table \in Tables /\ wrote + 1 \in 1..Len(Writes(c)) /\ wrote + 1 \in 0..Len(Writes(c))
  BY <1>1, <1>3, <1>4
<1>6. db' = Partial(saved, request[c], W \cup {table})
  <2> HIDE DEF table, W
  <2> QED
    BY <1>1, <1>3, <1>5 DEF Partial
<1>7. Writes(c)' = Writes(c)
  BY <1>1 DEF Writes, Code
<1>8. WrittenSoFar' = W \cup {table}
  BY <1>1, <1>3, <1>4, <1>7 DEF WrittenSoFar
<1>9. InProgress'
  <2>1. (New(saved, request[holder]) /\ Accepts(saved, request[holder]))'
    BY <1>1, <1>2 DEF InProgress, New, Accepts, AcceptsBatch, AcceptsTerminal, AcceptsAudit,
        AcceptsReplacement, AcceptsContinuation
  <2>2. (db = Partial(saved, request[holder], WrittenSoFar))'
    BY <1>1, <1>6, <1>8
  <2>3. (wrote \in 0..Len(Writes(holder)))'
    BY <1>1, <1>5, <1>7
  <2>4. (request[holder] # NoCommand /\ answer[holder] = "none")'
    BY <1>1, <1>2 DEF InProgress
  <2> QED
    BY <2>1, <2>2, <2>3, <2>4 DEF InProgress
<1>10. Typed'
  <2>1. TablesTyped(db')
    BY <1>3, <1>6, PartialTyped
  <2> QED
    BY <1>1, <2>1 DEF Inv, Typed, TablesTyped
<1> QED
  BY <1>1, <1>2, <1>9, <1>10 DEF Inv, CommitsAreWhole

\* When the last table is written, the tables are what the command makes of those found.
LEMMA AllWritten ==
    ASSUME Inv, NEW c \in Clients, holder = c, wrote = Len(Writes(c))
    PROVE  /\ db = Result(saved, request[c])
           /\ WellAsked(request[c]) /\ Accepts(saved, request[c]) /\ New(saved, request[c])
           /\ TablesTyped(saved)
<1>1. InProgress /\ c # NoClient
  BY RepositoryAssumption DEF Inv, CommitsAreWhole
<1>2. WellAsked(request[c]) /\ Accepts(saved, request[c]) /\ New(saved, request[c]) /\ TablesTyped(saved)
  BY <1>1 DEF InProgress, Inv, Typed
<1>3. request[c].kind \in Kinds /\ store \in {"memory", "file"}
  BY <1>2 DEF WellAsked, Commands, Inv, Typed
<1>4. WrittenSoFar = TablesOf(request[c].kind)
  BY <1>3, CodeWrites DEF Writes, WrittenSoFar
<1>5. db = Partial(saved, request[c], WrittenSoFar)
  BY <1>1 DEF InProgress
<1> QED
  BY <1>2, <1>4, <1>5 DEF Result

\* A commit that ends, heard or not.
LEMMA FinishStep ==
    ASSUME Inv, NEW c \in Clients, Finish(c) \/ FinishUnheard(c)
    PROVE  Inv'
<1>1. /\ UNCHANGED <<store, db, request>>
      /\ holder' = NoClient /\ wrote' = 0 /\ saved' = db
      /\ answer' \in [Clients -> Answers]
      /\ failures' \in 0..MaxFailures
  BY RepositoryAssumption DEF Inv, Typed, Finish, FinishUnheard, Answers
<1>2. Typed'
  BY <1>1 DEF Inv, Typed, TablesTyped
<1>3. CommitsAreWhole'
  BY <1>1 DEF CommitsAreWhole
<1> QED
  BY <1>2, <1>3 DEF Inv

\* A commit that fails leaves the tables as it found them.
LEMMA FailRestores ==
    ASSUME Inv, NEW c \in Clients, Fail(c)
    PROVE  db' = saved
<1>1. holder = c /\ db' = [t \in Tables |-> IF t \in Code(request[c].kind).restores THEN saved[t] ELSE db[t]]
  BY DEF Fail
<1>2. InProgress
  BY <1>1, RepositoryAssumption DEF Inv, CommitsAreWhole
<1>3. /\ WellAsked(request[c]) /\ TablesTyped(saved)
      /\ db = Partial(saved, request[c], WrittenSoFar)
      /\ wrote \in 0..Len(Writes(c))
  BY <1>1, <1>2 DEF InProgress, Inv, Typed
<1>4. request[c].kind \in Kinds /\ store \in {"memory", "file"}
  BY <1>3 DEF WellAsked, Commands, Inv, Typed
<1>5. {Writes(c)[n] : n \in 1..Len(Writes(c))} \subseteq Code(request[c].kind).restores /\ Len(Writes(c)) \in 2..6
  BY <1>4, CodeWrites DEF Writes
<1>6. WrittenSoFar \subseteq Code(request[c].kind).restores
  BY <1>1, <1>3, <1>5 DEF WrittenSoFar
<1> DEFINE q == request[c]
           W == WrittenSoFar
           R == Code(request[c].kind).restores
<1>7. /\ db' = [t \in Tables |-> IF t \in R THEN saved[t] ELSE db[t]]
      /\ db = Partial(saved, q, W) /\ W \subseteq R /\ TablesTyped(saved)
  BY <1>1, <1>3, <1>6
<1> HIDE DEF q, W, R
<1>8. saved = [t \in Tables |-> saved[t]]
  BY <1>7 DEF TablesTyped
<1>9. \A t \in Tables : (IF t \in R THEN saved[t] ELSE db[t]) = saved[t]
  BY <1>7 DEF Partial
<1> QED
  BY <1>7, <1>8, <1>9

LEMMA FailStep ==
    ASSUME Inv, NEW c \in Clients, Fail(c)
    PROVE  Inv'
<1>1. /\ UNCHANGED <<store, request, answer>>
      /\ holder' = NoClient /\ wrote' = 0 /\ saved' = db'
      /\ failures' \in 0..MaxFailures
  BY RepositoryAssumption DEF Inv, Typed, Fail
<1>2. db' = saved
  BY FailRestores
<1>3. Typed'
  BY <1>1, <1>2 DEF Inv, Typed, TablesTyped
<1>4. CommitsAreWhole'
  BY <1>1 DEF CommitsAreWhole
<1> QED
  BY <1>3, <1>4 DEF Inv

LEMMA InvStep == Inv /\ [Next]_vars => Inv'
<1> SUFFICES ASSUME Inv, [Next]_vars PROVE Inv'
  OBVIOUS
<1>1. CASE UNCHANGED vars
  <2>1. Typed'
    BY <1>1 DEF vars, Inv, Typed, TablesTyped
  <2>2. holder = NoClient => CommitsAreWhole'
    BY <1>1 DEF vars, Inv, CommitsAreWhole
  <2>3. holder # NoClient => InProgress'
    BY <1>1, StillInProgress DEF vars, Inv, CommitsAreWhole
  <2> QED
    BY <1>1, <2>1, <2>2, <2>3 DEF vars, Inv, CommitsAreWhole
<1>2. ASSUME NEW c \in Clients, NEW id \in CommandIds, NEW run \in Runs, NEW kind \in Kinds,
             NEW child \in Children(kind, run), NEW to \in Targets(kind),
             Ask(c, id, kind, run, child, to)
      PROVE  Inv'
  BY <1>2, AskStep
<1>3. ASSUME NEW c \in Clients, RefuseLate(c) \/ Replay(c) \/ Refuse(c) PROVE Inv'
  BY <1>3, AnswerStep
<1>4. ASSUME NEW c \in Clients, Begin(c) PROVE Inv'
  BY <1>4, BeginStep
<1>5. ASSUME NEW c \in Clients, WriteTable(c) PROVE Inv'
  BY <1>5, WriteStep
<1>6. ASSUME NEW c \in Clients, Finish(c) \/ FinishUnheard(c) PROVE Inv'
  BY <1>6, FinishStep
<1>7. ASSUME NEW c \in Clients, Fail(c) PROVE Inv'
  BY <1>7, FailStep
<1> QED
  BY <1>1, <1>2, <1>3, <1>4, <1>5, <1>6, <1>7 DEF Next

THEOREM InvHolds == Spec => []Inv
  BY InvInit, InvStep, PTL DEF Spec

LEMMA InvTypes == Inv => TypeOK
<1> SUFFICES ASSUME Inv PROVE TypeOK
  OBVIOUS
<1>1. wrote \in 0..6
  <2>1. CASE holder = NoClient
    BY <2>1 DEF Inv, CommitsAreWhole
  <2>2. CASE holder # NoClient
    <3>1. InProgress /\ holder \in Clients
      BY <2>2 DEF Inv, CommitsAreWhole, Typed
    <3>2. request[holder].kind \in Kinds /\ store \in {"memory", "file"} /\ wrote \in 0..Len(Writes(holder))
      BY <3>1 DEF InProgress, Inv, Typed, WellAsked, Commands
    <3>3. Len(Writes(holder)) \in 2..6
      BY <3>2, CodeWrites DEF Writes
    <3> DEFINE length == Len(Writes(holder))
    <3>4. length \in 2..6 /\ wrote \in 0..length
      BY <3>2, <3>3
    <3> HIDE DEF length
    <3> QED
      BY <3>4
  <2> QED
    BY <2>1, <2>2
<1>2. ASSUME NEW r \in Runs
      PROVE  /\ {db.replacements[r], db.continuations[r]} \subseteq Runs \cup {NoRun}
             /\ \A e \in Range(db.events[r]) : e \in [by : CommandIds, state : States]
  <2>1. /\ db.replacements \in [Runs -> Runs \cup {NoRun}]
        /\ db.continuations \in [Runs -> Runs \cup {NoRun}]
        /\ db.events[r] \in Seq(LogEvents)
    BY DEF Inv, Typed, TablesTyped
  <2>2. Range(db.events[r]) \subseteq LogEvents
    BY <2>1, LenProperties, ElementOfSeq DEF Range
  <2> QED
    BY <2>1, <2>2 DEF LogEvents
<1>3. \A r \in db.receipts : r.command \in Commands
  BY DEF Inv, Typed, TablesTyped
<1>4. \A c \in Clients : request[c] # NoCommand => request[c] \in Commands
  BY DEF Inv, Typed, WellAsked
<1> QED
  BY <1>1, <1>2, <1>3, <1>4 DEF TypeOK, Inv, Typed

\* Every variable keeps its type, in the tables too, while a commit writes them one by
\* one and another fails half-way.
THEOREM TypeCorrect == Spec => []TypeOK
  BY InvHolds, InvTypes, PTL

---------------------------------------------------------------------------
(* What a reader sees: a commit happens at its end, and all at once.       *)

LEMMA CommittedStep ==
    ASSUME Inv, [Next]_vars
    PROVE  \/ Committed' = Committed
           \/ \E c \in Clients :
                /\ holder = c /\ c # NoClient
                /\ WellAsked(request[c]) /\ TablesTyped(Committed)
                /\ New(Committed, request[c]) /\ Accepts(Committed, request[c])
                /\ Committed' = Result(Committed, request[c])
<1>1. CASE UNCHANGED <<db, saved, holder>>
  BY <1>1 DEF Committed
<1>2. CASE UNCHANGED vars
  BY <1>2 DEF vars, Committed
<1>3. ASSUME NEW c \in Clients, NEW id \in CommandIds, NEW run \in Runs, NEW kind \in Kinds,
             NEW child \in Children(kind, run), NEW to \in Targets(kind),
             Ask(c, id, kind, run, child, to)
      PROVE  Committed' = Committed
  BY <1>3 DEF Ask, Committed
<1>4. ASSUME NEW c \in Clients, RefuseLate(c) \/ Replay(c) \/ Refuse(c) PROVE Committed' = Committed
  BY <1>4 DEF RefuseLate, Replay, Refuse, Committed
<1>5. ASSUME NEW c \in Clients, Begin(c) PROVE Committed' = Committed
  BY <1>5, RepositoryAssumption DEF Begin, Pending, Committed
<1>6. ASSUME NEW c \in Clients, WriteTable(c) PROVE Committed' = Committed
  BY <1>6, RepositoryAssumption DEF WriteTable, Committed
<1>7. ASSUME NEW c \in Clients, Fail(c) PROVE Committed' = Committed
  BY <1>7, FailRestores, RepositoryAssumption DEF Fail, Committed
<1>8. ASSUME NEW c \in Clients, Finish(c) \/ FinishUnheard(c)
      PROVE  /\ holder = c /\ c # NoClient
             /\ WellAsked(request[c]) /\ TablesTyped(Committed)
             /\ New(Committed, request[c]) /\ Accepts(Committed, request[c])
             /\ Committed' = Result(Committed, request[c])
  <2>1. /\ holder = c /\ wrote = Len(Writes(c)) /\ c # NoClient
        /\ Committed = saved /\ Committed' = db
    BY <1>8, RepositoryAssumption DEF Finish, FinishUnheard, Committed
  <2> QED
    BY <2>1, AllWritten
<1> QED
  BY <1>2, <1>3, <1>4, <1>5, <1>6, <1>7, <1>8 DEF Next

---------------------------------------------------------------------------
(* The repository implements the ledger.                                   *)

LEMMA ReceiptNamesCommand ==
    ASSUME NEW d, NEW q, WellAsked(q)
    PROVE  Receipt(d, q).command = q
  BY DEF WellAsked, Commands, Kinds, Receipt, ForksChild, BatchReceipt, TerminalReceipt, AuditReceipt, CrossRunReceipt

\* What is a prefix and what follows it.
LEMMA PrefixOf ==
    ASSUME NEW S, NEW s \in Seq(S), NEW t \in Seq(S), Len(s) <= Len(t),
           \A n \in 1..Len(s) : t[n] = s[n]
    PROVE  IsPrefix(s, t)
<1>1. Len(s) \in Nat /\ Len(t) \in Nat
  BY LenProperties
<1>2. SubSeq(s, 1, Len(s)) = s
  BY SubSeqFull
<1>3. /\ SubSeq(t, 1, Len(s)) \in Seq(S)
      /\ Len(SubSeq(t, 1, Len(s))) = Len(s)
      /\ \A i \in 1..Len(s) : SubSeq(t, 1, Len(s))[i] = t[i]
  <2> DEFINE k == Len(s)
  <2>1. k \in Nat /\ k \in Int /\ 1 \in Int /\ k <= Len(t)
    BY <1>1
  <2>2. \A i \in 1..k : t[i] \in S
    BY <1>1, <2>1, ElementOfSeq
  <2> HIDE DEF k
  <2>3. /\ SubSeq(t, 1, k) \in Seq(S)
        /\ Len(SubSeq(t, 1, k)) = IF 1 <= k THEN k - 1 + 1 ELSE 0
        /\ \A i \in 1..(k - 1 + 1) : SubSeq(t, 1, k)[i] = t[1 + i - 1]
    BY <2>1, <2>2, SubSeqProperties
  <2>4. /\ SubSeq(t, 1, k) \in Seq(S)
        /\ Len(SubSeq(t, 1, k)) = k
        /\ \A i \in 1..k : SubSeq(t, 1, k)[i] = t[i]
    BY <2>1, <2>3
  <2> QED
    BY <2>4 DEF k
<1>4. SubSeq(t, 1, Len(s)) = s
  BY <1>3, SeqEqual
<1> QED
  BY <1>2, <1>4 DEF IsPrefix

\* What a command does to the logs and receipts is a commit of the ledger.
LEMMA ResultIsCommit ==
    ASSUME NEW d, NEW q, WellAsked(q), TablesTyped(d), New(d, q), Accepts(d, q),
           NEW f, f = Result(d, q)
    PROVE  /\ q.id \notin {r.command.id : r \in d.receipts}
           /\ {r.command.id : r \in f.receipts} = {r.command.id : r \in d.receipts} \cup {q.id}
           /\ DOMAIN f.events = Runs
           /\ \E r \in Runs : f.events[r] # d.events[r]
           /\ \E r, s \in Runs : \A t \in Runs : f.events[t] # d.events[t] => t \in {r, s}
           /\ \A r \in Runs :
                /\ IsPrefix(d.events[r], f.events[r])
                /\ \A n \in (Len(d.events[r]) + 1)..Len(f.events[r]) : f.events[r][n].by = q.id
<1> DEFINE e == WrittenEvents(d, q)
<1>1. f.events = e /\ f.receipts = d.receipts \cup {Receipt(d, q)}
  BY ResultParts
<1>2. Receipt(d, q).command = q
  BY ReceiptNamesCommand
<1>3. /\ e \in [Runs -> Seq(LogEvents)]
      /\ \A r \in Runs : e[r] # d.events[r] => r = q.run \/ (ForksChild(q.kind) /\ r = q.child)
      /\ \E r \in Runs : e[r] # d.events[r]
      /\ ForksChild(q.kind) => q.child \in Runs
      /\ \A r \in Runs :
           /\ Len(d.events[r]) <= Len(e[r])
           /\ \A n \in 1..Len(d.events[r]) : e[r][n] = d.events[r][n]
           /\ \A n \in (Len(d.events[r]) + 1)..Len(e[r]) : e[r][n].by = q.id
  BY LogsGrow
<1> HIDE DEF e
<1>4. \A r \in Runs : d.events[r] \in Seq(LogEvents)
  BY DEF TablesTyped
<1>5. \A r \in Runs : IsPrefix(d.events[r], e[r])
  BY <1>3, <1>4, PrefixOf
<1>6. q.run \in Runs
  BY DEF WellAsked, Commands
<1>7. \E r, s \in Runs : \A t \in Runs : e[t] # d.events[t] => t \in {r, s}
  BY <1>3, <1>6
<1>8. q.id \notin {r.command.id : r \in d.receipts}
  BY DEF New
<1>9. {r.command.id : r \in f.receipts} = {r.command.id : r \in d.receipts} \cup {q.id}
  BY <1>1, <1>2
<1> QED
  BY <1>1, <1>3, <1>5, <1>7, <1>8, <1>9

LEMMA LedgerStep ==
    ASSUME Inv, [Next]_vars
    PROVE  [Ledger!Next]_(Ledger!vars)
<1>1. CASE Committed' = Committed
  BY <1>1 DEF Ledger!vars
<1>2. CASE \E c \in Clients :
             /\ WellAsked(request[c]) /\ TablesTyped(Committed)
             /\ New(Committed, request[c]) /\ Accepts(Committed, request[c])
             /\ Committed' = Result(Committed, request[c])
  <2>1. PICK c \in Clients :
             /\ WellAsked(request[c]) /\ TablesTyped(Committed)
             /\ New(Committed, request[c]) /\ Accepts(Committed, request[c])
             /\ Committed' = Result(Committed, request[c])
    BY <1>2
  <2> DEFINE d == Committed
             f == Committed'
             q == request[c]
  <2>2. f = Result(d, q) /\ WellAsked(q) /\ TablesTyped(d) /\ New(d, q) /\ Accepts(d, q)
    BY <2>1
  <2> HIDE DEF d, f, q
  <2>3. /\ q.id \notin {r.command.id : r \in d.receipts}
        /\ {r.command.id : r \in f.receipts} = {r.command.id : r \in d.receipts} \cup {q.id}
        /\ DOMAIN f.events = Runs
        /\ \E r \in Runs : f.events[r] # d.events[r]
        /\ \E r, s \in Runs : \A t \in Runs : f.events[t] # d.events[t] => t \in {r, s}
        /\ \A r \in Runs :
             /\ IsPrefix(d.events[r], f.events[r])
             /\ \A n \in (Len(d.events[r]) + 1)..Len(f.events[r]) : f.events[r][n].by = q.id
    BY <2>2, ResultIsCommit
  <2>4. LET changed == {r \in Runs : f.events[r] # d.events[r]}
        IN  /\ q.id \notin {r.command.id : r \in d.receipts}
            /\ {r.command.id : r \in f.receipts} = {r.command.id : r \in d.receipts} \cup {q.id}
            /\ DOMAIN f.events = Runs
            /\ changed # {} /\ \E r, s \in Runs : changed \subseteq {r, s}
            /\ \A r \in changed :
                 /\ Ledger!IsPrefix(d.events[r], f.events[r])
                 /\ \A n \in (Len(d.events[r]) + 1)..Len(f.events[r]) : f.events[r][n].by = q.id
    BY <2>3 DEF IsPrefix, Ledger!IsPrefix
  <2>5. q.id \in {r.command.id : r \in f.receipts}
    BY <2>3
  <2>6. \E x \in {r.command.id : r \in Committed.receipts}' : Ledger!Commit(x)
    BY <2>4, <2>5 DEF Ledger!Commit, Ledger!Changed, d, f
  <2> QED
    BY <2>6 DEF Ledger!Next
<1> QED
  BY <1>1, <1>2, CommittedStep

LEMMA LedgerInit == Init => Ledger!Init
  BY DEF Init, Ledger!Init, Committed, EmptyTables

\* The repository is an atomic ledger: logs only grow, and a command takes effect at
\* most once and all at once, though it is written table by table, fails half-way, or
\* loses its answer and is sent again.
THEOREM LedgerCorrect == Spec => ImplementsLedger
<1>1. Init => Ledger!Init
  BY LedgerInit
<1>2. Inv /\ [Next]_vars => [Ledger!Next]_(Ledger!vars)
  BY LedgerStep
<1> QED
  BY <1>1, <1>2, InvHolds, PTL DEF Spec, ImplementsLedger, Ledger!Spec

---------------------------------------------------------------------------
(* What clients are told.  A command that is not acceptable any more never *)
(* will be: its run went on, its id was used, or its parent or its child   *)
(* belongs to another.                                                     *)

Gone(d, q) ==
    \/ q.head < HeadOf(d, q.run)
    \/ ForksChild(q.kind) /\ ~CrossRunAbsent(d, q)
    \/ ~New(d, q)

IdsAreUnique(d) == \A r, s \in d.receipts : r.command.id = s.command.id => r.command = s.command

Heard ==
    /\ IdsAreUnique(Committed)
    /\ \A c \in Clients :
         /\ answer[c] # "none" => request[c] # NoCommand
         /\ answer[c] = "receipt" => \E r \in Committed.receipts : r.command = request[c]
         /\ answer[c] = "refused" => /\ \A r \in Committed.receipts : r.command # request[c]
                                     /\ Gone(Committed, request[c])
         /\ request[c] # NoCommand => Accepts(Committed, request[c]) \/ Gone(Committed, request[c])

\* A head moves exactly when the log changes.
LEMMA HeadsGrow ==
    ASSUME NEW d, NEW q, WellAsked(q), TablesTyped(d), Accepts(d, q),
           NEW f, f = Result(d, q), NEW r \in Runs
    PROVE  /\ HeadOf(d, r) \in Nat /\ HeadOf(f, r) \in Nat /\ HeadOf(d, r) <= HeadOf(f, r)
           /\ HeadOf(f, r) = HeadOf(d, r) => f.events[r] = d.events[r]
<1> DEFINE e == WrittenEvents(d, q)
<1>1. f.events = e
  BY ResultParts
<1>2. /\ e \in [Runs -> Seq(LogEvents)]
      /\ Len(e[r]) \in Nat /\ Len(d.events[r]) <= Len(e[r])
      /\ \A n \in 1..Len(d.events[r]) : e[r][n] = d.events[r][n]
  BY LogsGrow
<1> HIDE DEF e
<1>3. d.events[r] \in Seq(LogEvents) /\ e[r] \in Seq(LogEvents)
  BY <1>2 DEF TablesTyped
<1>4. Len(d.events[r]) \in Nat
  BY <1>3, LenProperties
<1>5. Len(e[r]) = Len(d.events[r]) => e[r] = d.events[r]
  BY <1>2, <1>3, SeqEqual
<1> QED
  BY <1>1, <1>2, <1>4, <1>5 DEF HeadOf

\* A parent keeps its child.
LEMMA EdgesStay ==
    ASSUME NEW d, NEW q, WellAsked(q), TablesTyped(d), Accepts(d, q),
           NEW f, f = Result(d, q), NEW x \in Edges(d), x[2] # NoRun
    PROVE  x \in Edges(f)
<1>1. /\ f.replacements = IF q.kind = "replace" THEN [d.replacements EXCEPT ![q.run] = q.child]
                          ELSE d.replacements
      /\ f.continuations = IF q.kind = "continue" THEN [d.continuations EXCEPT ![q.run] = q.child]
                           ELSE d.continuations
  BY ResultParts
<1>2. ForksChild(q.kind) => x[1] # q.run
  BY DEF Accepts, AcceptsReplacement, AcceptsContinuation, CrossRunAbsent, ForksChild
<1>3. d.replacements \in [Runs -> Runs \cup {NoRun}] /\ d.continuations \in [Runs -> Runs \cup {NoRun}]
  BY DEF TablesTyped
<1>4. PICK p \in Runs : x = <<p, d.replacements[p]>> \/ x = <<p, d.continuations[p]>>
  BY DEF Edges
<1>5. ForksChild(q.kind) => p # q.run
  BY <1>2, <1>4
<1>6. f.replacements[p] = d.replacements[p] /\ f.continuations[p] = d.continuations[p]
  BY <1>1, <1>3, <1>5 DEF ForksChild
<1> QED
  BY <1>4, <1>6 DEF Edges

LEMMA GoneStays ==
    ASSUME NEW d, NEW p, WellAsked(p), TablesTyped(d), Accepts(d, p),
           NEW f, f = Result(d, p), NEW q, WellAsked(q), Gone(d, q)
    PROVE  Gone(f, q)
<1>1. q.run \in Runs /\ q.head \in Nat
  BY DEF WellAsked, Commands
<1>2. CASE q.head < HeadOf(d, q.run)
  BY <1>1, <1>2, HeadsGrow DEF Gone
<1>3. CASE ForksChild(q.kind) /\ ~CrossRunAbsent(d, q)
  <2>1. q.child \in Runs
    BY <1>3 DEF WellAsked, Children
  <2>2. HeadOf(d, q.child) # 0 => HeadOf(f, q.child) # 0
    BY <2>1, HeadsGrow
  <2>3. CASE HeadOf(d, q.child) # 0
    BY <1>3, <2>2, <2>3 DEF Gone, CrossRunAbsent
  <2>4. CASE HeadOf(d, q.child) = 0
    <3>1. PICK x \in Edges(d) : x[2] # NoRun /\ (x[1] = q.run \/ x[2] = q.child)
      BY <1>3, <2>4 DEF CrossRunAbsent
    <3>2. x \in Edges(f)
      BY <3>1, EdgesStay
    <3> QED
      BY <1>3, <3>1, <3>2 DEF Gone, CrossRunAbsent
  <2> QED
    BY <2>3, <2>4
<1>4. CASE ~New(d, q)
  <2>1. d.receipts \subseteq f.receipts
    BY ResultParts
  <2> QED
    BY <1>4, <2>1 DEF Gone, New
<1> QED
  BY <1>2, <1>3, <1>4 DEF Gone

LEMMA AcceptedOrGone ==
    ASSUME NEW d, NEW p, WellAsked(p), TablesTyped(d), Accepts(d, p),
           NEW f, f = Result(d, p), NEW q, WellAsked(q), Accepts(d, q)
    PROVE  Accepts(f, q) \/ Gone(f, q)
<1>1. q.run \in Runs /\ q.head \in Nat /\ p.run \in Runs
  BY DEF WellAsked, Commands
<1>2. /\ HeadOf(d, q.run) \in Nat /\ HeadOf(f, q.run) \in Nat /\ HeadOf(d, q.run) <= HeadOf(f, q.run)
      /\ HeadOf(f, q.run) = HeadOf(d, q.run) => f.events[q.run] = d.events[q.run]
  BY <1>1, HeadsGrow
<1>3. q.head = HeadOf(d, q.run)
  BY DEF Accepts, AcceptsBatch, AcceptsTerminal, AcceptsAudit, AcceptsReplacement, AcceptsContinuation, Expected
<1>4. CASE HeadOf(f, q.run) # HeadOf(d, q.run)
  BY <1>1, <1>2, <1>3, <1>4 DEF Gone
<1>5. CASE ForksChild(q.kind) /\ ~CrossRunAbsent(f, q)
  BY <1>5 DEF Gone
<1>6. CASE /\ HeadOf(f, q.run) = HeadOf(d, q.run)
           /\ ForksChild(q.kind) => CrossRunAbsent(f, q)
  <2>1. RunState(f, q.run) = RunState(d, q.run) /\ Expected(f, q)
    BY <1>2, <1>3, <1>6 DEF RunState, StateAt, Expected
  <2>2. AcceptsAudit(d, q) => AcceptsAudit(f, q)
    <3>1. /\ f.results = IF p.kind \in {"terminal", "replace"}
                         THEN [d.results EXCEPT ![p.run] = After(d, p)] ELSE d.results
          /\ f.audits = IF p.kind \in {"audit", "terminal", "replace"}
                        THEN [d.audits EXCEPT ![p.run] = @ \cup {IF p.kind = "audit" THEN NextAudit(d, p)
                                                                 ELSE RootAudit(d, p)}]
                        ELSE d.audits
      BY ResultParts
    <3>2. DOMAIN d.audits = Runs /\ d.results \in [Runs -> Nat]
      BY DEF TablesTyped
    <3>3. CASE q.run # p.run
      <4>1. f.results[q.run] = d.results[q.run] /\ f.audits[q.run] = d.audits[q.run]
        BY <1>1, <3>1, <3>2, <3>3
      <4> QED
        BY <2>1, <4>1 DEF AcceptsAudit
    <3>4. CASE q.run = p.run
      <4>1. f.events[p.run] = d.events[p.run] \o Batch(d, p)
        <5>1. f.events = WrittenEvents(d, p)
          BY ResultParts
        <5>2. WrittenEvents(d, p)[p.run] = d.events[p.run] \o Batch(d, p)
          BY LogsGrow
        <5> QED
          BY <5>1, <5>2
      <4>2. d.events[p.run] \in Seq(LogEvents) /\ Batch(d, p) \in Seq(LogEvents)
        BY <1>1, BatchTyped DEF TablesTyped
      <4>3. Batch(d, p) = <<>>
        BY <1>2, <1>6, <3>4, <4>1, <4>2, ConcatEqualIffEmpty
      <4>4. p.kind = "continue"
        BY <4>3, BatchTyped
      <4>5. f.results = d.results /\ f.audits = d.audits
        BY <3>1, <4>4
      <4> QED
        BY <2>1, <4>5 DEF AcceptsAudit
    <3> QED
      BY <3>3, <3>4
  <2> QED
    BY <1>6, <2>1, <2>2 DEF Accepts, AcceptsBatch, AcceptsTerminal, AcceptsReplacement, ReplacementPrerequisite,
        AcceptsContinuation, ForksChild
<1> QED
  BY <1>4, <1>5, <1>6

\* What is acceptable is not gone, until it took effect.
LEMMA AcceptedIsNotGone ==
    ASSUME NEW d, NEW q, TablesTyped(d), WellAsked(q), Accepts(d, q), New(d, q)
    PROVE  ~Gone(d, q)
<1>1. q.run \in Runs /\ q.head \in Nat
  BY DEF WellAsked, Commands
<1>2. d.events[q.run] \in Seq(LogEvents)
  BY <1>1 DEF TablesTyped
<1>3. q.head = HeadOf(d, q.run) /\ HeadOf(d, q.run) \in Nat
  BY <1>2, LenProperties DEF Accepts, AcceptsBatch, AcceptsTerminal, AcceptsAudit, AcceptsReplacement,
      AcceptsContinuation, Expected, HeadOf
<1>4. ForksChild(q.kind) => CrossRunAbsent(d, q)
  BY DEF Accepts, AcceptsReplacement, AcceptsContinuation, ForksChild
<1> QED
  BY <1>3, <1>4 DEF Gone

LEMMA HeardInit == Init => Heard
  BY DEF Init, Heard, Committed, EmptyTables, IdsAreUnique

\* A commit by c takes effect.
LEMMA HeardAtEnd ==
    ASSUME Inv, Heard, NEW c \in Clients, Finish(c) \/ FinishUnheard(c)
    PROVE  Heard'
<1> DEFINE d == Committed
           f == Committed'
           q == request[c]
<1>1. /\ f = Result(d, q) /\ WellAsked(q) /\ TablesTyped(d) /\ New(d, q) /\ Accepts(d, q)
      /\ q # NoCommand /\ request' = request
      /\ \/ answer' = answer /\ answer[c] = "none"
         \/ answer' = [answer EXCEPT ![c] = "receipt"]
  <2>1. /\ holder = c /\ wrote = Len(Writes(c)) /\ c # NoClient /\ request' = request
        /\ answer' = answer \/ answer' = [answer EXCEPT ![c] = "receipt"]
        /\ Committed = saved /\ Committed' = db
    BY RepositoryAssumption DEF Finish, FinishUnheard, Committed
  <2>2. request[c] # NoCommand /\ answer[c] = "none"
    BY <2>1 DEF Inv, CommitsAreWhole, InProgress
  <2> QED
    BY <2>1, <2>2, AllWritten
<1>2. answer \in [Clients -> Answers] /\ \A x \in Clients : request[x] # NoCommand => WellAsked(request[x])
  BY DEF Inv, Typed
<1>3. /\ IdsAreUnique(d)
      /\ \A x \in Clients :
           /\ answer[x] # "none" => request[x] # NoCommand
           /\ answer[x] = "receipt" => \E r \in d.receipts : r.command = request[x]
           /\ answer[x] = "refused" => (\A r \in d.receipts : r.command # request[x]) /\ Gone(d, request[x])
           /\ request[x] # NoCommand => Accepts(d, request[x]) \/ Gone(d, request[x])
  BY DEF Heard
<1> HIDE DEF d, f, q
<1>4. f.receipts = d.receipts \cup {Receipt(d, q)} /\ Receipt(d, q).command = q
  BY <1>1, ResultParts, ReceiptNamesCommand
<1>5. IdsAreUnique(f)
  BY <1>1, <1>3, <1>4 DEF IdsAreUnique, New
<1>6. ASSUME NEW x \in Clients
      PROVE  /\ answer'[x] # "none" => request[x] # NoCommand
             /\ answer'[x] = "receipt" => \E r \in f.receipts : r.command = request[x]
             /\ answer'[x] = "refused" => (\A r \in f.receipts : r.command # request[x]) /\ Gone(f, request[x])
             /\ request[x] # NoCommand => Accepts(f, request[x]) \/ Gone(f, request[x])
  <2>1. request[x] # NoCommand => Accepts(f, request[x]) \/ Gone(f, request[x])
    BY <1>1, <1>2, <1>3, AcceptedOrGone, GoneStays
  <2>2. CASE answer'[x] = answer[x]
    <3>1. answer[x] = "refused" => Gone(f, request[x]) /\ request[x] # q
      BY <1>1, <1>2, <1>3, GoneStays, AcceptedIsNotGone
    <3> QED
      BY <1>3, <1>4, <2>1, <2>2, <3>1
  <2>3. CASE x = c /\ answer'[x] = "receipt"
    BY <1>1, <1>4, <2>1, <2>3 DEF q
  <2> QED
    BY <1>1, <1>2, <2>2, <2>3
<1> QED
  BY <1>1, <1>5, <1>6 DEF Heard, f

LEMMA HeardStep ==
    ASSUME Inv, Heard, [Next]_vars
    PROVE  Heard'
<1> USE DEF Heard
<1>1. answer \in [Clients -> Answers] /\ DOMAIN request = Clients
  BY DEF Inv, Typed
<1>2. ASSUME Committed' = Committed, UNCHANGED <<request, answer>>
      PROVE  Heard'
  BY <1>2
<1>3. CASE UNCHANGED vars
  BY <1>2, <1>3 DEF vars, Committed
<1>4. ASSUME NEW c \in Clients, NEW id \in CommandIds, NEW run \in Runs, NEW kind \in Kinds,
             NEW child \in Children(kind, run), NEW to \in Targets(kind),
             Ask(c, id, kind, run, child, to)
      PROVE  Heard'
  <2> DEFINE cmd == [id |-> id, kind |-> kind, run |-> run, child |-> child, to |-> to,
                     head |-> HeadOf(Committed, run)]
  <2>1. /\ Accepts(Committed, cmd) /\ Committed' = Committed
        /\ request' = [request EXCEPT ![c] = cmd]
        /\ answer' = [answer EXCEPT ![c] = "none"]
    BY <1>4 DEF Ask, Committed
  <2> HIDE DEF cmd
  <2>2. ASSUME NEW x \in Clients, x # c PROVE answer'[x] = answer[x] /\ request'[x] = request[x]
    BY <1>1, <2>1, <2>2
  <2>3. answer'[c] = "none" /\ request'[c] = cmd
    BY <1>1, <2>1
  <2> QED
    BY <2>1, <2>2, <2>3
<1>5. ASSUME NEW c \in Clients, RefuseLate(c) PROVE Heard'
  <2>1. /\ Committed' = Committed /\ answer' = answer /\ answer[c] = "none"
        /\ request' = [request EXCEPT ![c] = NoCommand]
    BY <1>5 DEF RefuseLate, Pending, Committed
  <2>2. ASSUME NEW x \in Clients, x # c PROVE request'[x] = request[x]
    BY <1>1, <2>1, <2>2
  <2>3. request'[c] = NoCommand
    BY <1>1, <2>1
  <2> QED
    BY <2>1, <2>2, <2>3
<1>6. ASSUME NEW c \in Clients, Replay(c) PROVE Heard'
  <2>1. /\ Committed' = Committed /\ Committed = db /\ request' = request /\ request[c] # NoCommand
        /\ answer' = [answer EXCEPT ![c] = "receipt"]
        /\ \E r \in db.receipts : r.command = request[c]
    BY <1>6 DEF Replay, Pending, Prior, Committed
  <2>2. ASSUME NEW x \in Clients, x # c PROVE answer'[x] = answer[x]
    BY <1>1, <2>1, <2>2
  <2>3. answer'[c] = "receipt"
    BY <1>1, <2>1
  <2> QED
    BY <2>1, <2>2, <2>3
<1>7. ASSUME NEW c \in Clients, Refuse(c) PROVE Heard'
  <2>1. /\ Committed' = Committed /\ Committed = db /\ request' = request /\ request[c] # NoCommand
        /\ answer' = [answer EXCEPT ![c] = "refused"]
        /\ \/ \E r \in db.receipts : r.command.id = request[c].id /\ r.command # request[c]
           \/ (\A r \in db.receipts : r.command.id # request[c].id) /\ ~Accepts(db, request[c])
    BY <1>7 DEF Refuse, Pending, Prior, Committed
  <2>2. ASSUME NEW x \in Clients, x # c PROVE answer'[x] = answer[x]
    BY <1>1, <2>1, <2>2
  <2>3. answer'[c] = "refused"
    BY <1>1, <2>1
  <2>4. (\A r \in Committed.receipts : r.command # request[c]) /\ Gone(Committed, request[c])
    BY <2>1 DEF IdsAreUnique, Gone, New
  <2> QED
    BY <2>1, <2>2, <2>3, <2>4
<1>8. ASSUME NEW c \in Clients, Begin(c) \/ WriteTable(c) \/ Fail(c) PROVE Heard'
  <2>1. UNCHANGED <<request, answer>> /\ Committed' = Committed
    BY <1>8, FailRestores, RepositoryAssumption DEF Begin, Pending, WriteTable, Fail, Committed
  <2> QED
    BY <1>2, <2>1
<1>9. ASSUME NEW c \in Clients, Finish(c) \/ FinishUnheard(c) PROVE Heard'
  BY <1>9, HeardAtEnd
<1> QED
  BY <1>3, <1>4, <1>5, <1>6, <1>7, <1>8, <1>9 DEF Next

LEMMA HeardIsTrue == Inv /\ Heard => AnswersAreTrue
<1> SUFFICES ASSUME Inv, Heard, NEW c \in Clients
             PROVE  /\ answer[c] = "receipt" => \E r \in Committed.receipts : r.command = request[c]
                    /\ answer[c] = "refused" => \A r \in db.receipts : r.command # request[c]
  BY DEF AnswersAreTrue
<1>1. CASE holder = NoClient
  BY <1>1 DEF Heard, Committed
<1>2. CASE holder # NoClient
  <2> DEFINE q == request[holder]
  <2>1. InProgress /\ Committed = saved /\ holder \in Clients
    BY <1>2 DEF Inv, CommitsAreWhole, Committed, Typed
  <2>2. WellAsked(q) /\ TablesTyped(saved) /\ New(saved, q) /\ Accepts(saved, q)
        /\ db = Partial(saved, q, WrittenSoFar)
    BY <2>1 DEF InProgress, Inv, Typed
  <2>3. "receipts" \in Tables
    BY DEF Tables, EmptyTables
  <2>4. db.receipts = saved.receipts \/ db.receipts = Written("receipts", saved, q)
    BY <2>2, <2>3 DEF Partial
  <2>5. Written("receipts", saved, q) = saved.receipts \cup {Receipt(saved, q)} /\ Receipt(saved, q).command = q
    BY <2>2, ReceiptNamesCommand DEF Written
  <2>6. answer[c] = "refused" => request[c] # q
    BY <2>1, <2>2, AcceptedIsNotGone DEF Heard
  <2> QED
    BY <2>1, <2>4, <2>5, <2>6 DEF Heard
<1> QED
  BY <1>1, <1>2

\* What a client is told is true for ever: a receipt for a command that took effect, a
\* refusal for one that never did and never will.
THEOREM AnswersCorrect == Spec => []AnswersAreTrue
<1>1. Inv /\ Heard /\ [Next]_vars => Heard'
  BY HeardStep
<1>2. Inv /\ Heard => AnswersAreTrue
  BY HeardIsTrue
<1> QED
  BY <1>1, <1>2, InvHolds, HeardInit, PTL DEF Spec

---------------------------------------------------------------------------
(* The tables agree.  The strengthening: the audit projections of a run lie *)
(* between its end and its head, and artifacts have a run and a sequence.  *)

RunAgrees(d, r) ==
    /\ d.results[r] # 0 <=> RunState(d, r) \in TerminalStates
    /\ d.results[r] # 0 => {d.results[r], HeadOf(d, r)} \subseteq AuditedAt(d, r)
    /\ d.results[r] = 0 => d.audits[r] = {}
    /\ \A a \in d.audits[r] :
         /\ a.at \in Nat /\ d.results[r] <= a.at /\ a.at <= HeadOf(d, r)
         /\ a.covers = (d.results[r] + 1)..a.at
         /\ a.at # d.results[r] => a.previous \in AuditedAt(d, r) /\ a.previous < a.at
    /\ NoRun \in {d.replacements[r], d.continuations[r]}

EdgesAgree(d) ==
    \A x \in Edges(d) : x[2] # NoRun =>
        /\ d.results[x[1]] # 0
        /\ HeadOf(d, x[2]) > 0
        /\ \A y \in Edges(d) : y[2] = x[2] => y = x

ArtifactsAgree(d) ==
    /\ \A x \in d.artifacts : x = <<x[1], x[2], x[3]>> /\ x[1] \in Runs /\ x[2] \in Nat \ {0}
    /\ \A r \in Runs, s \in Nat : <<r, s, "audit">> \in d.artifacts <=> s \in AuditedAt(d, r)
    /\ \A x \in d.artifacts : x[3] # "audit" => x[2] = d.results[x[1]]

Agree(d) ==
    /\ \A r \in Runs : RunAgrees(d, r)
    /\ EdgesAgree(d)
    /\ ArtifactsAgree(d)

\* Where a command leaves its own run.
LEMMA RunAfter ==
    ASSUME NEW d, NEW q, WellAsked(q), TablesTyped(d), Accepts(d, q),
           NEW f, f = Result(d, q), q.kind # "continue"
    PROVE  /\ HeadOf(d, q.run) \in Nat /\ After(d, q) \in Nat
           /\ HeadOf(f, q.run) = After(d, q) /\ HeadOf(d, q.run) < After(d, q)
           /\ RunState(f, q.run) = IF q.kind = "audit" THEN RunState(d, q.run) ELSE q.to
<1> DEFINE s == d.events[q.run]
           b == Batch(d, q)
<1>1. q.run \in Runs /\ q.kind \in Kinds
  BY DEF WellAsked, Commands
<1>2. s \in Seq(LogEvents) /\ b \in Seq(LogEvents) /\ b # <<>>
  <2>1. s \in Seq(LogEvents)
    BY <1>1 DEF TablesTyped
  <2>2. b \in Seq(LogEvents) /\ b # <<>>
    BY BatchTyped
  <2> QED
    BY <2>1, <2>2
<1>3. f.events[q.run] = s \o b
  <2>1. f.events = WrittenEvents(d, q)
    BY ResultParts
  <2>2. WrittenEvents(d, q)[q.run] = s \o b
    BY LogsGrow
  <2> QED
    BY <2>1, <2>2
<1>4. Len(s) \in Nat /\ Len(b) \in Nat \ {0}
  BY <1>2, LenProperties, EmptySeq
<1>5. b[Len(b)].state = IF q.kind = "audit" THEN RunState(d, q.run) ELSE q.to
  <2>1. CASE q.kind \in {"create", "append"}
    BY <2>1 DEF Batch, Event
  <2>2. CASE q.kind \in {"terminal", "replace"}
    BY <2>2 DEF Batch, Event
  <2>3. CASE q.kind = "audit"
    BY <2>3 DEF Batch, Event
  <2> QED
    BY <1>1, <2>1, <2>2, <2>3 DEF Kinds
<1> HIDE DEF s, b
<1>6. /\ Len(s \o b) = Len(s) + Len(b)
      /\ \A i \in 1..(Len(s) + Len(b)) : (s \o b)[i] = IF i <= Len(s) THEN s[i] ELSE b[i - Len(s)]
  BY <1>2, ConcatProperties
<1>7. Len(s \o b) # 0 /\ (s \o b)[Len(s \o b)] = b[Len(b)]
  <2> DEFINE k == Len(s)
             l == Len(b)
  <2>1. /\ k \in Nat /\ l \in Nat \ {0} /\ Len(s \o b) = k + l
        /\ \A i \in 1..(k + l) : (s \o b)[i] = IF i <= k THEN s[i] ELSE b[i - k]
    BY <1>4, <1>6
  <2> HIDE DEF k, l
  <2>2. k + l \in 1..(k + l) /\ ~(k + l <= k) /\ k + l - k = l
    BY <2>1
  <2>3. (s \o b)[k + l] = b[l]
    BY <2>1, <2>2
  <2> QED
    BY <2>1, <2>3 DEF l
<1>8. HeadOf(f, q.run) = Len(s \o b) /\ HeadOf(d, q.run) = Len(s) /\ After(d, q) = Len(s) + Len(b)
  BY <1>3 DEF HeadOf, After, s, b
<1>9. RunState(f, q.run) = (s \o b)[Len(s \o b)].state
  BY <1>3, <1>7, <1>8 DEF RunState, StateAt
<1> QED
  BY <1>4, <1>5, <1>6, <1>7, <1>8, <1>9

\* The newest projection of a run that is over is that of its head.
LEMMA NewestAudit ==
    ASSUME NEW d, NEW q, WellAsked(q), TablesTyped(d), AcceptsAudit(d, q), RunAgrees(d, q.run)
    PROVE  /\ NextAudit(d, q).at = After(d, q)
           /\ NextAudit(d, q).previous = HeadOf(d, q.run)
           /\ NextAudit(d, q).covers =
                ((d.results[q.run] + 1)..HeadOf(d, q.run)) \cup ((HeadOf(d, q.run) + 1)..After(d, q))
<1> DEFINE A == d.audits[q.run]
           h == HeadOf(d, q.run)
           previous == CHOOSE a \in A : \A b \in A : b.at <= a.at
<1>1. d.results[q.run] # 0
  BY DEF AcceptsAudit
<1>2. PICK a \in A : a.at = h
  BY <1>1 DEF RunAgrees, AuditedAt
<1>3. \A b \in A : b.at \in Nat /\ b.at <= h /\ b.covers = (d.results[q.run] + 1)..b.at
  BY DEF RunAgrees
<1>4. NextAudit(d, q) = [at |-> After(d, q), previous |-> previous.at,
                         covers |-> previous.covers \cup (h + 1)..After(d, q)]
  BY DEF NextAudit
<1> HIDE DEF A, h
<1>5. previous \in A /\ \A b \in A : b.at <= previous.at
  BY <1>2, <1>3
<1>6. previous.at = h
  BY <1>2, <1>3, <1>5
<1>7. previous.covers = (d.results[q.run] + 1)..h
  BY <1>3, <1>5, <1>6
<1> HIDE DEF previous
<1> QED
  BY <1>4, <1>6, <1>7 DEF h

\* The records of a run that a command does not touch are as they were.
LEMMA Untouched ==
    ASSUME NEW d, NEW f, NEW r, RunAgrees(d, r),
           f.events[r] = d.events[r], f.results[r] = d.results[r], f.audits[r] = d.audits[r],
           f.replacements[r] = d.replacements[r], f.continuations[r] = d.continuations[r]
    PROVE  RunAgrees(f, r)
  BY DEF RunAgrees, RunState, StateAt, HeadOf, AuditedAt

\* A run that ends: terminal commands and replacements.
LEMMA RunEnds ==
    ASSUME NEW d, NEW q, WellAsked(q), TablesTyped(d), Accepts(d, q), q.kind \in {"terminal", "replace"},
           RunAgrees(d, q.run), NEW f, f = Result(d, q)
    PROVE  /\ d.results[q.run] = 0
           /\ RunAgrees(f, q.run)
<1> DEFINE r == q.run
           n == After(d, q)
<1>1. r \in Runs
  BY DEF WellAsked, Commands
<1>2. /\ HeadOf(d, r) \in Nat /\ n \in Nat /\ HeadOf(f, r) = n /\ HeadOf(d, r) < n
      /\ RunState(f, r) = q.to
  BY RunAfter
<1>3. q.to \in TerminalStates
  BY DEF WellAsked, Targets, TerminalStates
<1>4. RunState(d, r) \notin TerminalStates
  BY DEF Accepts, AcceptsTerminal, AcceptsReplacement, ReplacementPrerequisite, TerminalStates
<1>5. d.results[r] = 0 /\ d.audits[r] = {}
  BY <1>4 DEF RunAgrees
<1>6. /\ f.results = [d.results EXCEPT ![r] = n]
      /\ f.audits = [d.audits EXCEPT ![r] = @ \cup {RootAudit(d, q)}]
      /\ f.replacements = IF q.kind = "replace" THEN [d.replacements EXCEPT ![r] = q.child] ELSE d.replacements
      /\ f.continuations = d.continuations
  BY ResultParts
<1>7. f.results[r] = n /\ f.audits[r] = {RootAudit(d, q)}
  BY <1>1, <1>5, <1>6 DEF TablesTyped
<1>8. RootAudit(d, q).at = n /\ RootAudit(d, q).covers = {}
  BY DEF RootAudit
<1>9. NoRun \in {f.replacements[r], f.continuations[r]}
  <2>1. CASE q.kind = "terminal"
    BY <1>6, <2>1 DEF RunAgrees
  <2>2. CASE q.kind = "replace"
    <3>1. CrossRunAbsent(d, q)
      BY <2>2 DEF Accepts, AcceptsReplacement
    <3>2. <<r, d.continuations[r]>> \in Edges(d)
      BY <1>1 DEF Edges
    <3>3. d.continuations[r] = NoRun
      BY <3>1, <3>2 DEF CrossRunAbsent
    <3> QED
      BY <1>6, <3>3
  <2> QED
    BY <2>1, <2>2
<1> HIDE DEF r, n
<1>10. n # 0 /\ (n + 1)..n = {}
  BY <1>2
<1>11. AuditedAt(f, r) = {n}
  BY <1>7, <1>8 DEF AuditedAt
<1>12. \A a \in f.audits[r] : a.at = n /\ a.covers = (n + 1)..a.at
  BY <1>7, <1>8, <1>10
<1>13. RunAgrees(f, r)
  <2>1. f.results[r] = n /\ n # 0 /\ n \in Nat /\ HeadOf(f, r) = n
    BY <1>2, <1>7, <1>10
  <2>2. \A a \in f.audits[r] :
           /\ a.at \in Nat /\ n <= a.at /\ a.at <= n
           /\ a.covers = (n + 1)..a.at /\ a.at = n
    BY <1>12, <2>1
  <2> QED
    BY <1>2, <1>3, <1>9, <1>11, <2>1, <2>2 DEF RunAgrees
<1> QED
  BY <1>5, <1>13 DEF r

\* An audit projection that is added to a run that is over.
LEMMA RunAudited ==
    ASSUME NEW d, NEW q, WellAsked(q), TablesTyped(d), Accepts(d, q), q.kind = "audit",
           RunAgrees(d, q.run), NEW f, f = Result(d, q)
    PROVE  RunAgrees(f, q.run)
<1> DEFINE r == q.run
           n == After(d, q)
           h == HeadOf(d, q.run)
           t == d.results[q.run]
           A == d.audits[q.run]
           a == NextAudit(d, q)
<1>1. r \in Runs
  BY DEF WellAsked, Commands
<1>2. h \in Nat /\ n \in Nat /\ HeadOf(f, r) = n /\ h < n /\ RunState(f, r) = RunState(d, r)
  BY RunAfter
<1>3. AcceptsAudit(d, q)
  BY DEF Accepts
<1>4. a.at = n /\ a.previous = h /\ a.covers = ((t + 1)..h) \cup ((h + 1)..n)
  BY <1>3, NewestAudit
<1>5. f.results[r] = t /\ f.audits[r] = A \cup {a}
      /\ f.replacements = d.replacements /\ f.continuations = d.continuations
  <2>1. /\ f.results = d.results
        /\ f.audits = [d.audits EXCEPT ![r] = @ \cup {a}]
        /\ f.replacements = d.replacements /\ f.continuations = d.continuations
    BY ResultParts
  <2> QED
    BY <1>1, <2>1 DEF TablesTyped
<1>6. /\ t # 0 /\ t \in Nat /\ RunState(d, r) \in TerminalStates
  BY <1>1, <1>3 DEF AcceptsAudit, TablesTyped
<1>7. /\ t \in AuditedAt(d, r) /\ h \in AuditedAt(d, r)
      /\ \A b \in A : /\ b.at \in Nat /\ t <= b.at /\ b.at <= h
                      /\ b.covers = (t + 1)..b.at
                      /\ b.at # t => b.previous \in AuditedAt(d, r) /\ b.previous < b.at
      /\ NoRun \in {d.replacements[r], d.continuations[r]}
  BY <1>6 DEF RunAgrees
<1>8. AuditedAt(d, r) = {b.at : b \in A} /\ AuditedAt(f, r) = {b.at : b \in A \cup {a}}
  BY <1>5 DEF AuditedAt
<1> HIDE DEF r, n, h, t, A, a
<1>9. t <= h
  BY <1>7, <1>8
<1>10. a.covers = (t + 1)..n
  BY <1>2, <1>4, <1>6, <1>9
<1>11. AuditedAt(d, r) \subseteq AuditedAt(f, r) /\ n \in AuditedAt(f, r)
  BY <1>4, <1>8
<1>12. \A b \in A \cup {a} : /\ b.at \in Nat /\ t <= b.at /\ b.at <= n
                             /\ b.covers = (t + 1)..b.at
                             /\ b.at # t => b.previous \in AuditedAt(f, r) /\ b.previous < b.at
  <2>1. ASSUME NEW b \in A
        PROVE  /\ b.at \in Nat /\ t <= b.at /\ b.at <= n
               /\ b.covers = (t + 1)..b.at
               /\ b.at # t => b.previous \in AuditedAt(f, r) /\ b.previous < b.at
    BY <1>2, <1>7, <1>11
  <2>2. /\ a.at \in Nat /\ t <= a.at /\ a.at <= n
        /\ a.covers = (t + 1)..a.at
        /\ a.at # t => a.previous \in AuditedAt(f, r) /\ a.previous < a.at
    BY <1>2, <1>4, <1>6, <1>7, <1>9, <1>10, <1>11
  <2> QED
    BY <2>1, <2>2
<1>13. RunAgrees(f, r)
  BY <1>2, <1>5, <1>6, <1>7, <1>11, <1>12 DEF RunAgrees
<1> QED
  BY <1>13 DEF r

\* Every run's records agree after a command.
LEMMA RunsAgreeAfter ==
    ASSUME NEW d, NEW q, WellAsked(q), TablesTyped(d), Accepts(d, q),
           \A r \in Runs : RunAgrees(d, r), NEW f, f = Result(d, q), NEW r \in Runs
    PROVE  RunAgrees(f, r)
<1>1. q.run \in Runs /\ q.kind \in Kinds
  BY DEF WellAsked, Commands
<1>2. /\ d.results \in [Runs -> Nat] /\ DOMAIN d.audits = Runs
      /\ d.replacements \in [Runs -> Runs \cup {NoRun}]
      /\ d.continuations \in [Runs -> Runs \cup {NoRun}]
  BY DEF TablesTyped
<1>3. /\ f.results = IF q.kind \in {"terminal", "replace"}
                     THEN [d.results EXCEPT ![q.run] = After(d, q)] ELSE d.results
      /\ f.audits = IF q.kind \in {"audit", "terminal", "replace"}
                    THEN [d.audits EXCEPT ![q.run] = @ \cup {IF q.kind = "audit" THEN NextAudit(d, q)
                                                             ELSE RootAudit(d, q)}]
                    ELSE d.audits
      /\ f.replacements = IF q.kind = "replace" THEN [d.replacements EXCEPT ![q.run] = q.child]
                          ELSE d.replacements
      /\ f.continuations = IF q.kind = "continue" THEN [d.continuations EXCEPT ![q.run] = q.child]
                           ELSE d.continuations
      /\ f.events = WrittenEvents(d, q)
  BY ResultParts
<1>4. r # q.run => /\ f.results[r] = d.results[r] /\ f.audits[r] = d.audits[r]
                   /\ f.replacements[r] = d.replacements[r] /\ f.continuations[r] = d.continuations[r]
  BY <1>2, <1>3
<1>5. CASE r # q.run /\ ~(ForksChild(q.kind) /\ r = q.child)
  <2>1. WrittenEvents(d, q)[r] = d.events[r]
    BY <1>5, LogsGrow
  <2> QED
    BY <1>3, <1>4, <1>5, <2>1, Untouched
<1>6. CASE ForksChild(q.kind) /\ r = q.child
  <2>1. /\ r # q.run /\ d.events[r] = <<>>
        /\ Len(WrittenEvents(d, q)[r]) = 1 /\ WrittenEvents(d, q)[r][1] = Event(q, "running")
    BY <1>6, LogsGrow
  <2>2. HeadOf(d, r) = 0 /\ RunState(d, r) = "absent"
    BY <2>1, EmptySeq DEF HeadOf, RunState, StateAt
  <2>3. RunState(f, r) = "running"
    BY <1>3, <2>1 DEF RunState, StateAt, HeadOf, Event
  <2>4. d.results[r] = 0 /\ d.audits[r] = {} /\ NoRun \in {d.replacements[r], d.continuations[r]}
    BY <2>2 DEF RunAgrees, TerminalStates
  <2>5. f.results[r] = 0 /\ f.audits[r] = {} /\ NoRun \in {f.replacements[r], f.continuations[r]}
    BY <1>4, <2>1, <2>4
  <2> QED
    BY <2>3, <2>5 DEF RunAgrees, TerminalStates
<1>7. CASE r = q.run /\ q.kind \in {"create", "append"}
  <2>1. RunState(d, r) \notin TerminalStates
    BY <1>7 DEF Accepts, AcceptsBatch, TerminalStates
  <2>2. d.results[r] = 0 /\ d.audits[r] = {} /\ NoRun \in {d.replacements[r], d.continuations[r]}
    BY <2>1 DEF RunAgrees
  <2>3. RunState(f, r) = q.to
    BY <1>7, RunAfter
  <2>4. q.to \notin TerminalStates
    BY <1>7 DEF WellAsked, Targets, TerminalStates
  <2>5. f.results[r] = 0 /\ f.audits[r] = {} /\ NoRun \in {f.replacements[r], f.continuations[r]}
    BY <1>3, <1>7, <2>2
  <2> QED
    BY <2>3, <2>4, <2>5 DEF RunAgrees
<1>8. CASE r = q.run /\ q.kind \in {"terminal", "replace"}
  BY <1>8, RunEnds
<1>9. CASE r = q.run /\ q.kind = "audit"
  BY <1>9, RunAudited
<1>10. CASE r = q.run /\ q.kind = "continue"
  <2>1. f.events[r] = d.events[r]
    <3>1. WrittenEvents(d, q)[q.run] = d.events[q.run] \o Batch(d, q)
      BY LogsGrow
    <3>2. Batch(d, q) = <<>>
      BY <1>10, BatchTyped
    <3>3. d.events[q.run] \in Seq(LogEvents)
      BY <1>1 DEF TablesTyped
    <3> QED
      BY <1>3, <1>10, <3>1, <3>2, <3>3, ConcatEmptySeq
  <2>2. f.results = d.results /\ f.audits = d.audits /\ f.replacements = d.replacements
    BY <1>3, <1>10
  <2>3. d.replacements[r] = NoRun
    <3>1. CrossRunAbsent(d, q)
      BY <1>10 DEF Accepts, AcceptsContinuation
    <3>2. <<r, d.replacements[r]>> \in Edges(d)
      BY DEF Edges
    <3> QED
      BY <1>10, <3>1, <3>2 DEF CrossRunAbsent
  <2> QED
    BY <2>1, <2>2, <2>3 DEF RunAgrees, RunState, StateAt, HeadOf, AuditedAt
<1> QED
  BY <1>1, <1>5, <1>6, <1>7, <1>8, <1>9, <1>10 DEF Kinds

\* A parent is over, its child has begun, and no other parent has it.
LEMMA EdgesAgreeAfter ==
    ASSUME NEW d, NEW q, WellAsked(q), TablesTyped(d), Accepts(d, q), Agree(d),
           NEW f, f = Result(d, q)
    PROVE  EdgesAgree(f)
<1>1. q.run \in Runs /\ q.kind \in Kinds
  BY DEF WellAsked, Commands
<1>2. /\ d.results \in [Runs -> Nat]
      /\ d.replacements \in [Runs -> Runs \cup {NoRun}]
      /\ d.continuations \in [Runs -> Runs \cup {NoRun}]
  BY DEF TablesTyped
<1>3. /\ f.results = IF q.kind \in {"terminal", "replace"}
                     THEN [d.results EXCEPT ![q.run] = After(d, q)] ELSE d.results
      /\ f.replacements = IF q.kind = "replace" THEN [d.replacements EXCEPT ![q.run] = q.child]
                          ELSE d.replacements
      /\ f.continuations = IF q.kind = "continue" THEN [d.continuations EXCEPT ![q.run] = q.child]
                           ELSE d.continuations
      /\ f.events = WrittenEvents(d, q)
  BY ResultParts
<1>4. ASSUME NEW x \in Edges(f), x[2] # NoRun
      PROVE  x \in Edges(d) \/ (ForksChild(q.kind) /\ x = <<q.run, q.child>>)
  <2>1. PICK p \in Runs : x = <<p, f.replacements[p]>> \/ x = <<p, f.continuations[p]>>
    BY <1>4 DEF Edges
  <2>2. CASE p # q.run
    <3>1. f.replacements[p] = d.replacements[p] /\ f.continuations[p] = d.continuations[p]
      BY <1>2, <1>3, <2>2
    <3> QED
      BY <2>1, <3>1 DEF Edges
  <2>3. CASE p = q.run
    <3>1. f.replacements[p] = d.replacements[p] \/ (q.kind = "replace" /\ f.replacements[p] = q.child)
      BY <1>2, <1>3, <2>3
    <3>2. f.continuations[p] = d.continuations[p] \/ (q.kind = "continue" /\ f.continuations[p] = q.child)
      BY <1>2, <1>3, <2>3
    <3> QED
      BY <2>1, <2>3, <3>1, <3>2 DEF Edges, ForksChild
  <2> QED
    BY <2>2, <2>3
<1>5. \A p \in Runs : d.results[p] # 0 => f.results[p] # 0
  <2>1. q.kind \in {"terminal", "replace"} => After(d, q) # 0
    BY RunAfter
  <2> QED
    BY <1>2, <1>3, <2>1
<1>6. ForksChild(q.kind) => /\ f.results[q.run] # 0
                            /\ q.child \in Runs /\ HeadOf(f, q.child) > 0
                            /\ \A y \in Edges(d) : y[2] # NoRun => y[2] # q.child
  <2>1. SUFFICES ASSUME ForksChild(q.kind)
                 PROVE  /\ f.results[q.run] # 0
                        /\ q.child \in Runs /\ HeadOf(f, q.child) > 0
                        /\ \A y \in Edges(d) : y[2] # NoRun => y[2] # q.child
    OBVIOUS
  <2>2. q.child \in Runs /\ Len(WrittenEvents(d, q)[q.child]) = 1
    BY <2>1, LogsGrow
  <2>3. f.results[q.run] # 0
    <3>1. CASE q.kind = "replace"
      BY <1>1, <1>2, <1>3, <3>1, RunAfter
    <3>2. CASE q.kind = "continue"
      <4>1. RunState(d, q.run) \in TerminalStates
        BY <3>2 DEF Accepts, AcceptsContinuation, TerminalStates
      <4> QED
        BY <1>1, <1>5, <4>1 DEF Agree, RunAgrees
    <3> QED
      BY <2>1, <3>1, <3>2 DEF ForksChild
  <2>4. \A y \in Edges(d) : y[2] # NoRun => y[2] # q.child
    BY <2>1 DEF Accepts, AcceptsReplacement, AcceptsContinuation, CrossRunAbsent, ForksChild
  <2> QED
    BY <1>3, <2>2, <2>3, <2>4 DEF HeadOf
<1>7. ASSUME NEW x \in Edges(d), x[2] # NoRun
      PROVE  f.results[x[1]] # 0 /\ HeadOf(f, x[2]) > 0
  <2>1. x[1] \in Runs /\ x[2] \in Runs
    <3>1. PICK p \in Runs : x = <<p, d.replacements[p]>> \/ x = <<p, d.continuations[p]>>
      BY <1>7 DEF Edges
    <3> QED
      BY <1>2, <1>7, <3>1
  <2>2. d.results[x[1]] # 0 /\ HeadOf(d, x[2]) > 0
    BY <1>7 DEF Agree, EdgesAgree
  <2>3. HeadOf(d, x[2]) \in Nat /\ HeadOf(f, x[2]) \in Nat /\ HeadOf(d, x[2]) <= HeadOf(f, x[2])
    BY <2>1, HeadsGrow
  <2> QED
    BY <1>5, <2>1, <2>2, <2>3
<1>8. ASSUME NEW x \in Edges(f), x[2] # NoRun
      PROVE  f.results[x[1]] # 0 /\ HeadOf(f, x[2]) > 0
  <2>1. CASE x \in Edges(d)
    BY <1>7, <1>8, <2>1
  <2>2. CASE ForksChild(q.kind) /\ x = <<q.run, q.child>>
    BY <1>6, <2>2
  <2> QED
    BY <1>4, <1>8, <2>1, <2>2
<1>9. ASSUME NEW x \in Edges(f), x[2] # NoRun, NEW y \in Edges(f), y[2] = x[2]
      PROVE  y = x
  <2>1. /\ x \in Edges(d) \/ (ForksChild(q.kind) /\ x = <<q.run, q.child>>)
        /\ y \in Edges(d) \/ (ForksChild(q.kind) /\ y = <<q.run, q.child>>)
    BY <1>4, <1>9
  <2>2. CASE x \in Edges(d) /\ y \in Edges(d)
    BY <1>9, <2>2 DEF Agree, EdgesAgree
  <2>3. CASE x \in Edges(d) /\ ForksChild(q.kind) /\ y = <<q.run, q.child>>
    BY <1>6, <1>9, <2>3
  <2>4. CASE y \in Edges(d) /\ ForksChild(q.kind) /\ x = <<q.run, q.child>>
    BY <1>6, <1>9, <2>4
  <2>5. CASE x = <<q.run, q.child>> /\ y = <<q.run, q.child>>
    BY <2>5
  <2> QED
    BY <2>1, <2>2, <2>3, <2>4, <2>5
<1> QED
  BY <1>8, <1>9 DEF EdgesAgree

\* What is stored belongs to a run that has it on its records.
LEMMA ArtifactsAgreeAfter ==
    ASSUME NEW d, NEW q, WellAsked(q), TablesTyped(d), Accepts(d, q), Agree(d),
           NEW f, f = Result(d, q)
    PROVE  ArtifactsAgree(f)
<1> DEFINE n == After(d, q)
           N == NewArtifacts(d, q)
<1>1. q.run \in Runs /\ q.kind \in Kinds
  BY DEF WellAsked, Commands
<1>2. /\ f.results = IF q.kind \in {"terminal", "replace"}
                     THEN [d.results EXCEPT ![q.run] = n] ELSE d.results
      /\ f.audits = IF q.kind \in {"audit", "terminal", "replace"}
                    THEN [d.audits EXCEPT ![q.run] = @ \cup {IF q.kind = "audit" THEN NextAudit(d, q)
                                                             ELSE RootAudit(d, q)}]
                    ELSE d.audits
      /\ f.artifacts = IF q.kind \in {"audit", "terminal", "replace"} THEN d.artifacts \cup N ELSE d.artifacts
  BY ResultParts
<1>3. d.results \in [Runs -> Nat] /\ DOMAIN d.audits = Runs
  BY DEF TablesTyped
<1>4. /\ \A x \in d.artifacts : x = <<x[1], x[2], x[3]>> /\ x[1] \in Runs /\ x[2] \in Nat \ {0}
      /\ \A r \in Runs, s \in Nat : <<r, s, "audit">> \in d.artifacts <=> s \in AuditedAt(d, r)
      /\ \A x \in d.artifacts : x[3] # "audit" => x[2] = d.results[x[1]]
  BY DEF Agree, ArtifactsAgree
<1>5. CASE q.kind \in {"create", "append", "continue"}
  <2>1. f.results = d.results /\ f.audits = d.audits /\ f.artifacts = d.artifacts
    BY <1>2, <1>5
  <2> QED
    BY <1>4, <2>1 DEF ArtifactsAgree, AuditedAt
<1>6. CASE q.kind \in {"audit", "terminal", "replace"}
  <2>1. n \in Nat \ {0}
    BY <1>6, RunAfter
  <2>2. PICK a : f.audits = [d.audits EXCEPT ![q.run] = @ \cup {a}] /\ a.at = n
    <3>1. NextAudit(d, q).at = n /\ RootAudit(d, q).at = n
      BY DEF NextAudit, RootAudit
    <3> QED
      BY <1>2, <1>6, <3>1
  <2>3. \A x \in N : x = <<q.run, n, x[3]>> /\ x[1] = q.run /\ x[2] = n
    BY <1>6 DEF NewArtifacts, TerminalArtifacts, ReplacementArtifacts
  <2>4. <<q.run, n, "audit">> \in N
    <3>1. CASE q.kind = "terminal"
      BY <3>1 DEF NewArtifacts, TerminalArtifacts
    <3>2. CASE q.kind = "replace"
      BY <3>2 DEF NewArtifacts, TerminalArtifacts, ReplacementArtifacts
    <3>3. CASE q.kind = "audit"
      BY <3>3 DEF NewArtifacts
    <3> QED
      BY <1>6, <3>1, <3>2, <3>3
  <2>5. q.kind = "audit" => \A x \in N : x[3] = "audit"
    BY DEF NewArtifacts
  <2>6. q.kind \in {"terminal", "replace"} => d.results[q.run] = 0
    BY <1>1, RunEnds DEF Agree
  <2>7. f.artifacts = d.artifacts \cup N
    BY <1>2, <1>6
  <2> HIDE DEF n, N
  <2>8. \A x \in f.artifacts : x = <<x[1], x[2], x[3]>> /\ x[1] \in Runs /\ x[2] \in Nat \ {0}
    BY <1>1, <1>4, <2>1, <2>3, <2>7
  <2>9. ASSUME NEW r \in Runs, NEW s \in Nat
        PROVE  <<r, s, "audit">> \in f.artifacts <=> s \in AuditedAt(f, r)
    <3>1. <<r, s, "audit">> \in N <=> r = q.run /\ s = n
      BY <2>3, <2>4
    <3>2. s \in AuditedAt(f, r) <=> s \in AuditedAt(d, r) \/ (r = q.run /\ s = n)
      <4>1. CASE r = q.run
        <5>1. f.audits[r] = d.audits[r] \cup {a}
          BY <1>1, <1>3, <2>2, <4>1
        <5> QED
          BY <2>2, <4>1, <5>1 DEF AuditedAt
      <4>2. CASE r # q.run
        <5>1. f.audits[r] = d.audits[r]
          BY <1>3, <2>2, <4>2
        <5> QED
          BY <4>2, <5>1 DEF AuditedAt
      <4> QED
        BY <4>1, <4>2
    <3> QED
      BY <1>4, <2>7, <3>1, <3>2
  <2>10. ASSUME NEW x \in f.artifacts, x[3] # "audit"
         PROVE  x[2] = f.results[x[1]]
    <3>1. CASE x \in d.artifacts
      <4>1. x[1] \in Runs /\ x[2] = d.results[x[1]] /\ x[2] # 0
        BY <1>4, <2>10, <3>1
      <4>2. f.results[x[1]] = d.results[x[1]]
        BY <1>2, <1>3, <2>6, <4>1
      <4> QED
        BY <4>1, <4>2
    <3>2. CASE x \in N
      <4>1. q.kind \in {"terminal", "replace"} /\ x[1] = q.run /\ x[2] = n
        BY <1>6, <2>3, <2>5, <2>10, <3>2
      <4> QED
        BY <1>1, <1>2, <1>3, <4>1
    <3> QED
      BY <2>7, <3>1, <3>2
  <2> QED
    BY <2>8, <2>9, <2>10 DEF ArtifactsAgree
<1> QED
  BY <1>1, <1>5, <1>6 DEF Kinds

LEMMA AgreeInit == Init => Agree(Committed)
<1> SUFFICES ASSUME Init PROVE Agree(EmptyTables)
  BY DEF Init, Committed
<1>1. \A r \in Runs : RunAgrees(EmptyTables, r)
  BY DEF RunAgrees, EmptyTables, RunState, StateAt, HeadOf, AuditedAt, TerminalStates
<1>2. EdgesAgree(EmptyTables)
  BY DEF EdgesAgree, Edges, EmptyTables
<1>3. ArtifactsAgree(EmptyTables)
  BY DEF ArtifactsAgree, EmptyTables, AuditedAt
<1> QED
  BY <1>1, <1>2, <1>3 DEF Agree

LEMMA AgreeStep ==
    ASSUME Inv, Agree(Committed), [Next]_vars
    PROVE  Agree(Committed)'
<1> DEFINE d == Committed
           f == Committed'
<1>1. CASE f = d
  BY <1>1
<1>2. CASE \E c \in Clients :
             /\ WellAsked(request[c]) /\ TablesTyped(d) /\ Accepts(d, request[c])
             /\ f = Result(d, request[c])
  <2>1. PICK c \in Clients :
             /\ WellAsked(request[c]) /\ TablesTyped(d) /\ Accepts(d, request[c])
             /\ f = Result(d, request[c])
    BY <1>2
  <2> DEFINE q == request[c]
  <2>2. /\ WellAsked(q) /\ TablesTyped(d) /\ Accepts(d, q) /\ f = Result(d, q) /\ Agree(d)
    BY <2>1
  <2> HIDE DEF d, f, q
  <2>3. \A r \in Runs : RunAgrees(f, r)
    BY <2>2, RunsAgreeAfter DEF Agree
  <2>4. EdgesAgree(f) /\ ArtifactsAgree(f)
    BY <2>2, EdgesAgreeAfter, ArtifactsAgreeAfter
  <2>5. Agree(f)
    BY <2>3, <2>4 DEF Agree
  <2> QED
    BY <2>5 DEF f
<1> QED
  BY <1>1, <1>2, CommittedStep

LEMMA AgreeIsAgreement == Inv /\ Agree(Committed) => TablesAgree
<1> SUFFICES ASSUME Inv, Agree(db), holder = NoClient PROVE TablesAgree
  BY DEF TablesAgree, Committed
<1>1. \A r \in Runs :
           /\ db.results[r] # 0 <=> RunState(db, r) \in TerminalStates
           /\ db.results[r] # 0 => {db.results[r], HeadOf(db, r)} \subseteq AuditedAt(db, r)
           /\ \A a \in db.audits[r] :
                /\ a.covers = (db.results[r] + 1)..a.at
                /\ a.at # db.results[r] => a.previous \in AuditedAt(db, r) /\ a.previous < a.at
           /\ NoRun \in {db.replacements[r], db.continuations[r]}
  BY DEF Agree, RunAgrees
<1>2. \A e \in Edges(db) : e[2] # NoRun => /\ db.results[e[1]] # 0
                                             /\ HeadOf(db, e[2]) > 0
                                             /\ \A f \in Edges(db) : f[2] = e[2] => f = e
  BY DEF Agree, EdgesAgree
<1>3. /\ \A x \in db.artifacts : x = <<x[1], x[2], x[3]>> /\ x[1] \in Runs /\ x[2] \in Nat \ {0}
      /\ \A r \in Runs, s \in Nat : <<r, s, "audit">> \in db.artifacts <=> s \in AuditedAt(db, r)
      /\ \A x \in db.artifacts : x[3] # "audit" => x[2] = db.results[x[1]]
  BY DEF Agree, ArtifactsAgree
<1>4. \A r \in Runs : AuditedAt(db, r) \subseteq Nat
  BY DEF Agree, RunAgrees, AuditedAt
<1> DEFINE L == {<<x[1], x[2]>> : x \in {y \in db.artifacts : y[3] = "audit"}}
           R == UNION {{<<r, s>> : s \in AuditedAt(db, r)} : r \in Runs}
<1>5. ASSUME NEW p \in L PROVE p \in R
  <2>1. PICK x \in db.artifacts : x[3] = "audit" /\ p = <<x[1], x[2]>>
    BY <1>5
  <2>2. x[1] \in Runs /\ x[2] \in AuditedAt(db, x[1])
    BY <1>3, <2>1
  <2> QED
    BY <2>1, <2>2
<1>6. ASSUME NEW p \in R PROVE p \in L
  <2>1. PICK r \in Runs : \E s \in AuditedAt(db, r) : p = <<r, s>>
    BY <1>6
  <2>2. PICK s \in AuditedAt(db, r) : p = <<r, s>>
    BY <2>1
  <2>3. <<r, s, "audit">> \in db.artifacts
    BY <1>3, <1>4
  <2>4. <<r, s, "audit">>[3] = "audit" /\ p = <<<<r, s, "audit">>[1], <<r, s, "audit">>[2]>>
    BY <2>2
  <2> QED
    BY <2>3, <2>4
<1>7. L = R
  BY <1>5, <1>6
<1> QED
  BY <1>1, <1>2, <1>3, <1>7 DEF TablesAgree

\* Whenever no commit is in progress the tables agree with one another, though each
\* command writes up to six of them one by one and may fail after any.
THEOREM TablesCorrect == Spec => []TablesAgree
<1>1. Inv /\ Agree(Committed) /\ [Next]_vars => Agree(Committed)'
  BY AgreeStep
<1>2. Inv /\ Agree(Committed) => TablesAgree
  BY AgreeIsAgreement
<1> QED
  BY <1>1, <1>2, InvHolds, AgreeInit, PTL DEF Spec

---------------------------------------------------------------------------
(* A receipt stays true: what it speaks of lies before the head, and what   *)
(* is added later lies behind it.                                          *)

ResultsAreStored(d) == \A r \in Runs : d.results[r] # 0 => <<r, d.results[r], "result">> \in d.artifacts

Stable(d) ==
    /\ Agree(d)
    /\ ResultsAreStored(d)
    /\ \A r \in d.receipts : WellAsked(r.command) /\ r.after \in Nat /\ ReceiptHolds(d, r)

\* What a command changes of the results.
LEMMA ResultsAfter ==
    ASSUME NEW d, NEW q, WellAsked(q), TablesTyped(d), Accepts(d, q), Agree(d),
           NEW f, f = Result(d, q), NEW r \in Runs
    PROVE  /\ d.results[r] \in Nat /\ f.results[r] \in Nat
           /\ \/ f.results[r] = d.results[r]
              \/ /\ r = q.run /\ d.results[r] = 0 /\ f.results[r] = After(d, q)
                 /\ HeadOf(d, r) \in Nat /\ HeadOf(d, r) < f.results[r]
                 /\ q.kind \in {"terminal", "replace"}
<1>1. f.results = IF q.kind \in {"terminal", "replace"}
                  THEN [d.results EXCEPT ![q.run] = After(d, q)] ELSE d.results
  BY ResultParts
<1>2. d.results \in [Runs -> Nat] /\ q.run \in Runs
  BY DEF TablesTyped, WellAsked, Commands
<1>3. CASE r = q.run /\ q.kind \in {"terminal", "replace"}
  <2>1. d.results[r] = 0
    BY <1>2, <1>3, RunEnds DEF Agree
  <2>2. HeadOf(d, r) \in Nat /\ After(d, q) \in Nat /\ HeadOf(d, r) < After(d, q)
    BY <1>3, RunAfter
  <2>3. f.results[r] = After(d, q)
    BY <1>1, <1>2, <1>3
  <2> QED
    BY <1>3, <2>1, <2>2, <2>3
<1>4. CASE ~(r = q.run /\ q.kind \in {"terminal", "replace"})
  BY <1>1, <1>2, <1>4
<1> QED
  BY <1>3, <1>4

\* The state and the audit projection at a head that was reached do not change.
LEMMA ViewStays ==
    ASSUME NEW d, NEW q, WellAsked(q), TablesTyped(d), Accepts(d, q), Agree(d),
           NEW f, f = Result(d, q), NEW r \in Runs, NEW h \in Nat, h <= HeadOf(d, r)
    PROVE  /\ StateAt(f, r, h) = StateAt(d, r, h)
           /\ AuditAt(f, r, h) = AuditAt(d, r, h)
           /\ View(f, r, h) = View(d, r, h)
<1>1. f.events = WrittenEvents(d, q)
  BY ResultParts
<1>2. \A n \in 1..Len(d.events[r]) : WrittenEvents(d, q)[r][n] = d.events[r][n]
  BY LogsGrow
<1>3. HeadOf(d, r) \in Nat
  BY HeadsGrow
<1>4. StateAt(f, r, h) = StateAt(d, r, h)
  <2>1. h # 0 => h \in 1..Len(d.events[r])
    BY <1>3 DEF HeadOf
  <2> QED
    BY <1>1, <1>2, <2>1 DEF StateAt
<1>5. AuditAt(f, r, h) = AuditAt(d, r, h)
  <2>1. /\ d.results[r] \in Nat /\ f.results[r] \in Nat
        /\ f.results[r] = d.results[r] \/ (d.results[r] = 0 /\ HeadOf(d, r) < f.results[r])
    BY ResultsAfter
  <2>2. CASE f.results[r] # d.results[r]
    BY <1>3, <2>1, <2>2 DEF AuditAt
  <2>3. CASE f.results[r] = d.results[r]
    <3>1. {s \in AuditedAt(f, r) : s <= h} = {s \in AuditedAt(d, r) : s <= h}
      <4>1. /\ f.audits = IF q.kind \in {"audit", "terminal", "replace"}
                          THEN [d.audits EXCEPT ![q.run] = @ \cup {IF q.kind = "audit" THEN NextAudit(d, q)
                                                                   ELSE RootAudit(d, q)}]
                          ELSE d.audits
            /\ DOMAIN d.audits = Runs
        BY ResultParts DEF TablesTyped
      <4>2. CASE r = q.run /\ q.kind \in {"audit", "terminal", "replace"}
        <5>1. PICK a : f.audits[r] = d.audits[r] \cup {a} /\ a.at = After(d, q)
          <6>1. NextAudit(d, q).at = After(d, q) /\ RootAudit(d, q).at = After(d, q)
            BY DEF NextAudit, RootAudit
          <6> QED
            BY <4>1, <4>2, <6>1
        <5>2. After(d, q) \in Nat /\ HeadOf(d, r) < After(d, q)
          BY <4>2, RunAfter
        <5>3. ~(After(d, q) <= h)
          BY <1>3, <5>2
        <5> QED
          BY <5>1, <5>3 DEF AuditedAt
      <4>3. CASE ~(r = q.run /\ q.kind \in {"audit", "terminal", "replace"})
        <5>1. f.audits[r] = d.audits[r]
          BY <4>1, <4>3
        <5> QED
          BY <5>1 DEF AuditedAt
      <4> QED
        BY <4>2, <4>3
    <3> QED
      BY <2>3, <3>1 DEF AuditAt
  <2> QED
    BY <2>2, <2>3
<1> QED
  BY <1>4, <1>5 DEF View

\* At the head of a run that is over, the projection is the one of the head.
LEMMA AuditAtHead ==
    ASSUME NEW d, NEW r \in Runs, RunAgrees(d, r), HeadOf(d, r) \in Nat, d.results[r] \in Nat
    PROVE  AuditAt(d, r, HeadOf(d, r)) = IF d.results[r] = 0 THEN 0 ELSE HeadOf(d, r)
<1> DEFINE h == HeadOf(d, r)
           S == {s \in AuditedAt(d, r) : s <= h} \cup {0}
<1>1. CASE d.results[r] = 0
  BY <1>1 DEF AuditAt
<1>2. CASE d.results[r] # 0
  <2>1. h \in AuditedAt(d, r) /\ d.results[r] \in AuditedAt(d, r)
    BY <1>2 DEF RunAgrees
  <2>2. \A s \in AuditedAt(d, r) : s \in Nat /\ s <= h
    BY DEF RunAgrees, AuditedAt
  <2>3. ~(h < d.results[r])
    BY <2>1, <2>2
  <2>4. h \in S /\ \A s \in S : s \in Nat /\ s <= h
    BY <2>1, <2>2
  <2> HIDE DEF S, h
  <2>5. (CHOOSE x \in S : \A y \in S : x >= y) = h
    BY <2>4
  <2> QED
    BY <1>2, <2>3, <2>5 DEF AuditAt, Max, S, h
<1> QED
  BY <1>1, <1>2

\* What a receipt names is still there, and reads as it did, after any other command.
LEMMA ReceiptStays ==
    ASSUME NEW d, NEW q, WellAsked(q), TablesTyped(d), Accepts(d, q), Agree(d), ResultsAreStored(d),
           NEW f, f = Result(d, q),
           NEW r, WellAsked(r.command), r.after \in Nat, ReceiptHolds(d, r)
    PROVE  ReceiptHolds(f, r)
<1> DEFINE c == r.command
<1>1. c.run \in Runs /\ c.head \in Nat /\ (ForksChild(c.kind) => c.child \in Runs)
  BY DEF WellAsked, Commands, Children
<1>2. RecordsHold(d, r)
  BY DEF ReceiptHolds
<1>3. \A p \in Runs : /\ HeadOf(d, p) \in Nat /\ HeadOf(f, p) \in Nat /\ HeadOf(d, p) <= HeadOf(f, p)
                      /\ \A n \in 1..HeadOf(d, p) : f.events[p][n] = d.events[p][n]
  <2>1. f.events = WrittenEvents(d, q)
    BY ResultParts
  <2>2. \A p \in Runs : \A n \in 1..Len(d.events[p]) : WrittenEvents(d, q)[p][n] = d.events[p][n]
    BY LogsGrow
  <2> QED
    BY <2>1, <2>2, HeadsGrow DEF HeadOf
<1>4. r.after <= HeadOf(d, c.run) /\ \A n \in (c.head + 1)..r.after : d.events[c.run][n].by = c.id
  BY <1>2 DEF RecordsHold
<1>5. RecordsHold(f, r)
  <2>1. r.after <= HeadOf(f, c.run)
    BY <1>1, <1>3, <1>4
  <2>2. ASSUME NEW n \in (c.head + 1)..r.after PROVE f.events[c.run][n].by = c.id
    <3>1. n \in 1..HeadOf(d, c.run)
      BY <1>1, <1>3, <1>4
    <3> QED
      BY <1>1, <1>3, <1>4, <3>1
  <2>3. ASSUME ForksChild(c.kind) PROVE HeadOf(f, c.child) > 0 /\ f.events[c.child][1].by = c.id
    <3>1. c.child \in Runs /\ HeadOf(d, c.child) > 0 /\ d.events[c.child][1].by = c.id
      BY <1>1, <1>2, <2>3 DEF RecordsHold
    <3>2. 1 \in 1..HeadOf(d, c.child)
      BY <1>3, <3>1
    <3> QED
      BY <1>3, <3>1, <3>2
  <2> QED
    BY <2>1, <2>2, <2>3 DEF RecordsHold
<1>6. d.artifacts \subseteq f.artifacts
  BY ResultParts
<1>7. IF ForksChild(c.kind) THEN CrossArtifactsHold(f, r) ELSE ArtifactsHold(f, r)
  BY <1>6 DEF ReceiptHolds, CrossArtifactsHold, ArtifactsHold
<1>8. /\ StateAt(f, c.run, r.after) = StateAt(d, c.run, r.after)
      /\ AuditAt(f, c.run, r.after) = AuditAt(d, c.run, r.after)
      /\ View(f, c.run, r.after) = View(d, c.run, r.after)
  BY <1>1, <1>4, ViewStays
<1>9. IndexesHold(f, c.run, r.after)
  <2>1. SUFFICES ASSUME f.results[c.run] # 0, r.after >= f.results[c.run]
                 PROVE  /\ AuditAt(f, c.run, r.after) # 0
                        /\ {<<c.run, f.results[c.run], "result">>,
                            <<c.run, AuditAt(f, c.run, r.after), "audit">>} \subseteq f.artifacts
    BY DEF IndexesHold
  <2>2. f.results[c.run] = d.results[c.run]
    <3>1. /\ d.results[c.run] \in Nat /\ f.results[c.run] \in Nat
          /\ f.results[c.run] = d.results[c.run] \/ HeadOf(d, c.run) < f.results[c.run]
      BY <1>1, ResultsAfter
    <3> QED
      BY <1>1, <1>3, <1>4, <2>1, <3>1
  <2>3. IndexesHold(d, c.run, r.after)
    BY DEF ReceiptHolds
  <2> QED
    BY <1>6, <1>8, <2>1, <2>2, <2>3 DEF IndexesHold
<1>10. EdgeHolds(f, c)
  <2>1. /\ f.replacements = IF q.kind = "replace" THEN [d.replacements EXCEPT ![q.run] = q.child]
                            ELSE d.replacements
        /\ f.continuations = IF q.kind = "continue" THEN [d.continuations EXCEPT ![q.run] = q.child]
                             ELSE d.continuations
    BY ResultParts
  <2>2. d.replacements \in [Runs -> Runs \cup {NoRun}] /\ d.continuations \in [Runs -> Runs \cup {NoRun}]
    BY DEF TablesTyped
  <2>3. EdgeHolds(d, c)
    BY DEF ReceiptHolds
  <2>4. ForksChild(q.kind) => \A x \in Edges(d) : x[2] # NoRun => x[1] # q.run
    BY DEF Accepts, AcceptsReplacement, AcceptsContinuation, CrossRunAbsent, ForksChild
  <2>5. ASSUME c.kind = "replace" PROVE f.replacements[c.run] = c.child
    <3>1. <<c.run, c.child>> \in Edges(d) /\ c.child # NoRun
      BY <1>1, <2>3, <2>5, RepositoryAssumption DEF EdgeHolds, Edges, ForksChild
    <3>2. q.kind = "replace" => q.run # c.run
      BY <2>4, <3>1 DEF ForksChild
    <3> QED
      BY <2>1, <2>2, <2>3, <2>5, <3>2 DEF EdgeHolds
  <2>6. ASSUME c.kind = "continue" PROVE f.continuations[c.run] = c.child
    <3>1. <<c.run, c.child>> \in Edges(d) /\ c.child # NoRun
      BY <1>1, <2>3, <2>6, RepositoryAssumption DEF EdgeHolds, Edges, ForksChild
    <3>2. q.kind = "continue" => q.run # c.run
      BY <2>4, <3>1 DEF ForksChild
    <3> QED
      BY <2>1, <2>2, <2>3, <2>6, <3>2 DEF EdgeHolds
  <2> QED
    BY <2>5, <2>6 DEF EdgeHolds
<1>11. r.view = View(f, c.run, r.after)
  BY <1>8 DEF ReceiptHolds
<1> QED
  BY <1>5, <1>7, <1>9, <1>10, <1>11 DEF ReceiptHolds

\* The head a receipt names is the head its command left the run at.
LEMMA AfterIsHead ==
    ASSUME NEW d, NEW q, WellAsked(q), TablesTyped(d), Accepts(d, q),
           NEW f, f = Result(d, q)
    PROVE  /\ HeadOf(f, q.run) \in Nat /\ After(d, q) = HeadOf(f, q.run)
           /\ q.head = HeadOf(d, q.run)
           /\ q.kind = "continue" => After(d, q) = q.head /\ RunState(f, q.run) = RunState(d, q.run)
<1>1. q.run \in Runs /\ q.kind \in Kinds
  BY DEF WellAsked, Commands
<1>2. q.head = HeadOf(d, q.run)
  BY <1>1 DEF Accepts, AcceptsBatch, AcceptsTerminal, AcceptsAudit, AcceptsReplacement,
      AcceptsContinuation, Expected, Kinds
<1>3. CASE q.kind # "continue"
  BY <1>2, <1>3, RunAfter
<1>4. CASE q.kind = "continue"
  <2>1. Batch(d, q) = <<>> /\ d.events[q.run] \in Seq(LogEvents)
    BY <1>1, <1>4, BatchTyped DEF TablesTyped
  <2>2. f.events[q.run] = d.events[q.run] \o Batch(d, q)
    <3>1. f.events = WrittenEvents(d, q)
      BY ResultParts
    <3>2. WrittenEvents(d, q)[q.run] = d.events[q.run] \o Batch(d, q)
      BY LogsGrow
    <3> QED
      BY <3>1, <3>2
  <2>3. f.events[q.run] = d.events[q.run] /\ Len(d.events[q.run]) \in Nat /\ Len(Batch(d, q)) = 0
    BY <2>1, <2>2
  <2>4. HeadOf(f, q.run) = HeadOf(d, q.run) /\ HeadOf(d, q.run) \in Nat
    BY <2>3 DEF HeadOf
  <2>5. After(d, q) = HeadOf(d, q.run)
    BY <2>3, <2>4 DEF After
  <2>6. RunState(f, q.run) = RunState(d, q.run)
    BY <2>3, <2>4 DEF RunState, StateAt
  <2> QED
    BY <1>2, <2>4, <2>5, <2>6
<1> QED
  BY <1>3, <1>4

\* The receipt a command writes names the artifacts of its kind.
LEMMA ReceiptArtifacts ==
    ASSUME NEW d, NEW q, WellAsked(q), TablesTyped(d),
           NEW f, f = Result(d, q), NEW r, r = Receipt(d, q)
    PROVE  /\ r.command = q /\ r.after = After(d, q)
           /\ IF ForksChild(q.kind) THEN CrossArtifactsHold(f, r) ELSE ArtifactsHold(f, r)
<1>1. q.kind \in Kinds
  BY DEF WellAsked, Commands
<1>2. f.artifacts = IF q.kind \in {"audit", "terminal", "replace"}
                    THEN d.artifacts \cup NewArtifacts(d, q) ELSE d.artifacts
  BY ResultParts
<1>3. r.command = q /\ r.after = After(d, q) /\ r.artifacts = NewArtifacts(d, q)
  <2>1. CASE q.kind \in {"create", "append"}
    <3>1. r = BatchReceipt(d, q)
      BY <2>1 DEF Receipt, ForksChild
    <3> QED
      BY <2>1, <3>1 DEF BatchReceipt, NewArtifacts
  <2>2. CASE q.kind = "terminal"
    <3>1. r = TerminalReceipt(d, q)
      BY <2>2 DEF Receipt, ForksChild
    <3> QED
      BY <3>1 DEF TerminalReceipt
  <2>3. CASE q.kind = "audit"
    <3>1. r = AuditReceipt(d, q)
      BY <2>3 DEF Receipt, ForksChild
    <3> QED
      BY <3>1 DEF AuditReceipt
  <2>4. CASE ForksChild(q.kind)
    <3>1. r = CrossRunReceipt(d, q)
      BY <2>4 DEF Receipt, ForksChild
    <3> QED
      BY <3>1 DEF CrossRunReceipt
  <2> QED
    BY <1>1, <2>1, <2>2, <2>3, <2>4 DEF Kinds, ForksChild
<1> DEFINE n == After(d, q)
<1>4. n = After(d, q)
  OBVIOUS
<1>5. NewArtifacts(d, q) =
        CASE q.kind = "terminal" -> {<<q.run, n, t>> : t \in {"process", "result", "audit"}}
          [] q.kind = "replace"  -> {<<q.run, n, t>> : t \in {"process", "result", "audit"}}
                                      \cup {<<q.run, n, "attestation">>}
          [] q.kind = "audit"    -> {<<q.run, n, "audit">>}
          [] OTHER               -> {}
  BY DEF NewArtifacts, TerminalArtifacts, ReplacementArtifacts
<1> HIDE DEF n
<1>6. CASE q.kind \in {"create", "append"}
  BY <1>2, <1>3, <1>5, <1>6 DEF ArtifactsHold, ForksChild
<1>7. CASE q.kind = "terminal"
  BY <1>2, <1>3, <1>4, <1>5, <1>7 DEF ArtifactsHold, ForksChild
<1>8. CASE q.kind = "audit"
  BY <1>2, <1>3, <1>4, <1>5, <1>8 DEF ArtifactsHold, ForksChild
<1>9. CASE q.kind = "replace"
  BY <1>2, <1>3, <1>4, <1>5, <1>9 DEF CrossArtifactsHold, ForksChild
<1>10. CASE q.kind = "continue"
  BY <1>2, <1>3, <1>5, <1>10 DEF CrossArtifactsHold, ForksChild
<1> QED
  BY <1>1, <1>3, <1>6, <1>7, <1>8, <1>9, <1>10 DEF Kinds

\* A command that ends a run stores its result.
LEMMA ResultsStored ==
    ASSUME NEW d, NEW q, WellAsked(q), TablesTyped(d), Accepts(d, q), Agree(d), ResultsAreStored(d),
           NEW f, f = Result(d, q)
    PROVE  ResultsAreStored(f)
<1> SUFFICES ASSUME NEW r \in Runs, f.results[r] # 0
             PROVE  <<r, f.results[r], "result">> \in f.artifacts
  BY DEF ResultsAreStored
<1>1. f.artifacts = IF q.kind \in {"audit", "terminal", "replace"}
                    THEN d.artifacts \cup NewArtifacts(d, q) ELSE d.artifacts
  BY ResultParts
<1>2. \/ f.results[r] = d.results[r]
      \/ r = q.run /\ f.results[r] = After(d, q) /\ q.kind \in {"terminal", "replace"}
  BY ResultsAfter
<1>3. CASE f.results[r] = d.results[r]
  BY <1>1, <1>3 DEF ResultsAreStored
<1>4. CASE r = q.run /\ f.results[r] = After(d, q) /\ q.kind \in {"terminal", "replace"}
  <2>1. <<q.run, After(d, q), "result">> \in NewArtifacts(d, q)
    BY <1>4 DEF NewArtifacts, TerminalArtifacts, ReplacementArtifacts
  <2> QED
    BY <1>1, <1>4, <2>1
<1> QED
  BY <1>2, <1>3, <1>4

\* The view of a receipt is the view of the head its command left the run at.
LEMMA ReceiptView ==
    ASSUME NEW d, NEW q, WellAsked(q), TablesTyped(d), Accepts(d, q), Agree(d),
           NEW f, f = Result(d, q), RunAgrees(f, q.run)
    PROVE  Receipt(d, q).view = View(f, q.run, After(d, q))
<1> DEFINE n == After(d, q)
<1>1. q.run \in Runs /\ q.kind \in Kinds /\ q.to \in Targets(q.kind)
  BY DEF WellAsked, Commands
<1>2. HeadOf(f, q.run) \in Nat /\ n = HeadOf(f, q.run) /\ f.results[q.run] \in Nat
  BY <1>1, AfterIsHead, ResultsAfter
<1>3. View(f, q.run, n) = [state |-> RunState(f, q.run),
                           audit |-> IF f.results[q.run] = 0 THEN 0 ELSE n]
  BY <1>1, <1>2, AuditAtHead DEF View, RunState
<1>4. f.results[q.run] # 0 <=> RunState(f, q.run) \in TerminalStates
  BY DEF RunAgrees
<1> HIDE DEF n
<1>5. q.kind # "continue" => RunState(f, q.run) = IF q.kind = "audit" THEN RunState(d, q.run) ELSE q.to
  BY RunAfter
<1>6. CASE q.kind \in {"create", "append"}
  <2>1. Receipt(d, q).view = [state |-> q.to, audit |-> 0]
    BY <1>6 DEF Receipt, ForksChild, BatchReceipt
  <2>2. q.to \notin TerminalStates
    BY <1>1, <1>6 DEF Targets, TerminalStates
  <2> QED
    BY <1>3, <1>4, <1>5, <1>6, <2>1, <2>2 DEF n
<1>7. CASE q.kind = "terminal"
  <2>1. Receipt(d, q).view = [state |-> q.to, audit |-> n]
    BY <1>7 DEF Receipt, ForksChild, TerminalReceipt, n
  <2>2. q.to \in TerminalStates
    BY <1>1, <1>7 DEF Targets
  <2> QED
    BY <1>3, <1>4, <1>5, <1>7, <2>1, <2>2 DEF n
<1>8. CASE q.kind = "audit"
  <2>1. Receipt(d, q).view = [state |-> RunState(d, q.run), audit |-> n]
    BY <1>8 DEF Receipt, ForksChild, AuditReceipt, n
  <2>2. RunState(d, q.run) \in TerminalStates
    BY <1>8 DEF Accepts, AcceptsAudit
  <2> QED
    BY <1>3, <1>4, <1>5, <1>8, <2>1, <2>2 DEF n
<1>9. CASE q.kind = "replace"
  <2>1. Receipt(d, q).view = [state |-> q.to, audit |-> n]
    BY <1>9 DEF Receipt, ForksChild, CrossRunReceipt, n
  <2>2. q.to \in TerminalStates
    BY <1>1, <1>9 DEF Targets, TerminalStates
  <2> QED
    BY <1>3, <1>4, <1>5, <1>9, <2>1, <2>2 DEF n
<1>10. CASE q.kind = "continue"
  <2>1. Receipt(d, q).view = View(d, q.run, q.head)
    BY <1>10 DEF Receipt, ForksChild, CrossRunReceipt
  <2>2. q.head = HeadOf(d, q.run) /\ HeadOf(d, q.run) \in Nat /\ HeadOf(d, q.run) <= HeadOf(d, q.run)
        /\ n = q.head
    BY <1>1, <1>10, AfterIsHead, HeadsGrow DEF n
  <2>3. View(f, q.run, q.head) = View(d, q.run, q.head)
    BY <1>1, <2>2, ViewStays
  <2> QED
    BY <2>1, <2>2, <2>3 DEF n
<1> QED
  BY <1>1, <1>6, <1>7, <1>8, <1>9, <1>10 DEF Kinds

\* What a replay verifies of a receipt is true of the tables its command left.
LEMMA NewReceiptHolds ==
    ASSUME NEW d, NEW q, WellAsked(q), TablesTyped(d), Accepts(d, q), Agree(d), ResultsAreStored(d),
           NEW f, f = Result(d, q), Agree(f), NEW r, r = Receipt(d, q)
    PROVE  /\ WellAsked(r.command) /\ r.after \in Nat
           /\ ReceiptHolds(f, r)
<1>1. q.run \in Runs /\ q.kind \in Kinds
  BY DEF WellAsked, Commands
<1>2. /\ r.command = q /\ r.after = After(d, q)
      /\ IF ForksChild(q.kind) THEN CrossArtifactsHold(f, r) ELSE ArtifactsHold(f, r)
  BY ReceiptArtifacts
<1>3. HeadOf(f, q.run) \in Nat /\ After(d, q) = HeadOf(f, q.run) /\ q.head = HeadOf(d, q.run)
  BY AfterIsHead
<1>4. r.view = View(f, q.run, r.after)
  BY <1>1, <1>2, ReceiptView DEF Agree
<1>5. RecordsHold(f, r)
  <2>1. f.events = WrittenEvents(d, q)
    BY ResultParts
  <2>2. \A n \in (Len(d.events[q.run]) + 1)..Len(WrittenEvents(d, q)[q.run]) :
           WrittenEvents(d, q)[q.run][n].by = q.id
    BY <1>1, LogsGrow
  <2>3. \A n \in (q.head + 1)..r.after : f.events[q.run][n].by = q.id
    BY <1>2, <1>3, <2>1, <2>2 DEF HeadOf
  <2>4. r.after <= HeadOf(f, q.run)
    BY <1>2, <1>3
  <2>5. ForksChild(q.kind) => HeadOf(f, q.child) > 0 /\ f.events[q.child][1].by = q.id
    <3>1. ForksChild(q.kind) => /\ Len(WrittenEvents(d, q)[q.child]) = 1
                                /\ WrittenEvents(d, q)[q.child][1] = Event(q, "running")
      BY LogsGrow
    <3> QED
      BY <2>1, <3>1 DEF HeadOf, Event
  <2> QED
    BY <1>2, <2>3, <2>4, <2>5 DEF RecordsHold
<1>6. IndexesHold(f, q.run, r.after)
  <2>1. SUFFICES ASSUME f.results[q.run] # 0
                 PROVE  /\ AuditAt(f, q.run, r.after) # 0
                        /\ {<<q.run, f.results[q.run], "result">>,
                            <<q.run, AuditAt(f, q.run, r.after), "audit">>} \subseteq f.artifacts
    BY DEF IndexesHold
  <2>2. f.results[q.run] \in Nat /\ RunAgrees(f, q.run)
    BY <1>1, ResultsAfter DEF Agree
  <2>3. AuditAt(f, q.run, r.after) = HeadOf(f, q.run)
    BY <1>1, <1>2, <1>3, <2>1, <2>2, AuditAtHead
  <2>4. <<q.run, HeadOf(f, q.run), "audit">> \in f.artifacts
    <3>1. HeadOf(f, q.run) \in AuditedAt(f, q.run)
      BY <2>1, <2>2 DEF RunAgrees
    <3> QED
      BY <1>1, <1>3, <3>1 DEF Agree, ArtifactsAgree
  <2>5. HeadOf(f, q.run) # 0
    BY <1>1, <2>4 DEF Agree, ArtifactsAgree
  <2>6. <<q.run, f.results[q.run], "result">> \in f.artifacts
    BY <1>1, <2>1, ResultsStored DEF ResultsAreStored
  <2> QED
    BY <2>3, <2>4, <2>5, <2>6
<1>7. EdgeHolds(f, q)
  <2>1. /\ f.replacements = IF q.kind = "replace" THEN [d.replacements EXCEPT ![q.run] = q.child]
                            ELSE d.replacements
        /\ f.continuations = IF q.kind = "continue" THEN [d.continuations EXCEPT ![q.run] = q.child]
                             ELSE d.continuations
    BY ResultParts
  <2>2. d.replacements \in [Runs -> Runs \cup {NoRun}] /\ d.continuations \in [Runs -> Runs \cup {NoRun}]
    BY DEF TablesTyped
  <2> QED
    BY <1>1, <2>1, <2>2 DEF EdgeHolds
<1>8. ReceiptHolds(f, r)
  BY <1>2, <1>4, <1>5, <1>6, <1>7 DEF ReceiptHolds
<1> QED
  BY <1>2, <1>3, <1>8

LEMMA StableInit == Init => Stable(Committed)
<1> SUFFICES ASSUME Init PROVE Stable(EmptyTables)
  BY DEF Init, Committed
<1>1. Agree(EmptyTables)
  BY AgreeInit DEF Init, Committed
<1>2. ResultsAreStored(EmptyTables) /\ EmptyTables.receipts = {}
  BY DEF ResultsAreStored, EmptyTables
<1> QED
  BY <1>1, <1>2 DEF Stable

LEMMA StableStep ==
    ASSUME Inv, Stable(Committed), [Next]_vars
    PROVE  Stable(Committed)'
<1> DEFINE d == Committed
           f == Committed'
<1>1. CASE f = d
  BY <1>1
<1>2. CASE \E c \in Clients :
             /\ WellAsked(request[c]) /\ TablesTyped(d) /\ Accepts(d, request[c])
             /\ f = Result(d, request[c])
  <2>1. PICK c \in Clients :
             /\ WellAsked(request[c]) /\ TablesTyped(d) /\ Accepts(d, request[c])
             /\ f = Result(d, request[c])
    BY <1>2
  <2> DEFINE q == request[c]
  <2>2. /\ WellAsked(q) /\ TablesTyped(d) /\ Accepts(d, q) /\ f = Result(d, q)
        /\ Agree(d) /\ ResultsAreStored(d)
        /\ \A r \in d.receipts : WellAsked(r.command) /\ r.after \in Nat /\ ReceiptHolds(d, r)
    BY <2>1 DEF Stable
  <2>3. Agree(f)
    BY <2>2, AgreeStep
  <2> HIDE DEF d, f, q
  <2>4. ResultsAreStored(f)
    BY <2>2, ResultsStored
  <2>5. f.receipts = d.receipts \cup {Receipt(d, q)}
    BY <2>2, ResultParts
  <2>6. ASSUME NEW r \in f.receipts
        PROVE  WellAsked(r.command) /\ r.after \in Nat /\ ReceiptHolds(f, r)
    <3>1. CASE r \in d.receipts
      BY <2>2, <3>1, ReceiptStays
    <3>2. CASE r = Receipt(d, q)
      BY <2>2, <2>3, <3>2, NewReceiptHolds
    <3> QED
      BY <2>5, <3>1, <3>2
  <2>7. Stable(f)
    BY <2>3, <2>4, <2>6 DEF Stable
  <2> QED
    BY <2>7 DEF f
<1> QED
  BY <1>1, <1>2, CommittedStep

\* A receipt that was stored once passes what a replay verifies of it for ever, whatever
\* is appended, audited, replaced or continued after it.
THEOREM ReplayCorrect == Spec => []ReplayIsStable
<1>1. Inv /\ Stable(Committed) /\ [Next]_vars => Stable(Committed)'
  BY StableStep
<1>2. Stable(Committed) => ReplayIsStable
  BY DEF Stable, ReplayIsStable, Committed
<1> QED
  BY <1>1, <1>2, InvHolds, StableInit, PTL DEF Spec

=============================================================================
