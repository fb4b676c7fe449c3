--------------------------- MODULE TavilyKeyPool ---------------------------
(***************************************************************************)
(* The Tavily evidence gateway (tavily_gateway.py): processes that share a *)
(* SQLite store of API key slots, each making one logical call at a time.  *)
(* An attempt of a call reads the clock, leases a slot in one transaction, *)
(* sends the request with that key while no transaction is open, and       *)
(* completes the lease in another transaction.  A process can die anywhere;*)
(* its lease is reclaimed when it has run out.                             *)
(*                                                                         *)
(* Time is kept in timers relative to the present: Tick decrements what is *)
(* left of a lease or a cooldown and adds to the age of a window.  A clock *)
(* reading taken before a transaction is the number of ticks by which it   *)
(* is late.                                                                *)
(***************************************************************************)
EXTENDS Integers, FiniteSets, FiniteSetsExt

CONSTANTS
    SlotCount,       \* number of key slots (29 in the code)
    Callers,         \* gateway processes
    Groups,          \* endpoint groups with a request window of their own
    StartIndex,      \* StartIndex[c]: the first slot c's run begins to look at
    LeaseTime, RetryTime, Window,   \* in ticks
    Rpm,             \* requests per window
    AttemptCeiling, CallCeiling, CreditCeiling,
    Reservations,    \* credits a request may reserve
    MaxUsage,        \* bound: credits a provider charges for one request
    MaxLate          \* bound: how late a clock reading gets

Slots == 0..(SlotCount - 1)

ASSUME TavilyAssumption ==
    /\ SlotCount \in Nat \ {0}
    /\ StartIndex \in [Callers -> Slots]
    /\ {LeaseTime, RetryTime, Window, Rpm, AttemptCeiling, CallCeiling, CreditCeiling}
          \subseteq Nat \ {0}
    /\ Reservations \subseteq Nat \ {0}
    /\ {MaxUsage, MaxLate} \subseteq Nat

NoCaller == "none"

ASSUME CallersAssumption == NoCaller \notin Callers /\ IsFiniteSet(Callers)

VARIABLES
    slots,    \* tavily_key_slots
    windows,  \* tavily_endpoint_windows
    cursor,   \* tavily_run_cursors
    pair,     \* tavily_pair_budgets, of the one pair the callers work for
    calls     \* the logical call in progress of every caller

vars == <<slots, windows, cursor, pair, calls>>

-----------------------------------------------------------------------------
(* A slot: its state, who leases it, ticks left of the lease and of the     *)
(* cooldown (negative once they have passed), and whether a usage receipt   *)
(* proves it exhausted.                                                     *)

FreshSlot == [state |-> "AVAILABLE", token |-> NoCaller, left |-> 0, wait |-> 0,
              proven |-> FALSE]

\* A window row: ticks since it was started, requests counted in it.
NoWindow == [age |-> Window + MaxLate, count |-> 0]

NoCall == [pc |-> "idle", group |-> "none", credits |-> 0, attempt |-> 0, slot |-> 0,
           late |-> 0, transient |-> FALSE, outcome |-> "none"]

Outcomes == {"none", "available", "temporarily_unavailable", "budget_exhausted",
             "authority_required", "blocked", "raised", "crashed"}

TypeOK ==
    /\ slots \in [Slots ->
          [state : {"AVAILABLE", "COOLDOWN", "EXHAUSTED", "INVALID"},
           token : Callers \cup {NoCaller}, left : (-MaxLate)..LeaseTime,
           wait : (-MaxLate)..RetryTime, proven : BOOLEAN]]
    /\ windows \in [Slots \X Groups -> [age : 0..(Window + MaxLate), count : 0..Rpm]]
    /\ cursor \in [Callers -> Slots]
    /\ pair \in [calls : 0..CallCeiling, reserved : 0..CreditCeiling,
                 settled : Nat, ambiguous : Nat]
    /\ calls \in [Callers ->
          [pc : {"idle", "begun", "timed", "refused", "deferred", "sent"},
           group : Groups \cup {"none"}, credits : Reservations \cup {0},
           attempt : 0..AttemptCeiling, slot : Slots, late : 0..MaxLate, transient : BOOLEAN, outcome : Outcomes]]

Init ==
    /\ slots = [s \in Slots |-> FreshSlot]
    /\ windows = [w \in Slots \X Groups |-> NoWindow]
    /\ cursor = [c \in Callers |-> 0]
    /\ pair = [calls |-> 0, reserved |-> 0, settled |-> 0, ambiguous |-> 0]
    /\ calls = [c \in Callers |-> NoCall]

-----------------------------------------------------------------------------
(* What a transaction that was given a late clock reading makes of the      *)
(* tables: leases and cooldowns that had run out by then are cleared.       *)

Reaped(s, late) ==
    LET unleased == IF s.token # NoCaller /\ s.left <= -late
                    THEN [s EXCEPT !.token = NoCaller, !.left = 0] ELSE s
    IN  IF s.state = "COOLDOWN" /\ s.wait <= -late
        THEN [unleased EXCEPT !.state = "AVAILABLE", !.wait = 0] ELSE unleased

ReapedPool(late) == [s \in Slots |-> Reaped(slots[s], late)]

InWindow(w, late) == w.age - late < Window

\* Can the pool, after reaping, lease the slot for a request of the group?
Leasable(pool, s, group, late) ==
    /\ pool[s].state = "AVAILABLE" /\ pool[s].token = NoCaller
    /\ InWindow(windows[<<s, group>>], late) => windows[<<s, group>>].count < Rpm

\* Round robin: the first leasable slot from the run's cursor on.
Selected(pool, c, group, late) ==
    LET slotAt(i) == (StartIndex[c] + cursor[c] + i) % SlotCount
    IN  slotAt(Min({i \in Slots : Leasable(pool, slotAt(i), group, late)}))

\* Mutant: full windows are forgotten.
NothingLeasedOrCooling(pool, group) ==
    \A s \in Slots : pool[s].state # "COOLDOWN" /\ pool[s].token = NoCaller

\* The query for the earliest availability finds no row: no cooldown, no lease and no
\* full window. It asks neither whose window it is nor how old.
NothingToWaitFor(pool, group) ==
    \A s \in Slots : /\ pool[s].state # "COOLDOWN"
                     /\ pool[s].token = NoCaller
                     /\ windows[<<s, group>>].count < Rpm

\* PoolProjection.outcome
PoolOutcome(pool) ==
    IF \E s \in Slots : pool[s].state = "AVAILABLE" /\ pool[s].token = NoCaller
    THEN "available"
    ELSE IF \E s \in Slots : pool[s].state = "COOLDOWN" \/ pool[s].token # NoCaller
    THEN "temporarily_unavailable"
    ELSE IF \A s \in Slots : pool[s].state = "EXHAUSTED" /\ pool[s].proven
    THEN "budget_exhausted"
    ELSE "authority_required"

-----------------------------------------------------------------------------
(* The steps of a logical call.                                             *)

Ended(call, outcome) == [NoCall EXCEPT !.outcome = outcome]

\* After a failed attempt: another one, or the end of the call.
NextAttempt(call, transient) ==
    IF call.attempt = AttemptCeiling
    THEN Ended(call, IF transient THEN "temporarily_unavailable" ELSE "blocked")
    ELSE [call EXCEPT !.pc = "begun", !.attempt = @ + 1, !.late = 0, !.slot = 0,
                      !.transient = transient]

BeginCall(c, group, credits) ==
    /\ calls[c].pc = "idle"
    /\ pair.calls < CallCeiling
    /\ pair' = [pair EXCEPT !.calls = @ + 1]
    /\ calls' = [calls EXCEPT ![c] = [NoCall EXCEPT !.pc = "begun", !.group = group,
                                                    !.credits = credits, !.attempt = 1]]
    /\ UNCHANGED <<slots, windows, cursor>>

ReadClock(c) ==
    /\ calls[c].pc = "begun"
    /\ calls' = [calls EXCEPT ![c].pc = "timed"]
    /\ UNCHANGED <<slots, windows, cursor, pair>>

\* acquire: lease a slot, count the request in its window, reserve the credits.
Acquire(c) ==
    LET call == calls[c]
        pool == ReapedPool(call.late)
        s    == Selected(pool, c, call.group, call.late)
        w    == windows[<<s, call.group>>]
    IN  /\ call.pc = "timed"
        /\ \E t \in Slots : Leasable(pool, t, call.group, call.late)
        /\ pair.reserved + call.credits <= CreditCeiling
        /\ slots' = [pool EXCEPT ![s].token = c, ![s].left = LeaseTime - call.late]
        /\ windows' = [windows EXCEPT ![<<s, call.group>>] =
                          IF InWindow(w, call.late) THEN [w EXCEPT !.count = @ + 1]
                          ELSE [age |-> call.late, count |-> 1]]
        /\ cursor' = [cursor EXCEPT ![c] = (@ + 1) % SlotCount]
        /\ pair' = [pair EXCEPT !.reserved = @ + call.credits]
        /\ calls' = [calls EXCEPT ![c].pc = "sent", ![c].slot = s]

\* The credit ceiling is reached: the transaction is rolled back, the call is over.
AcquireOverBudget(c) ==
    LET call == calls[c]
    IN  /\ call.pc = "timed"
        /\ \E t \in Slots : Leasable(ReapedPool(call.late), t, call.group, call.late)
        /\ pair.reserved + call.credits > CreditCeiling
        /\ calls' = [calls EXCEPT ![c] = Ended(call, "budget_exhausted")]
        /\ UNCHANGED <<slots, windows, cursor, pair>>

\* No slot can be leased: rolled back, with or without a time to wait for.
AcquireNothing(c) ==
    LET call == calls[c]
        pool == ReapedPool(call.late)
    IN  /\ call.pc = "timed"
        /\ \A t \in Slots : ~Leasable(pool, t, call.group, call.late)
        /\ calls' = [calls EXCEPT ![c].pc = IF NothingToWaitFor(pool, call.group)
                                           THEN "refused" ELSE "deferred"]
        /\ UNCHANGED <<slots, windows, cursor, pair>>

\* _pool_result: the pool is projected in a transaction of its own, by the same reading of
\* the clock. A time to wait for decides the outcome, or else the projection does.
ProjectPool(c) ==
    /\ calls[c].pc \in {"refused", "deferred"}
    /\ slots' = ReapedPool(calls[c].late)
    /\ calls' = [calls EXCEPT ![c] =
                    Ended(calls[c], IF calls[c].pc = "deferred" THEN "temporarily_unavailable"
                                    ELSE PoolOutcome(slots'))]
    /\ UNCHANGED <<windows, cursor, pair>>

Holds(c) == slots[calls[c].slot].token = c

\* The slot of c's call after complete has put it in a state.
Released(c, state, wait, proven) ==
    [slots EXCEPT ![calls[c].slot] =
        [state |-> state, token |-> NoCaller, left |-> 0, wait |-> wait,
         proven |-> @.proven \/ proven]]

\* Mutant: whoever sent a request may put its slot in a state.
CompleteUnchecked(c, state, wait, proven, charge, call) ==
    /\ calls[c].pc = "sent"
    /\ slots' = Released(c, state, wait, proven)
    /\ pair' = charge
    /\ calls' = [calls EXCEPT ![c] = call]
    /\ UNCHANGED <<windows, cursor>>

\* complete: by the caller whose token the slot still has.
Complete(c, state, wait, proven, charge, call) ==
    /\ calls[c].pc = "sent"
    /\ Holds(c)
    /\ slots' = Released(c, state, wait, proven)
    /\ pair' = charge
    /\ calls' = [calls EXCEPT ![c] = call]
    /\ UNCHANGED <<windows, cursor>>

\* Mutant: a failed attempt gives its credits back.
AmbiguousRefunded(c) ==
    [pair EXCEPT !.ambiguous = @ + calls[c].credits, !.reserved = @ - calls[c].credits]

\* What a failed attempt costs is not known: its reservation is booked as ambiguous.
Ambiguous(c) == [pair EXCEPT !.ambiguous = @ + calls[c].credits]

\* The connection broke, or the provider answered 5xx.
TransientFailure(c) ==
    Complete(c, "AVAILABLE", 0, FALSE, Ambiguous(c), NextAttempt(calls[c], TRUE))

\* 429 with a usable Retry-After, jitter included.
RateLimited(c) ==
    Complete(c, "COOLDOWN", RetryTime, FALSE, Ambiguous(c), NextAttempt(calls[c], TRUE))

\* 401, 432, 433
KeyRejected(c) ==
    \E exhausted \in BOOLEAN :
       Complete(c, IF exhausted THEN "EXHAUSTED" ELSE "INVALID", 0, exhausted, Ambiguous(c),
                NextAttempt(calls[c], calls[c].transient))

\* 403, an unexpected status, or a body that is not what was asked for.
RequestRejected(c) ==
    Complete(c, "AVAILABLE", 0, FALSE, Ambiguous(c), Ended(calls[c], "blocked"))

Success(c, usage) ==
    Complete(c, "AVAILABLE", 0, FALSE, [pair EXCEPT !.settled = @ + usage],
             Ended(calls[c], "available"))

\* complete finds another token, or the Retry-After of a 429 is unusable: an exception
\* leaves the call, and the slot as it is.
CompletionRaises(c) ==
    /\ calls[c].pc = "sent"
    /\ calls' = [calls EXCEPT ![c] = Ended(calls[c], "raised")]
    /\ UNCHANGED <<slots, windows, cursor, pair>>

\* The process dies; another one takes its place.
Crash(c) ==
    /\ calls[c].pc # "idle"
    /\ calls' = [calls EXCEPT ![c] = Ended(calls[c], "crashed")]
    /\ UNCHANGED <<slots, windows, cursor, pair>>

Later(ticks) == Max({ticks - 1, -MaxLate})

HoldsReading(c) == calls[c].pc \in {"timed", "refused", "deferred"}

Tick ==
    /\ \A c \in Callers : HoldsReading(c) => calls[c].late < MaxLate
    /\ slots' = [s \in Slots |->
          [slots[s] EXCEPT !.left = IF slots[s].token = NoCaller THEN 0 ELSE Later(@),
                           !.wait = IF slots[s].state = "COOLDOWN" THEN Later(@) ELSE 0]]
    /\ windows' = [w \in DOMAIN windows |->
          [windows[w] EXCEPT !.age = Min({@ + 1, Window + MaxLate})]]
    /\ calls' = [c \in Callers |->
          IF HoldsReading(c) THEN [calls[c] EXCEPT !.late = @ + 1] ELSE calls[c]]
    /\ UNCHANGED <<cursor, pair>>

Next ==
    \/ Tick
    \/ \E c \in Callers :
          \/ \E g \in Groups, credits \in Reservations : BeginCall(c, g, credits)
          \/ ReadClock(c) \/ Acquire(c) \/ AcquireOverBudget(c) \/ AcquireNothing(c)
          \/ ProjectPool(c) \/ TransientFailure(c) \/ RateLimited(c) \/ KeyRejected(c)
          \/ RequestRejected(c) \/ CompletionRaises(c) \/ Crash(c)
          \/ \E usage \in 0..MaxUsage : Success(c, usage)

Spec == Init /\ [][Next]_vars

-----------------------------------------------------------------------------
(* Properties.                                                              *)

Total(f, S) == MapThenSumSet(LAMBDA x : f[x], S)

Credits == [c \in Callers |-> calls[c].credits]
InFlight == {c \in Callers : calls[c].pc = "sent"}

\* The credits reserved cover the ceiling's side of the account: what was booked as
\* ambiguous and what is still in flight was reserved before, whatever calls crashed,
\* raised or lost their lease, and no more than the ceiling was ever reserved.
ReservationsCoverCosts ==
    /\ pair.ambiguous + Total(Credits, InFlight) <= pair.reserved
    /\ pair.reserved <= CreditCeiling

\* Between the failed acquire and the projection of the pool other callers go on; still
\* the projection never finds a slot to lease or to wait for, so a call without a
\* snapshot never ends as "available".
RefusedPoolIsDead ==
    \A c \in Callers : calls[c].pc = "refused" =>
       PoolOutcome(ReapedPool(calls[c].late)) \in {"budget_exhausted", "authority_required"}

\* A key found invalid or exhausted is never used again, one told to wait not before its
\* time, and a lease ends with its holder's answer or by its deadline: neither the late
\* answer of a caller that lost its lease nor a late clock reading changes any of it.
SlotsAreKept ==
    [][\A s \in Slots :
         /\ slots[s].state \in {"INVALID", "EXHAUSTED"} => slots'[s].state = slots[s].state
         /\ slots[s].state = "COOLDOWN" /\ slots[s].wait > 0 => slots'[s].state = "COOLDOWN"
         /\ \A c \in Callers :
               slots[s].token = c /\ slots'[s].token # c
                 => slots[s].left <= 0 \/ (calls[c].pc = "sent" /\ calls'[c].pc # "sent")]_vars
=============================================================================
