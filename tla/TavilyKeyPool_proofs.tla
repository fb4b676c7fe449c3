------------------------- MODULE TavilyKeyPool_proofs -------------------------
(***************************************************************************)
(* The key pool for any number of keys, processes and endpoint groups, and *)
(* any leases, cooldowns, windows and ceilings.  The strengthening: a key  *)
(* that is leased is available, so that the one who holds it finds it in   *)
(* the state it leased it in; and when a call finds nothing to lease and   *)
(* nothing to wait for, every key is used up for good.                     *)
(***************************************************************************)
EXTENDS TavilyKeyPool, WellFoundedInduction, FiniteSetTheorems, TLAPS

SlotRows == [state : {"AVAILABLE", "COOLDOWN", "EXHAUSTED", "INVALID"},
             token : Callers \cup {NoCaller}, left : (-MaxLate)..LeaseTime,
             wait : (-MaxLate)..RetryTime, proven : BOOLEAN]

WindowRows == [age : 0..(Window + MaxLate), count : 0..Rpm]

CallRows == [pc : {"idle", "begun", "timed", "refused", "deferred", "sent"},
             group : Groups \cup {"none"}, credits : Reservations \cup {0}, attempt : 0..AttemptCeiling, slot : Slots,
             late : 0..MaxLate, transient : BOOLEAN, outcome : Outcomes]

Dead(row) == row.state \in {"EXHAUSTED", "INVALID"}

Inv ==
    /\ TypeOK
    /\ \A s \in Slots : slots[s].token # NoCaller => slots[s].state = "AVAILABLE"
    /\ \A c \in Callers : calls[c].pc = "refused" => \A s \in Slots : Dead(slots[s])

\* What a step may never do to the slots.
Kept ==
    \A s \in Slots :
      /\ slots[s].state \in {"INVALID", "EXHAUSTED"} => slots'[s].state = slots[s].state
      /\ slots[s].state = "COOLDOWN" /\ slots[s].wait > 0 => slots'[s].state = "COOLDOWN"
      /\ \A c \in Callers :
            slots[s].token = c /\ slots'[s].token # c
              => slots[s].left <= 0 \/ (calls[c].pc = "sent" /\ calls'[c].pc # "sent")

Numbers == /\ SlotCount \in Nat \ {0} /\ LeaseTime \in Nat \ {0} /\ RetryTime \in Nat \ {0}
           /\ Window \in Nat \ {0} /\ Rpm \in Nat \ {0} /\ AttemptCeiling \in Nat \ {0}
           /\ CallCeiling \in Nat \ {0} /\ CreditCeiling \in Nat \ {0} /\ MaxLate \in Nat
           /\ MaxUsage \in Nat /\ Reservations \subseteq Nat \ {0} /\ 0 \in Slots
           /\ StartIndex \in [Callers -> Slots]

LEMMA NumbersHold == Numbers
  BY TavilyAssumption DEF Numbers, Slots

LEMMA CreditsAreNatural ==
    ASSUME NEW n \in Reservations \cup {0} PROVE n \in Nat
<1>1. \A m \in Reservations : m \in Nat
  BY TavilyAssumption
<1>2. 0 \in Nat
  OBVIOUS
<1> QED
  BY <1>1, <1>2

LEMMA ModInSlots ==
    ASSUME NEW n \in Nat PROVE n % SlotCount \in Slots
  BY NumbersHold DEF Numbers, Slots

\* A set of natural numbers has a smallest one.
LEMMA LeastNatural ==
    ASSUME NEW T, T \subseteq Nat, T # {}
    PROVE  Min(T) \in T
<1> DEFINE R == {ss \in Nat \X Nat : ss[1] < ss[2]}
<1>1. IsWellFoundedOn(R, Nat)
  BY NatLessThanWellFounded DEF OpToRel
<1>2. PICK x \in T : \A y \in T : ~(<<y, x>> \in R)
  <2> HIDE DEF R
  <2> QED
    BY <1>1, WFMin
<1>3. ASSUME NEW y \in T PROVE x <= y
  <2>1. x \in Nat /\ y \in Nat /\ <<y, x>> \in Nat \X Nat
    OBVIOUS
  <2>2. ~(y < x)
    BY <1>2, <2>1
  <2> QED
    BY <2>1, <2>2
<1> QED
  BY <1>3 DEF Min

LEMMA SmallerIs == ASSUME NEW a \in Int, NEW b \in Int
                   PROVE  Min({a, b}) \in {a, b} /\ Min({a, b}) <= a /\ Min({a, b}) <= b
<1> DEFINE T == {a, b}
<1>1. \E x \in T : \A y \in T : x =< y
  OBVIOUS
<1>2. Min(T) \in T /\ \A y \in T : Min(T) =< y
  <2> HIDE DEF T
  <2> QED
    BY <1>1 DEF Min
<1> QED
  BY <1>2

LEMMA LargerIs == ASSUME NEW a \in Int, NEW b \in Int
                  PROVE  Max({a, b}) \in {a, b} /\ Max({a, b}) >= a /\ Max({a, b}) >= b
<1> DEFINE T == {a, b}
<1>1. \E x \in T : \A y \in T : x >= y
  OBVIOUS
<1>2. Max(T) \in T /\ \A y \in T : Max(T) >= y
  <2> HIDE DEF T
  <2> QED
    BY <1>1 DEF Max
<1> QED
  BY <1>2

LEMMA Types ==
    ASSUME TypeOK
    PROVE  /\ slots \in [Slots -> SlotRows]
           /\ windows \in [Slots \X Groups -> WindowRows]
           /\ cursor \in [Callers -> Slots]
           /\ calls \in [Callers -> CallRows]
  BY DEF TypeOK, SlotRows, WindowRows, CallRows

\* Reaping keeps what must be kept: it ends leases and cooldowns that have run out.
LEMMA ReapedKeeps ==
    ASSUME NEW row \in SlotRows, NEW late \in 0..MaxLate
    PROVE  /\ Reaped(row, late) \in SlotRows
           /\ Dead(row) => Reaped(row, late).state = row.state
           /\ Dead(Reaped(row, late)) => Dead(row)
           /\ row.state = "COOLDOWN" /\ row.wait > 0 => Reaped(row, late).state = "COOLDOWN"
           /\ Reaped(row, late).token # row.token => row.left <= 0 /\ Reaped(row, late).token = NoCaller
           /\ row.state = "AVAILABLE" => Reaped(row, late).state = "AVAILABLE"
<1> DEFINE u == IF row.token # NoCaller /\ row.left <= -late
                THEN [row EXCEPT !.token = NoCaller, !.left = 0] ELSE row
           r == IF row.state = "COOLDOWN" /\ row.wait <= -late
                THEN [u EXCEPT !.state = "AVAILABLE", !.wait = 0] ELSE u
<1>1. late \in Nat /\ MaxLate \in Nat /\ LeaseTime \in Nat /\ RetryTime \in Nat
      /\ row.left \in Int /\ row.wait \in Int
  BY NumbersHold DEF Numbers, SlotRows
<1>2. 0 \in (-MaxLate)..LeaseTime /\ 0 \in (-MaxLate)..RetryTime
  BY <1>1
<1>3. /\ u \in SlotRows /\ u.state = row.state
      /\ u.token # row.token => row.left <= 0 /\ u.token = NoCaller
  <2>1. CASE row.token # NoCaller /\ row.left <= -late
    <3>1. u = [row EXCEPT !.token = NoCaller, !.left = 0]
      BY <2>1
    <3>2. row.left <= 0
      BY <1>1, <2>1
    <3> HIDE DEF u
    <3> QED
      BY <1>2, <3>1, <3>2 DEF SlotRows
  <2>2. CASE ~(row.token # NoCaller /\ row.left <= -late)
    BY <2>2
  <2> QED
    BY <2>1, <2>2
<1>4. r = Reaped(row, late)
  BY DEF Reaped
<1>5. /\ r \in SlotRows /\ r.token = u.token
      /\ r.state = IF row.state = "COOLDOWN" /\ row.wait <= -late THEN "AVAILABLE" ELSE row.state
  <2>1. CASE row.state = "COOLDOWN" /\ row.wait <= -late
    <3>1. r = [u EXCEPT !.state = "AVAILABLE", !.wait = 0]
      BY <2>1
    <3> HIDE DEF u, r
    <3> QED
      BY <1>2, <1>3, <2>1, <3>1 DEF SlotRows
  <2>2. CASE ~(row.state = "COOLDOWN" /\ row.wait <= -late)
    <3>1. r = u
      BY <2>2
    <3> HIDE DEF u, r
    <3> QED
      BY <1>3, <2>2, <3>1
  <2> QED
    BY <2>1, <2>2
<1> HIDE DEF u, r
<1> QED
  BY <1>1, <1>3, <1>4, <1>5 DEF Dead, SlotRows

LEMMA NoCallTyped == NoCall \in CallRows /\ NoCall.pc = "idle"
  BY NumbersHold DEF Numbers, NoCall, CallRows, Outcomes

LEMMA InvInit == Init => Inv
<1> SUFFICES ASSUME Init PROVE Inv
  OBVIOUS
<1> USE NumbersHold DEF Numbers
<1>1. slots = [s \in Slots |-> FreshSlot] /\ FreshSlot \in SlotRows
      /\ FreshSlot.token = NoCaller
  BY DEF Init, FreshSlot, SlotRows
<1>2. windows \in [Slots \X Groups -> WindowRows]
  BY DEF Init, NoWindow, WindowRows
<1>3. NoCall \in CallRows /\ NoCall.pc = "idle" /\ calls = [c \in Callers |-> NoCall]
  BY NoCallTyped DEF Init
<1>4. pair \in [calls : 0..CallCeiling, reserved : 0..CreditCeiling, settled : Nat, ambiguous : Nat]
  BY DEF Init
<1>5. cursor \in [Callers -> Slots]
  BY DEF Init
<1>6. TypeOK
  BY <1>1, <1>2, <1>3, <1>4, <1>5 DEF TypeOK, SlotRows, WindowRows, CallRows
<1> QED
  BY <1>1, <1>3, <1>6 DEF Inv

---------------------------------------------------------------------------
(* The steps.                                                              *)

LEMMA EndedTyped ==
    ASSUME NEW call, NEW outcome \in Outcomes
    PROVE  Ended(call, outcome) \in CallRows /\ Ended(call, outcome).pc = "idle"
<1>1. NoCall \in CallRows /\ NoCall.pc = "idle"
  BY NoCallTyped
<1>2. Ended(call, outcome) = [NoCall EXCEPT !.outcome = outcome]
  BY DEF Ended
<1> QED
  BY <1>1, <1>2 DEF CallRows

LEMMA NextAttemptTyped ==
    ASSUME NEW call \in CallRows, NEW transient \in BOOLEAN
    PROVE  /\ NextAttempt(call, transient) \in CallRows
           /\ NextAttempt(call, transient).pc \in {"idle", "begun"}
<1>1. CASE call.attempt = AttemptCeiling
  <2>1. PICK outcome \in Outcomes : NextAttempt(call, transient) = Ended(call, outcome)
    BY <1>1 DEF NextAttempt, Outcomes
  <2> QED
    BY <2>1, EndedTyped
<1>2. CASE call.attempt # AttemptCeiling
  <2> DEFINE n == call.attempt + 1
  <2>1. n \in 0..AttemptCeiling /\ 0 \in Slots /\ 0 \in 0..MaxLate
    BY <1>2, NumbersHold DEF CallRows, Numbers
  <2>2. NextAttempt(call, transient)
          = [call EXCEPT !.pc = "begun", !.attempt = n, !.late = 0, !.slot = 0, !.transient = transient]
    BY <1>2 DEF NextAttempt
  <2> HIDE DEF n
  <2> QED
    BY <2>1, <2>2 DEF CallRows
<1> QED
  BY <1>1, <1>2

\* A step of a call that leaves the slots alone.
LEMMA QuietStep ==
    ASSUME Inv, NEW c \in Callers, NEW call \in CallRows, calls' = [calls EXCEPT ![c] = call],
           call.pc = "refused" => \A s \in Slots : Dead(slots[s]),
           pair' \in [calls : 0..CallCeiling, reserved : 0..CreditCeiling, settled : Nat, ambiguous : Nat],
           UNCHANGED <<slots, windows, cursor>>
    PROVE  Inv' /\ Kept
<1>1. /\ calls' \in [Callers -> CallRows] /\ calls'[c] = call
      /\ \A v \in Callers : v # c => calls'[v] = calls[v]
  BY Types DEF Inv
<1>2. TypeOK'
  BY <1>1 DEF Inv, TypeOK, CallRows
<1>3. Inv'
  BY <1>1, <1>2 DEF Inv
<1>4. Kept
  BY DEF Kept
<1> QED
  BY <1>3, <1>4

LEMMA BeginCallStep ==
    ASSUME Inv, NEW c \in Callers, NEW g \in Groups, NEW credits \in Reservations, BeginCall(c, g, credits)
    PROVE  Inv' /\ Kept
<1> DEFINE call == [NoCall EXCEPT !.pc = "begun", !.group = g, !.credits = credits, !.attempt = 1]
<1>1. call \in CallRows /\ call.pc = "begun"
  <2>1. NoCall \in CallRows /\ 1 \in 0..AttemptCeiling
    BY NoCallTyped, NumbersHold DEF Numbers
  <2> QED
    BY <2>1 DEF CallRows
<1>2. pair' \in [calls : 0..CallCeiling, reserved : 0..CreditCeiling, settled : Nat, ambiguous : Nat]
  <2> DEFINE n == pair.calls + 1
  <2>1. n \in 0..CallCeiling
    BY NumbersHold DEF Numbers, Inv, TypeOK, BeginCall
  <2>2. pair' = [pair EXCEPT !.calls = n]
    BY DEF BeginCall
  <2> HIDE DEF n
  <2> QED
    BY <2>1, <2>2 DEF Inv, TypeOK
<1>3. calls' = [calls EXCEPT ![c] = call] /\ UNCHANGED <<slots, windows, cursor>>
  BY DEF BeginCall
<1> HIDE DEF call
<1> QED
  BY <1>1, <1>2, <1>3, QuietStep

LEMMA ReadClockStep ==
    ASSUME Inv, NEW c \in Callers, ReadClock(c)
    PROVE  Inv' /\ Kept
<1> DEFINE call == [calls[c] EXCEPT !.pc = "timed"]
<1>1. call \in CallRows /\ call.pc = "timed"
  BY Types DEF Inv, CallRows
<1>2. calls' = [calls EXCEPT ![c] = call] /\ UNCHANGED <<slots, windows, cursor>>
  BY DEF ReadClock
<1>3. pair' \in [calls : 0..CallCeiling, reserved : 0..CreditCeiling, settled : Nat, ambiguous : Nat]
  BY DEF Inv, TypeOK, ReadClock
<1> HIDE DEF call
<1> QED
  BY <1>1, <1>2, <1>3, QuietStep

\* Nothing to lease and nothing to wait for: every key is used up.
LEMMA NothingStep ==
    ASSUME Inv, NEW c \in Callers, AcquireNothing(c)
    PROVE  Inv' /\ Kept
<1> DEFINE late == calls[c].late
           pool == ReapedPool(late)
           g == calls[c].group
<1>1. calls[c] \in CallRows /\ late \in 0..MaxLate
  BY Types DEF Inv, CallRows
<1>2. /\ \A t \in Slots : ~Leasable(pool, t, g, late)
      /\ UNCHANGED <<slots, windows, cursor, pair>>
  BY DEF AcquireNothing
<1>3. pair' \in [calls : 0..CallCeiling, reserved : 0..CreditCeiling, settled : Nat, ambiguous : Nat]
  BY <1>2 DEF Inv, TypeOK
<1>4. CASE NothingToWaitFor(pool, g)
  <2> DEFINE call == [calls[c] EXCEPT !.pc = "refused"]
  <2>1. call \in CallRows /\ call.pc = "refused"
    BY <1>1 DEF CallRows
  <2>2. calls' = [calls EXCEPT ![c] = call]
    BY <1>4 DEF AcquireNothing
  <2>3. ASSUME NEW s \in Slots PROVE Dead(slots[s])
    <3>1. pool[s] = Reaped(slots[s], late) /\ slots[s] \in SlotRows
      BY Types DEF ReapedPool, Inv
    <3>2. pool[s].state # "COOLDOWN" /\ pool[s].token = NoCaller /\ windows[<<s, g>>].count < Rpm
      BY <1>4 DEF NothingToWaitFor
    <3>3. pool[s].state # "AVAILABLE"
      BY <1>2, <3>2 DEF Leasable
    <3>4. Reaped(slots[s], late) \in SlotRows
      BY <1>1, <3>1, ReapedKeeps
    <3>5. Dead(Reaped(slots[s], late))
      BY <3>1, <3>2, <3>3, <3>4 DEF Dead, SlotRows
    <3> QED
      BY <1>1, <3>1, <3>5, ReapedKeeps
  <2> HIDE DEF call
  <2> QED
    BY <1>2, <1>3, <2>1, <2>2, <2>3, QuietStep
<1>5. CASE ~NothingToWaitFor(pool, g)
  <2> DEFINE call == [calls[c] EXCEPT !.pc = "deferred"]
  <2>1. call \in CallRows /\ call.pc = "deferred"
    BY <1>1 DEF CallRows
  <2>2. calls' = [calls EXCEPT ![c] = call]
    BY <1>5 DEF AcquireNothing
  <2> HIDE DEF call
  <2> QED
    BY <1>2, <1>3, <2>1, <2>2, QuietStep
<1> QED
  BY <1>4, <1>5

LEMMA EndStep ==
    ASSUME Inv, NEW c \in Callers, AcquireOverBudget(c) \/ CompletionRaises(c) \/ Crash(c)
    PROVE  Inv' /\ Kept
<1>1. PICK outcome \in Outcomes : calls' = [calls EXCEPT ![c] = Ended(calls[c], outcome)]
  BY DEF AcquireOverBudget, CompletionRaises, Crash, Outcomes
<1>2. Ended(calls[c], outcome) \in CallRows /\ Ended(calls[c], outcome).pc = "idle"
  BY EndedTyped
<1>3. UNCHANGED <<slots, windows, cursor, pair>>
  BY DEF AcquireOverBudget, CompletionRaises, Crash
<1>4. pair' \in [calls : 0..CallCeiling, reserved : 0..CreditCeiling, settled : Nat, ambiguous : Nat]
  BY <1>3 DEF Inv, TypeOK
<1> QED
  BY <1>1, <1>2, <1>3, <1>4, QuietStep

\* Round robin goes round: from wherever the run begins, every slot is looked at.
LEMMA RoundRobin ==
    ASSUME NEW a \in Slots, NEW b \in Slots, NEW t \in Slots
    PROVE  \E i \in Slots : (a + b + i) % SlotCount = t
<1> DEFINE n == SlotCount
           k == a + b
<1>1. n \in Nat \ {0} /\ k \in Nat /\ k <= 2 * n - 2 /\ t \in 0..(n - 1) /\ Slots = 0..(n - 1)
  BY NumbersHold DEF Numbers, Slots
<1> HIDE DEF n, k
<1>2. t % n = t /\ (t + n) % n = t /\ (t + n + n) % n = t
  BY <1>1
<1>3. \E i \in 0..(n - 1) : k + i \in {t, t + n, t + n + n}
  <2>1. CASE k <= t
    <3>1. t - k \in 0..(n - 1) /\ k + (t - k) = t
      BY <1>1, <2>1
    <3> QED
      BY <3>1
  <2>2. CASE t < k /\ k <= t + n
    <3>1. CASE k = t + n
      BY <1>1, <3>1
    <3>2. CASE k < t + n
      <4>1. t + n - k \in 0..(n - 1) /\ k + (t + n - k) = t + n
        BY <1>1, <2>2, <3>2
      <4> QED
        BY <4>1
    <3> QED
      BY <1>1, <2>2, <3>1, <3>2
  <2>3. CASE t + n < k
    <3>1. t + n + n - k \in 0..(n - 1) /\ k + (t + n + n - k) = t + n + n
      BY <1>1, <2>3
    <3> QED
      BY <3>1
  <2> QED
    BY <1>1, <2>1, <2>2, <2>3
<1>4. \E i \in Slots : (k + i) % n = t
  BY <1>1, <1>2, <1>3
<1> QED
  BY <1>4 DEF n, k

\* If a slot can be leased, the one that is selected can.
LEMMA SelectedIsLeasable ==
    ASSUME NEW pool, NEW c \in Callers, NEW group, NEW late, cursor[c] \in Slots,
           NEW t \in Slots, Leasable(pool, t, group, late)
    PROVE  /\ Selected(pool, c, group, late) \in Slots
           /\ Leasable(pool, Selected(pool, c, group, late), group, late)
<1> DEFINE slotAt(i) == (StartIndex[c] + cursor[c] + i) % SlotCount
           I == {i \in Slots : Leasable(pool, slotAt(i), group, late)}
<1>1. StartIndex[c] \in Slots /\ Slots \subseteq Nat
  BY NumbersHold DEF Numbers, Slots
<1>2. I # {}
  <2>1. PICK i \in Slots : (StartIndex[c] + cursor[c] + i) % SlotCount = t
    BY <1>1, RoundRobin
  <2>2. slotAt(i) = t
    BY <2>1
  <2> HIDE DEF slotAt
  <2> QED
    BY <2>2
<1>3. Min(I) \in I
  <2>1. I \subseteq Nat
    BY <1>1
  <2> HIDE DEF I
  <2> QED
    BY <1>2, <2>1, LeastNatural
<1>4. Selected(pool, c, group, late) = slotAt(Min(I))
  BY DEF Selected
<1>5. Min(I) \in Slots /\ Leasable(pool, slotAt(Min(I)), group, late)
  BY <1>3
<1>6. \A i \in Slots : StartIndex[c] + cursor[c] + i \in Nat
  BY <1>1
<1>7. slotAt(Min(I)) \in Slots
  BY <1>5, <1>6, ModInSlots
<1> QED
  BY <1>4, <1>5, <1>7

\* A reaped pool keeps what must be kept.
LEMMA PoolKeeps ==
    ASSUME Inv, NEW late \in 0..MaxLate, NEW pool, pool = ReapedPool(late)
    PROVE  /\ pool \in [Slots -> SlotRows]
           /\ \A s \in Slots :
                /\ Dead(slots[s]) => pool[s].state = slots[s].state
                /\ slots[s].state = "COOLDOWN" /\ slots[s].wait > 0 => pool[s].state = "COOLDOWN"
                /\ pool[s].token # slots[s].token => slots[s].left <= 0 /\ pool[s].token = NoCaller
                /\ pool[s].token # NoCaller => pool[s].state = "AVAILABLE"
<1>1. slots \in [Slots -> SlotRows]
  BY Types DEF Inv
<1>2. pool = [s \in Slots |-> Reaped(slots[s], late)]
  BY DEF ReapedPool
<1>3. ASSUME NEW s \in Slots
      PROVE  /\ pool[s] \in SlotRows
             /\ Dead(slots[s]) => pool[s].state = slots[s].state
             /\ slots[s].state = "COOLDOWN" /\ slots[s].wait > 0 => pool[s].state = "COOLDOWN"
             /\ pool[s].token # slots[s].token => slots[s].left <= 0 /\ pool[s].token = NoCaller
             /\ slots[s].state = "AVAILABLE" => pool[s].state = "AVAILABLE"
  BY <1>1, <1>2, ReapedKeeps
<1>4. pool \in [Slots -> SlotRows]
  BY <1>2, <1>3
<1>5. \A s \in Slots : slots[s].token # NoCaller => slots[s].state = "AVAILABLE"
  BY DEF Inv
<1> QED
  BY <1>3, <1>4, <1>5

LEMMA ProjectStep ==
    ASSUME Inv, NEW c \in Callers, ProjectPool(c)
    PROVE  Inv' /\ Kept
<1> DEFINE late == calls[c].late
           outcome == IF calls[c].pc = "deferred" THEN "temporarily_unavailable"
                      ELSE PoolOutcome(slots')
           call == Ended(calls[c], outcome)
<1>1. late \in 0..MaxLate /\ slots' = ReapedPool(late) /\ calls' = [calls EXCEPT ![c] = call]
      /\ UNCHANGED <<windows, cursor, pair>>
  BY Types DEF Inv, CallRows, ProjectPool
<1>2. call \in CallRows /\ call.pc = "idle"
  <2>1. outcome \in Outcomes
    BY DEF PoolOutcome, Outcomes
  <2> HIDE DEF outcome
  <2> QED
    BY <2>1, EndedTyped
<1> HIDE DEF call
<1>3. /\ calls' \in [Callers -> CallRows] /\ calls'[c] = call
      /\ \A v \in Callers : v # c => calls'[v] = calls[v]
  BY <1>1, <1>2, Types DEF Inv
<1>4. /\ slots' \in [Slots -> SlotRows]
      /\ \A s \in Slots :
                /\ Dead(slots[s]) => slots'[s].state = slots[s].state
                /\ slots[s].state = "COOLDOWN" /\ slots[s].wait > 0 => slots'[s].state = "COOLDOWN"
                /\ slots'[s].token # slots[s].token => slots[s].left <= 0 /\ slots'[s].token = NoCaller
                /\ slots'[s].token # NoCaller => slots'[s].state = "AVAILABLE"
  BY <1>1, PoolKeeps
<1>5. TypeOK'
  BY <1>1, <1>3, <1>4 DEF Inv, TypeOK, SlotRows, CallRows
<1>6. Inv'
  BY <1>2, <1>3, <1>4, <1>5 DEF Inv, Dead
<1>7. Kept
  BY <1>4 DEF Kept, Dead
<1> QED
  BY <1>6, <1>7

LEMMA AcquireStep ==
    ASSUME Inv, NEW c \in Callers, Acquire(c)
    PROVE  Inv' /\ Kept
<1> DEFINE late == calls[c].late
           pool == ReapedPool(late)
           g == calls[c].group
           s == Selected(pool, c, g, late)
           w == windows[<<s, g>>]
           row == [pool[s] EXCEPT !.token = c, !.left = LeaseTime - late]
           call == [calls[c] EXCEPT !.pc = "sent", !.slot = s]
<1>1. calls[c] \in CallRows /\ late \in 0..MaxLate /\ calls[c].pc = "timed"
  BY Types DEF Inv, CallRows, Acquire
<1>2. s \in Slots /\ Leasable(pool, s, g, late)
  <2>1. PICK t \in Slots : Leasable(pool, t, g, late)
    BY DEF Acquire
  <2>2. cursor[c] \in Slots
    BY Types DEF Inv
  <2> QED
    BY <2>1, <2>2, SelectedIsLeasable
<1>3. /\ pool \in [Slots -> SlotRows]
      /\ \A r \in Slots :
                /\ Dead(slots[r]) => pool[r].state = slots[r].state
                /\ slots[r].state = "COOLDOWN" /\ slots[r].wait > 0 => pool[r].state = "COOLDOWN"
                /\ pool[r].token # slots[r].token => slots[r].left <= 0 /\ pool[r].token = NoCaller
                /\ pool[r].token # NoCaller => pool[r].state = "AVAILABLE"
  BY <1>1, PoolKeeps
<1>4. pool[s].state = "AVAILABLE" /\ pool[s].token = NoCaller /\ (InWindow(w, late) => w.count < Rpm)
  BY <1>2 DEF Leasable
<1>5. slots' = [pool EXCEPT ![s] = row]
  BY DEF Acquire
<1>6. calls' = [calls EXCEPT ![c] = call]
  BY DEF Acquire
<1>7. windows' = [windows EXCEPT ![<<s, g>>] = IF InWindow(w, late) THEN [w EXCEPT !.count = @ + 1]
                                               ELSE [age |-> late, count |-> 1]]
  BY DEF Acquire
<1>8. cursor' = [cursor EXCEPT ![c] = (@ + 1) % SlotCount]
      /\ pair' = [pair EXCEPT !.reserved = @ + calls[c].credits]
      /\ pair.reserved + calls[c].credits <= CreditCeiling
  BY DEF Acquire
<1> HIDE DEF pool, s
<1>9. row \in SlotRows /\ row.state = "AVAILABLE" /\ row.token = c
  <2>1. LeaseTime - late \in (-MaxLate)..LeaseTime
    BY <1>1, NumbersHold DEF Numbers
  <2> QED
    BY <1>2, <1>3, <1>4, <2>1 DEF SlotRows
<1>10. call \in CallRows /\ call.pc = "sent"
  BY <1>1, <1>2 DEF CallRows
<1>11. windows' \in [Slots \X Groups -> WindowRows]
  <2> DEFINE new == IF InWindow(w, late) THEN [w EXCEPT !.count = @ + 1] ELSE [age |-> late, count |-> 1]
  <2>1. windows \in [Slots \X Groups -> WindowRows]
    BY Types DEF Inv
  <2>2. CASE <<s, g>> \in Slots \X Groups
    <3>1. w \in WindowRows
      BY <2>1, <2>2
    <3>2. new \in WindowRows
      <4> HIDE DEF w
      <4>1. CASE InWindow(w, late)
        <5>1. w.count + 1 \in 0..Rpm
          BY <1>4, <3>1, <4>1, NumbersHold DEF WindowRows, Numbers
        <5> QED
          BY <3>1, <4>1, <5>1 DEF WindowRows
      <4>2. CASE ~InWindow(w, late)
        <5>1. late \in 0..(Window + MaxLate) /\ 1 \in 0..Rpm
          BY <1>1, NumbersHold DEF Numbers
        <5> QED
          BY <4>2, <5>1 DEF WindowRows
      <4> QED
        BY <4>1, <4>2
    <3> HIDE DEF new
    <3> QED
      BY <1>7, <2>1, <3>2 DEF new
  <2>3. CASE <<s, g>> \notin Slots \X Groups
    BY <1>7, <2>1, <2>3
  <2> QED
    BY <2>2, <2>3
<1>12. cursor' \in [Callers -> Slots]
  <2>1. cursor \in [Callers -> Slots] /\ cursor[c] + 1 \in Nat
    BY Types, NumbersHold DEF Inv, Slots, Numbers
  <2>2. (cursor[c] + 1) % SlotCount \in Slots
    BY <2>1, ModInSlots
  <2> QED
    BY <1>8, <2>1, <2>2
<1>13. pair' \in [calls : 0..CallCeiling, reserved : 0..CreditCeiling, settled : Nat, ambiguous : Nat]
  <2> DEFINE n == pair.reserved + calls[c].credits
  <2>1. calls[c].credits \in Nat
    <3>1. calls[c].credits \in Reservations \cup {0}
      BY <1>1 DEF CallRows
    <3> QED
      BY <3>1, CreditsAreNatural
  <2>2. n \in 0..CreditCeiling
    <3>1. pair.reserved \in Nat /\ CreditCeiling \in Nat
      BY NumbersHold DEF Inv, TypeOK, Numbers
    <3>2. n <= CreditCeiling
      BY <1>8
    <3> DEFINE a == pair.reserved
               b == calls[c].credits
    <3> HIDE DEF a, b
    <3>3. n = a + b /\ a \in Nat /\ b \in Nat
      BY <2>1, <3>1 DEF a, b
    <3> HIDE DEF n
    <3> QED
      BY <3>1, <3>2, <3>3
  <2>3. pair' = [pair EXCEPT !.reserved = n]
    BY <1>8
  <2> HIDE DEF n
  <2> QED
    BY <2>2, <2>3 DEF Inv, TypeOK
<1> HIDE DEF row, call, late, g
<1>14. /\ slots' \in [Slots -> SlotRows] /\ slots'[s] = row
       /\ \A r \in Slots : r # s => slots'[r] = pool[r]
  BY <1>2, <1>3, <1>5, <1>9
<1>15. /\ calls' \in [Callers -> CallRows] /\ calls'[c] = call
       /\ \A v \in Callers : v # c => calls'[v] = calls[v]
  BY <1>6, <1>10, Types DEF Inv
<1>16. TypeOK'
  BY <1>11, <1>12, <1>13, <1>14, <1>15 DEF TypeOK, SlotRows, WindowRows, CallRows
<1>17. Inv'
  <2>1. \A r \in Slots : slots'[r].token # NoCaller => slots'[r].state = "AVAILABLE"
    BY <1>3, <1>9, <1>14
  <2>2. ASSUME NEW v \in Callers, calls'[v].pc = "refused", NEW r \in Slots PROVE Dead(slots'[r])
    <3>1. calls[v].pc = "refused" /\ Dead(slots[s])
      BY <1>2, <1>10, <1>15, <2>2 DEF Inv
    <3>2. pool[s].state = slots[s].state
      BY <1>2, <1>3, <3>1
    <3> QED
      BY <1>4, <3>1, <3>2 DEF Dead
  <2> QED
    BY <1>16, <2>1, <2>2 DEF Inv
<1>18. Kept
  <2> SUFFICES ASSUME NEW r \in Slots
               PROVE  /\ slots[r].state \in {"INVALID", "EXHAUSTED"} => slots'[r].state = slots[r].state
                      /\ slots[r].state = "COOLDOWN" /\ slots[r].wait > 0 => slots'[r].state = "COOLDOWN"
                      /\ \A v \in Callers : slots[r].token = v /\ slots'[r].token # v => slots[r].left <= 0
    BY DEF Kept
  <2>1. CASE r # s
    BY <1>3, <1>14, <2>1 DEF Dead
  <2>2. CASE r = s
    <3>1. ~Dead(slots[r]) /\ ~(slots[r].state = "COOLDOWN" /\ slots[r].wait > 0)
      BY <1>3, <1>4, <2>2 DEF Dead
    <3>2. \A v \in Callers : slots[r].token = v => slots[r].left <= 0
      BY <1>3, <1>4, <2>2, CallersAssumption
    <3> QED
      BY <3>1, <3>2 DEF Dead
  <2> QED
    BY <2>1, <2>2
<1> QED
  BY <1>17, <1>18

\* A completion: by the caller whose token the slot has, so the slot was available.
LEMMA CompleteStep ==
    ASSUME Inv, NEW c \in Callers, NEW state \in {"AVAILABLE", "COOLDOWN", "EXHAUSTED", "INVALID"},
           NEW wait \in (-MaxLate)..RetryTime, NEW proven \in BOOLEAN, NEW charge, NEW call \in CallRows,
           charge \in [calls : 0..CallCeiling, reserved : 0..CreditCeiling, settled : Nat, ambiguous : Nat],
           call.pc \in {"idle", "begun"},
           Complete(c, state, wait, proven, charge, call)
    PROVE  Inv' /\ Kept
<1> DEFINE s == calls[c].slot
           row == [state |-> state, token |-> NoCaller, left |-> 0, wait |-> wait,
                   proven |-> slots[s].proven \/ proven]
<1>1. s \in Slots /\ slots[s] \in SlotRows /\ slots[s].token = c /\ calls[c].pc = "sent"
  BY Types DEF Inv, CallRows, Complete, Holds
<1>2. slots[s].state = "AVAILABLE" /\ c # NoCaller
  BY <1>1, CallersAssumption DEF Inv
<1>3. slots' = [slots EXCEPT ![s] = row] /\ calls' = [calls EXCEPT ![c] = call] /\ pair' = charge
      /\ UNCHANGED <<windows, cursor>>
  BY DEF Complete, Released
<1>4. row \in SlotRows /\ row.token = NoCaller
  <2>1. 0 \in (-MaxLate)..LeaseTime /\ (slots[s].proven \/ proven) \in BOOLEAN
    BY NumbersHold DEF Numbers
  <2> QED
    BY <2>1 DEF SlotRows
<1> HIDE DEF s, row
<1>5. /\ slots' \in [Slots -> SlotRows] /\ slots'[s] = row
      /\ \A r \in Slots : r # s => slots'[r] = slots[r]
  BY <1>1, <1>3, <1>4, Types DEF Inv
<1>6. /\ calls' \in [Callers -> CallRows] /\ calls'[c] = call
      /\ \A v \in Callers : v # c => calls'[v] = calls[v]
  BY <1>3, Types DEF Inv
<1>7. TypeOK'
  BY <1>3, <1>5, <1>6 DEF Inv, TypeOK, SlotRows, CallRows
<1>8. \A v \in Callers : calls'[v].pc # "refused"
  BY <1>1, <1>2, <1>6 DEF Inv, Dead
<1>9. Inv'
  BY <1>4, <1>5, <1>7, <1>8 DEF Inv
<1>10. Kept
  BY <1>1, <1>2, <1>5, <1>6 DEF Kept
<1> QED
  BY <1>9, <1>10

\* What completes a call is typed, whatever the answer was.
LEMMA AmbiguousTyped ==
    ASSUME Inv, NEW c \in Callers
    PROVE  Ambiguous(c)
             \in [calls : 0..CallCeiling, reserved : 0..CreditCeiling, settled : Nat, ambiguous : Nat]
<1> DEFINE n == pair.ambiguous + calls[c].credits
<1>1. calls[c].credits \in Nat
  <2>1. calls[c].credits \in Reservations \cup {0}
    BY Types DEF Inv, CallRows
  <2> QED
    BY <2>1, CreditsAreNatural
<1>2. pair.ambiguous \in Nat
  BY DEF Inv, TypeOK
<1>3. n \in Nat
  BY <1>1, <1>2
<1>4. Ambiguous(c) = [pair EXCEPT !.ambiguous = n]
  BY DEF Ambiguous
<1> HIDE DEF n
<1> QED
  BY <1>3, <1>4 DEF Inv, TypeOK

LEMMA AnswerStep ==
    ASSUME Inv, NEW c \in Callers, NEW usage \in 0..MaxUsage,
           \/ TransientFailure(c) \/ RateLimited(c) \/ KeyRejected(c)
           \/ RequestRejected(c) \/ Success(c, usage)
    PROVE  Inv' /\ Kept
<1>1. 0 \in (-MaxLate)..RetryTime /\ RetryTime \in (-MaxLate)..RetryTime
  BY NumbersHold DEF Numbers
<1>2. calls[c] \in CallRows /\ calls[c].transient \in BOOLEAN
  BY Types DEF Inv, CallRows
<1>3. Ambiguous(c)
        \in [calls : 0..CallCeiling, reserved : 0..CreditCeiling, settled : Nat, ambiguous : Nat]
  BY AmbiguousTyped
<1>4. CASE TransientFailure(c) \/ RateLimited(c)
  <2>1. NextAttempt(calls[c], TRUE) \in CallRows
        /\ NextAttempt(calls[c], TRUE).pc \in {"idle", "begun"}
    BY <1>2, NextAttemptTyped
  <2>2. CASE TransientFailure(c)
    BY <1>1, <1>3, <2>1, <2>2, CompleteStep DEF TransientFailure
  <2>3. CASE RateLimited(c)
    BY <1>1, <1>3, <2>1, <2>3, CompleteStep DEF RateLimited
  <2> QED
    BY <1>4, <2>2, <2>3
<1>5. CASE KeyRejected(c)
  <2>1. NextAttempt(calls[c], calls[c].transient) \in CallRows
        /\ NextAttempt(calls[c], calls[c].transient).pc \in {"idle", "begun"}
    BY <1>2, NextAttemptTyped
  <2>2. PICK exhausted \in BOOLEAN :
          Complete(c, IF exhausted THEN "EXHAUSTED" ELSE "INVALID", 0, exhausted, Ambiguous(c),
                   NextAttempt(calls[c], calls[c].transient))
    BY <1>5 DEF KeyRejected
  <2>3. PICK state \in {"AVAILABLE", "COOLDOWN", "EXHAUSTED", "INVALID"} :
          Complete(c, state, 0, exhausted, Ambiguous(c), NextAttempt(calls[c], calls[c].transient))
    BY <2>2
  <2> QED
    BY <1>1, <1>3, <2>1, <2>3, CompleteStep
<1>6. CASE RequestRejected(c)
  <2>1. Ended(calls[c], "blocked") \in CallRows /\ Ended(calls[c], "blocked").pc = "idle"
    BY EndedTyped DEF Outcomes
  <2> QED
    BY <1>1, <1>3, <1>6, <2>1, CompleteStep DEF RequestRejected
<1>7. CASE Success(c, usage)
  <2>1. Ended(calls[c], "available") \in CallRows /\ Ended(calls[c], "available").pc = "idle"
    BY EndedTyped DEF Outcomes
  <2> DEFINE n == pair.settled + usage
             charge == [pair EXCEPT !.settled = n]
  <2>2. n \in Nat
    BY NumbersHold DEF Inv, TypeOK, Numbers
  <2>3. charge \in [calls : 0..CallCeiling, reserved : 0..CreditCeiling, settled : Nat, ambiguous : Nat]
    <3> HIDE DEF n
    <3> QED
      BY <2>2 DEF Inv, TypeOK
  <2>4. Complete(c, "AVAILABLE", 0, FALSE, charge, Ended(calls[c], "available"))
    BY <1>7 DEF Success
  <2> HIDE DEF charge
  <2> QED
    BY <1>1, <2>1, <2>3, <2>4, CompleteStep
<1> QED
  BY <1>4, <1>5, <1>6, <1>7

\* Time only makes leases and cooldowns run out: it ends none.
LEMMA TickStep ==
    ASSUME Inv, Tick
    PROVE  Inv' /\ Kept
<1>1. ASSUME NEW s \in Slots
      PROVE  slots'[s] \in SlotRows /\ slots'[s].state = slots[s].state
             /\ slots'[s].token = slots[s].token
  <2> DEFINE row == slots[s]
             left == IF row.token = NoCaller THEN 0 ELSE Later(row.left)
             wait == IF row.state = "COOLDOWN" THEN Later(row.wait) ELSE 0
  <2>1. row \in SlotRows
    BY Types DEF Inv
  <2>2. slots'[s] = [row EXCEPT !.left = left, !.wait = wait]
    BY DEF Tick
  <2>3. ASSUME NEW high \in Nat, NEW n \in (-MaxLate)..high
        PROVE  Later(n) \in (-MaxLate)..high
    <3>1. n - 1 \in Int /\ -MaxLate \in Int /\ n <= high /\ -MaxLate <= high
      BY NumbersHold DEF Numbers
    <3>2. /\ Later(n) \in {n - 1, -MaxLate} /\ Later(n) >= -MaxLate
      BY <3>1, LargerIs DEF Later
    <3> QED
      BY <3>1, <3>2
  <2>4. left \in (-MaxLate)..LeaseTime
    <3>1. LeaseTime \in Nat /\ 0 \in (-MaxLate)..LeaseTime /\ row.left \in (-MaxLate)..LeaseTime
      BY <2>1, NumbersHold DEF SlotRows, Numbers
    <3>2. Later(row.left) \in (-MaxLate)..LeaseTime
      BY <2>3, <3>1
    <3> QED
      BY <3>1, <3>2
  <2>5. wait \in (-MaxLate)..RetryTime
    <3>1. RetryTime \in Nat /\ 0 \in (-MaxLate)..RetryTime /\ row.wait \in (-MaxLate)..RetryTime
      BY <2>1, NumbersHold DEF SlotRows, Numbers
    <3>2. Later(row.wait) \in (-MaxLate)..RetryTime
      BY <2>3, <3>1
    <3> QED
      BY <3>1, <3>2
  <2> HIDE DEF row, left, wait
  <2>6. slots'[s] \in SlotRows /\ slots'[s].state = row.state /\ slots'[s].token = row.token
    BY <2>1, <2>2, <2>4, <2>5 DEF SlotRows
  <2> QED
    BY <2>6 DEF row
<1>2. slots' \in [Slots -> SlotRows]
  <2>1. slots' = [s \in Slots |-> slots'[s]]
    BY DEF Tick
  <2> QED
    BY <1>1, <2>1
<1>3. windows' \in [Slots \X Groups -> WindowRows]
  <2>1. windows \in [Slots \X Groups -> WindowRows]
    BY Types DEF Inv
  <2>2. ASSUME NEW w \in Slots \X Groups
        PROVE  [windows[w] EXCEPT !.age = Min({@ + 1, Window + MaxLate})] \in WindowRows
    <3> DEFINE n == Min({windows[w].age + 1, Window + MaxLate})
    <3>1. windows[w] \in WindowRows
      BY <2>1
    <3>2. windows[w].age + 1 \in Nat /\ Window + MaxLate \in Nat
      BY <3>1, NumbersHold DEF WindowRows, Numbers
    <3>3. n \in 0..(Window + MaxLate)
      <4> DEFINE a == windows[w].age + 1
                 b == Window + MaxLate
      <4> HIDE DEF a, b
      <4>1. a \in Nat /\ b \in Nat
        BY <3>2 DEF a, b
      <4>2. Min({a, b}) \in {a, b} /\ Min({a, b}) <= b
        BY <4>1, SmallerIs
      <4>3. Min({a, b}) \in 0..b
        BY <4>1, <4>2
      <4> QED
        BY <4>3 DEF a, b
    <3> HIDE DEF n
    <3>4. [windows[w] EXCEPT !.age = n] \in WindowRows
      BY <3>1, <3>3 DEF WindowRows
    <3> QED
      BY <3>4 DEF n
  <2> QED
    BY <2>1, <2>2 DEF Tick
<1>4. ASSUME NEW c \in Callers PROVE calls'[c] \in CallRows /\ calls'[c].pc = calls[c].pc
  <2>1. calls[c] \in CallRows
    BY Types DEF Inv
  <2>2. CASE HoldsReading(c)
    <3> DEFINE n == calls[c].late + 1
    <3>1. n \in 0..MaxLate
      <4>1. calls[c].late \in 0..MaxLate /\ MaxLate \in Nat
        BY <2>1, NumbersHold DEF CallRows, Numbers
      <4>2. calls[c].late < MaxLate
        BY <2>2 DEF Tick
      <4> QED
        BY <4>1, <4>2
    <3>2. calls'[c] = [calls[c] EXCEPT !.late = n]
      BY <2>2 DEF Tick
    <3> HIDE DEF n
    <3> QED
      BY <2>1, <3>1, <3>2 DEF CallRows
  <2>3. CASE ~HoldsReading(c)
    BY <2>1, <2>3 DEF Tick
  <2> QED
    BY <2>2, <2>3
<1>5. calls' \in [Callers -> CallRows]
  <2>1. calls' = [c \in Callers |-> calls'[c]]
    BY DEF Tick
  <2> QED
    BY <1>4, <2>1
<1>6. UNCHANGED <<cursor, pair>>
  BY DEF Tick
<1>7. TypeOK'
  BY <1>2, <1>3, <1>5, <1>6 DEF Inv, TypeOK, SlotRows, WindowRows, CallRows
<1>8. Inv'
  BY <1>1, <1>4, <1>7 DEF Inv, Dead
<1>9. Kept
  BY <1>1 DEF Kept
<1> QED
  BY <1>8, <1>9

LEMMA NextStep == Inv /\ [Next]_vars => Inv' /\ [Kept]_vars
<1> SUFFICES ASSUME Inv, [Next]_vars PROVE Inv' /\ [Kept]_vars
  OBVIOUS
<1>1. CASE UNCHANGED vars
  BY <1>1 DEF vars, Inv, TypeOK, Dead
<1>2. CASE Tick
  BY <1>2, TickStep
<1>3. ASSUME NEW c \in Callers, NEW g \in Groups, NEW credits \in Reservations, BeginCall(c, g, credits)
      PROVE  Inv' /\ Kept
  BY <1>3, BeginCallStep
<1>4. ASSUME NEW c \in Callers,
             \/ ReadClock(c) \/ Acquire(c) \/ AcquireOverBudget(c) \/ AcquireNothing(c)
             \/ ProjectPool(c) \/ CompletionRaises(c) \/ Crash(c)
      PROVE  Inv' /\ Kept
  BY <1>4, ReadClockStep, AcquireStep, NothingStep, ProjectStep, EndStep
<1>5. ASSUME NEW c \in Callers, NEW usage \in 0..MaxUsage,
             \/ TransientFailure(c) \/ RateLimited(c) \/ KeyRejected(c)
             \/ RequestRejected(c) \/ Success(c, usage)
      PROVE  Inv' /\ Kept
  BY <1>5, AnswerStep
<1>6. 0 \in 0..MaxUsage
  BY NumbersHold DEF Numbers
<1> QED
  BY <1>1, <1>2, <1>3, <1>4, <1>5, <1>6 DEF Next

-----------------------------------------------------------------------------
(* Sums over finite sets.  The community module defines one by recursion on *)
(* its set; the facts below are shown by induction on the cardinality, with *)
(* the members of a set of natural numbers for the cases.                   *)

\* Induction over a set of naturals.
LEMMA SetInduction ==
    ASSUME NEW T, 0 \in T, \A n \in Nat : n \in T => n + 1 \in T
    PROVE  Nat \subseteq T
<1> DEFINE Q == {n \in Nat : n \notin T}
           R == {ss \in Nat \X Nat : ss[1] < ss[2]}
<1>1. IsWellFoundedOn(R, Nat)
  BY NatLessThanWellFounded DEF OpToRel
<1> SUFFICES ASSUME Q # {} PROVE FALSE
  OBVIOUS
<1>2. PICK x \in Q : \A y \in Q : ~(<<y, x>> \in R)
  <2> HIDE DEF R
  <2> QED
    BY <1>1, WFMin
<1>3. x \in Nat /\ x # 0 /\ x - 1 \in Nat
  OBVIOUS
<1>4. x - 1 \in Q
  <2>1. x - 1 \in T => (x - 1) + 1 \in T
    BY <1>3
  <2>2. (x - 1) + 1 = x
    BY <1>3
  <2> QED
    BY <2>1, <2>2, <1>3
<1>5. <<x - 1, x>> \in R
  BY <1>3
<1> QED
  BY <1>2, <1>4, <1>5

Pick(s) == CHOOSE x \in s : TRUE
Sum(g, f, s) == IF s = {} THEN 0 ELSE f[Pick(s)] + g[s \ {Pick(s)}]

\* g sums f over the subsets of S.
Sums(g, f, S) == \A s \in SUBSET S : g[s] = Sum(g, f, s)

LEMMA SumsExist ==
    ASSUME NEW S, IsFiniteSet(S), NEW f, \A x \in S : f[x] \in Nat
    PROVE  \E g \in [SUBSET S -> Nat] : Sums(g, f, S)
<1> DEFINE T == {n \in Nat : \E h \in [SUBSET S -> Nat] : \A s \in SUBSET S :
                               Cardinality(s) <= n => h[s] = Sum(h, f, s)}
<1>0. ASSUME NEW s \in SUBSET S
      PROVE  /\ IsFiniteSet(s) /\ Cardinality(s) \in Nat /\ Cardinality(s) <= Cardinality(S)
             /\ s = {} <=> Cardinality(s) = 0
             /\ s # {} => Pick(s) \in s /\ Cardinality(s \ {Pick(s)}) = Cardinality(s) - 1
  <2>1. IsFiniteSet(s) /\ Cardinality(s) <= Cardinality(S)
    BY FS_Subset
  <2>2. Cardinality(s) \in Nat /\ (Cardinality(s) = 0 <=> s = {})
    BY <2>1, FS_CardinalityType, FS_EmptySet
  <2>3. ASSUME s # {} PROVE Pick(s) \in s /\ Cardinality(s \ {Pick(s)}) = Cardinality(s) - 1
    <3>1. Pick(s) \in s
      BY <2>3 DEF Pick
    <3> QED
      BY <2>1, <3>1, FS_RemoveElement
  <2> QED
    BY <2>1, <2>2, <2>3
<1>1. 0 \in T
  <2> DEFINE h == [s \in SUBSET S |-> 0]
  <2>1. h \in [SUBSET S -> Nat]
    OBVIOUS
  <2>2. ASSUME NEW s \in SUBSET S, Cardinality(s) <= 0 PROVE h[s] = Sum(h, f, s)
    <3>0. Cardinality(s) \in Nat /\ (s = {} <=> Cardinality(s) = 0)
      BY <1>0
    <3>1. s = {}
      BY <2>2, <3>0
    <3> QED
      BY <3>1 DEF Sum
  <2> QED
    BY <2>1, <2>2
<1>2. ASSUME NEW n \in Nat, n \in T PROVE n + 1 \in T
  <2>1. PICK h \in [SUBSET S -> Nat] : \A s \in SUBSET S : Cardinality(s) <= n => h[s] = Sum(h, f, s)
    BY <1>2
  <2> DEFINE k == [s \in SUBSET S |-> Sum(h, f, s)]
  <2>2. k \in [SUBSET S -> Nat]
    <3> SUFFICES ASSUME NEW s \in SUBSET S PROVE Sum(h, f, s) \in Nat
      OBVIOUS
    <3>1. CASE s = {}
      BY <3>1 DEF Sum
    <3>2. CASE s # {}
      <4>1. f[Pick(s)] \in Nat /\ h[s \ {Pick(s)}] \in Nat
        BY <1>0, <3>2
      <4> QED
        BY <3>2, <4>1 DEF Sum
    <3> QED
      BY <3>1, <3>2
  <2>3. ASSUME NEW s \in SUBSET S, Cardinality(s) <= n + 1 PROVE k[s] = Sum(k, f, s)
    <3>1. k[s] = Sum(h, f, s)
      OBVIOUS
    <3>2. CASE s = {}
      BY <3>1, <3>2 DEF Sum
    <3>3. CASE s # {}
      <4> DEFINE r == s \ {Pick(s)}
      <4>1. r \in SUBSET S /\ Cardinality(r) <= n
        BY <1>0, <2>3, <3>3
      <4>2. h[r] = k[r]
        BY <2>1, <4>1
      <4> QED
        BY <3>1, <3>3, <4>2 DEF Sum
    <3> QED
      BY <3>2, <3>3
  <2> HIDE DEF k
  <2> QED
    BY <2>2, <2>3
<1>3. Nat \subseteq T
  <2> HIDE DEF T
  <2> QED
    BY <1>1, <1>2, SetInduction
<1>4. Cardinality(S) \in T
  <2> HIDE DEF T
  <2> QED
    BY <1>0, <1>3
<1>5. PICK h \in [SUBSET S -> Nat] : \A s \in SUBSET S : Cardinality(s) <= Cardinality(S) => h[s] = Sum(h, f, s)
  BY <1>4
<1> QED
  BY <1>0, <1>5 DEF Sums

\* Sums of functions that agree are the same, whatever sets they are taken in.
LEMMA SumsAgree ==
    ASSUME NEW A, IsFiniteSet(A), NEW B, NEW C, A \subseteq B, A \subseteq C,
           NEW f, NEW g, \A x \in A : f[x] = g[x],
           NEW F, Sums(F, f, B), NEW G, Sums(G, g, C)
    PROVE  F[A] = G[A]
<1> DEFINE T == {n \in Nat : \A s \in SUBSET A : Cardinality(s) <= n => F[s] = G[s]}
<1>0. ASSUME NEW s \in SUBSET A
      PROVE  /\ s \in SUBSET B /\ s \in SUBSET C
             /\ IsFiniteSet(s) /\ Cardinality(s) \in Nat
             /\ s = {} <=> Cardinality(s) = 0
             /\ s # {} => Pick(s) \in s /\ Cardinality(s \ {Pick(s)}) = Cardinality(s) - 1
  <2>1. IsFiniteSet(s)
    BY FS_Subset
  <2>2. Cardinality(s) \in Nat /\ (Cardinality(s) = 0 <=> s = {})
    BY <2>1, FS_CardinalityType, FS_EmptySet
  <2>3. ASSUME s # {} PROVE Pick(s) \in s /\ Cardinality(s \ {Pick(s)}) = Cardinality(s) - 1
    <3>1. Pick(s) \in s
      BY <2>3 DEF Pick
    <3> QED
      BY <2>1, <3>1, FS_RemoveElement
  <2> QED
    BY <2>1, <2>2, <2>3
<1>1. 0 \in T
  <2> SUFFICES ASSUME NEW s \in SUBSET A, Cardinality(s) <= 0 PROVE F[s] = G[s]
    OBVIOUS
  <2>0. Cardinality(s) \in Nat /\ (s = {} <=> Cardinality(s) = 0)
    BY <1>0
  <2>1. s = {} /\ s \in SUBSET B /\ s \in SUBSET C
    BY <2>0
  <2> QED
    BY <2>1 DEF Sums, Sum
<1>2. ASSUME NEW n \in Nat, n \in T PROVE n + 1 \in T
  <2> SUFFICES ASSUME NEW s \in SUBSET A, Cardinality(s) <= n + 1 PROVE F[s] = G[s]
    OBVIOUS
  <2>1. s \in SUBSET B /\ s \in SUBSET C
    BY <1>0
  <2>2. F[s] = Sum(F, f, s) /\ G[s] = Sum(G, g, s)
    BY <2>1 DEF Sums
  <2>3. CASE s = {}
    BY <2>2, <2>3 DEF Sum
  <2>4. CASE s # {}
    <3> DEFINE r == s \ {Pick(s)}
    <3>1. r \in SUBSET A /\ Cardinality(r) <= n /\ Pick(s) \in A
      BY <1>0, <2>4
    <3>2. F[r] = G[r]
      BY <1>2, <3>1
    <3>3. f[Pick(s)] = g[Pick(s)]
      BY <3>1
    <3> QED
      BY <2>2, <2>4, <3>2, <3>3 DEF Sum
  <2> QED
    BY <2>3, <2>4
<1>3. Nat \subseteq T
  <2> HIDE DEF T
  <2> QED
    BY <1>1, <1>2, SetInduction
<1>4. Cardinality(A) \in T /\ A \in SUBSET A
  <2> HIDE DEF T
  <2> QED
    BY <1>0, <1>3
<1> QED
  BY <1>0, <1>4

\* Each member of S adds what f gives it.
Splits(g, f, S) == \A z \in S : g[S] = f[z] + g[S \ {z}]

\* The order in which a sum is taken does not matter.
LEMMA SumsSplit ==
    ASSUME NEW S, IsFiniteSet(S), NEW f, \A v \in S : f[v] \in Nat,
           NEW F \in [SUBSET S -> Nat], Sums(F, f, S)
    PROVE  Splits(F, f, S)
<1> DEFINE T == {n \in Nat : \A s \in SUBSET S : Cardinality(s) <= n =>
                               \A x \in s : F[s] = f[x] + F[s \ {x}]}
<1>0. ASSUME NEW s \in SUBSET S
      PROVE  /\ IsFiniteSet(s) /\ Cardinality(s) \in Nat /\ Cardinality(s) <= Cardinality(S)
             /\ s = {} <=> Cardinality(s) = 0
             /\ F[s] \in Nat
             /\ s # {} => Pick(s) \in s
             /\ \A x \in s : Cardinality(s \ {x}) = Cardinality(s) - 1
  <2>1. IsFiniteSet(s) /\ Cardinality(s) <= Cardinality(S)
    BY FS_Subset
  <2>2. Cardinality(s) \in Nat /\ (Cardinality(s) = 0 <=> s = {})
    BY <2>1, FS_CardinalityType, FS_EmptySet
  <2>3. \A x \in s : Cardinality(s \ {x}) = Cardinality(s) - 1
    BY <2>1, FS_RemoveElement
  <2>4. F[s] \in Nat
    OBVIOUS
  <2> QED
    BY <2>1, <2>2, <2>3, <2>4 DEF Pick
<1>1. 0 \in T
  BY <1>0
<1>2. ASSUME NEW n \in Nat, n \in T PROVE n + 1 \in T
  <2> SUFFICES ASSUME NEW s \in SUBSET S, Cardinality(s) <= n + 1, NEW z \in s
               PROVE  F[s] = f[z] + F[s \ {z}]
    OBVIOUS
  <2> DEFINE y == Pick(s)
  <2>1. y \in s /\ y \in S /\ z \in S
    BY <1>0
  <2>2. F[s] = f[y] + F[s \ {y}]
    BY DEF Sums, Sum
  <2> HIDE DEF y
  <2>3. CASE z = y
    BY <2>2, <2>3
  <2>4. CASE z # y
    <3> DEFINE rz == s \ {z}
               ry == s \ {y}
               r == s \ {z, y}
    <3>1. rz \in SUBSET S /\ ry \in SUBSET S /\ r \in SUBSET S /\ r = rz \ {y} /\ r = ry \ {z}
      OBVIOUS
    <3>2. Cardinality(rz) <= n /\ Cardinality(ry) <= n
      BY <1>0, <2>1
    <3>3. y \in rz /\ z \in ry
      BY <2>1, <2>4
    <3> HIDE DEF rz, ry, r
    <3>4. F[rz] = f[y] + F[r]
      BY <1>2, <3>1, <3>2, <3>3
    <3>5. F[ry] = f[z] + F[r]
      BY <1>2, <3>1, <3>2, <3>3
    <3>6. f[z] \in Nat /\ f[y] \in Nat /\ F[r] \in Nat
      BY <1>0, <2>1, <3>1
    <3>7. F[s] = f[y] + F[ry]
      BY <2>2 DEF ry
    <3>8. F[s] = f[z] + F[rz]
      BY <3>4, <3>5, <3>6, <3>7
    <3> QED
      BY <3>8 DEF rz
  <2> QED
    BY <2>3, <2>4
<1>3. Nat \subseteq T
  <2> HIDE DEF T
  <2> QED
    BY <1>1, <1>2, SetInduction
<1>4. Cardinality(S) \in T
  <2> HIDE DEF T
  <2> QED
    BY <1>0, <1>3
<1> QED
  BY <1>0, <1>4 DEF Splits

\* What the recursive definition defines.
LEMMA TotalSums ==
    ASSUME NEW S, IsFiniteSet(S), NEW f, \A x \in S : f[x] \in Nat
    PROVE  \E g \in [SUBSET S -> Nat] : Sums(g, f, S) /\ Total(f, S) = g[S]
<1> DEFINE P(g) == g = [s \in SUBSET S |-> IF s = {} THEN 0 ELSE f[Pick(s)] + g[s \ {Pick(s)}]]
           G == CHOOSE g : P(g)
<1>1. Total(f, S) = G[S]
  BY DEF Total, MapThenSumSet, MapThenFoldSet, Pick
<1>2. PICK g \in [SUBSET S -> Nat] : Sums(g, f, S)
  BY SumsExist
<1>3. P(g)
  <2>1. \A s \in SUBSET S : g[s] = IF s = {} THEN 0 ELSE f[Pick(s)] + g[s \ {Pick(s)}]
    BY <1>2 DEF Sums, Sum
  <2>2. g = [s \in SUBSET S |-> g[s]]
    BY <1>2 DEF Sums
  <2> QED
    BY <2>1, <2>2
<1>4. P(G)
  <2> HIDE DEF P
  <2> QED
    BY <1>3
<1>5. Sums(G, f, S)
  <2> HIDE DEF G
  <2> QED
    BY <1>4 DEF Sum, Sums
<1>6. G[S] = g[S]
  <2> HIDE DEF G
  <2> QED
    BY <1>2, <1>5, SumsAgree
<1> QED
  BY <1>1, <1>2, <1>6

LEMMA TotalIsNatural ==
    ASSUME NEW S, IsFiniteSet(S), NEW f, \A x \in S : f[x] \in Nat
    PROVE  Total(f, S) \in Nat
<1>1. PICK g \in [SUBSET S -> Nat] : Sums(g, f, S) /\ Total(f, S) = g[S]
  BY TotalSums
<1> QED
  BY <1>1

\* What one member adds.
LEMMA TotalWithout ==
    ASSUME NEW S, IsFiniteSet(S), NEW f, \A x \in S : f[x] \in Nat, NEW x \in S
    PROVE  Total(f, S) = f[x] + Total(f, S \ {x})
<1> DEFINE R == S \ {x}
<1>1. IsFiniteSet(R) /\ R \subseteq S /\ R \in SUBSET S
  BY FS_Subset
<1>2. PICK g \in [SUBSET S -> Nat] : Sums(g, f, S) /\ Total(f, S) = g[S]
  BY TotalSums
<1>3. PICK h \in [SUBSET R -> Nat] : Sums(h, f, R) /\ Total(f, R) = h[R]
  BY <1>1, TotalSums
<1>4. h[R] = g[R]
  <2> HIDE DEF R
  <2> QED
    BY <1>1, <1>2, <1>3, SumsAgree
<1>5. g \in [SUBSET S -> Nat] /\ Sums(g, f, S)
  BY <1>2
<1>6. Splits(g, f, S)
  BY <1>5, SumsSplit
<1>7. g[S] = f[x] + g[R]
  BY <1>6 DEF Splits
<1> QED
  BY <1>2, <1>3, <1>4, <1>7

LEMMA TotalOfSame ==
    ASSUME NEW S, IsFiniteSet(S), NEW f, NEW g, \A x \in S : f[x] \in Nat /\ f[x] = g[x]
    PROVE  Total(f, S) = Total(g, S)
<1>1. PICK h \in [SUBSET S -> Nat] : Sums(h, f, S) /\ Total(f, S) = h[S]
  BY TotalSums
<1>2. PICK k \in [SUBSET S -> Nat] : Sums(k, g, S) /\ Total(g, S) = k[S]
  BY TotalSums
<1>3. h[S] = k[S]
  BY <1>1, <1>2, SumsAgree
<1> QED
  BY <1>1, <1>2, <1>3

-----------------------------------------------------------------------------
(* The account.  Every step moves the credits of at most one call, so the   *)
(* rest of the sum stays what it was.                                       *)

Account == pair.ambiguous + Total(Credits, InFlight) <= pair.reserved

\* The credits of the calls k, and those in flight.
CreditsOf(k) == [c \in Callers |-> k[c].credits]
FlightOf(k) == {c \in Callers : k[c].pc = "sent"}

\* What the request of a call may still cost.
Due(call) == IF call.pc = "sent" THEN call.credits ELSE 0

LEMMA CreditsTyped ==
    ASSUME NEW k \in [Callers -> CallRows]
    PROVE  /\ \A c \in Callers : CreditsOf(k)[c] = k[c].credits /\ CreditsOf(k)[c] \in Nat
           /\ FlightOf(k) \subseteq Callers
           /\ \A S \in SUBSET Callers : IsFiniteSet(S)
<1>1. ASSUME NEW c \in Callers PROVE CreditsOf(k)[c] = k[c].credits /\ CreditsOf(k)[c] \in Nat
  <2>1. k[c].credits \in Reservations \cup {0}
    BY DEF CallRows
  <2> QED
    BY <2>1, CreditsAreNatural DEF CreditsOf
<1>2. FlightOf(k) \subseteq Callers
  BY DEF FlightOf
<1>3. ASSUME NEW S \in SUBSET Callers PROVE IsFiniteSet(S)
  BY CallersAssumption, FS_Subset
<1> QED
  BY <1>1, <1>2, <1>3

LEMMA SumWithout ==
    ASSUME NEW k \in [Callers -> CallRows], NEW c \in Callers
    PROVE  /\ Total(CreditsOf(k), FlightOf(k)) = Due(k[c]) + Total(CreditsOf(k), FlightOf(k) \ {c})
           /\ Total(CreditsOf(k), FlightOf(k) \ {c}) \in Nat /\ Due(k[c]) \in Nat
<1> DEFINE F == CreditsOf(k)
           S == FlightOf(k)
           R == S \ {c}
<1>1. /\ \A v \in S : F[v] \in Nat
      /\ \A v \in R : F[v] \in Nat
      /\ IsFiniteSet(S) /\ IsFiniteSet(R)
      /\ F[c] = k[c].credits /\ F[c] \in Nat
  BY CreditsTyped
<1> HIDE DEF F
<1>2. Total(F, R) \in Nat
  <2> HIDE DEF R
  <2> QED
    BY <1>1, TotalIsNatural
<1>3. CASE k[c].pc = "sent"
  <2>1. c \in S
    BY <1>3 DEF FlightOf
  <2>2. Total(F, S) = F[c] + Total(F, R)
    <3> HIDE DEF S
    <3> QED
      BY <1>1, <2>1, TotalWithout
  <2> QED
    BY <1>1, <1>2, <1>3, <2>2 DEF Due, F
<1>4. CASE k[c].pc # "sent"
  <2>1. R = S
    BY <1>4 DEF FlightOf
  <2>2. Due(k[c]) = 0
    BY <1>4 DEF Due
  <2> QED
    BY <1>2, <2>1, <2>2 DEF F
<1> QED
  BY <1>3, <1>4

\* The rest of the sum is not affected by what c does.
LEMMA RestIsSame ==
    ASSUME NEW k \in [Callers -> CallRows], NEW n \in [Callers -> CallRows], NEW c,
           \A v \in Callers : v # c => n[v] = k[v]
    PROVE  Total(CreditsOf(n), FlightOf(n) \ {c}) = Total(CreditsOf(k), FlightOf(k) \ {c})
<1> DEFINE R == FlightOf(k) \ {c}
<1>1. FlightOf(n) \ {c} = R
  BY DEF FlightOf
<1>2. IsFiniteSet(R) /\ \A v \in R : v \in Callers /\ v # c
  BY CreditsTyped DEF FlightOf
<1> HIDE DEF R
<1>3. ASSUME NEW v \in R
      PROVE  CreditsOf(k)[v] \in Nat /\ CreditsOf(k)[v] = CreditsOf(n)[v]
  <2>1. v \in Callers /\ n[v] = k[v]
    BY <1>2
  <2> QED
    BY <2>1, CreditsTyped
<1>4. Total(CreditsOf(k), R) = Total(CreditsOf(n), R)
  BY <1>2, <1>3, TotalOfSame
<1> QED
  BY <1>1, <1>4 DEF R

LEMMA OneCall ==
    ASSUME TypeOK, TypeOK', Account, NEW c \in Callers,
           \A v \in Callers : v # c => calls'[v] = calls[v],
           NEW gain \in Nat, pair'.reserved = pair.reserved + gain,
           pair'.ambiguous + Due(calls'[c]) <= pair.ambiguous + Due(calls[c]) + gain
    PROVE  Account'
<1> DEFINE rest == Total(CreditsOf(calls), FlightOf(calls) \ {c})
           after == Total(CreditsOf(calls'), FlightOf(calls') \ {c})
           due == Due(calls[c])
           dueAfter == Due(calls'[c])
<1>0. calls \in [Callers -> CallRows] /\ calls' \in [Callers -> CallRows]
  BY DEF TypeOK, CallRows
<1>1. Total(CreditsOf(calls), FlightOf(calls)) = due + rest /\ rest \in Nat /\ due \in Nat
  BY <1>0, SumWithout
<1>2. Total(CreditsOf(calls'), FlightOf(calls')) = dueAfter + after /\ after \in Nat /\ dueAfter \in Nat
  BY <1>0, SumWithout
<1>3. after = rest
  BY <1>0, RestIsSame
<1>4. /\ pair.ambiguous \in Nat /\ pair.reserved \in Nat
      /\ pair'.ambiguous \in Nat /\ pair'.reserved \in Nat
  BY NumbersHold DEF TypeOK, Numbers
<1>5. pair'.ambiguous + dueAfter <= pair.ambiguous + due + gain
  OBVIOUS
<1> HIDE DEF rest, after, due, dueAfter
<1>6. pair.ambiguous + (due + rest) <= pair.reserved
  BY <1>1 DEF Account, Credits, InFlight, CreditsOf, FlightOf
<1>7. pair'.ambiguous + (dueAfter + after) <= pair'.reserved
  BY <1>1, <1>2, <1>3, <1>4, <1>5, <1>6
<1> QED
  BY <1>2, <1>7 DEF Account, Credits, InFlight, CreditsOf, FlightOf

\* Every step but a lease leaves its call without a request in flight and reserves
\* nothing; what it books as ambiguous is what was in flight.
LEMMA NothingInFlight ==
    ASSUME TypeOK, TypeOK', Account, NEW c \in Callers,
           NEW call, calls' = [calls EXCEPT ![c] = call], call.pc # "sent",
           pair'.reserved = pair.reserved,
           \/ pair'.ambiguous = pair.ambiguous
           \/ calls[c].pc = "sent" /\ pair'.ambiguous = pair.ambiguous + calls[c].credits
    PROVE  Account'
<1>1. calls'[c] = call /\ \A v \in Callers : v # c => calls'[v] = calls[v]
  BY DEF TypeOK
<1>2. Due(calls'[c]) = 0
  BY <1>1 DEF Due
<1>3. pair.ambiguous \in Nat /\ pair.reserved \in Nat
  BY NumbersHold DEF TypeOK, Numbers
<1>4. calls[c].credits \in Nat /\ Due(calls[c]) \in Nat
  <2>1. calls[c].credits \in Reservations \cup {0}
    BY DEF TypeOK
  <2> QED
    BY <2>1, CreditsAreNatural DEF Due
<1>5. pair'.ambiguous <= pair.ambiguous + Due(calls[c])
  BY <1>3, <1>4 DEF Due
<1> QED
  BY <1>1, <1>2, <1>3, <1>4, <1>5, OneCall

LEMMA AcquireAccount ==
    ASSUME TypeOK, TypeOK', Account, NEW c \in Callers, Acquire(c)
    PROVE  Account'
<1> DEFINE s == Selected(ReapedPool(calls[c].late), c, calls[c].group, calls[c].late)
           gain == calls[c].credits
<1>1. /\ calls[c].pc = "timed"
      /\ pair' = [pair EXCEPT !.reserved = @ + calls[c].credits]
      /\ calls' = [calls EXCEPT ![c].pc = "sent", ![c].slot = s]
  BY DEF Acquire
<1> HIDE DEF s
<1>2. calls'[c].pc = "sent" /\ calls'[c].credits = calls[c].credits
      /\ \A v \in Callers : v # c => calls'[v] = calls[v]
  BY <1>1 DEF TypeOK
<1>3. gain \in Nat
  <2>1. calls[c].credits \in Reservations \cup {0}
    BY DEF TypeOK
  <2> QED
    BY <2>1, CreditsAreNatural
<1>4. pair'.reserved = pair.reserved + gain /\ pair'.ambiguous = pair.ambiguous
  BY <1>1 DEF TypeOK
<1>5. Due(calls[c]) = 0 /\ Due(calls'[c]) = gain
  BY <1>1, <1>2 DEF Due
<1>6. pair'.ambiguous + Due(calls'[c]) <= pair.ambiguous + Due(calls[c]) + gain
  BY <1>3, <1>4, <1>5 DEF TypeOK
<1> QED
  BY <1>2, <1>3, <1>4, <1>6, OneCall

\* The clock moves no credits.
LEMMA TickAccount ==
    ASSUME TypeOK, Account, Tick
    PROVE  Account'
<1>1. /\ calls' = [c \in Callers |->
             IF HoldsReading(c) THEN [calls[c] EXCEPT !.late = @ + 1] ELSE calls[c]]
      /\ pair' = pair
  BY DEF Tick
<1>2. ASSUME NEW c \in Callers
      PROVE  calls'[c].pc = calls[c].pc /\ calls'[c].credits = calls[c].credits
  BY <1>1 DEF TypeOK
<1>3. Credits' = Credits /\ InFlight' = InFlight
  BY <1>2 DEF Credits, InFlight
<1> QED
  BY <1>1, <1>3 DEF Account

LEMMA AccountStep ==
    ASSUME TypeOK, TypeOK', Account, [Next]_vars
    PROVE  Account'
<1>0. CASE UNCHANGED vars
  BY <1>0 DEF vars, Account, Credits, InFlight
<1>1. CASE Tick
  BY <1>1, TickAccount
<1>2. ASSUME NEW c \in Callers, NEW g \in Groups, NEW credits \in Reservations,
             BeginCall(c, g, credits)
      PROVE  Account'
  <2> DEFINE call == [NoCall EXCEPT !.pc = "begun", !.group = g, !.credits = credits, !.attempt = 1]
  <2>1. calls' = [calls EXCEPT ![c] = call] /\ pair' = [pair EXCEPT !.calls = @ + 1]
    BY <1>2 DEF BeginCall
  <2>2. call.pc # "sent"
    BY DEF NoCall
  <2>3. pair'.reserved = pair.reserved /\ pair'.ambiguous = pair.ambiguous
    BY <2>1 DEF TypeOK
  <2> HIDE DEF call
  <2> QED
    BY <2>1, <2>2, <2>3, NothingInFlight
<1>3. ASSUME NEW c \in Callers, ReadClock(c) PROVE Account'
  <2> DEFINE call == [calls[c] EXCEPT !.pc = "timed"]
  <2>1. calls' = [calls EXCEPT ![c] = call] /\ pair' = pair
    BY <1>3 DEF ReadClock
  <2>2. call.pc # "sent"
    BY DEF TypeOK
  <2> HIDE DEF call
  <2> QED
    BY <2>1, <2>2, NothingInFlight
<1>4. ASSUME NEW c \in Callers, Acquire(c) PROVE Account'
  BY <1>4, AcquireAccount
<1>5. ASSUME NEW c \in Callers, NEW call, calls' = [calls EXCEPT ![c] = call], pair' = pair,
             \/ \E o \in Outcomes : call = Ended(calls[c], o)
             \/ \E pc \in {"refused", "deferred"} : call = [calls[c] EXCEPT !.pc = pc]
      PROVE  Account'
  <2>1. CASE \E o \in Outcomes : call = Ended(calls[c], o)
    BY <2>1, <1>5, NothingInFlight DEF Ended, NoCall
  <2>2. CASE \E pc \in {"refused", "deferred"} : call = [calls[c] EXCEPT !.pc = pc]
    <3>1. calls[c] \in CallRows
      BY DEF TypeOK, CallRows
    <3>2. call.pc # "sent"
      BY <2>2, <3>1 DEF CallRows
    <3> QED
      BY <1>5, <3>2, NothingInFlight
  <2> QED
    BY <1>5, <2>1, <2>2
<1>6. ASSUME NEW c \in Callers,
             AcquireOverBudget(c) \/ CompletionRaises(c) \/ Crash(c) \/ ProjectPool(c)
      PROVE  Account'
  <2>1. pair' = pair /\ \E o \in Outcomes : calls' = [calls EXCEPT ![c] = Ended(calls[c], o)]
    BY <1>6 DEF AcquireOverBudget, CompletionRaises, Crash, ProjectPool, PoolOutcome, Outcomes
  <2>2. PICK o \in Outcomes : calls' = [calls EXCEPT ![c] = Ended(calls[c], o)]
    BY <2>1
  <2> QED
    BY <1>5, <2>1, <2>2
<1>7. ASSUME NEW c \in Callers, AcquireNothing(c) PROVE Account'
  <2> DEFINE pc == IF NothingToWaitFor(ReapedPool(calls[c].late), calls[c].group)
                   THEN "refused" ELSE "deferred"
             call == [calls[c] EXCEPT !.pc = pc]
  <2>1. calls' = [calls EXCEPT ![c] = call] /\ pair' = pair
    BY <1>7 DEF AcquireNothing
  <2>2. \E p \in {"refused", "deferred"} : call = [calls[c] EXCEPT !.pc = p]
    OBVIOUS
  <2> HIDE DEF call
  <2> QED
    BY <1>5, <2>1, <2>2
<1>8. ASSUME NEW c \in Callers, NEW call, calls[c].pc = "sent",
             calls' = [calls EXCEPT ![c] = call], call.pc # "sent",
             \/ pair' = Ambiguous(c)
             \/ \E usage \in 0..MaxUsage : pair' = [pair EXCEPT !.settled = @ + usage]
      PROVE  Account'
  <2>1. pair'.reserved = pair.reserved
        /\ (pair'.ambiguous = pair.ambiguous \/ pair'.ambiguous = pair.ambiguous + calls[c].credits)
    BY <1>8 DEF Ambiguous, TypeOK
  <2> QED
    BY <1>8, <2>1, NothingInFlight
<1>9. ASSUME NEW c \in Callers, NEW transient, NEW outcome
      PROVE  Ended(calls[c], outcome).pc # "sent" /\ NextAttempt(calls[c], transient).pc # "sent"
  <2>1. calls[c] \in CallRows
    BY DEF TypeOK, CallRows
  <2>2. \A o : Ended(calls[c], o).pc = "idle"
    BY DEF Ended, NoCall
  <2>3. [calls[c] EXCEPT !.pc = "begun", !.attempt = @ + 1, !.late = 0, !.slot = 0,
                         !.transient = transient].pc = "begun"
    BY <2>1 DEF CallRows
  <2> QED
    BY <2>2, <2>3 DEF NextAttempt
<1>10. ASSUME NEW c \in Callers,
              TransientFailure(c) \/ RateLimited(c) \/ KeyRejected(c) \/ RequestRejected(c)
       PROVE  Account'
  <2>1. calls[c].pc = "sent" /\ pair' = Ambiguous(c)
    BY <1>10 DEF TransientFailure, RateLimited, KeyRejected, RequestRejected, Complete
  <2>2. \/ \E t : calls' = [calls EXCEPT ![c] = NextAttempt(calls[c], t)]
        \/ calls' = [calls EXCEPT ![c] = Ended(calls[c], "blocked")]
    BY <1>10 DEF TransientFailure, RateLimited, KeyRejected, RequestRejected, Complete
  <2>3. PICK call : calls' = [calls EXCEPT ![c] = call] /\ call.pc # "sent"
    BY <1>9, <2>2
  <2> QED
    BY <1>8, <2>1, <2>3
<1>11. ASSUME NEW c \in Callers, NEW usage \in 0..MaxUsage, Success(c, usage)
       PROVE  Account'
  <2>1. /\ calls[c].pc = "sent" /\ pair' = [pair EXCEPT !.settled = @ + usage]
        /\ calls' = [calls EXCEPT ![c] = Ended(calls[c], "available")]
    BY <1>11 DEF Success, Complete
  <2> QED
    BY <1>8, <1>9, <2>1
<1> QED
  BY <1>0, <1>1, <1>2, <1>3, <1>4, <1>6, <1>7, <1>10, <1>11 DEF Next

LEMMA AccountInit == Init => Account
<1> SUFFICES ASSUME Init PROVE Account
  OBVIOUS
<1>1. InFlight = {} /\ pair.ambiguous = 0 /\ pair.reserved = 0
  BY DEF Init, InFlight, NoCall
<1>2. IsFiniteSet({}) /\ \A x \in {} : Credits[x] \in Nat
  BY FS_EmptySet
<1>3. PICK g \in [SUBSET {} -> Nat] : Sums(g, Credits, {}) /\ Total(Credits, {}) = g[{}]
  BY <1>2, TotalSums
<1>4. g[{}] = 0
  BY <1>3 DEF Sums, Sum
<1> QED
  BY <1>1, <1>3, <1>4 DEF Account

-----------------------------------------------------------------------------
(* The theorems.                                                            *)

\* The invariant the others rest on: a leased key is available, and a call is refused
\* only when every key is used up.
THEOREM InvHolds == Spec => []Inv
<1>1. Init => Inv
  BY InvInit
<1>2. Inv /\ [Next]_vars => Inv'
  BY NextStep
<1> QED
  BY <1>1, <1>2, PTL DEF Spec

\* Type correctness, the ceilings included: no window counts more requests than the
\* limit, no pair reserves more credits or begins more calls than it may.
THEOREM TypeCorrect == Spec => []TypeOK
<1>1. Inv => TypeOK
  BY DEF Inv
<1> QED
  BY <1>1, InvHolds, PTL

\* Keys found invalid or exhausted stay so, a cooling key cools until its time, and only
\* the holder's answer or the deadline ends a lease.
THEOREM SlotsCorrect == Spec => SlotsAreKept
<1>1. Inv /\ [Next]_vars => [Kept]_vars
  BY NextStep
<1>2. Spec => [][Kept]_vars
  BY <1>1, InvHolds, PTL DEF Spec
<1> QED
  BY <1>2 DEF SlotsAreKept, Kept

\* Between the refusal of a lease and the projection of the pool others go on; the pool
\* is dead all the same.
THEOREM PoolCorrect == Spec => []RefusedPoolIsDead
<1>1. ASSUME Inv PROVE RefusedPoolIsDead
  <2> SUFFICES ASSUME NEW c \in Callers, calls[c].pc = "refused"
               PROVE  PoolOutcome(ReapedPool(calls[c].late))
                        \in {"budget_exhausted", "authority_required"}
    BY DEF RefusedPoolIsDead
  <2> DEFINE pool == ReapedPool(calls[c].late)
  <2>1. calls[c].late \in 0..MaxLate
    BY <1>1, Types DEF Inv, CallRows
  <2>2. ASSUME NEW s \in Slots
        PROVE  pool[s].token = NoCaller /\ pool[s].state \notin {"AVAILABLE", "COOLDOWN"}
    <3>1. Dead(slots[s])
      BY <1>1 DEF Inv
    <3>2. pool[s].state = slots[s].state /\ (pool[s].token # NoCaller => pool[s].state = "AVAILABLE")
      BY <1>1, <2>1, <3>1, PoolKeeps
    <3> QED
      BY <3>1, <3>2 DEF Dead
  <2> HIDE DEF pool
  <2> QED
    BY <2>2 DEF PoolOutcome, pool
<1> QED
  BY <1>1, InvHolds, PTL

\* The account balances: what failed requests may have cost and what is in flight was
\* reserved, and never more than the ceiling, however many processes call, crash or lose
\* their lease.
THEOREM AccountCorrect == Spec => []ReservationsCoverCosts
<1>1. Init => Account
  BY AccountInit
<1>2. Inv /\ Inv' /\ Account /\ [Next]_vars => Account'
  BY AccountStep DEF Inv
<1>3. Inv /\ Account => ReservationsCoverCosts
  BY NumbersHold DEF Inv, Account, ReservationsCoverCosts, TypeOK, Numbers
<1> QED
  BY <1>1, <1>2, <1>3, InvHolds, PTL DEF Spec

=============================================================================
