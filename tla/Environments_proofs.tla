--------------------------- MODULE Environments_proofs --------------------------
(***************************************************************************)
(* The environments a run works with, which share no state: the remote     *)
(* session, the single-agent and multi-agent suites and the pilot, each for *)
(* any number of workers, policies, calls and requests, any limits of the  *)
(* grant and any bounds.                                                   *)
(*                                                                         *)
(* The strengthening of the remote session follows the one request there   *)
(* can be: on its way to the server, it has not been executed; at the      *)
(* server, it has been if the worker is done; on its way back, it has been *)
(* and is the only one that was not answered.  And the two verifiers have  *)
(* accepted the same number of requests whenever none is between them.     *)
(***************************************************************************)
EXTENDS Environments, Integers, WellFoundedInduction, TLAPS

ClientRows == [at: {"new", "open", "waiting", "terminal"}, request: Frames \cup {None}]
WireRows == [request: Frames \cup {None}, response: Frames \cup {None}]
ServerRows == [at: {"none", "reading", "verified", "worked", "ended"},
               last: 0..MaxSequence, request: Frames \cup {None}, response: Frames \cup {None}]
WorkerRows == [phase: {"new", "described", "reset", "closed"}, last: 0..MaxSequence,
               step: 0..MaxStep, revoked: BOOLEAN, closed: Frames \cup {None}]

NothingSent ==
    client.at \in {"new", "open"} =>
        /\ executed = transcript
        /\ wire.request = None /\ wire.response = None
        /\ server.at \in {"none", "reading", "ended"}
        /\ client.at = "new" <=> server.at = "none"

OnTheWay ==
    wire.request # None =>
        /\ executed = transcript
        /\ server.at \in {"reading", "ended"}
        /\ wire.response = None
        /\ client.at = "waiting" => client.request = wire.request

AtTheServer ==
    server.at \in {"verified", "worked"} =>
        /\ server.request \in Frames
        /\ wire.request = None /\ wire.response = None
        /\ client.at = "waiting" => client.request = server.request
        /\ server.at = "verified" => executed = transcript
        /\ server.at = "worked" => executed = Append(transcript, server.request)

OnTheWayBack ==
    wire.response # None =>
        /\ wire.request = None
        /\ server.at \in {"reading", "ended"}
        /\ client.at = "waiting" => client.request = wire.response
        /\ executed = Append(transcript, wire.response)

OneUnanswered == executed = transcript \/ \E f \in Frames : executed = Append(transcript, f)

Flow == NothingSent /\ OnTheWay /\ AtTheServer /\ OnTheWayBack /\ OneUnanswered

\* The sequence numbers: of the verifiers, and of what was executed.
Numbered ==
    /\ server.at \in {"none", "reading", "worked"} => server.last = worker.last
    /\ server.at = "verified" =>
          server.last = worker.last + 1 /\ server.last = server.request.sequence
    /\ worker.last <= server.last /\ server.last <= worker.last + 1
    /\ ~worker.revoked => worker.last = Len(executed)
    /\ Len(executed) <= worker.last
    /\ \A i \in 1..Len(executed) : executed[i].sequence = i

Inv == TypeOK /\ Flow /\ Numbered

---------------------------------------------------------------------------
LEMMA LimitsAreNatural == MaxSequence \in Nat /\ MaxStep \in Nat /\ Lifetime \in Nat /\ MaxTime \in Nat
  BY GrantAssumption, MaxTimeAssumption

LEMMA NoneIsNoFrame == None \notin Frames
  BY DEF None, Frames, Methods

LEMMA RequestsAreFrames == Requests \subseteq Frames
  BY LimitsAreNatural DEF Requests, Frames

LEMMA Types ==
    ASSUME TypeOK
    PROVE  /\ now \in 0..MaxTime /\ expires \in 0..(MaxTime + Lifetime)
           /\ client \in ClientRows /\ wire \in WireRows
           /\ server \in ServerRows /\ worker \in WorkerRows
           /\ executed \in Seq(Frames) /\ transcript \in Seq(Frames)
  BY DEF TypeOK, ClientRows, WireRows, ServerRows, WorkerRows

LEMMA InvInit == Init => Inv
<1> SUFFICES ASSUME Init PROVE Inv
  OBVIOUS
<1> USE LimitsAreNatural
<1>1. TypeOK
  BY DEF Init, TypeOK, None
<1>2. /\ client.at = "new" /\ wire.request = None /\ wire.response = None /\ server.at = "none"
      /\ server.last = 0 /\ worker.last = 0 /\ executed = <<>> /\ transcript = <<>>
  BY DEF Init
<1>3. Flow
  BY <1>2 DEF Flow, NothingSent, OnTheWay, AtTheServer, OnTheWayBack, OneUnanswered
<1>4. Numbered
  BY <1>2 DEF Numbered
<1> QED
  BY <1>1, <1>3, <1>4 DEF Inv

---------------------------------------------------------------------------
(* The steps.                                                              *)

\* The hello of the client: the server may have got as far as serving the session.
LEMMA ConnectStep ==
    ASSUME Inv, Connect \/ ConnectFails
    PROVE  Inv'
<1>1. client.at = "new" /\ UNCHANGED <<now, wire, worker, executed, transcript>>
  BY DEF Connect, ConnectFails, histories
<1>2. PICK at \in {"open", "terminal"} : client' = [client EXCEPT !.at = at]
  BY DEF Connect, ConnectFails
<1>3. PICK to \in {"reading", "ended"} : server' = [server EXCEPT !.at = to]
  BY DEF Connect, ConnectFails, OpenSession
<1>4. expires' \in 0..(MaxTime + Lifetime)
  BY Types, LimitsAreNatural DEF Inv, Connect, ConnectFails, OpenSession
<1>5. /\ client' \in ClientRows /\ client'.at = at /\ at # "waiting"
      /\ server' \in ServerRows /\ server'.at = to /\ server'.last = server.last
  BY <1>2, <1>3, Types DEF Inv, ClientRows, ServerRows
<1>6. /\ executed = transcript /\ wire.request = None /\ wire.response = None
      /\ server.at = "none" /\ server.last = worker.last
  BY <1>1 DEF Inv, Flow, NothingSent, Numbered
<1>7. TypeOK'
  BY <1>1, <1>4, <1>5 DEF Inv, TypeOK, ClientRows, ServerRows
<1>8. Flow'
  BY <1>1, <1>5, <1>6 DEF Flow, NothingSent, OnTheWay, AtTheServer, OnTheWayBack, OneUnanswered
<1>9. Numbered'
  BY <1>1, <1>5, <1>6 DEF Inv, Numbered
<1> QED
  BY <1>7, <1>8, <1>9 DEF Inv

LEMMA SendStep ==
    ASSUME Inv, NEW frame \in Requests, Send(frame)
    PROVE  Inv'
<1>1. /\ client.at = "open" /\ UNCHANGED <<now, expires, server, worker, executed, transcript>>
      /\ client' = [at |-> "waiting", request |-> frame]
      /\ wire' = [wire EXCEPT !.request = frame]
  BY DEF Send, histories
<1>2. frame \in Frames
  BY RequestsAreFrames
<1>3. /\ client' \in ClientRows /\ client'.at = "waiting" /\ client'.request = frame
      /\ wire' \in WireRows /\ wire'.request = frame /\ wire'.response = wire.response
  BY <1>1, <1>2, Types DEF Inv, ClientRows, WireRows
<1>4. executed = transcript /\ wire.response = None /\ server.at \in {"reading", "ended"}
  BY <1>1 DEF Inv, Flow, NothingSent
<1>5. TypeOK'
  BY <1>1, <1>3 DEF Inv, TypeOK, ClientRows, WireRows
<1>6. Flow'
  BY <1>1, <1>3, <1>4 DEF Inv, Flow, NothingSent, OnTheWay, AtTheServer, OnTheWayBack, OneUnanswered
<1>7. Numbered'
  BY <1>1 DEF Inv, Numbered
<1> QED
  BY <1>5, <1>6, <1>7 DEF Inv

\* The answer is that of the request, and the request was the one that had none.
LEMMA ReceiveStep ==
    ASSUME Inv, Receive
    PROVE  Inv'
<1>1. /\ client.at = "waiting" /\ wire.response # None
      /\ wire' = [wire EXCEPT !.response = None]
      /\ UNCHANGED <<now, expires, server, worker, executed>>
  BY DEF Receive
<1>2. /\ wire' \in WireRows /\ wire'.request = wire.request /\ wire'.response = None
      /\ wire.response \in Frames
  BY <1>1, Types DEF Inv, WireRows
<1>3. /\ wire.request = None /\ server.at \in {"reading", "ended"}
      /\ client.request = wire.response
      /\ executed = Append(transcript, wire.response)
  BY <1>1 DEF Inv, Flow, OnTheWayBack
<1>4. client' = [at |-> "open", request |-> None] /\ transcript' = Append(transcript, client.request)
  BY <1>3 DEF Receive, Answers
<1>5. client' \in ClientRows /\ client'.at = "open"
  BY <1>4 DEF ClientRows
<1>6. transcript' = executed
  BY <1>3, <1>4
<1>7. TypeOK'
  BY <1>1, <1>2, <1>5, <1>6 DEF Inv, TypeOK, ClientRows, WireRows
<1>8. Flow'
  BY <1>1, <1>2, <1>3, <1>5, <1>6
  DEF Flow, NothingSent, OnTheWay, AtTheServer, OnTheWayBack, OneUnanswered
<1>9. Numbered'
  BY <1>1 DEF Inv, Numbered
<1> QED
  BY <1>7, <1>8, <1>9 DEF Inv

\* Once it has given up, the transport sends nothing more.
LEMMA TerminateStep ==
    ASSUME Inv, Terminate
    PROVE  Inv'
<1>1. /\ client' = [at |-> "terminal", request |-> None]
      /\ UNCHANGED <<now, expires, wire, server, worker, executed, transcript>>
  BY DEF Terminate, histories
<1>2. client' \in ClientRows /\ client'.at = "terminal"
  BY <1>1 DEF ClientRows
<1>3. TypeOK'
  BY <1>1, <1>2 DEF Inv, TypeOK, ClientRows
<1>4. Flow'
  BY <1>1, <1>2 DEF Inv, Flow, NothingSent, OnTheWay, AtTheServer, OnTheWayBack, OneUnanswered
<1>5. Numbered'
  BY <1>1 DEF Inv, Numbered
<1> QED
  BY <1>3, <1>4, <1>5 DEF Inv

\* The session of the server ends, before or after the request at hand took effect.
LEMMA Ended ==
    ASSUME TypeOK, End
    PROVE  server' \in ServerRows /\ server'.at = "ended" /\ server'.last = server.last
  BY Types DEF End, ServerRows

LEMMA EndSessionStep ==
    ASSUME Inv, EndSession
    PROVE  Inv'
<1>1. /\ server.at \in {"reading", "verified", "worked"} /\ End
      /\ UNCHANGED <<now, expires, client, wire, worker, executed, transcript>>
  BY DEF EndSession, histories
<1>2. server' \in ServerRows /\ server'.at = "ended" /\ server'.last = server.last
  BY <1>1, Ended DEF Inv
<1>3. TypeOK'
  BY <1>1, <1>2 DEF Inv, TypeOK, ServerRows
<1>4. client.at # "new"
  BY <1>1 DEF Inv, Flow, NothingSent
<1>5. Flow'
  BY <1>1, <1>2, <1>4
  DEF Inv, Flow, NothingSent, OnTheWay, AtTheServer, OnTheWayBack, OneUnanswered
<1>6. Numbered'
  BY <1>1, <1>2 DEF Inv, Numbered
<1> QED
  BY <1>3, <1>5, <1>6 DEF Inv

LEMMA ReadRequestStep ==
    ASSUME Inv, ReadRequest
    PROVE  Inv'
<1>1. /\ server.at = "reading" /\ wire.request # None /\ wire' = [wire EXCEPT !.request = None]
      /\ UNCHANGED <<now, expires, client, worker, executed, transcript>>
  BY DEF ReadRequest, histories
<1>2. /\ wire' \in WireRows /\ wire'.request = None /\ wire'.response = wire.response
      /\ wire.request \in Frames
  BY <1>1, Types DEF Inv, WireRows
<1>3. /\ executed = transcript /\ wire.response = None
      /\ client.at = "waiting" => client.request = wire.request
      /\ client.at \notin {"new", "open"}
  BY <1>1 DEF Inv, Flow, OnTheWay, NothingSent
<1>4. server.last = worker.last
  BY <1>1 DEF Inv, Numbered
<1>5. CASE Consumable(wire.request, server.last)
  <2> DEFINE f == wire.request
             n == f.sequence
  <2>1. server' = [server EXCEPT !.at = "verified", !.last = n, !.request = f]
    BY <1>5 DEF ReadRequest
  <2>2. n \in 0..MaxSequence /\ n = server.last + 1
    BY <1>2, <1>5, LimitsAreNatural DEF Consumable, Frames
  <2> HIDE DEF n
  <2>3. /\ server' \in ServerRows /\ server'.at = "verified" /\ server'.last = n
        /\ server'.request = f
    BY <1>2, <2>1, <2>2, Types DEF Inv, ServerRows
  <2>4. TypeOK'
    BY <1>1, <1>2, <2>3 DEF Inv, TypeOK, WireRows, ServerRows
  <2>5. Flow'
    BY <1>1, <1>2, <1>3, <2>3
    DEF Flow, NothingSent, OnTheWay, AtTheServer, OnTheWayBack, OneUnanswered
  <2>6. Numbered'
    <3>1. server'.last = server'.request.sequence
      BY <2>3 DEF n
    <3>2. worker.last \in Nat
      BY Types, LimitsAreNatural DEF Inv, WorkerRows
    <3> QED
      BY <1>1, <1>4, <2>2, <2>3, <3>1, <3>2 DEF Inv, Numbered
  <2> QED
    BY <2>4, <2>5, <2>6 DEF Inv
<1>6. CASE ~Consumable(wire.request, server.last)
  <2>1. server' \in ServerRows /\ server'.at = "ended" /\ server'.last = server.last
    BY <1>6, Ended DEF ReadRequest, Inv
  <2>2. TypeOK'
    BY <1>1, <1>2, <2>1 DEF Inv, TypeOK, WireRows, ServerRows
  <2>3. Flow'
    BY <1>1, <1>2, <1>3, <2>1
    DEF Flow, NothingSent, OnTheWay, AtTheServer, OnTheWayBack, OneUnanswered
  <2>4. Numbered'
    BY <1>1, <2>1 DEF Inv, Numbered
  <2> QED
    BY <2>2, <2>3, <2>4 DEF Inv
<1> QED
  BY <1>5, <1>6

\* The worker after a request it executed.
LEMMA AdvancedTyped ==
    ASSUME TypeOK, NEW f \in Frames, f.step \in 0..MaxStep
    PROVE  Advanced(f) \in WorkerRows /\ Advanced(f).revoked = worker.revoked
<1>1. worker \in WorkerRows /\ 0 \in 0..MaxStep
  BY Types, LimitsAreNatural
<1>2. f.method \in Methods
  BY DEF Frames
<1>3. CASE f.method = "Describe"
  BY <1>1, <1>3 DEF Advanced, WorkerRows
<1>4. CASE f.method = "Reset"
  BY <1>1, <1>4 DEF Advanced, WorkerRows
<1>5. CASE f.method = "Step"
  BY <1>1, <1>5 DEF Advanced, WorkerRows
<1>6. CASE f.method = "Close"
  BY <1>1, <1>6 DEF Advanced, WorkerRows
<1> QED
  BY <1>2, <1>3, <1>4, <1>5, <1>6 DEF Methods

LEMMA WorkStep ==
    ASSUME Inv, Work
    PROVE  Inv'
<1> DEFINE f == server.request
           new == Advanced(f)
           n == f.sequence
           response == Response(f)
<1>1. /\ server.at = "verified" /\ Usable(f)
      /\ worker' = [new EXCEPT !.last = n]
      /\ executed' = Append(executed, f)
      /\ server' = [server EXCEPT !.at = "worked", !.response = response]
      /\ UNCHANGED <<now, expires, client, wire, transcript>>
  BY DEF Work
<1>2. /\ f \in Frames /\ wire.request = None /\ wire.response = None
      /\ client.at = "waiting" => client.request = f
      /\ executed = transcript
  BY <1>1 DEF Inv, Flow, AtTheServer
<1>3. client.at \notin {"new", "open"}
  BY <1>1 DEF Inv, Flow, NothingSent
<1>4. /\ ~worker.revoked /\ n = worker.last + 1 /\ n <= MaxSequence
      /\ f.step \in 0..MaxStep /\ n \in 0..MaxSequence
  <2>1. ~worker.revoked /\ n = worker.last + 1 /\ n <= MaxSequence /\ f.step <= MaxStep
    BY <1>1 DEF Usable, Consumable
  <2>2. n \in Nat /\ f.step \in Nat
    BY <1>2 DEF Frames
  <2> QED
    BY <2>1, <2>2, LimitsAreNatural
<1>5. /\ server.last = worker.last + 1 /\ worker.last = Len(executed)
      /\ \A i \in 1..Len(executed) : executed[i].sequence = i
  BY <1>1, <1>4 DEF Inv, Numbered
<1>6. new \in WorkerRows /\ new.revoked = worker.revoked
  BY <1>2, <1>4, AdvancedTyped DEF Inv
<1>7. response \in Frames \cup {None}
  BY <1>2, Types DEF Response, Inv, WorkerRows
<1> HIDE DEF new, response
<1>8. worker' \in WorkerRows /\ worker'.last = n /\ worker'.revoked = worker.revoked
  <2> HIDE DEF n
  <2> QED
    BY <1>1, <1>4, <1>6 DEF WorkerRows
<1>9. /\ server' \in ServerRows /\ server'.at = "worked" /\ server'.request = f
      /\ server'.last = server.last
  BY <1>1, <1>7, Types DEF Inv, ServerRows
<1>10. executed \in Seq(Frames) /\ executed' \in Seq(Frames)
       /\ Len(executed') = Len(executed) + 1
       /\ executed'[Len(executed) + 1] = f
       /\ \A i \in 1..Len(executed) : executed'[i] = executed[i]
  BY <1>1, <1>2, Types DEF Inv
<1>11. TypeOK'
  BY <1>1, <1>8, <1>9, <1>10 DEF Inv, TypeOK, WorkerRows, ServerRows
<1>12. Flow'
  <2>1. executed' = Append(transcript, f)
    BY <1>1, <1>2
  <2> HIDE DEF f
  <2> QED
    BY <1>1, <1>2, <1>3, <1>9, <2>1
    DEF Flow, NothingSent, OnTheWay, AtTheServer, OnTheWayBack, OneUnanswered
<1>13. Numbered'
  <2>1. \A i \in 1..Len(executed') : executed'[i].sequence = i
    <3> TAKE i \in 1..Len(executed')
    <3>1. CASE i = Len(executed) + 1
      BY <1>4, <1>5, <1>10, <3>1
    <3>2. CASE i # Len(executed) + 1
      <4>1. i \in 1..Len(executed)
        BY <1>10, <3>2
      <4> QED
        BY <1>5, <1>10, <4>1
    <3> QED
      BY <3>1, <3>2
  <2>2. Len(executed) \in Nat
    BY <1>10
  <2> HIDE DEF f, n
  <2> QED
    BY <1>4, <1>5, <1>8, <1>9, <1>10, <2>1, <2>2 DEF Numbered
<1> QED
  BY <1>11, <1>12, <1>13 DEF Inv

LEMMA WorkRaisesStep ==
    ASSUME Inv, WorkRaises
    PROVE  Inv'
<1> DEFINE n == IF Usable(server.request) THEN server.request.sequence ELSE worker.last
<1>1. /\ server.at = "verified" /\ End /\ worker' = [worker EXCEPT !.revoked = TRUE, !.last = n]
      /\ UNCHANGED <<now, expires, client, wire, executed, transcript>>
  BY DEF WorkRaises, histories
<1>2. /\ server.last = worker.last + 1 /\ server.last = server.request.sequence
      /\ Len(executed) <= worker.last
  BY <1>1 DEF Inv, Numbered
<1>3. worker.last \in 0..MaxSequence /\ server.last \in 0..MaxSequence /\ worker \in WorkerRows
  BY Types DEF Inv, WorkerRows, ServerRows
<1>4. n \in {worker.last, server.last}
  BY <1>2
<1> HIDE DEF n
<1>5. worker' \in WorkerRows /\ worker'.last = n /\ worker'.revoked = TRUE
  BY <1>1, <1>3, <1>4 DEF WorkerRows
<1>6. server' \in ServerRows /\ server'.at = "ended" /\ server'.last = server.last
  BY <1>1, Ended DEF Inv
<1>7. TypeOK'
  BY <1>1, <1>5, <1>6 DEF Inv, TypeOK, WorkerRows, ServerRows
<1>8. client.at # "new"
  BY <1>1 DEF Inv, Flow, NothingSent
<1>9. Flow'
  BY <1>1, <1>6, <1>8
  DEF Inv, Flow, NothingSent, OnTheWay, AtTheServer, OnTheWayBack, OneUnanswered
<1>10. Numbered'
  <2>1. Len(executed) \in Nat
    BY Types DEF Inv
  <2> QED
    BY <1>1, <1>2, <1>3, <1>4, <1>5, <1>6, <2>1 DEF Inv, Numbered
<1> QED
  BY <1>7, <1>9, <1>10 DEF Inv

LEMMA ReplyStep ==
    ASSUME Inv, Reply
    PROVE  Inv'
<1>1. server.at = "worked" /\ UNCHANGED <<now, expires, client, worker, executed, transcript>>
  BY DEF Reply, histories
<1>2. /\ server.request \in Frames /\ wire.request = None /\ wire.response = None
      /\ client.at = "waiting" => client.request = server.request
      /\ executed = Append(transcript, server.request)
  BY <1>1 DEF Inv, Flow, AtTheServer
<1>3. client.at \notin {"new", "open"} /\ server.last = worker.last
  BY <1>1 DEF Inv, Flow, NothingSent, Numbered
<1>4. CASE server.response = server.request
  <2>1. /\ wire' = [wire EXCEPT !.response = server.request]
        /\ server' = [server EXCEPT !.at = "reading", !.request = None, !.response = None]
    BY <1>4 DEF Reply, Answers
  <2>2. /\ wire' \in WireRows /\ wire'.request = None /\ wire'.response = server.request
        /\ server' \in ServerRows /\ server'.at = "reading" /\ server'.last = server.last
    BY <1>2, <2>1, Types DEF Inv, WireRows, ServerRows
  <2>3. TypeOK'
    BY <1>1, <2>2 DEF Inv, TypeOK, WireRows, ServerRows
  <2>4. Flow'
    BY <1>1, <1>2, <1>3, <2>2
    DEF Flow, NothingSent, OnTheWay, AtTheServer, OnTheWayBack, OneUnanswered
  <2>5. Numbered'
    BY <1>1, <1>3, <2>2 DEF Inv, Numbered
  <2> QED
    BY <2>3, <2>4, <2>5 DEF Inv
<1>5. CASE server.response # server.request
  <2>1. End /\ UNCHANGED wire
    BY <1>5 DEF Reply, Answers
  <2>2. server' \in ServerRows /\ server'.at = "ended" /\ server'.last = server.last
    BY <2>1, Ended DEF Inv
  <2>3. TypeOK'
    BY <1>1, <2>1, <2>2 DEF Inv, TypeOK, ServerRows
  <2>4. Flow'
    BY <1>1, <1>2, <1>3, <2>1, <2>2
    DEF Flow, NothingSent, OnTheWay, AtTheServer, OnTheWayBack, OneUnanswered
  <2>5. Numbered'
    BY <1>1, <1>3, <2>2 DEF Inv, Numbered
  <2> QED
    BY <2>3, <2>4, <2>5 DEF Inv
<1> QED
  BY <1>4, <1>5

\* A tick, which may let the grant expire between the two checks, or no step.
LEMMA TickStep ==
    ASSUME Inv, Tick \/ UNCHANGED vars
    PROVE  Inv'
<1>1. UNCHANGED <<expires, client, wire, server, worker, executed, transcript>>
  BY DEF Tick, vars, histories
<1>2. now' \in 0..MaxTime
  BY Types, LimitsAreNatural DEF Inv, Tick, vars
<1>3. TypeOK'
  BY <1>1, <1>2 DEF Inv, TypeOK
<1>4. Flow'
  BY <1>1 DEF Inv, Flow, NothingSent, OnTheWay, AtTheServer, OnTheWayBack, OneUnanswered
<1>5. Numbered'
  BY <1>1 DEF Inv, Numbered
<1> QED
  BY <1>3, <1>4, <1>5 DEF Inv

---------------------------------------------------------------------------
(* The steps since the last reset.  They are counted by recursion on the    *)
(* number of requests; what the recursion computes is shown by induction,   *)
(* with the numbers that satisfy the claim as a set.                        *)

\* Induction over a set of naturals.
LEMMA SetInduction ==
    ASSUME NEW T, 0 \in T, \A n \in Nat : n \in T => n + 1 \in T
    PROVE  Nat \subseteq T
<1> DEFINE Q == {n \in Nat : n \notin T}
           R == {ss \in Nat \X Nat : ss[1] < ss[2]}
<1>1. IsWellFoundedOn(R, Nat)
  BY NatLessThanWellFounded DEF OpToRel
<1> SUFFICES ASSUME Q # {} PROVE FALSE
  OBVIOUS
<1>2. PICK x \in Q : \A y \in Q : ~(<<y, x>> \in R)
  <2> HIDE DEF R
  <2> QED
    BY <1>1, WFMin
<1>3. x \in Nat /\ x # 0 /\ x - 1 \in Nat
  OBVIOUS
<1>4. x - 1 \in Q
  <2>1. x - 1 \in T => (x - 1) + 1 \in T
    BY <1>3
  <2>2. (x - 1) + 1 = x
    BY <1>3
  <2> QED
    BY <2>1, <2>2, <1>3
<1>5. <<x - 1, x>> \in R
  BY <1>3
<1> QED
  BY <1>2, <1>4, <1>5

\* The count after n of the requests e, from the counts f of fewer of them.
Count(f, e, n) ==
    IF n = 0 \/ e[n].method = "Reset" THEN 0
    ELSE f[n - 1] + (IF e[n].method = "Step" THEN 1 ELSE 0)

CountsTo(f, e, n) == \A m \in 0..n : f[m] = Count(f, e, m)

StepsOf(e) == CHOOSE f : f = [n \in Nat |-> Count(f, e, n)]

\* Requests that are the same are counted the same.
LEMMA CountsAgree ==
    ASSUME NEW n \in Nat, NEW e, NEW r, \A i \in 1..n : e[i] = r[i],
           NEW f, CountsTo(f, e, n), NEW g, CountsTo(g, r, n)
    PROVE  \A m \in 0..n : f[m] = g[m]
<1> DEFINE T == {m \in Nat : m <= n => f[m] = g[m]}
<1>1. 0 \in T
  BY DEF CountsTo, Count
<1>2. ASSUME NEW m \in Nat, m \in T PROVE m + 1 \in T
  <2> SUFFICES ASSUME m + 1 <= n PROVE f[m + 1] = g[m + 1]
    OBVIOUS
  <2>1. m + 1 \in 0..n /\ m + 1 \in 1..n /\ m + 1 # 0 /\ (m + 1) - 1 = m /\ f[m] = g[m]
    BY <1>2
  <2>2. f[m + 1] = Count(f, e, m + 1) /\ g[m + 1] = Count(g, r, m + 1)
    BY <2>1 DEF CountsTo
  <2>3. e[m + 1] = r[m + 1]
    BY <2>1
  <2> QED
    BY <2>1, <2>2, <2>3 DEF Count
<1>3. Nat \subseteq T
  <2> HIDE DEF T
  <2> QED
    BY <1>1, <1>2, SetInduction
<1> QED
  BY <1>3

LEMMA CountsExist ==
    ASSUME NEW e, NEW n \in Nat
    PROVE  \E f \in [Nat -> Nat] : CountsTo(f, e, n)
<1> DEFINE T == {m \in Nat : \E f \in [Nat -> Nat] : CountsTo(f, e, m)}
<1>1. 0 \in T
  <2> DEFINE f == [m \in Nat |-> 0]
  <2>1. f \in [Nat -> Nat] /\ CountsTo(f, e, 0)
    BY DEF CountsTo, Count
  <2> QED
    BY <2>1
<1>2. ASSUME NEW m \in Nat, m \in T PROVE m + 1 \in T
  <2>1. PICK f \in [Nat -> Nat] : CountsTo(f, e, m)
    BY <1>2
  <2> DEFINE g == [i \in Nat |-> Count(f, e, i)]
  <2>2. g \in [Nat -> Nat]
    <3> SUFFICES ASSUME NEW i \in Nat PROVE Count(f, e, i) \in Nat
      OBVIOUS
    <3>1. i # 0 => f[i - 1] \in Nat
      OBVIOUS
    <3> QED
      BY <3>1 DEF Count
  <2>3. ASSUME NEW i \in 0..(m + 1) PROVE g[i] = Count(g, e, i)
    <3>1. g[i] = Count(f, e, i)
      OBVIOUS
    <3>2. CASE i = 0
      BY <3>1, <3>2 DEF Count
    <3>3. CASE i # 0
      <4>1. i - 1 \in 0..m /\ i - 1 \in Nat
        BY <3>3
      <4>2. g[i - 1] = Count(f, e, i - 1) /\ f[i - 1] = Count(f, e, i - 1)
        BY <2>1, <4>1 DEF CountsTo
      <4> HIDE DEF g
      <4> QED
        BY <3>1, <4>2 DEF Count
    <3> QED
      BY <3>2, <3>3
  <2> HIDE DEF g
  <2>4. CountsTo(g, e, m + 1)
    BY <2>3 DEF CountsTo
  <2> QED
    BY <2>2, <2>4
<1>3. Nat \subseteq T
  <2> HIDE DEF T
  <2> QED
    BY <1>1, <1>2, SetInduction
<1> QED
  BY <1>3

\* The recursion counts.
LEMMA StepsCount ==
    ASSUME NEW e
    PROVE  \A n \in Nat : CountsTo(StepsOf(e), e, n)
<1> DEFINE F(n) == CHOOSE f \in [Nat -> Nat] : CountsTo(f, e, n)
           h == [n \in Nat |-> F(n)[n]]
           P(f) == f = [n \in Nat |-> Count(f, e, n)]
<1>1. ASSUME NEW n \in Nat PROVE CountsTo(F(n), e, n)
  BY CountsExist
<1> HIDE DEF F
<1>2. ASSUME NEW n \in Nat PROVE h[n] = Count(h, e, n)
  <2>1. h[n] = Count(F(n), e, n)
    BY <1>1 DEF CountsTo
  <2>2. CASE n = 0
    BY <2>1, <2>2 DEF Count
  <2>3. CASE n # 0
    <3>1. n - 1 \in Nat /\ n - 1 \in 0..(n - 1) /\ h[n - 1] = F(n - 1)[n - 1]
      BY <2>3
    <3>2. CountsTo(F(n - 1), e, n - 1)
      BY <1>1, <3>1
    <3>3. CountsTo(F(n), e, n - 1)
      <4>1. \A m \in 0..(n - 1) : m \in 0..n
        OBVIOUS
      <4> QED
        BY <1>1, <4>1 DEF CountsTo
    <3>4. F(n - 1)[n - 1] = F(n)[n - 1]
      BY <3>1, <3>2, <3>3, CountsAgree
    <3> HIDE DEF h
    <3> QED
      BY <2>1, <3>1, <3>4 DEF Count
  <2> QED
    BY <2>2, <2>3
<1>3. P(h)
  <2>1. h = [n \in Nat |-> h[n]]
    OBVIOUS
  <2> HIDE DEF h
  <2> QED
    BY <1>2, <2>1
<1>4. P(StepsOf(e))
  <2> HIDE DEF h
  <2>1. StepsOf(e) = CHOOSE f : P(f)
    BY DEF StepsOf
  <2> HIDE DEF P
  <2> QED
    BY <1>3, <2>1
<1>5. \A n \in Nat : StepsOf(e)[n] = Count(StepsOf(e), e, n)
  BY <1>4
<1> QED
  BY <1>5 DEF CountsTo

\* One more request.
LEMMA OneMoreStep ==
    ASSUME NEW e \in Seq(Frames), NEW f \in Frames
    PROVE  LET n == Len(e)
               s == StepsOf(e)
               t == StepsOf(Append(e, f))
           IN  /\ \A i \in 0..n : t[i] = s[i]
               /\ t[n + 1] = IF f.method = "Reset" THEN 0
                             ELSE s[n] + (IF f.method = "Step" THEN 1 ELSE 0)
<1> DEFINE n == Len(e)
           r == Append(e, f)
           s == StepsOf(e)
           t == StepsOf(r)
<1>1. n \in Nat /\ r[n + 1] = f /\ \A i \in 1..n : r[i] = e[i]
  OBVIOUS
<1>2. CountsTo(s, e, n) /\ CountsTo(t, r, n) /\ CountsTo(t, r, n + 1)
  BY <1>1, StepsCount
<1> HIDE DEF n, r, s, t
<1>3. \A i \in 0..n : t[i] = s[i]
  BY <1>1, <1>2, CountsAgree
<1>4. t[n + 1] = Count(t, r, n + 1)
  BY <1>1, <1>2 DEF CountsTo
<1>5. n + 1 # 0 /\ (n + 1) - 1 = n /\ n \in 0..n
  BY <1>1
<1>6. t[n + 1] = IF f.method = "Reset" THEN 0 ELSE s[n] + (IF f.method = "Step" THEN 1 ELSE 0)
  BY <1>1, <1>3, <1>4, <1>5 DEF Count
<1> QED
  BY <1>3, <1>6 DEF n, r, s, t

\* The steps of the episodes: each step has its number, and so has the worker's environment.
Stepped ==
    /\ \A i \in 1..Len(executed) : executed[i].method = "Step" => executed[i].step = StepsOf(executed)[i]
    /\ worker.phase = "reset" => worker.step = StepsOf(executed)[Len(executed)]

LEMMA SteppedInit == Init => Stepped
  BY DEF Init, Stepped

LEMMA SteppedWork ==
    ASSUME Inv, Stepped, Work
    PROVE  Stepped'
<1> DEFINE f == server.request
           n == Len(executed)
           s == StepsOf(executed)
           t == StepsOf(executed')
<1>1. /\ f \in Frames /\ Allowed(f) /\ executed \in Seq(Frames) /\ n \in Nat
      /\ executed' = Append(executed, f) /\ worker' = [Advanced(f) EXCEPT !.last = f.sequence]
      /\ f.step <= MaxStep /\ worker \in WorkerRows
  BY Types DEF Inv, Work, Flow, AtTheServer, Usable, Consumable
<1>2. f.step \in 0..MaxStep /\ f.method \in Methods
  BY <1>1, LimitsAreNatural DEF Frames
<1>3. Advanced(f) \in WorkerRows
  BY <1>1, <1>2, AdvancedTyped DEF Inv
<1>4. worker'.phase = Advanced(f).phase /\ worker'.step = Advanced(f).step
  BY <1>1, <1>3 DEF WorkerRows
<1>5. /\ Len(executed') = n + 1 /\ executed'[n + 1] = f
      /\ \A i \in 1..n : executed'[i] = executed[i]
  BY <1>1
<1>6. /\ \A i \in 0..n : t[i] = s[i]
      /\ t[n + 1] = IF f.method = "Reset" THEN 0 ELSE s[n] + (IF f.method = "Step" THEN 1 ELSE 0)
  BY <1>1, OneMoreStep
<1>7. worker.phase = "reset" => worker.step = s[n]
  BY <1>1 DEF Stepped
<1> HIDE DEF s, t, n
<1>8. f.method = "Step" => f.step = t[n + 1]
  BY <1>1, <1>6, <1>7 DEF Allowed
<1>9. worker'.phase = "reset" => worker'.step = t[n + 1]
  <2>1. CASE f.method = "Describe"
    BY <1>1, <1>4, <2>1 DEF Advanced, WorkerRows
  <2>2. CASE f.method = "Reset"
    BY <1>1, <1>4, <1>6, <2>2 DEF Advanced, WorkerRows
  <2>3. CASE f.method = "Step"
    BY <1>1, <1>4, <1>8, <2>3 DEF Advanced, WorkerRows
  <2>4. CASE f.method = "Close"
    <3>1. worker'.phase = "reset" => worker.phase = "reset" /\ worker'.step = worker.step
      BY <1>1, <1>4, <2>4 DEF Advanced, WorkerRows
    <3>2. t[n + 1] = s[n] + 0
      BY <1>6, <2>4
    <3>3. worker.step \in Nat
      BY <1>1, LimitsAreNatural DEF WorkerRows
    <3> QED
      BY <1>7, <3>1, <3>2, <3>3
  <2> QED
    BY <1>2, <2>1, <2>2, <2>3, <2>4 DEF Methods
<1>10. ASSUME NEW i \in 1..(n + 1), executed'[i].method = "Step"
       PROVE  executed'[i].step = t[i]
  <2>1. CASE i = n + 1
    BY <1>5, <1>8, <1>10, <2>1
  <2>2. CASE i # n + 1
    <3>1. i \in 1..n /\ i \in 0..n
      BY <1>1, <2>2
    <3>2. executed[i].method = "Step" => executed[i].step = s[i]
      BY <3>1 DEF Stepped, n, s
    <3> QED
      BY <1>5, <1>6, <1>10, <3>1, <3>2
  <2> QED
    BY <2>1, <2>2
<1> QED
  BY <1>5, <1>9, <1>10 DEF Stepped, t

LEMMA SteppedStep ==
    ASSUME Inv, Stepped, [Next]_vars
    PROVE  Stepped'
<1>1. CASE Work
  BY <1>1, SteppedWork
<1>2. CASE WorkRaises
  <2>1. worker' = [worker EXCEPT !.revoked = TRUE, !.last = worker'.last] /\ executed' = executed
    BY <1>2 DEF WorkRaises, histories
  <2>2. worker'.phase = worker.phase /\ worker'.step = worker.step
    BY <2>1, Types DEF Inv, WorkerRows
  <2> QED
    BY <2>1, <2>2 DEF Stepped
<1>3. CASE executed' = executed /\ worker' = worker
  BY <1>3 DEF Stepped
<1>4. Work \/ WorkRaises \/ (executed' = executed /\ worker' = worker)
  BY DEF Next, vars, histories, Connect, ConnectFails, Send, Receive, Terminate, ReadRequest,
         EndSession, Reply, Tick
<1> QED
  BY <1>1, <1>2, <1>3, <1>4

-----------------------------------------------------------------------------
(* The theorems.                                                            *)

\* The invariant the others rest on: where the one request is, and the numbers.
THEOREM InvHolds == Spec => []Inv
<1>1. Init => Inv
  BY InvInit
<1>2. Inv /\ [Next]_vars => Inv'
  BY ConnectStep, SendStep, ReceiveStep, TerminateStep, ReadRequestStep, EndSessionStep,
     WorkStep, WorkRaisesStep, ReplyStep, TickStep DEF Next
<1> QED
  BY <1>1, <1>2, PTL DEF Spec

\* Type correctness, the grant's limits included.
THEOREM TypeCorrect == Spec => []TypeOK
<1>1. Inv => TypeOK
  BY DEF Inv
<1> QED
  BY <1>1, InvHolds, PTL

\* What the client learned is what was executed; one request at most is unanswered, and
\* then the client waits or the session is over.
THEOREM TranscriptCorrect == Spec => []TranscriptIsExecution
<1>1. ASSUME Inv PROVE TranscriptIsExecution
  <2>1. executed \in Seq(Frames) /\ transcript \in Seq(Frames)
    BY <1>1, Types DEF Inv
  <2>2. CASE executed = transcript
    BY <2>1, <2>2 DEF TranscriptIsExecution
  <2>3. CASE executed # transcript
    <3>1. PICK f \in Frames : executed = Append(transcript, f)
      BY <1>1, <2>3 DEF Inv, Flow, OneUnanswered
    <3>2. client.at \in {"waiting", "terminal"}
      <4>1. client.at \notin {"new", "open"}
        BY <1>1, <2>3 DEF Inv, Flow, NothingSent
      <4> QED
        BY <1>1, <4>1, Types DEF Inv, ClientRows
    <3>3. Len(executed) = Len(transcript) + 1
          /\ \A i \in 1..Len(transcript) : executed[i] = transcript[i]
      BY <2>1, <3>1
    <3>4. Len(transcript) \in Nat
      BY <2>1
    <3> QED
      BY <3>2, <3>3, <3>4 DEF TranscriptIsExecution
  <2> QED
    BY <2>2, <2>3
<1> QED
  BY <1>1, InvHolds, PTL

\* The two verifiers and the environment number the same requests: the worker never runs
\* ahead of the server's check nor falls more than one behind, the requests that were
\* executed are numbered without a gap, and the steps of every episode from its reset.
THEOREM VerifiersCorrect == Spec => []VerifiersAgree
<1>1. Init => Stepped
  BY SteppedInit
<1>2. Inv /\ Stepped /\ [Next]_vars => Stepped'
  BY SteppedStep
<1>3. StepsSinceReset = StepsOf(executed)
  BY DEF StepsSinceReset, StepsOf, Count
<1>4. Inv /\ Stepped => VerifiersAgree
  BY <1>3 DEF Inv, Numbered, Stepped, VerifiersAgree
<1> QED
  BY <1>1, <1>2, <1>4, InvHolds, PTL DEF Spec

---------------------------------------------------------------------------
(* The single-agent suites.  The strengthening: a MetaDrive worker without a *)
(* backend has made no environment, one with a backend was given a           *)
(* well-formed attestation, and it has run scenarios of its partition only.  *)

SuitesTyped ==
    /\ phase \in [Workers -> {"none", "new", "described", "reset", "closed"}]
    /\ environment \in [Workers -> Nat]
    /\ made \in [Workers -> Nat]
    /\ open \in [Workers -> SUBSET Nat]
    /\ ran \in [Workers -> SUBSET Scenarios]

OwnPartition(w) ==
    Single!IsMetaDrive(w) =>
        /\ phase[w] = "none" => open[w] = {} /\ ran[w] = {}
        /\ phase[w] # "none" => Single!WellFormed(attestation)
        /\ ran[w] \subseteq attestation.scenarios[Selected[w]]

\* A worker's part of OnlyARefusedTaxiStaysOpen.
WorkerLeavesNothing(w) ==
    /\ open[w] \subseteq {environment[w]} \/ Single!RefusedAfterBuilding(w)
    /\ phase[w] = "closed" => open[w] = {}
    /\ Single!RefusedAfterBuilding(w) => Suite[w] = "taxi_mdp" /\ candidate.built # "generated"

SuitesInv == SuitesTyped /\ \A w \in Workers : WorkerLeavesNothing(w) /\ OwnPartition(w)

LEMMA SuitesInit == Single!Init => SuitesInv
  BY DEF Single!Init, SuitesInv, SuitesTyped, WorkerLeavesNothing, OwnPartition, Single!NoEnvironment,
         Single!RefusedAfterBuilding

\* What a worker does concerns no other.
LEMMA OneWorker ==
    ASSUME SuitesInv, SuitesTyped', NEW w \in Workers,
           attestation' = attestation, candidate' = candidate,
           \A v \in Workers : v # w =>
              phase'[v] = phase[v] /\ environment'[v] = environment[v] /\ open'[v] = open[v]
              /\ made'[v] = made[v] /\ ran'[v] = ran[v],
           WorkerLeavesNothing(w)', OwnPartition(w)'
    PROVE  SuitesInv'
<1>1. \A v \in Workers : WorkerLeavesNothing(v)'
  BY DEF SuitesInv, WorkerLeavesNothing, Single!RefusedAfterBuilding
<1>2. \A v \in Workers : OwnPartition(v)'
  BY DEF SuitesInv, OwnPartition, Single!IsMetaDrive, Single!WellFormed, Single!Overlapping
<1> QED
  BY <1>1, <1>2 DEF SuitesInv

LEMMA BuildStep ==
    ASSUME SuitesInv, NEW w \in Workers,
           Single!BuildMetaDrive(w) \/ Single!BuildMiniGrid(w) \/ Single!BuildTaxi(w)
    PROVE  SuitesInv'
<1>1. phase[w] = "none" /\ UNCHANGED <<attestation, candidate, ran>>
  BY DEF Single!BuildMetaDrive, Single!BuildMiniGrid, Single!BuildTaxi, Single!external, Single!histories
<1>2. CASE Single!BuildMetaDrive(w)
  <2>1. /\ Single!IsMetaDrive(w) /\ Single!WellFormed(attestation)
        /\ phase' = [phase EXCEPT ![w] = "new"] /\ UNCHANGED <<environment, made, open>>
    BY <1>2 DEF Single!BuildMetaDrive
  <2>2. SuitesTyped'
    BY <1>1, <2>1 DEF SuitesInv, SuitesTyped
  <2>3. open[w] = {} /\ ran[w] \subseteq attestation.scenarios[Selected[w]]
    BY <1>1, <2>1 DEF SuitesInv, OwnPartition
  <2>5. WorkerLeavesNothing(w)'
    BY <1>1, <2>1, <2>3 DEF WorkerLeavesNothing, Single!RefusedAfterBuilding, SuitesInv, SuitesTyped
  <2>4. OwnPartition(w)'
    BY <1>1, <2>1, <2>3 DEF OwnPartition, SuitesInv, SuitesTyped, Single!IsMetaDrive, Single!WellFormed,
                          Single!Overlapping
  <2> QED
    BY <1>1, <2>1, <2>2, <2>4, <2>5, OneWorker DEF SuitesInv, SuitesTyped
<1>3. CASE Single!BuildMiniGrid(w) \/ Single!BuildTaxi(w)
  <2>1. /\ ~Single!IsMetaDrive(w)
        /\ made' = [made EXCEPT ![w] = 1] /\ open' = [open EXCEPT ![w] = {1}]
        /\ \/ phase' = [phase EXCEPT ![w] = "new"] /\ environment' = [environment EXCEPT ![w] = 1]
           \/ UNCHANGED <<phase, environment>> /\ Suite[w] = "taxi_mdp" /\ candidate.built # "generated"
    BY <1>3 DEF Single!BuildMiniGrid, Single!BuildTaxi, Single!IsMetaDrive
  <2>2. SuitesTyped'
    BY <1>1, <2>1 DEF SuitesInv, SuitesTyped
  <2>3. OwnPartition(w)'
    BY <2>1 DEF OwnPartition, Single!IsMetaDrive
  <2>4. WorkerLeavesNothing(w)'
    BY <1>1, <2>1 DEF WorkerLeavesNothing, Single!RefusedAfterBuilding, SuitesInv, SuitesTyped
  <2> QED
    BY <1>1, <2>1, <2>2, <2>3, <2>4, OneWorker DEF SuitesInv, SuitesTyped
<1> QED
  BY <1>2, <1>3

\* Describe and step leave what is open and what was run as it is.
LEMMA DescribeStep ==
    ASSUME SuitesInv, NEW w \in Workers, Single!Describe(w) \/ Single!Step(w)
    PROVE  SuitesInv'
<1>1. /\ UNCHANGED <<attestation, candidate, environment, made, open, ran>>
      /\ phase' = phase \/ (phase[w] = "new" /\ phase' = [phase EXCEPT ![w] = "described"])
  BY DEF Single!Describe, Single!Step, Single!external, Single!histories
<1>2. SuitesTyped'
  BY <1>1 DEF SuitesInv, SuitesTyped
<1>3. \A v \in Workers : (phase'[v] = "none" <=> phase[v] = "none") /\ (phase'[v] = "closed" <=> phase[v] = "closed")
  BY <1>1 DEF SuitesInv, SuitesTyped
<1>4. \A v \in Workers : WorkerLeavesNothing(v)'
  BY <1>1, <1>3 DEF SuitesInv, WorkerLeavesNothing, Single!RefusedAfterBuilding
<1>5. \A v \in Workers : OwnPartition(v)'
  BY <1>1, <1>3 DEF SuitesInv, OwnPartition, Single!IsMetaDrive, Single!WellFormed, Single!Overlapping
<1> QED
  BY <1>2, <1>4, <1>5 DEF SuitesInv

\* After a reset the only environment that can be open is the one the backend refers to.
LEMMA ResetStep ==
    ASSUME SuitesInv, NEW w \in Workers, NEW scenario \in Scenarios,
           \/ Single!ResetSame(w, scenario) \/ Single!ResetScenario(w, scenario)
           \/ Single!ResetScenarioEarly(w, scenario)
    PROVE  SuitesInv'
<1>1. /\ phase[w] \in {"described", "reset"} /\ scenario = Scenario[w]
      /\ UNCHANGED <<attestation, candidate>>
      /\ Single!IsMetaDrive(w) => scenario \in attestation.scenarios[Selected[w]]
  BY DEF Single!ResetSame, Single!ResetScenario, Single!ResetScenarioEarly, Single!Resettable, Single!external
<1>2. \/ phase' = [phase EXCEPT ![w] = "reset"] /\ ran' = [ran EXCEPT ![w] = @ \cup {scenario}]
      \/ UNCHANGED <<phase, ran>>
  BY <1>1 DEF Single!ResetSame, Single!ResetScenario, Single!ResetScenarioEarly, Single!ResetDone,
              Single!ResetFailed
<1>3. \/ UNCHANGED <<environment, made>> /\ (open' = open \/ open' = [open EXCEPT ![w] = @ \ {environment[w]}])
      \/ /\ made' = [made EXCEPT ![w] = @ + 1]
         /\ environment' = [environment EXCEPT ![w] = made'[w]]
         /\ open' = [open EXCEPT ![w] = (@ \ {environment[w]}) \cup {made'[w]}]
  BY DEF Single!ResetSame, Single!ResetScenario, Single!ResetScenarioEarly, Single!MakeNext
<1>4. open[w] \subseteq {environment[w]} /\ (Single!IsMetaDrive(w) => Single!WellFormed(attestation))
      /\ (Single!IsMetaDrive(w) => ran[w] \subseteq attestation.scenarios[Selected[w]])
  BY <1>1 DEF SuitesInv, WorkerLeavesNothing, Single!RefusedAfterBuilding, OwnPartition
<1>5. /\ phase' \in [Workers -> {"none", "new", "described", "reset", "closed"}]
      /\ ran' \in [Workers -> SUBSET Scenarios]
      /\ phase'[w] \in {"described", "reset"} /\ ran'[w] \subseteq ran[w] \cup {scenario}
      /\ \A v \in Workers : v # w => phase'[v] = phase[v] /\ ran'[v] = ran[v]
  BY <1>1, <1>2 DEF SuitesInv, SuitesTyped
<1>6. /\ environment' \in [Workers -> Nat] /\ made' \in [Workers -> Nat] /\ open' \in [Workers -> SUBSET Nat]
      /\ open'[w] \subseteq {environment'[w]}
      /\ \A v \in Workers : v # w => environment'[v] = environment[v] /\ open'[v] = open[v] /\ made'[v] = made[v]
  <2>1. CASE UNCHANGED <<environment, made>> /\ (open' = open \/ open' = [open EXCEPT ![w] = @ \ {environment[w]}])
    BY <1>4, <2>1 DEF SuitesInv, SuitesTyped
  <2>2. CASE /\ made' = [made EXCEPT ![w] = @ + 1]
             /\ environment' = [environment EXCEPT ![w] = made'[w]]
             /\ open' = [open EXCEPT ![w] = (@ \ {environment[w]}) \cup {made'[w]}]
    <3>1. made[w] \in Nat /\ made'[w] = made[w] + 1 /\ made' \in [Workers -> Nat]
      BY <2>2 DEF SuitesInv, SuitesTyped
    <3> QED
      BY <1>4, <2>2, <3>1 DEF SuitesInv, SuitesTyped
  <2> QED
    BY <1>3, <2>1, <2>2
<1>7. SuitesTyped'
  BY <1>5, <1>6 DEF SuitesTyped
<1>8. OwnPartition(w)'
  BY <1>1, <1>4, <1>5 DEF OwnPartition, Single!IsMetaDrive, Single!WellFormed, Single!Overlapping
<1>9. WorkerLeavesNothing(w)'
  BY <1>5, <1>6 DEF WorkerLeavesNothing, Single!RefusedAfterBuilding
<1> QED
  BY <1>1, <1>5, <1>6, <1>7, <1>8, <1>9, OneWorker

LEMMA CloseStep ==
    ASSUME SuitesInv, NEW w \in Workers, Single!Close(w) \/ Single!CloseFails(w)
    PROVE  SuitesInv'
<1>1. /\ phase[w] \in {"new", "described", "reset"} /\ UNCHANGED <<attestation, candidate, made, ran>>
      /\ open' = [open EXCEPT ![w] = @ \ {environment[w]}]
      /\ \/ /\ phase' = [phase EXCEPT ![w] = "closed"]
            /\ environment' = [environment EXCEPT ![w] = 0] \/ environment' = [environment EXCEPT ![w] = @]
         \/ UNCHANGED <<phase, environment>>
  BY DEF Single!Close, Single!CloseFails, Single!external, Single!histories, Single!NoEnvironment
<1>2. open[w] \subseteq {environment[w]} /\ (Single!IsMetaDrive(w) => Single!WellFormed(attestation))
      /\ (Single!IsMetaDrive(w) => ran[w] \subseteq attestation.scenarios[Selected[w]])
  BY <1>1 DEF SuitesInv, WorkerLeavesNothing, Single!RefusedAfterBuilding, OwnPartition
<1>3. SuitesTyped'
  BY <1>1 DEF SuitesInv, SuitesTyped
<1>4. open'[w] = {} /\ phase'[w] # "none"
      /\ \A v \in Workers : v # w => phase'[v] = phase[v] /\ environment'[v] = environment[v] /\ open'[v] = open[v]
  BY <1>1, <1>2 DEF SuitesInv, SuitesTyped
<1>5. OwnPartition(w)'
  BY <1>1, <1>2, <1>4 DEF OwnPartition, Single!IsMetaDrive, Single!WellFormed, Single!Overlapping
<1>6. WorkerLeavesNothing(w)'
  BY <1>4 DEF WorkerLeavesNothing, Single!RefusedAfterBuilding
<1> QED
  BY <1>1, <1>3, <1>4, <1>5, <1>6, OneWorker

LEMMA SuitesStep == SuitesInv /\ [Single!Next]_(Single!vars) => SuitesInv'
<1> SUFFICES ASSUME SuitesInv, [Single!Next]_(Single!vars) PROVE SuitesInv'
  OBVIOUS
<1>1. CASE UNCHANGED Single!vars
  BY <1>1 DEF Single!vars, SuitesInv, SuitesTyped, WorkerLeavesNothing, Single!RefusedAfterBuilding,
              OwnPartition, Single!IsMetaDrive, Single!WellFormed, Single!Overlapping
<1>2. CASE Single!Next
  BY <1>2, BuildStep, DescribeStep, ResetStep, CloseStep DEF Single!Next
<1> QED
  BY <1>1, <1>2

\* Whatever the environments raise, none stays open but the one the backend can close, and
\* none after close; the one exception is a candidate that Taxi's factory built and refused.
THEOREM OpenCorrect == Single!Spec => []OnlyARefusedTaxiStaysOpen
<1>1. SuitesInv => Single!OnlyARefusedTaxiStaysOpen
  BY DEF SuitesInv, WorkerLeavesNothing, Single!OnlyARefusedTaxiStaysOpen
<1> QED
  BY <1>1, SuitesInit, SuitesStep, PTL DEF OnlyARefusedTaxiStaysOpen, Single!Spec

\* What one partition's workers run, no worker of another partition does, whatever the
\* attestation they were given.
THEOREM PartitionsApart ==
    ASSUME Single!SuitesAssumption
    PROVE  Single!Spec => []PartitionsStayApart
<1>1. ASSUME SuitesInv PROVE Single!PartitionsStayApart
  <2> SUFFICES ASSUME NEW v \in Workers, NEW w \in Workers, Single!IsMetaDrive(v), Single!IsMetaDrive(w),
                      Selected[v] # Selected[w], ran[v] \cap ran[w] # {}
               PROVE  FALSE
    BY DEF Single!PartitionsStayApart
  <2>1. Selected[v] \in Single!Kinds /\ Selected[w] \in Single!Kinds
    BY DEF Single!SuitesAssumption
  <2>2. Single!WellFormed(attestation)
    BY <1>1 DEF SuitesInv, OwnPartition
  <2>3. /\ ran[v] \subseteq attestation.scenarios[Selected[v]]
        /\ ran[w] \subseteq attestation.scenarios[Selected[w]]
    BY <1>1 DEF SuitesInv, OwnPartition
  <2> QED
    BY <2>1, <2>2, <2>3 DEF Single!WellFormed, Single!Overlapping
<1> QED
  BY <1>1, SuitesInit, SuitesStep, PTL DEF PartitionsStayApart, Single!Spec

LEMMA SuitesTypeStep ==
    ASSUME Single!BoundsAssumption, Single!SuitesAssumption, Single!TypeOK, [Single!Next]_(Single!vars)
    PROVE  Single!TypeOK'
<1> USE DEF Single!external, Single!histories
<1>1. CASE UNCHANGED Single!vars
  BY <1>1 DEF Single!vars, Single!TypeOK
<1>2. ASSUME NEW w \in Workers,
             Single!BuildMetaDrive(w) \/ Single!BuildMiniGrid(w) \/ Single!BuildTaxi(w) \/ Single!Describe(w)
      PROVE  Single!TypeOK'
  <2>1. 1 \in 1..MaxMade /\ 1 \in 0..MaxMade
    BY DEF Single!BoundsAssumption
  <2>2. UNCHANGED <<attestation, candidate, stepId, resets, stepped, ran>>
        /\ phase' \in [Workers -> {"none", "new", "described", "reset", "closed"}]
    BY <1>2 DEF Single!BuildMetaDrive, Single!BuildMiniGrid, Single!BuildTaxi, Single!Describe, Single!TypeOK
  <2>3. /\ environment' = environment \/ environment' = [environment EXCEPT ![w] = 1]
        /\ made' = made \/ made' = [made EXCEPT ![w] = 1]
        /\ open' = open \/ open' = [open EXCEPT ![w] = {1}]
    BY <1>2 DEF Single!BuildMetaDrive, Single!BuildMiniGrid, Single!BuildTaxi, Single!Describe
  <2>4. /\ made' \in [Workers -> 0..MaxMade] /\ environment' \in [Workers -> 0..MaxMade]
        /\ open' \in [Workers -> SUBSET (1..MaxMade)]
    <3>1. made' \in [Workers -> 0..MaxMade]
      BY <2>1, <2>3 DEF Single!TypeOK
    <3>2. environment' \in [Workers -> 0..MaxMade]
      BY <2>1, <2>3 DEF Single!TypeOK
    <3>3. open' \in [Workers -> SUBSET (1..MaxMade)]
      <4>1. {1} \in SUBSET (1..MaxMade)
        BY <2>1
      <4> QED
        BY <2>3, <4>1 DEF Single!TypeOK
    <3> QED
      BY <3>1, <3>2, <3>3
  <2> QED
    BY <2>2, <2>4 DEF Single!TypeOK
<1>3. ASSUME NEW w \in Workers, Single!Step(w) PROVE Single!TypeOK'
  <2>1. stepId[w] \in 0..MaxSteps /\ stepId[w] < MaxSteps
    BY <1>3 DEF Single!Step, Single!TypeOK
  <2>2. stepId[w] + 1 \in 0..MaxSteps
    BY <2>1 DEF Single!BoundsAssumption
  <2> QED
    BY <1>3, <2>2 DEF Single!Step, Single!TypeOK
<1>4. ASSUME NEW w \in Workers, Single!Close(w) \/ Single!CloseFails(w) PROVE Single!TypeOK'
  <2>1. 0 \in 0..MaxMade
    BY DEF Single!BoundsAssumption
  <2>2. /\ UNCHANGED <<attestation, candidate, stepId, made, resets, stepped, ran>>
        /\ open' = [open EXCEPT ![w] = @ \ {environment[w]}]
        /\ phase' = phase \/ phase' = [phase EXCEPT ![w] = "closed"]
        /\ environment' = environment \/ environment' = [environment EXCEPT ![w] = 0]
             \/ environment' = [environment EXCEPT ![w] = @]
    BY <1>4 DEF Single!Close, Single!CloseFails, Single!NoEnvironment
  <2>3. /\ environment' \in [Workers -> 0..MaxMade]
        /\ open' \in [Workers -> SUBSET (1..MaxMade)]
        /\ phase' \in [Workers -> {"none", "new", "described", "reset", "closed"}]
    BY <2>1, <2>2 DEF Single!TypeOK
  <2> QED
    BY <2>2, <2>3 DEF Single!TypeOK
<1>5. ASSUME NEW w \in Workers, Single!ResetDone(w) \/ Single!ResetFailed(w)
      PROVE  /\ phase' \in [Workers -> {"none", "new", "described", "reset", "closed"}]
             /\ stepId' \in [Workers -> 0..MaxSteps]
             /\ resets' \in [Workers -> BOOLEAN] /\ stepped' = stepped
             /\ ran' \in [Workers -> SUBSET Scenarios]
  <2>1. 0 \in 0..MaxSteps /\ Scenario[w] \in Scenarios
    BY DEF Single!BoundsAssumption, Single!SuitesAssumption
  <2>2. CASE Single!ResetFailed(w)
    BY <2>2 DEF Single!ResetFailed, Single!TypeOK
  <2>3. CASE Single!ResetDone(w)
    <3>1. ran' = [ran EXCEPT ![w] = @ \cup {Scenario[w]}] /\ ran \in [Workers -> SUBSET Scenarios]
      BY <2>3 DEF Single!ResetDone, Single!TypeOK
    <3>2. ran' \in [Workers -> SUBSET Scenarios]
      BY <2>1, <3>1
    <3> QED
      BY <2>1, <2>3, <3>2 DEF Single!ResetDone, Single!TypeOK
  <2> QED
    BY <1>5, <2>2, <2>3
<1>6. ASSUME NEW w \in Workers, Single!MakeNext(w)
      PROVE  /\ made' \in [Workers -> 0..MaxMade] /\ environment' \in [Workers -> 0..MaxMade]
             /\ open' \in [Workers -> SUBSET (1..MaxMade)]
  <2>1. made[w] \in 0..MaxMade /\ made[w] < MaxMade /\ MaxMade \in Nat
    BY <1>6 DEF Single!MakeNext, Single!TypeOK, Single!BoundsAssumption
  <2>2. made[w] + 1 \in 0..MaxMade /\ made[w] + 1 \in 1..MaxMade
    BY <2>1
  <2>3. made' \in [Workers -> 0..MaxMade] /\ made'[w] = made[w] + 1
    BY <1>6, <2>2 DEF Single!MakeNext, Single!TypeOK
  <2> QED
    BY <1>6, <2>2, <2>3 DEF Single!MakeNext, Single!TypeOK
<1>7. ASSUME NEW w \in Workers, NEW scenario \in Scenarios,
             \/ Single!ResetSame(w, scenario) \/ Single!ResetScenario(w, scenario)
             \/ Single!ResetScenarioEarly(w, scenario)
      PROVE  Single!TypeOK'
  <2>1. UNCHANGED <<attestation, candidate>> /\ (Single!ResetDone(w) \/ Single!ResetFailed(w))
    BY <1>7 DEF Single!ResetSame, Single!ResetScenario, Single!ResetScenarioEarly
  <2>2. /\ made' \in [Workers -> 0..MaxMade] /\ environment' \in [Workers -> 0..MaxMade]
        /\ open' \in [Workers -> SUBSET (1..MaxMade)]
    BY <1>6, <1>7 DEF Single!ResetSame, Single!ResetScenario, Single!ResetScenarioEarly, Single!TypeOK
  <2> QED
    BY <1>5, <2>1, <2>2 DEF Single!TypeOK
<1> QED
  BY <1>1, <1>2, <1>3, <1>4, <1>7 DEF Single!Next

\* Type correctness of the workers.
THEOREM SuitesTypeCorrect ==
    ASSUME Single!BoundsAssumption, Single!SuitesAssumption
    PROVE  Single!Spec /\ Given => []Single!TypeOK
<1>1. Single!Init /\ Given => Single!TypeOK
  BY DEF Single!Init, Given, Single!TypeOK, Single!NoEnvironment, Single!BoundsAssumption
<1>2. Single!TypeOK /\ [Single!Next]_(Single!vars) => Single!TypeOK'
  BY SuitesTypeStep
<1> QED
  BY <1>1, <1>2, PTL DEF Single!Spec

---------------------------------------------------------------------------
(* The multi-agent suites.  The strengthening: no SMACv2 snapshot is of a    *)
(* later step than the adapter is at, and those of its step are of the state *)
(* the battle is in; the simulation of CityLearn has moved as often as its   *)
(* time step says, and the adapter has given as many transitions as its own. *)
(* Both hold while no reset has failed.                                      *)

SmacTyped ==
    /\ battle \in [tick: Nat, mask: Masks]
    /\ smac \in [partition: {"training", "evaluation", "none"}, config: Configs \cup {"none"},
                 episode: Nat, step: Nat, latest: Multi!Tokens \cup {Multi!NoToken}]
    /\ smac.partition # "none" => smac.config \in Configs
    /\ snapshots \in [Policies -> SUBSET [token: Multi!Tokens, tick: Nat]]

CityTyped ==
    /\ city \in [tick: Nat, time: Nat, moves: Nat]
    /\ timeStep \in Nat \cup {Multi!NoTime}
    /\ given \in Nat

\* The step a token is for is not after the one the adapter is at.
NotAhead(token) ==
    token.episode < smac.episode \/ (token.episode = smac.episode /\ token.step <= smac.step)

OfThisStep(token) == token.episode = smac.episode /\ token.step = smac.step

SnapshotsInOrder ==
    \A p \in Policies : \A snapshot \in snapshots[p] :
       /\ NotAhead(snapshot.token)
       /\ suite = "smacv2_posg" /\ reset /\ smac.partition # "none" /\ OfThisStep(snapshot.token)
             => snapshot.tick = battle.tick

TransitionsInOrder ==
    suite = "citylearn_posg" /\ reset =>
       city.time = Start + city.moves /\ timeStep = Start + given

AgentsInv ==
    /\ SmacTyped /\ CityTyped /\ reset \in BOOLEAN
    /\ SnapshotsInOrder /\ TransitionsInOrder
    /\ Multi!AgentsActOnWhatIs

LEMMA AgentsInit ==
    ASSUME Multi!ManifestAssumption, Multi!Init PROVE AgentsInv
<1>1. SmacTyped /\ CityTyped
  BY DEF Multi!Init, SmacTyped, CityTyped, Multi!ManifestAssumption
<1>2. reset = FALSE /\ \A p \in Policies : snapshots[p] = {}
  BY DEF Multi!Init
<1>3. Multi!AgentsActOnWhatIs
  BY DEF Multi!Init, Multi!AgentsActOnWhatIs
<1> QED
  BY <1>1, <1>2, <1>3 DEF AgentsInv, SnapshotsInOrder, TransitionsInOrder

\* The battle moves on, or not.
LEMMA BattleTyped ==
    ASSUME AgentsInv, Multi!BattleMoves \/ UNCHANGED battle
    PROVE  battle' \in [tick: Nat, mask: Masks]
  BY DEF AgentsInv, SmacTyped, Multi!BattleMoves

\* What a SMACv2 step leaves of the other adapter.
LEMMA CitySame ==
    ASSUME AgentsInv, UNCHANGED <<suite, city, timeStep, given>>, suite = "smacv2_posg"
    PROVE  CityTyped' /\ TransitionsInOrder'
  BY DEF AgentsInv, CityTyped, TransitionsInOrder

\* A reset starts an episode no snapshot is of; one that fails invalidates them all.
LEMMA Smacv2ResetStep ==
    ASSUME Multi!ManifestAssumption, AgentsInv,
           \/ \E partition \in {"training", "evaluation"}, config \in Configs : Multi!Smacv2Reset(partition, config)
           \/ Multi!Smacv2ResetFails
    PROVE  AgentsInv'
<1>1. /\ UNCHANGED <<suite, snapshots, city, timeStep, given, act>> /\ suite = "smacv2_posg"
      /\ reset' \in BOOLEAN /\ battle' \in [tick: Nat, mask: Masks]
  BY BattleTyped DEF Multi!Smacv2Reset, Multi!Smacv2ResetFails, Multi!cityVars
<1>2. CityTyped' /\ TransitionsInOrder' /\ Multi!AgentsActOnWhatIs'
  BY <1>1, CitySame DEF AgentsInv, Multi!AgentsActOnWhatIs
<1>3. ASSUME NEW partition \in {"training", "evaluation"}, NEW config \in Configs,
             Multi!Smacv2Reset(partition, config)
      PROVE  SmacTyped' /\ SnapshotsInOrder'
  <2>1. smac' = [partition |-> partition, config |-> config, episode |-> smac.episode + 1,
                 step |-> 0, latest |-> Multi!NoToken]
    BY <1>3 DEF Multi!Smacv2Reset
  <2>2. smac.episode \in Nat /\ smac'.episode = smac.episode + 1
    BY <2>1 DEF AgentsInv, SmacTyped
  <2>3. SmacTyped'
    BY <1>1, <2>1, <2>2 DEF AgentsInv, SmacTyped
  <2>4. ASSUME NEW p \in Policies, NEW snapshot \in snapshots[p]
        PROVE  snapshot.token.episode < smac'.episode
    <3>1. snapshot.token.episode \in Nat
      BY DEF AgentsInv, SmacTyped, Multi!Tokens
    <3>2. snapshot.token.episode <= smac.episode
      BY <2>2, <3>1 DEF AgentsInv, SnapshotsInOrder, NotAhead
    <3> QED
      BY <2>2, <3>1, <3>2
  <2>5. ASSUME NEW p \in Policies, NEW snapshot \in snapshots[p]
        PROVE  NotAhead(snapshot.token)' /\ ~OfThisStep(snapshot.token)'
    <3>1. snapshot.token.episode \in Nat
      BY DEF AgentsInv, SmacTyped, Multi!Tokens
    <3> QED
      BY <2>2, <2>4, <3>1 DEF NotAhead, OfThisStep
  <2> QED
    BY <1>1, <2>3, <2>5 DEF SnapshotsInOrder
<1>4. ASSUME Multi!Smacv2ResetFails PROVE SmacTyped' /\ SnapshotsInOrder'
  <2>1. smac' = smac /\ reset' = FALSE
    BY <1>4 DEF Multi!Smacv2ResetFails
  <2> QED
    BY <1>1, <2>1 DEF AgentsInv, SmacTyped, SnapshotsInOrder, NotAhead
<1> QED
  BY <1>1, <1>2, <1>3, <1>4 DEF AgentsInv

\* A snapshot is of the state it was taken of.
LEMMA SnapshotStep ==
    ASSUME AgentsInv, NEW p \in Policies, Multi!ActorSnapshot(p)
    PROVE  AgentsInv'
<1> DEFINE token == Multi!StateToken
           new == [token |-> token, tick |-> battle.tick]
<1>1. /\ smac' = [smac EXCEPT !.latest = token] /\ suite = "smacv2_posg" /\ smac.partition # "none"
      /\ snapshots' = [snapshots EXCEPT ![p] = @ \cup {new}]
      /\ UNCHANGED <<suite, battle, city, timeStep, given, reset, act>>
  BY DEF Multi!ActorSnapshot, Multi!cityVars
<1>2. CityTyped' /\ TransitionsInOrder' /\ Multi!AgentsActOnWhatIs'
  BY <1>1, CitySame DEF AgentsInv, Multi!AgentsActOnWhatIs
<1>3. smac.config \in Configs
  BY <1>1 DEF AgentsInv, SmacTyped
<1>4. token \in Multi!Tokens /\ OfThisStep(token)
  BY <1>1, <1>3 DEF AgentsInv, SmacTyped, Multi!StateToken, Multi!Tokens, OfThisStep
<1> HIDE DEF token
<1>5. SmacTyped'
  BY <1>1, <1>4 DEF AgentsInv, SmacTyped
<1>6. smac'.episode = smac.episode /\ smac'.step = smac.step /\ smac'.partition = smac.partition
      /\ smac.step \in Nat
  BY <1>1 DEF AgentsInv, SmacTyped
<1>7. ASSUME NEW q \in Policies, NEW snapshot \in snapshots'[q]
      PROVE  /\ NotAhead(snapshot.token)'
             /\ reset' /\ smac'.partition # "none" /\ OfThisStep(snapshot.token)' => snapshot.tick = battle'.tick
  <2>1. snapshot \in snapshots[q] \/ snapshot = new
    BY <1>1 DEF AgentsInv, SmacTyped
  <2>2. CASE snapshot \in snapshots[q]
    BY <1>1, <1>6, <2>2 DEF AgentsInv, SnapshotsInOrder, NotAhead, OfThisStep
  <2>3. CASE snapshot = new
    BY <1>1, <1>4, <1>6, <2>3 DEF NotAhead, OfThisStep
  <2> QED
    BY <2>1, <2>2, <2>3
<1> QED
  BY <1>1, <1>2, <1>5, <1>7 DEF AgentsInv, SnapshotsInOrder

\* The token that lets a step through is of the step the adapter is at, so its snapshot is
\* of the state the battle is in.
LEMMA CurrentSnapshot ==
    ASSUME AgentsInv, NEW p \in Policies, NEW snapshot \in snapshots[p], Multi!TokenIsCurrent(snapshot.token),
           suite = "smacv2_posg"
    PROVE  reset => snapshot.tick = battle.tick
<1>1. OfThisStep(snapshot.token) /\ smac.partition # "none"
  BY DEF Multi!TokenIsCurrent, Multi!StateToken, OfThisStep
<1> QED
  BY <1>1 DEF AgentsInv, SnapshotsInOrder

LEMMA Smacv2StepStep ==
    ASSUME AgentsInv, NEW p \in Policies, NEW snapshot \in snapshots[p],
           \/ Multi!Smacv2Step(p, snapshot) \/ Multi!Smacv2StepFails(p, snapshot)
           \/ Multi!Smacv2StepIsStale(p, snapshot)
    PROVE  AgentsInv'
<1>1. /\ UNCHANGED <<suite, snapshots, city, timeStep, given, reset>> /\ suite = "smacv2_posg"
      /\ battle' \in [tick: Nat, mask: Masks]
  BY BattleTyped
  DEF Multi!Smacv2Step, Multi!Smacv2StepFails, Multi!Smacv2StepIsStale, Multi!cityVars
<1>2. CityTyped' /\ TransitionsInOrder'
  BY <1>1, CitySame
<1>3. Multi!AgentsActOnWhatIs'
  <2>1. CASE act' = act
    BY <2>1 DEF AgentsInv, Multi!AgentsActOnWhatIs
  <2>2. CASE /\ Multi!TokenIsCurrent(snapshot.token)
             /\ act' = [from |-> snapshot.tick, at |-> battle.tick, reset |-> reset]
    BY <1>1, <2>2, CurrentSnapshot DEF Multi!AgentsActOnWhatIs
  <2> QED
    BY <2>1, <2>2 DEF Multi!Smacv2Step, Multi!Smacv2StepFails, Multi!Smacv2StepIsStale
<1>4. CASE Multi!Smacv2Step(p, snapshot)
  <2>1. smac' = [smac EXCEPT !.latest = Multi!NoToken, !.step = @ + 1]
    BY <1>4 DEF Multi!Smacv2Step
  <2>2. smac'.episode = smac.episode /\ smac'.step = smac.step + 1 /\ smac.step \in Nat
    BY <2>1 DEF AgentsInv, SmacTyped
  <2>3. SmacTyped'
    <3> DEFINE n == smac.step + 1
    <3>1. n \in Nat /\ smac' = [smac EXCEPT !.latest = Multi!NoToken, !.step = n]
      BY <2>1, <2>2
    <3> HIDE DEF n
    <3> QED
      BY <1>1, <3>1 DEF AgentsInv, SmacTyped
  <2>4. ASSUME NEW q \in Policies, NEW other \in snapshots[q]
        PROVE  NotAhead(other.token)' /\ ~OfThisStep(other.token)'
    <3>1. NotAhead(other.token) /\ other.token.step \in Nat /\ other.token.episode \in Nat
          /\ smac.episode \in Nat
      BY DEF AgentsInv, SnapshotsInOrder, SmacTyped, Multi!Tokens
    <3> QED
      BY <2>2, <3>1 DEF NotAhead, OfThisStep
  <2> QED
    BY <1>1, <1>2, <1>3, <2>3, <2>4 DEF AgentsInv, SnapshotsInOrder
<1>5. CASE Multi!Smacv2StepFails(p, snapshot) \/ Multi!Smacv2StepIsStale(p, snapshot)
  <2>1. \/ smac' = [smac EXCEPT !.latest = Multi!NoToken, !.partition = "none", !.config = "none"]
        \/ smac' = [smac EXCEPT !.latest = Multi!NoToken] /\ battle' = battle
    BY <1>5 DEF Multi!Smacv2StepFails, Multi!Smacv2StepIsStale
  <2>2. smac'.episode = smac.episode /\ smac'.step = smac.step
        /\ (smac'.partition = "none" \/ (smac'.partition = smac.partition /\ battle' = battle))
    BY <2>1 DEF AgentsInv, SmacTyped
  <2>3. SmacTyped'
    BY <1>1, <2>1 DEF AgentsInv, SmacTyped
  <2>4. SnapshotsInOrder'
    BY <1>1, <2>2 DEF AgentsInv, SnapshotsInOrder, NotAhead, OfThisStep
  <2> QED
    BY <1>1, <1>2, <1>3, <2>3, <2>4 DEF AgentsInv
<1> QED
  BY <1>4, <1>5

\* A transition that is given is the next of the simulation, or it is refused.
LEMMA CityLearnStepStep ==
    ASSUME Multi!ManifestAssumption, AgentsInv,
           \/ Multi!CityLearnReset \/ Multi!CityLearnResetFails
           \/ Multi!CityLearnStep \/ Multi!CityLearnStepFails
    PROVE  AgentsInv'
<1>1. suite = "citylearn_posg" /\ UNCHANGED <<suite, battle, smac, snapshots>>
  BY DEF Multi!CityLearnReset, Multi!CityLearnResetFails, Multi!CityLearnStep, Multi!CityLearnStepFails,
         Multi!smacVars
<1>2. /\ city.tick \in Nat /\ city.time \in Nat /\ city.moves \in Nat /\ given \in Nat
      /\ timeStep \in Nat \cup {Multi!NoTime} /\ Start \in Nat
  BY DEF AgentsInv, CityTyped, Multi!ManifestAssumption
<1>3. SmacTyped'
  BY <1>1 DEF AgentsInv, SmacTyped
<1>4. reset' \in BOOLEAN
  BY DEF AgentsInv, Multi!CityLearnReset, Multi!CityLearnResetFails, Multi!CityLearnStep,
         Multi!CityLearnStepFails
<1>5. SnapshotsInOrder'
  BY <1>1 DEF AgentsInv, SnapshotsInOrder, NotAhead
<1>6. CASE Multi!CityLearnReset
  <2>1. /\ city' = [tick |-> city.tick + 1, time |-> Start, moves |-> 0] /\ timeStep' = Start
        /\ given' = 0 /\ reset' = TRUE /\ act' = act
    BY <1>6 DEF Multi!CityLearnReset
  <2>2. CityTyped' /\ TransitionsInOrder' /\ Multi!AgentsActOnWhatIs'
    BY <1>2, <2>1 DEF CityTyped, TransitionsInOrder, AgentsInv, Multi!AgentsActOnWhatIs
  <2> QED
    BY <1>3, <1>4, <1>5, <2>2 DEF AgentsInv
<1>7. CASE Multi!CityLearnResetFails
  <2>1. /\ UNCHANGED <<timeStep, given, act>> /\ reset' = FALSE
        /\ city' = [tick |-> city.tick + 1, time |-> Start, moves |-> 0] \/ city' = city
    BY <1>7 DEF Multi!CityLearnResetFails
  <2>2. CityTyped' /\ TransitionsInOrder' /\ Multi!AgentsActOnWhatIs'
    BY <1>2, <2>1 DEF CityTyped, TransitionsInOrder, AgentsInv, Multi!AgentsActOnWhatIs
  <2> QED
    BY <1>3, <1>4, <1>5, <2>2 DEF AgentsInv
<1>8. CASE Multi!CityLearnStep
  <2>1. /\ city' = [tick |-> city.tick + 1, time |-> city.time + 1, moves |-> city.moves + 1]
        /\ city'.time = timeStep + 1 /\ timeStep' = city'.time /\ given' = given + 1
        /\ act' = [from |-> given', at |-> city'.moves, reset |-> reset] /\ UNCHANGED <<suite, reset>>
    BY <1>8 DEF Multi!CityLearnStep, Multi!CityMoves
  <2>2. CityTyped' /\ TransitionsInOrder'
    BY <1>2, <2>1 DEF CityTyped, TransitionsInOrder, AgentsInv
  <2>3. reset => given' = city'.moves
    BY <1>1, <1>2, <2>1 DEF AgentsInv, TransitionsInOrder
  <2>4. Multi!AgentsActOnWhatIs'
    BY <2>1, <2>3 DEF Multi!AgentsActOnWhatIs
  <2> QED
    BY <1>3, <1>4, <1>5, <2>2, <2>4 DEF AgentsInv
<1>9. CASE Multi!CityLearnStepFails
  <2>1. /\ UNCHANGED <<suite, timeStep, given, reset, act>>
        /\ \/ city' = [tick |-> city.tick + 1, time |-> city.time + 1, moves |-> city.moves + 1]
           \/ city' = city
    BY <1>9 DEF Multi!CityLearnStepFails, Multi!CityMoves
  <2>2. CityTyped' /\ TransitionsInOrder' /\ Multi!AgentsActOnWhatIs'
    BY <1>2, <2>1 DEF CityTyped, TransitionsInOrder, AgentsInv, Multi!AgentsActOnWhatIs
  <2> QED
    BY <1>3, <1>4, <1>5, <2>2 DEF AgentsInv
<1> QED
  BY <1>6, <1>7, <1>8, <1>9

LEMMA AgentsStep ==
    ASSUME Multi!ManifestAssumption, AgentsInv, [Multi!Next]_(Multi!vars)
    PROVE  AgentsInv'
<1>1. CASE UNCHANGED Multi!vars
  BY <1>1 DEF Multi!vars, AgentsInv, SmacTyped, CityTyped, SnapshotsInOrder, TransitionsInOrder, NotAhead,
              OfThisStep, Multi!AgentsActOnWhatIs
<1>2. CASE Multi!Next
  BY <1>2, Smacv2ResetStep, SnapshotStep, Smacv2StepStep, CityLearnStepStep DEF Multi!Next
<1> QED
  BY <1>1, <1>2

\* While no reset fails, what agents act on is the state the simulation is in, for any
\* number of policy threads and any manifest.
THEOREM AgentsActCorrectly ==
    ASSUME Multi!ManifestAssumption
    PROVE  Multi!Spec => []AgentsActOnWhatIs
<1>1. Multi!Init => AgentsInv
  BY AgentsInit
<1>2. AgentsInv /\ [Multi!Next]_(Multi!vars) => AgentsInv'
  BY AgentsStep
<1>3. AgentsInv => Multi!AgentsActOnWhatIs
  BY DEF AgentsInv
<1> QED
  BY <1>1, <1>2, <1>3, PTL DEF AgentsActOnWhatIs, Multi!Spec

\* Type correctness of the SMACv2 adapter's part: an episode runs a configuration of the
\* partition it was reset for.
SmacParted ==
    /\ battle \in [tick: 0..MaxTicks, mask: Masks]
    /\ smac.partition = "training" => smac.config \in TrainConfigs
    /\ smac.partition = "evaluation" => smac.config \in TestConfigs
    /\ \A p \in Policies : snapshots[p] \subseteq [token: Multi!Tokens, tick: 0..MaxTicks]

AgentsTyped ==
    /\ SmacParted
    /\ suite \in {"smacv2_posg", "citylearn_posg"}
    /\ city \in [tick: 0..MaxTicks, time: Nat, moves: Nat]
    /\ act \in [from: Nat, at: Nat, reset: BOOLEAN]

LEMMA SmacTypeStep ==
    ASSUME Multi!MaxTicksAssumption, AgentsInv, AgentsTyped,
           \/ \E partition \in {"training", "evaluation"}, config \in Configs : Multi!Smacv2Reset(partition, config)
           \/ Multi!Smacv2ResetFails
           \/ \E p \in Policies : Multi!ActorSnapshot(p)
           \/ \E p \in Policies : \E snapshot \in snapshots[p] :
                 \/ Multi!Smacv2Step(p, snapshot) \/ Multi!Smacv2StepFails(p, snapshot)
                 \/ Multi!Smacv2StepIsStale(p, snapshot)
    PROVE  AgentsTyped'
<1>1. UNCHANGED <<suite, city>>
  BY DEF Multi!Smacv2Reset, Multi!Smacv2ResetFails, Multi!ActorSnapshot, Multi!Smacv2Step,
         Multi!Smacv2StepFails, Multi!Smacv2StepIsStale, Multi!cityVars
<1>2. battle' \in [tick: 0..MaxTicks, mask: Masks]
  <2>1. Multi!BattleMoves \/ UNCHANGED battle
    BY DEF Multi!Smacv2Reset, Multi!Smacv2ResetFails, Multi!ActorSnapshot, Multi!Smacv2Step,
           Multi!Smacv2StepFails, Multi!Smacv2StepIsStale
  <2> QED
    BY <2>1 DEF Multi!BattleMoves, Multi!MaxTicksAssumption, AgentsTyped, SmacParted
<1>3. act' \in [from: Nat, at: Nat, reset: BOOLEAN]
  <2>1. battle.tick \in Nat /\ reset \in BOOLEAN
        /\ \A p \in Policies : \A snapshot \in snapshots[p] : snapshot.tick \in Nat
    BY DEF AgentsInv, SmacTyped
  <2>2. \/ act' = act
        \/ \E p \in Policies : \E snapshot \in snapshots[p] :
              act' = [from |-> snapshot.tick, at |-> battle.tick, reset |-> reset]
    BY DEF Multi!Smacv2Reset, Multi!Smacv2ResetFails, Multi!ActorSnapshot, Multi!Smacv2Step,
           Multi!Smacv2StepFails, Multi!Smacv2StepIsStale
  <2> QED
    BY <2>1, <2>2 DEF AgentsTyped
<1>4. /\ smac'.partition = "training" => smac'.config \in TrainConfigs
      /\ smac'.partition = "evaluation" => smac'.config \in TestConfigs
  <2>1. CASE \E partition \in {"training", "evaluation"}, config \in Configs : Multi!Smacv2Reset(partition, config)
    BY <2>1 DEF Multi!Smacv2Reset, Multi!Allowed
  <2>2. CASE smac'.partition = smac.partition /\ smac'.config = smac.config
    BY <2>2 DEF AgentsTyped, SmacParted
  <2>3. CASE smac'.partition = "none"
    BY <2>3
  <2>4. CASE \/ Multi!Smacv2ResetFails
             \/ \E p \in Policies : Multi!ActorSnapshot(p)
             \/ \E p \in Policies : \E snapshot \in snapshots[p] :
                   \/ Multi!Smacv2Step(p, snapshot) \/ Multi!Smacv2StepFails(p, snapshot)
                   \/ Multi!Smacv2StepIsStale(p, snapshot)
    <3>1. (smac'.partition = smac.partition /\ smac'.config = smac.config) \/ smac'.partition = "none"
      BY <2>4 DEF Multi!Smacv2ResetFails, Multi!ActorSnapshot, Multi!Smacv2Step,
                  Multi!Smacv2StepFails, Multi!Smacv2StepIsStale, AgentsInv, SmacTyped
    <3> QED
      BY <2>2, <2>3, <3>1
  <2> QED
    BY <2>1, <2>4
<1>5. \A p \in Policies : snapshots'[p] \subseteq [token: Multi!Tokens, tick: 0..MaxTicks]
  <2>1. CASE snapshots' = snapshots
    BY <2>1 DEF AgentsTyped, SmacParted
  <2>2. ASSUME NEW p \in Policies, Multi!ActorSnapshot(p)
        PROVE  \A q \in Policies : snapshots'[q] \subseteq [token: Multi!Tokens, tick: 0..MaxTicks]
    <3>1. Multi!StateToken \in Multi!Tokens /\ battle.tick \in 0..MaxTicks
      BY <2>2 DEF Multi!ActorSnapshot, Multi!StateToken, Multi!Tokens, AgentsInv, SmacTyped, AgentsTyped, SmacParted
    <3>2. snapshots' = [snapshots EXCEPT ![p] = @ \cup {[token |-> Multi!StateToken, tick |-> battle.tick]}]
          /\ snapshots \in [Policies -> SUBSET [token: Multi!Tokens, tick: Nat]]
      BY <2>2 DEF Multi!ActorSnapshot, AgentsInv, SmacTyped
    <3> QED
      BY <3>1, <3>2 DEF AgentsTyped, SmacParted
  <2>3. snapshots' = snapshots \/ \E p \in Policies : Multi!ActorSnapshot(p)
    BY DEF Multi!Smacv2Reset, Multi!Smacv2ResetFails, Multi!Smacv2Step, Multi!Smacv2StepFails,
           Multi!Smacv2StepIsStale
  <2> QED
    BY <2>1, <2>2, <2>3
<1> QED
  BY <1>1, <1>2, <1>3, <1>4, <1>5 DEF AgentsTyped, SmacParted

LEMMA CityTypeStep ==
    ASSUME Multi!ManifestAssumption, Multi!MaxTicksAssumption, AgentsInv, AgentsTyped,
           \/ Multi!CityLearnReset \/ Multi!CityLearnResetFails
           \/ Multi!CityLearnStep \/ Multi!CityLearnStepFails
    PROVE  AgentsTyped'
<1>1. UNCHANGED <<suite, battle, smac, snapshots>>
  BY DEF Multi!CityLearnReset, Multi!CityLearnResetFails, Multi!CityLearnStep, Multi!CityLearnStepFails,
         Multi!smacVars
<1>2. city' \in [tick: 0..MaxTicks, time: Nat, moves: Nat]
  <2>1. \/ UNCHANGED city
        \/ Multi!CityTicks /\ city' = [tick |-> city.tick + 1, time |-> Start, moves |-> 0]
        \/ Multi!CityMoves
    BY DEF Multi!CityLearnReset, Multi!CityLearnResetFails, Multi!CityLearnStep, Multi!CityLearnStepFails
  <2>2. city.tick \in 0..MaxTicks /\ city.time \in Nat /\ city.moves \in Nat /\ Start \in Nat /\ MaxTicks \in Nat
    BY DEF AgentsTyped, Multi!ManifestAssumption, Multi!MaxTicksAssumption
  <2>3. Multi!CityTicks => city.tick + 1 \in 0..MaxTicks
    BY <2>2 DEF Multi!CityTicks
  <2> QED
    BY <2>1, <2>2, <2>3 DEF AgentsTyped, Multi!CityMoves
<1>3. act' \in [from: Nat, at: Nat, reset: BOOLEAN]
  <2>1. act' = act \/ (given' \in Nat /\ act' = [from |-> given', at |-> city'.moves, reset |-> reset])
    BY DEF AgentsInv, CityTyped, Multi!CityLearnReset, Multi!CityLearnResetFails, Multi!CityLearnStep,
           Multi!CityLearnStepFails
  <2>2. city'.moves \in Nat /\ reset \in BOOLEAN
    BY <1>2 DEF AgentsInv
  <2> QED
    BY <2>1, <2>2 DEF AgentsTyped
<1> QED
  BY <1>1, <1>2, <1>3 DEF AgentsTyped, SmacParted

\* Type correctness of both adapters; an episode runs a configuration of the partition it
\* was reset for, whatever fails in between.
THEOREM AgentsTypeCorrect ==
    ASSUME Multi!ManifestAssumption, Multi!MaxTicksAssumption
    PROVE  Multi!Spec => []Multi!TypeOK
<1>1. Multi!Init => AgentsInv /\ AgentsTyped
  <2>1. Multi!Init => AgentsTyped
    BY DEF Multi!Init, AgentsTyped, SmacParted, Multi!ManifestAssumption, Multi!MaxTicksAssumption
  <2> QED
    BY <2>1, AgentsInit
<1>2. AgentsInv /\ AgentsTyped /\ [Multi!Next]_(Multi!vars) => (AgentsInv /\ AgentsTyped)'
  <2>1. ASSUME AgentsTyped, UNCHANGED Multi!vars PROVE AgentsTyped'
    BY <2>1 DEF Multi!vars, AgentsTyped, SmacParted
  <2> QED
    BY <2>1, AgentsStep, SmacTypeStep, CityTypeStep DEF Multi!Next
<1>3. AgentsInv /\ AgentsTyped => Multi!TypeOK
  BY DEF AgentsInv, AgentsTyped, SmacTyped, SmacParted, CityTyped, Multi!TypeOK
<1> QED
  BY <1>1, <1>2, <1>3, PTL DEF Multi!Spec

---------------------------------------------------------------------------
(* The pilot.  The strengthening: a call that stores, writes or publishes has *)
(* the report of its worker's ending, and one that publishes all the artifacts *)
(* and files; what is published was published by a call that is over, so that *)
(* its report is no longer overwritten.                                      *)

SpaceRows == [artifacts : 0..4, files : 0..5]

PilotTyped ==
    /\ sources \in 0..MaxEdits
    /\ pc \in [Callers -> Pilot!Steps]
    /\ manifest \in [Callers -> Manifests]
    /\ process \in [Callers -> Pilot!Endings \cup {"none", "running"}]
    /\ space \in [Callers -> SpaceRows \cup {Nothing}]
    /\ report \in [Callers -> Pilot!Reports \cup {Nothing}]

Reported(c) ==
    /\ process[c] \in Pilot!Endings
    /\ report[c] \in Pilot!Reports
    /\ report[c].manifest = manifest[c] /\ report[c].exit = Pilot!ExitCode(process[c])

CallInv(c) ==
    /\ pc[c] \in {"launching", "waiting", "reporting", "storing", "writing", "publishing"} => space[c] \in SpaceRows
    /\ pc[c] = "reporting" => process[c] \in Pilot!Endings
    /\ pc[c] \in {"storing", "writing", "publishing"} => Reported(c)
    /\ pc[c] \in {"writing", "publishing"} => space[c].artifacts = 4
    /\ pc[c] = "publishing" => space[c].files = 5
    /\ pc[c] \in {"published", "returned"} => target # Nothing /\ report[c] = target.report

\* The call that published what is published.
Over == {"published", "returned", "crashed"}
Backs(c) == pc[c] \in Over /\ Reported(c) /\ report[c] = target.report

PilotInv ==
    /\ PilotTyped
    /\ \A c \in Callers : CallInv(c)
    /\ target # Nothing => target \in Pilot!Outputs /\ \E c \in Callers : Backs(c)

LEMMA PilotInit == Pilot!PilotAssumption /\ Pilot!Init => PilotInv
<1> SUFFICES ASSUME Pilot!PilotAssumption, Pilot!Init PROVE PilotInv
  OBVIOUS
<1>1. PilotTyped
  BY DEF Pilot!PilotAssumption, Pilot!Init, PilotTyped, Pilot!Steps
<1> QED
  BY <1>1 DEF Pilot!Init, PilotInv, CallInv

\* What one call does, while what is published stays.
LEMMA OneCaller ==
    ASSUME PilotInv, PilotTyped', NEW c \in Callers, UNCHANGED <<target, manifest>>,
           \A d \in Callers : d # c =>
              pc'[d] = pc[d] /\ process'[d] = process[d] /\ space'[d] = space[d] /\ report'[d] = report[d],
           CallInv(c)',
           pc[c] \in Over /\ process[c] \in Pilot!Endings =>
              pc'[c] \in Over /\ process'[c] = process[c] /\ report'[c] = report[c]
    PROVE  PilotInv'
<1>1. \A d \in Callers : CallInv(d)'
  <2> SUFFICES ASSUME NEW d \in Callers, d # c PROVE CallInv(d)'
    OBVIOUS
  <2> QED
    BY DEF PilotInv, CallInv, Reported
<1>2. ASSUME NEW d \in Callers, Backs(d) PROVE Backs(d)'
  BY <1>2 DEF Backs, Reported
<1> QED
  BY <1>1, <1>2 DEF PilotInv

\* A step that moves the call on, leaving the rest as it is.
LEMMA MoveStep ==
    ASSUME PilotInv, NEW c \in Callers,
           Pilot!Preflight(c) \/ Pilot!Return(c) \/ Pilot!Interrupt(c) \/ Pilot!Crash(c)
    PROVE  PilotInv'
<1>1. UNCHANGED <<sources, target, manifest, process, report>>
  BY DEF Pilot!Preflight, Pilot!Return, Pilot!Interrupt, Pilot!Crash
<1>2. PICK to \in {"checking", "raised", "returned", "crashed"} : pc' = [pc EXCEPT ![c] = to]
  BY DEF Pilot!Preflight, Pilot!Return, Pilot!Interrupt, Pilot!Crash, Pilot!GoTo, Pilot!Abandon
<1>3. space' = space \/ space' = [space EXCEPT ![c] = Nothing]
  BY DEF Pilot!Preflight, Pilot!Return, Pilot!Interrupt, Pilot!Crash, Pilot!GoTo, Pilot!Abandon
<1>4. /\ to = "returned" => pc[c] = "published"
      /\ pc[c] \in Over => to \in Over
  BY <1>2 DEF Pilot!Preflight, Pilot!Return, Pilot!Interrupt, Pilot!Crash, Pilot!GoTo, Pilot!Abandon, Over,
              PilotInv, PilotTyped
<1>5. PilotTyped'
  BY <1>1, <1>2, <1>3 DEF PilotInv, PilotTyped, Pilot!Steps
<1>6. pc'[c] = to
  BY <1>2 DEF PilotInv, PilotTyped
<1>7. CallInv(c)'
  BY <1>1, <1>4, <1>6 DEF PilotInv, CallInv
<1> QED
  BY <1>1, <1>2, <1>3, <1>4, <1>5, <1>6, <1>7, OneCaller DEF PilotInv, PilotTyped

LEMMA CheckStep ==
    ASSUME PilotInv, NEW c \in Callers, Pilot!Check(c)
    PROVE  PilotInv'
<1>1. pc[c] = "checking" /\ UNCHANGED <<sources, target, manifest, process>>
  BY DEF Pilot!Check
<1>2. CASE /\ pc' = [pc EXCEPT ![c] = "launching"] /\ report' = report
           /\ space' = [space EXCEPT ![c] = Pilot!EmptySpace]
  <2>1. Pilot!EmptySpace \in SpaceRows
    BY DEF Pilot!EmptySpace, SpaceRows
  <2>2. PilotTyped' /\ pc'[c] = "launching" /\ space'[c] \in SpaceRows
    BY <1>1, <1>2, <2>1 DEF PilotInv, PilotTyped, Pilot!Steps
  <2>3. CallInv(c)'
    BY <2>2 DEF CallInv
  <2> QED
    BY <1>1, <1>2, <2>2, <2>3, OneCaller DEF PilotInv, PilotTyped, Over
<1>3. CASE /\ pc' = [pc EXCEPT ![c] = "returned"] /\ space' = space /\ target # Nothing
           /\ report' = [report EXCEPT ![c] = target.report]
  <2>1. target.report \in Pilot!Reports
    BY <1>3 DEF PilotInv, Pilot!Outputs
  <2>2. PilotTyped' /\ pc'[c] = "returned" /\ report'[c] = target.report
    BY <1>1, <1>3, <2>1 DEF PilotInv, PilotTyped, Pilot!Steps
  <2>3. CallInv(c)'
    BY <1>1, <1>3, <2>2 DEF CallInv
  <2> QED
    BY <1>1, <1>3, <2>2, <2>3, OneCaller DEF PilotInv, PilotTyped, Over
<1>4. CASE pc' = [pc EXCEPT ![c] = "raised"] /\ UNCHANGED <<space, report>>
  <2>1. PilotTyped' /\ pc'[c] = "raised"
    BY <1>1, <1>4 DEF PilotInv, PilotTyped, Pilot!Steps
  <2>2. CallInv(c)'
    BY <2>1 DEF CallInv
  <2> QED
    BY <1>1, <1>4, <2>1, <2>2, OneCaller DEF PilotInv, PilotTyped, Over
<1> QED
  BY <1>2, <1>3, <1>4 DEF Pilot!Check, Pilot!GoTo

\* The worker: started, and how it ends.
LEMMA WorkerStep ==
    ASSUME PilotInv, NEW c \in Callers,
           Pilot!Launch(c) \/ Pilot!WorkerEnds(c) \/ Pilot!TimeOut(c)
    PROVE  PilotInv'
<1>1. UNCHANGED <<sources, target, manifest, space, report>>
  BY DEF Pilot!Launch, Pilot!WorkerEnds, Pilot!TimeOut
<1>2. CASE Pilot!Launch(c)
  <2>1. /\ pc[c] = "launching" /\ pc' = [pc EXCEPT ![c] = "waiting"]
        /\ process' = [process EXCEPT ![c] = "running"]
    BY <1>2 DEF Pilot!Launch, Pilot!GoTo
  <2>2. PilotTyped' /\ pc'[c] = "waiting"
    BY <1>1, <2>1 DEF PilotInv, PilotTyped, Pilot!Steps
  <2>3. CallInv(c)'
    BY <1>1, <2>1, <2>2 DEF PilotInv, CallInv
  <2> QED
    BY <1>1, <2>1, <2>2, <2>3, OneCaller DEF PilotInv, PilotTyped, Over
<1>3. CASE Pilot!WorkerEnds(c) \/ Pilot!TimeOut(c)
  <2>1. process[c] = "running" /\ pc' = pc
    BY <1>3 DEF Pilot!WorkerEnds, Pilot!TimeOut
  <2>2. PICK ending \in Pilot!Endings : process' = [process EXCEPT ![c] = ending]
    BY <1>3 DEF Pilot!WorkerEnds, Pilot!TimeOut, Pilot!Endings
  <2>3. process[c] \notin Pilot!Endings
    BY <2>1 DEF Pilot!Endings
  <2>4. PilotTyped' /\ process'[c] \in Pilot!Endings
    BY <1>1, <2>1, <2>2 DEF PilotInv, PilotTyped
  <2>5. CallInv(c)'
    BY <1>1, <2>1, <2>3, <2>4 DEF PilotInv, CallInv, Reported
  <2> QED
    BY <1>1, <2>1, <2>2, <2>3, <2>4, <2>5, OneCaller DEF PilotInv, PilotTyped
<1> QED
  BY <1>2, <1>3

\* The report is made of how the worker ended.
LEMMA ReportStep ==
    ASSUME PilotInv, Pilot!PilotAssumption, NEW c \in Callers, Pilot!Collect(c) \/ Pilot!Identify(c)
    PROVE  PilotInv'
<1>1. UNCHANGED <<sources, target, manifest, process>>
  BY DEF Pilot!Collect, Pilot!Identify
<1>2. CASE Pilot!Collect(c)
  <2>1. /\ pc[c] = "waiting" /\ process[c] \in Pilot!Endings /\ report' = report
        /\ \/ pc' = [pc EXCEPT ![c] = "reporting"] /\ space' = space
           \/ pc' = [pc EXCEPT ![c] = "raised"] /\ space' = [space EXCEPT ![c] = Nothing]
    BY <1>2 DEF Pilot!Collect, Pilot!GoTo, Pilot!Abandon
  <2>2. PilotTyped' /\ (pc'[c] = "raised" \/ (pc'[c] = "reporting" /\ space' = space))
    BY <1>1, <2>1 DEF PilotInv, PilotTyped, Pilot!Steps
  <2>3. CallInv(c)'
    BY <1>1, <2>1, <2>2 DEF PilotInv, CallInv
  <2> QED
    BY <1>1, <2>1, <2>2, <2>3, OneCaller DEF PilotInv, PilotTyped, Over
<1>3. CASE Pilot!Identify(c)
  <2> DEFINE new == Pilot!Report(c, Pilot!ExitCode(process[c]))
  <2>1. /\ pc[c] = "reporting" /\ pc' = [pc EXCEPT ![c] = "storing"] /\ space' = space
        /\ report' = [report EXCEPT ![c] = new]
    BY <1>3 DEF Pilot!Identify, Pilot!GoTo
  <2>2. process[c] \in Pilot!Endings /\ space[c] \in SpaceRows
    BY <2>1 DEF PilotInv, CallInv
  <2>3. new \in Pilot!Reports /\ new.manifest = manifest[c] /\ new.exit = Pilot!ExitCode(process[c])
    BY DEF PilotInv, PilotTyped, Pilot!Report, Pilot!Reports, Pilot!ExitCode, Pilot!Status
  <2> HIDE DEF new
  <2>4. PilotTyped' /\ pc'[c] = "storing" /\ report'[c] = new
    BY <1>1, <2>1, <2>3 DEF PilotInv, PilotTyped, Pilot!Steps
  <2>5. CallInv(c)'
    BY <1>1, <2>1, <2>2, <2>3, <2>4 DEF CallInv, Reported
  <2> QED
    BY <1>1, <2>1, <2>4, <2>5, OneCaller DEF PilotInv, PilotTyped, Over
<1> QED
  BY <1>2, <1>3

\* Artifacts and files are written until all of them are.
LEMMA SpaceStep ==
    ASSUME PilotInv, NEW c \in Callers, Pilot!Put(c) \/ Pilot!Write(c)
    PROVE  PilotInv'
<1>1. /\ UNCHANGED <<sources, target, manifest, process, report>>
      /\ pc[c] \in {"storing", "writing"} /\ space[c] \in SpaceRows /\ Reported(c)
  BY DEF Pilot!Put, Pilot!Write, PilotInv, CallInv
<1>2. space[c].artifacts \in 0..4 /\ space[c].files \in 0..5
  BY <1>1 DEF SpaceRows
<1>3. CASE Pilot!Put(c)
  <2>1. pc[c] = "storing" /\ \E n \in (space[c].artifacts + 1)..4 : space' = [space EXCEPT ![c].artifacts = n]
    BY <1>3 DEF Pilot!Put, Pilot!Artifacts
  <2>2. PICK n \in (space[c].artifacts + 1)..4 : space' = [space EXCEPT ![c].artifacts = n]
    BY <2>1
  <2>3. space'[c] \in SpaceRows /\ space'[c].artifacts = n
        /\ space' \in [Callers -> SpaceRows \cup {Nothing}]
        /\ \A d \in Callers : d # c => space'[d] = space[d]
    <3>1. n \in 0..4 /\ [space[c] EXCEPT !.artifacts = n] \in SpaceRows
      BY <1>1, <1>2, <2>2 DEF SpaceRows
    <3>2. space' = [space EXCEPT ![c] = [space[c] EXCEPT !.artifacts = n]]
      BY <2>2 DEF PilotInv, PilotTyped
    <3> QED
      BY <1>1, <3>1, <3>2 DEF PilotInv, PilotTyped, SpaceRows
  <2>4. \/ pc' = [pc EXCEPT ![c] = "writing"] /\ space'[c].artifacts = 4
        \/ pc' = pc
    BY <1>3 DEF Pilot!Put, Pilot!GoTo, Pilot!Artifacts
  <2>5. PilotTyped' /\ (pc'[c] = "storing" \/ (pc'[c] = "writing" /\ space'[c].artifacts = 4))
    BY <1>1, <2>1, <2>3, <2>4 DEF PilotInv, PilotTyped, Pilot!Steps
  <2>6. CallInv(c)'
    BY <1>1, <2>3, <2>5 DEF CallInv, Reported
  <2> QED
    BY <1>1, <2>1, <2>3, <2>4, <2>5, <2>6, OneCaller DEF PilotInv, PilotTyped, Over
<1>4. CASE Pilot!Write(c)
  <2>1. pc[c] = "writing" /\ \E n \in (space[c].files + 1)..5 : space' = [space EXCEPT ![c].files = n]
    BY <1>4 DEF Pilot!Write, Pilot!Files
  <2>2. PICK n \in (space[c].files + 1)..5 : space' = [space EXCEPT ![c].files = n]
    BY <2>1
  <2>3. space'[c] \in SpaceRows /\ space'[c].artifacts = space[c].artifacts
        /\ space' \in [Callers -> SpaceRows \cup {Nothing}]
        /\ \A d \in Callers : d # c => space'[d] = space[d]
    <3>1. n \in 0..5 /\ [space[c] EXCEPT !.files = n] \in SpaceRows
      BY <1>1, <1>2, <2>2 DEF SpaceRows
    <3>2. space' = [space EXCEPT ![c] = [space[c] EXCEPT !.files = n]]
      BY <2>2 DEF PilotInv, PilotTyped
    <3> QED
      BY <1>1, <3>1, <3>2 DEF PilotInv, PilotTyped, SpaceRows
  <2>4. \/ pc' = [pc EXCEPT ![c] = "publishing"] /\ space'[c].files = 5
        \/ pc' = pc
    BY <1>4 DEF Pilot!Write, Pilot!GoTo, Pilot!Files
  <2>5. PilotTyped' /\ (pc'[c] = "writing" \/ (pc'[c] = "publishing" /\ space'[c].files = 5))
    BY <1>1, <2>1, <2>3, <2>4 DEF PilotInv, PilotTyped, Pilot!Steps
  <2>6. CallInv(c)'
    BY <1>1, <2>1, <2>3, <2>5 DEF PilotInv, CallInv, Reported
  <2> QED
    BY <1>1, <2>1, <2>3, <2>4, <2>5, <2>6, OneCaller DEF PilotInv, PilotTyped, Over
<1> QED
  BY <1>3, <1>4

\* The call that finds nothing of the pilot's name publishes; any other gives up.
LEMMA PublishStep ==
    ASSUME PilotInv, Pilot!PilotAssumption, NEW c \in Callers, Pilot!Publish(c)
    PROVE  PilotInv'
<1>1. /\ pc[c] = "publishing" /\ UNCHANGED <<sources, manifest, process, report>>
      /\ Reported(c) /\ space[c].artifacts = 4 /\ space[c].files = 5
      /\ space' = [space EXCEPT ![c] = Nothing]
  BY DEF Pilot!Publish, Pilot!Abandon, PilotInv, CallInv
<1>2. CASE target # Nothing
  <2>1. target' = target /\ pc' = [pc EXCEPT ![c] = "raised"]
    BY <1>2 DEF Pilot!Publish, Pilot!Abandon, Pilot!GoTo
  <2>2. PilotTyped' /\ pc'[c] = "raised"
    BY <1>1, <2>1 DEF PilotInv, PilotTyped, Pilot!Steps
  <2>3. CallInv(c)'
    BY <2>2 DEF CallInv
  <2> QED
    BY <1>1, <2>1, <2>2, <2>3, OneCaller DEF PilotInv, PilotTyped, Over
<1>3. CASE target = Nothing
  <2>1. /\ target' = [report |-> report[c], artifacts |-> 4, files |-> 5]
        /\ pc' = [pc EXCEPT ![c] = "published"]
    BY <1>1, <1>3 DEF Pilot!Publish, Pilot!Output, Pilot!GoTo
  <2>2. target' \in Pilot!Outputs /\ target'.report = report[c]
    BY <1>1, <2>1 DEF Reported, Pilot!Outputs, Pilot!Artifacts, Pilot!Files
  <2>3. target' # Nothing
    BY <2>2 DEF Pilot!PilotAssumption
  <2>4. PilotTyped' /\ pc'[c] = "published"
    BY <1>1, <2>1 DEF PilotInv, PilotTyped, Pilot!Steps
  <2>5. Backs(c)'
    BY <1>1, <2>2, <2>4 DEF Backs, Over, Reported
  <2>6. ASSUME NEW d \in Callers PROVE CallInv(d)'
    <3>1. CASE d = c
      BY <1>1, <2>2, <2>3, <2>4, <3>1 DEF CallInv
    <3>2. CASE d # c
      <4>1. pc[d] \notin {"published", "returned"}
        BY <1>3 DEF PilotInv, CallInv
      <4>2. pc'[d] = pc[d] /\ space'[d] = space[d]
        BY <1>1, <2>1, <3>2 DEF PilotInv, PilotTyped
      <4> QED
        BY <1>1, <4>1, <4>2 DEF PilotInv, CallInv, Reported
    <3> QED
      BY <3>1, <3>2
  <2> QED
    BY <2>2, <2>4, <2>5, <2>6 DEF PilotInv
<1> QED
  BY <1>2, <1>3

LEMMA PilotStep ==
    ASSUME PilotInv, Pilot!PilotAssumption, [Pilot!Next]_(Pilot!vars)
    PROVE  PilotInv'
<1>1. CASE UNCHANGED Pilot!vars \/ Pilot!Edit
  <2>1. UNCHANGED <<target, pc, manifest, process, space, report>> /\ sources' \in 0..MaxEdits
    BY <1>1 DEF Pilot!vars, Pilot!Edit, PilotInv, PilotTyped, Pilot!PilotAssumption
  <2> QED
    BY <2>1 DEF PilotInv, PilotTyped, CallInv, Backs, Reported
<1>2. CASE Pilot!Next /\ ~Pilot!Edit
  BY <1>2, MoveStep, CheckStep, WorkerStep, ReportStep, SpaceStep, PublishStep DEF Pilot!Next
<1> QED
  BY <1>1, <1>2

\* Type correctness of the calls and of what they leave.
THEOREM PilotTypeCorrect ==
    ASSUME Pilot!PilotAssumption
    PROVE  Pilot!Spec => []Pilot!TypeOK
<1>1. Pilot!Init => PilotInv
  BY PilotInit
<1>2. PilotInv /\ [Pilot!Next]_(Pilot!vars) => PilotInv'
  BY PilotStep
<1>3. PilotInv => Pilot!TypeOK
  BY DEF PilotInv, PilotTyped, SpaceRows, Pilot!TypeOK, Pilot!Artifacts, Pilot!Files
<1> QED
  BY <1>1, <1>2, <1>3, PTL DEF Pilot!Spec

\* However calls race, fail and die, what is published is whole and of one call, and every
\* report a call returned is the one that is published; for any number of calls.
THEOREM ReturnedCorrect ==
    ASSUME Pilot!PilotAssumption
    PROVE  Pilot!Spec => []ReturnedIsPublished
<1>1. Pilot!Init => PilotInv
  BY PilotInit
<1>2. PilotInv /\ [Pilot!Next]_(Pilot!vars) => PilotInv'
  BY PilotStep
<1>3. ASSUME PilotInv PROVE Pilot!ReturnedIsPublished
  <2>1. ASSUME target # Nothing
        PROVE  /\ target.artifacts = Len(Pilot!Artifacts) /\ target.files = Len(Pilot!Files)
               /\ \E c \in Callers : /\ report[c] = target.report
                                     /\ manifest[c] = target.report.manifest
                                     /\ Pilot!ExitCode(process[c]) = target.report.exit
    <3>1. target \in Pilot!Outputs
      BY <1>3, <2>1 DEF PilotInv
    <3>2. PICK c \in Callers : Backs(c)
      BY <1>3, <2>1 DEF PilotInv
    <3> QED
      BY <3>1, <3>2 DEF Pilot!Outputs, Backs, Reported
  <2> QED
    BY <1>3, <2>1 DEF PilotInv, CallInv, Pilot!ReturnedIsPublished
<1> QED
  BY <1>1, <1>2, <1>3, PTL DEF ReturnedIsPublished, Pilot!Spec

---------------------------------------------------------------------------
(* All of them together.                                                     *)

\* What is proved of each is proved of all together, for none is disturbed by another.
THEOREM AllAreThemselves ==
    AllSpec => Spec /\ (Single!Spec /\ Given) /\ Multi!Spec /\ Pilot!Spec
<1>1. AllInit => Init /\ Single!Init /\ Given /\ Multi!Init /\ Pilot!Init
  BY DEF AllInit
<1>2. [AllNext]_allVars => /\ [Next]_vars /\ [Single!Next]_(Single!vars)
                           /\ [Multi!Next]_(Multi!vars) /\ [Pilot!Next]_(Pilot!vars)
  BY DEF AllNext, allVars, singleVars, multiVars, pilotVars, Single!vars, Multi!vars, Pilot!vars
<1> QED
  BY <1>1, <1>2, PTL DEF AllSpec, Spec, Single!Spec, Multi!Spec, Pilot!Spec

\* Type correctness of all, whichever a behaviour is about.
THEOREM TypesCorrect ==
    ASSUME Single!BoundsAssumption, Single!SuitesAssumption, Multi!ManifestAssumption,
           Multi!MaxTicksAssumption, Pilot!PilotAssumption
    PROVE  AllSpec => []TypesOK
<1>1. Single!TypeOK /\ Multi!TypeOK /\ TypeOK /\ Pilot!TypeOK => TypesOK
  BY DEF TypesOK
<1> QED
  BY <1>1, AllAreThemselves, TypeCorrect, SuitesTypeCorrect, AgentsTypeCorrect, PilotTypeCorrect, PTL
=================================================================================
