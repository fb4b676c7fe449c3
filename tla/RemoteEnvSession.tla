------------------------- MODULE RemoteEnvSession -------------------------
(***************************************************************************)
(* One RemoteEnv session: a TlsSocketRemoteEnv transport, the              *)
(* serve_connection thread of TlsSocketRemoteEnvServer at the other end of *)
(* its TLS connection, and the SingleAgentRemoteEnvWorker it calls.        *)
(*                                                                         *)
(* The callers of exchange are not part of the model: they may ask for any *)
(* method with any sequence and step number.  The connection may break, the*)
(* client may time out while the worker still works, the server may die    *)
(* and the grant may expire between the server's check of it and the       *)
(* worker's.  Sessions share no state but the server's nonce and session   *)
(* sets, so one session is enough.                                         *)
(***************************************************************************)
EXTENDS Naturals, Sequences

CONSTANTS
    MaxSequence,  \* grant.max_sequence
    MaxStep,      \* grant.max_step
    Lifetime,     \* ticks from the issue of the grant to its expiry
    MaxTime       \* bound: ticks of the clock

ASSUME GrantAssumption ==
    MaxSequence \in Nat /\ MaxStep \in Nat /\ Lifetime \in Nat \ {0}
ASSUME MaxTimeAssumption == MaxTime \in Nat

VARIABLES
    now,          \* the clock both processes read
    expires,      \* grant.expires_at, once the grant is issued
    client,       \* the transport: where it is and the request it waits with
    wire,         \* what is on the connection
    server,       \* the serving thread, its verifier and the request at hand
    worker,       \* the worker, its verifier and its environment
    executed,     \* requests the worker executed, in order
    transcript    \* requests the client got a response to, in order

vars == <<now, expires, client, wire, server, worker, executed, transcript>>
histories == <<executed, transcript>>

Methods == {"Describe", "Reset", "Step", "Close"}

\* RemoteEnvFrameHeader: method, envelope.sequence and envelope.step_id.  A
\* response carries the envelope of the request it answers.
Frames == [method: Methods, sequence: Nat, step: Nat]
None == [method |-> "none"]

\* Frames the callers of exchange build, past the grant's limits by one.
Requests == [method: Methods, sequence: 1..(MaxSequence + 1), step: 0..(MaxStep + 1)]

TypeOK ==
    /\ now \in 0..MaxTime
    /\ expires \in 0..(MaxTime + Lifetime)
    /\ client \in [at: {"new", "open", "waiting", "terminal"},
                   request: Frames \cup {None}]
    /\ wire \in [request: Frames \cup {None}, response: Frames \cup {None}]
    /\ server \in [at: {"none", "reading", "verified", "worked", "ended"},
                   last: 0..MaxSequence, request: Frames \cup {None},
                   response: Frames \cup {None}]
    /\ worker \in [phase: {"new", "described", "reset", "closed"},
                   last: 0..MaxSequence, step: 0..MaxStep, revoked: BOOLEAN,
                   closed: Frames \cup {None}]
    /\ executed \in Seq(Frames)
    /\ transcript \in Seq(Frames)

Init ==
    /\ now = 0
    /\ expires = 0
    /\ client = [at |-> "new", request |-> None]
    /\ wire = [request |-> None, response |-> None]
    /\ server = [at |-> "none", last |-> 0, request |-> None, response |-> None]
    /\ worker = [phase |-> "new", last |-> 0, step |-> 0, revoked |-> FALSE,
                 closed |-> None]
    /\ executed = <<>>
    /\ transcript = <<>>

---------------------------------------------------------------------------
(* Connecting.                                                             *)

\* The client's hello passes: the server issues a grant for this session, sends
\* its hello, builds a verifier and a worker and waits for requests.
OpenSession ==
    /\ server' = [server EXCEPT !.at = "reading"]
    /\ expires' = now + Lifetime

Connect ==
    /\ client.at = "new"
    /\ client' = [client EXCEPT !.at = "open"]
    /\ OpenSession
    /\ UNCHANGED <<now, wire, worker, histories>>

\* Anything that fails is terminal for the transport; the server may have got
\* as far as serving the session.
ConnectFails ==
    /\ client.at = "new"
    /\ client' = [client EXCEPT !.at = "terminal"]
    /\ \/ OpenSession
       \/ server' = [server EXCEPT !.at = "ended"] /\ UNCHANGED expires
    /\ UNCHANGED <<now, wire, worker, histories>>

---------------------------------------------------------------------------
(* The client's side of an exchange, under the transport's lock.           *)

Send(frame) ==
    /\ client.at = "open"
    /\ client' = [at |-> "waiting", request |-> frame]
    /\ wire' = [wire EXCEPT !.request = frame]
    /\ UNCHANGED <<now, expires, server, worker, histories>>

\* The response is of the request's method, sequence and step.
Answers(response, request) == response = request

Receive ==
    /\ client.at = "waiting"
    /\ wire.response # None
    /\ IF Answers(wire.response, client.request)
       THEN /\ client' = [at |-> "open", request |-> None]
            /\ transcript' = Append(transcript, client.request)
       ELSE /\ client' = [at |-> "terminal", request |-> None]
            /\ UNCHANGED transcript
    /\ wire' = [wire EXCEPT !.response = None]
    /\ UNCHANGED <<now, expires, server, worker, executed>>

\* Mutant: after a timeout the transport goes on with the same connection.
TerminateAndReuse ==
    /\ client.at \in {"open", "waiting"}
    /\ client' = [at |-> "open", request |-> None]
    /\ UNCHANGED <<now, expires, wire, server, worker, histories>>

\* _abort_locked and close: a timeout, a broken connection, a frame that does
\* not carry the grant, or the caller's close.  The response is never read.
Terminate ==
    /\ client.at \in {"open", "waiting"}
    /\ client' = [at |-> "terminal", request |-> None]
    /\ UNCHANGED <<now, expires, wire, server, worker, histories>>

---------------------------------------------------------------------------
(* The server.                                                             *)

\* RemoteEnvGrantVerifier accepts the next sequence number of a live grant; a
\* refusal revokes the verifier.
Consumable(frame, last) ==
    /\ now < expires
    /\ frame.sequence = last + 1
    /\ frame.sequence <= MaxSequence
    /\ frame.step <= MaxStep

End == server' = [server EXCEPT !.at = "ended", !.request = None, !.response = None]

ReadRequest ==
    /\ server.at = "reading"
    /\ wire.request # None
    /\ wire' = [wire EXCEPT !.request = None]
    /\ IF Consumable(wire.request, server.last)
       THEN server' = [server EXCEPT !.at = "verified", !.last = wire.request.sequence,
                                     !.request = wire.request]
       ELSE End
    /\ UNCHANGED <<now, expires, client, worker, histories>>

\* The connection is closed or broken, or the server process dies.
EndSession ==
    /\ server.at \in {"reading", "verified", "worked"}
    /\ End
    /\ UNCHANGED <<now, expires, client, wire, worker, histories>>

---------------------------------------------------------------------------
(* The worker, called by the serving thread.                               *)

\* Whether the worker's phase allows the request.
Allowed(frame) ==
    CASE frame.method = "Describe" -> worker.phase = "new"
      [] frame.method = "Reset" -> worker.phase \in {"described", "reset"}
      [] frame.method = "Step" -> worker.phase = "reset" /\ frame.step = worker.step + 1
      [] frame.method = "Close" -> TRUE

\* Mutant: a reset does not start the step numbers again.
AdvancedStepKept(frame) ==
    CASE frame.method = "Describe" -> [worker EXCEPT !.phase = "described"]
      [] frame.method = "Reset" -> [worker EXCEPT !.phase = "reset"]
      [] frame.method = "Step" -> [worker EXCEPT !.step = frame.step]
      [] frame.method = "Close" -> [worker EXCEPT !.phase = "closed", !.closed = frame]

\* The worker after executing the request.
Advanced(frame) ==
    CASE frame.method = "Describe" -> [worker EXCEPT !.phase = "described"]
      [] frame.method = "Reset" -> [worker EXCEPT !.phase = "reset", !.step = 0]
      [] frame.method = "Step" -> [worker EXCEPT !.step = frame.step]
      [] frame.method = "Close" ->
            IF worker.closed = None
            THEN [worker EXCEPT !.phase = "closed", !.closed = frame] ELSE worker

\* Responses carry the current request's envelope; that of a repeated Close is
\* the one made for the first.
Response(frame) ==
    IF frame.method = "Close" /\ worker.closed # None THEN worker.closed ELSE frame

Usable(frame) == ~worker.revoked /\ Consumable(frame, worker.last)

Work ==
    /\ server.at = "verified"
    /\ Usable(server.request)
    /\ Allowed(server.request)
    /\ worker' = [Advanced(server.request) EXCEPT !.last = server.request.sequence]
    /\ executed' = Append(executed, server.request)
    /\ server' = [server EXCEPT !.at = "worked", !.response = Response(server.request)]
    /\ UNCHANGED <<now, expires, client, wire, transcript>>

\* The request is out of turn, the grant expired meanwhile, or the environment
\* raises: the worker's verifier is revoked and the thread ends.
WorkRaises ==
    /\ server.at = "verified"
    /\ worker' = [worker EXCEPT !.revoked = TRUE,
                     !.last = IF Usable(server.request) THEN server.request.sequence
                                                        ELSE @]
    /\ End
    /\ UNCHANGED <<now, expires, client, wire, histories>>

\* The server checks that the response is of the request before it sends it.
Reply ==
    /\ server.at = "worked"
    /\ IF Answers(server.response, server.request)
       THEN /\ wire' = [wire EXCEPT !.response = server.response]
            /\ server' = [server EXCEPT !.at = "reading", !.request = None,
                                        !.response = None]
       ELSE End /\ UNCHANGED wire
    /\ UNCHANGED <<now, expires, client, worker, histories>>

---------------------------------------------------------------------------
Tick ==
    /\ now < MaxTime
    /\ now' = now + 1
    /\ UNCHANGED <<expires, client, wire, server, worker, histories>>

Next ==
    \/ Connect \/ ConnectFails \/ (\E frame \in Requests : Send(frame)) \/ Receive
    \/ Terminate \/ ReadRequest \/ EndSession \/ Work \/ WorkRaises \/ Reply
    \/ Tick

Spec == Init /\ [][Next]_vars

---------------------------------------------------------------------------
(* Properties.                                                             *)

\* What the client learned is what was executed, without a gap, a repetition
\* or a change of order; at most the last executed request is unanswered, and
\* then the client waits for it or the session is over (timeout after the
\* action took effect: TlsSocketRemoteEnv.exchange, _abort_locked).
TranscriptIsExecution ==
    /\ Len(transcript) <= Len(executed)
    /\ Len(executed) <= Len(transcript) + 1
    /\ \A i \in 1..Len(transcript) : transcript[i] = executed[i]
    /\ Len(executed) > Len(transcript) => client.at \in {"waiting", "terminal"}

\* The number of the steps since the last reset, after the first n requests.
StepsSinceReset[n \in Nat] ==
    IF n = 0 \/ executed[n].method = "Reset" THEN 0
    ELSE StepsSinceReset[n - 1] + (IF executed[n].method = "Step" THEN 1 ELSE 0)

\* The two verifiers of a session and the environment number the same requests: neither
\* verifier accepts a request twice, the worker never runs ahead of the server's check,
\* and the steps of every episode count from its reset while the sequence goes on.
VerifiersAgree ==
    /\ Len(executed) <= worker.last
    /\ worker.last <= server.last /\ server.last <= worker.last + 1
    /\ \A i \in 1..Len(executed) :
          /\ executed[i].sequence = i
          /\ executed[i].method = "Step" => executed[i].step = StepsSinceReset[i]

=============================================================================
