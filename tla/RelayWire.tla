------------------------------ MODULE RelayWire ------------------------------
(***************************************************************************)
(* A call to the background relay: callBackgroundRelay() of                *)
(* src/src/background-relay-client.mjs, the connection handler of          *)
(* serveBackgroundRelay() in src/src/background-relay.mjs, and the frames  *)
(* of src/src/background-relay-protocol.mjs between them: hello,           *)
(* challenge, operation, response.                                         *)
(*                                                                         *)
(* All calls carry the same request ID: they send one job, send it again,  *)
(* or read its receipt.  A connection is two one-place pipes; what was     *)
(* written may be read after the writer has gone.  When no relay listens,  *)
(* another program may.  A proof is valid if the secret was known to who   *)
(* made it, which that program does not.                                   *)
(***************************************************************************)
EXTENDS Naturals, FiniteSets

CONSTANTS
    Calls,
    MaxAttempts,    \* 12 in the code
    MaxSockets,     \* 128 in the code
    MaxStops        \* bound on stops and crashes of the relay

WireAssumption == {MaxAttempts, MaxSockets, MaxStops} \subseteq Nat \ {0}

VARIABLES
    phase,      \* of each call: "off", "connecting", "hello", "sent", "done"
    method,     \* "send" or "read"
    attempts,
    result,     \* what the caller is told: a receipt, or a delivery state
    peer,       \* who accepted the connection: "relay" or "other"
    up, down,   \* the frame in each pipe
    srv,        \* the relay's end: "none", "fresh", "challenged", "handled"
    relay,      \* a relay listens
    stops,
    job,        \* the call whose operation is in the job's receipt file, if there is one
    known,      \* the relay has the job in memory
    late,       \* history: calls whose write of that file threw after its rename
    accepted,   \* how often the relay took up the job of each call
    handled     \* how often the operation of a call was handled

client == <<phase, method, attempts, result>>
pipes  == <<peer, up, down, srv>>
server == <<relay, stops, job, known, late, accepted, handled>>
vars   == <<client, pipes, server>>

TypeOK ==
    /\ phase \in [Calls -> {"off", "connecting", "hello", "sent", "done"}]
    /\ method \in [Calls -> {"send", "read"}]
    /\ attempts \in [Calls -> 0..MaxAttempts]
    /\ result \in [Calls -> {"none", "receipt", "not_sent", "unknown"}]
    /\ peer \in [Calls -> {"none", "relay", "other"}]
    /\ up \in [Calls -> {"none", "hello", "operation"}]
    /\ down \in [Calls -> {"none", "challenge", "forged", "receipt", "not_sent", "unknown"}]
    /\ srv \in [Calls -> {"none", "fresh", "challenged", "handled"}]
    /\ relay \in BOOLEAN /\ stops \in 0..MaxStops
    /\ job \in SUBSET Calls /\ known \in BOOLEAN /\ late \in SUBSET Calls
    /\ accepted \in [Calls -> Nat] /\ handled \in [Calls -> Nat]

Sockets == {c \in Calls : srv[c] # "none"}
Set(f, c, v) == [f EXCEPT ![c] = v]

\* What a failure of the transport says of the delivery.  Operators whose
\* names end in Mutant are wrong versions of the operator that follows them,
\* for the model checker to tell apart.
StateMutant(c) == "not_sent"
State(c) == IF phase[c] = "sent" /\ method[c] = "send" THEN "unknown" ELSE "not_sent"

-----------------------------------------------------------------------------
(* The client *)

\* The caller is answered and the socket is destroyed; what it wrote stays readable.
Finish(c, told) ==
    /\ phase' = Set(phase, c, "done") /\ result' = Set(result, c, told)
    /\ down' = Set(down, c, "none")
    /\ UNCHANGED <<method, attempts, peer, up, srv, server>>

Again(c) ==
    /\ phase' = Set(phase, c, "connecting")
    /\ UNCHANGED <<method, attempts, result, pipes, server>>

\* Only a call that has sent nothing and received nothing is tried again.
MayRetryMutant(c) == attempts[c] < MaxAttempts
MayRetry(c) == phase[c] # "sent" /\ attempts[c] < MaxAttempts

Disconnect(c) ==
    \/ MayRetry(c) /\ Again(c)
    \/ Finish(c, State(c))      \* part of a frame was received, or no more attempts

Begin(c) ==
    /\ phase[c] = "off"
    /\ \E m \in {"send", "read"} : method' = Set(method, c, m)
    /\ phase' = Set(phase, c, "connecting")
    /\ UNCHANGED <<attempts, result, pipes, server>>

Open(c, who, end) ==
    /\ phase[c] = "connecting" /\ attempts[c] < MaxAttempts
    /\ attempts' = [attempts EXCEPT ![c] = @ + 1] /\ phase' = Set(phase, c, "hello")
    /\ peer' = Set(peer, c, who) /\ up' = Set(up, c, "hello") /\ down' = Set(down, c, "none")
    /\ srv' = Set(srv, c, end)
    /\ UNCHANGED <<method, result, server>>

Connect(c) == relay /\ Cardinality(Sockets \ {c}) < MaxSockets /\ Open(c, "relay", "fresh")

\* The relay destroys a connection over its limit; another program may listen.
Full(c) == relay /\ Cardinality(Sockets \ {c}) >= MaxSockets /\ Open(c, "relay", "none")
Other(c) == ~relay /\ Open(c, "other", "none")

Refused(c) ==
    /\ phase[c] = "connecting" /\ ~relay
    /\ \/ /\ attempts[c] < MaxAttempts
          /\ attempts' = [attempts EXCEPT ![c] = @ + 1]
          /\ UNCHANGED <<phase, method, result, pipes, server>>
       \/ Finish(c, "not_sent")

\* The challenge proves that the relay knows the secret; only then the operation is sent.
ProvenMutant(c) == down[c] \in {"challenge", "forged"}
Proven(c) == down[c] = "challenge"

Answer(c) ==
    /\ phase[c] = "hello" /\ down[c] # "none"
    /\ IF Proven(c)
       THEN /\ phase' = Set(phase, c, "sent")
            /\ up' = Set(up, c, "operation") /\ down' = Set(down, c, "none")
            /\ UNCHANGED <<method, attempts, result, peer, srv, server>>
       ELSE Finish(c, "not_sent")

Receive(c) ==
    /\ phase[c] = "sent" /\ down[c] # "none"
    /\ Finish(c, IF down[c] = "forged" THEN State(c) ELSE down[c])

Closed(c) ==
    /\ phase[c] \in {"hello", "sent"} /\ srv[c] = "none" /\ down[c] = "none"
    /\ Disconnect(c)

TimeoutMutant(c) == phase[c] \in {"connecting", "hello"} /\ Finish(c, State(c))
Timeout(c) == phase[c] \in {"connecting", "hello", "sent"} /\ Finish(c, State(c))

-----------------------------------------------------------------------------
(* The relay *)

Reply(c, frame) == down' = IF phase[c] = "done" THEN down ELSE Set(down, c, frame)

Greet(c) ==
    /\ srv[c] = "fresh" /\ up[c] = "hello"
    /\ srv' = Set(srv, c, "challenged") /\ up' = Set(up, c, "none") /\ Reply(c, "challenge")
    /\ UNCHANGED <<client, peer, server>>

\* A request ID that is in memory is answered with its receipt.
KnownMutant == FALSE
Known == known

\* The receipt file is written, then the job enters memory.  A write that throws
\* after its rename leaves a file which the relay does not know of until it starts
\* again; a failed check of its own says "not_sent", the file system "unknown".
Enqueue(c) ==
    /\ method[c] = "send" /\ ~Known
    /\ job' = {c}
    /\ \/ /\ known' = TRUE /\ accepted' = [accepted EXCEPT ![c] = @ + 1]
          /\ Reply(c, "receipt") /\ UNCHANGED late
       \/ /\ late' = late \cup {c} /\ \E told \in {"not_sent", "unknown"} : Reply(c, told)
          /\ UNCHANGED <<known, accepted>>

\* The receipt of a job that is known.
Show(c) == Known /\ Reply(c, "receipt") /\ UNCHANGED <<job, known, late, accepted>>

\* No receipt to read, a refused job, a write that threw before its rename, or a
\* receipt that is too large to send.
Refuse(c) ==
    /\ \E told \in {"not_sent"} \cup (IF method[c] = "send" THEN {"unknown"} ELSE {}) : Reply(c, told)
    /\ UNCHANGED <<job, known, late, accepted>>

Handle(c) ==
    /\ srv[c] = "challenged" /\ up[c] = "operation"
    /\ srv' = Set(srv, c, "handled") /\ up' = Set(up, c, "none")
    /\ handled' = [handled EXCEPT ![c] = @ + 1]
    /\ Enqueue(c) \/ Show(c) \/ Refuse(c)
    /\ UNCHANGED <<client, peer, relay, stops>>

\* A socket is closed when it was answered, when the client has gone, after
\* five seconds without a frame and after seventy without an answer.
DropMutant(c) ==
    /\ srv[c] \in {"fresh", "handled"}
    /\ srv' = Set(srv, c, "none") /\ up' = Set(up, c, "none")
    /\ UNCHANGED <<client, peer, down, server>>

Drop(c) ==
    /\ srv[c] # "none"
    /\ srv' = Set(srv, c, "none") /\ up' = Set(up, c, "none")
    /\ UNCHANGED <<client, peer, down, server>>

\* Another program that listens can say anything but prove nothing.
Forge(c) ==
    /\ peer[c] = "other" /\ phase[c] \in {"hello", "sent"} /\ down[c] = "none"
    /\ down' = Set(down, c, "forged") /\ UNCHANGED <<client, peer, up, srv, server>>

Stop ==
    /\ relay /\ stops < MaxStops
    /\ relay' = FALSE /\ stops' = stops + 1 /\ known' = FALSE
    /\ srv' = [c \in Calls |-> "none"]
    /\ up' = [c \in Calls |-> IF srv[c] = "none" THEN up[c] ELSE "none"]
    /\ \E lost \in SUBSET {c \in Calls : srv[c] # "none"} :
         down' = [c \in Calls |-> IF c \in lost THEN "none" ELSE down[c]]
    /\ UNCHANGED <<client, peer, job, late, accepted, handled>>

\* initialize() takes up the job of the file, whoever was told what.
Start ==
    /\ ~relay /\ relay' = TRUE /\ known' = (job # {})
    /\ accepted' = [c \in Calls |-> IF c \in job /\ accepted[c] = 0 THEN 1 ELSE accepted[c]]
    /\ UNCHANGED <<client, pipes, stops, job, late, handled>>

Init ==
    /\ phase = [c \in Calls |-> "off"] /\ method = [c \in Calls |-> "read"]
    /\ attempts = [c \in Calls |-> 0] /\ result = [c \in Calls |-> "none"]
    /\ peer = [c \in Calls |-> "none"] /\ srv = [c \in Calls |-> "none"]
    /\ up = [c \in Calls |-> "none"] /\ down = [c \in Calls |-> "none"]
    /\ relay \in BOOLEAN /\ stops = 0
    /\ job = {} /\ known = FALSE /\ late = {}
    /\ accepted = [c \in Calls |-> 0] /\ handled = [c \in Calls |-> 0]

Next ==
    \/ \E c \in Calls :
         \/ Begin(c) \/ Connect(c) \/ Full(c) \/ Other(c) \/ Refused(c) \/ Answer(c) \/ Receive(c)
         \/ Closed(c) \/ Timeout(c) \/ Greet(c) \/ Handle(c) \/ Drop(c) \/ Forge(c)
    \/ Stop \/ Start

Spec == Init /\ [][Next]_vars

\* Timers fire.
FairSpec == Spec /\ \A c \in Calls : WF_vars(Timeout(c)) /\ WF_vars(Drop(c))

-----------------------------------------------------------------------------
(* Properties *)

\* A job keeps the promise of Delivery on the wire, although attempts are repeated,
\* what was written may be read after the caller was answered, and a receipt file may
\* be found that nobody knew of.  A receipt may be that of another call for the same
\* job and promises nothing here (callBackgroundRelay()); nor does the "not sent" of
\* a call whose own write threw after its rename, which is named: late.
Told(c) ==
    IF result[c] = "receipt" \/ (result[c] = "not_sent" /\ c \in late) THEN "unknown" ELSE result[c]
Promise == INSTANCE Delivery WITH
    Sends <- Calls,
    delivered <- accepted,
    told <- [c \in Calls |-> Told(c)]
KeepsPromise == Promise!Spec

\* A caller that is told "not sent" can rely on it: the relay did not accept
\* the job from that call and never will, although what was written may be
\* read later (state(), line 32), unless its own write threw after the rename.
NotSentUnlessLate == \A c \in Calls : result[c] = "not_sent" => accepted[c] = 0 \/ c \in late

\* The same without the exception, which does not hold: a late write is answered
\* "not_sent", and the job runs when the relay is started again.
NotSentIsTrue == \A c \in Calls : result[c] = "not_sent" => accepted[c] = 0

\* One call is handled once at most, whatever it retries.
HandledOnce == \A c \in Calls : handled[c] <= 1

\* One request ID is accepted once at most, whether calls are repeated after
\* an uncertain answer, arrive late, or after a restart of the relay, which may find
\* the file of a call that another has repeated.
AcceptedOnce ==
    \A b, c \in Calls : accepted[c] <= 1 /\ (accepted[b] > 0 /\ accepted[c] > 0 => b = c)

\* The operation, which holds the prompt, is written to nobody but the relay.
OnlyToRelay == \A c \in Calls : phase[c] = "sent" => peer[c] = "relay"

\* Every call is answered, although the relay stops or never says a word.
Answered == \A c \in Calls : phase[c] \in {"connecting", "hello", "sent"} ~> phase[c] = "done"

\* Connections of the relay end, so that a caller that went away cannot use
\* up its sockets.
Released == \A c \in Calls : srv[c] # "none" /\ phase[c] = "done" ~> srv[c] = "none"

=============================================================================
