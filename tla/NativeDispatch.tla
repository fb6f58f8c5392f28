--------------------------- MODULE NativeDispatch ---------------------------
(***************************************************************************)
(* A message into an open Codex thread: deliver() of createThreadDelivery  *)
(* in src/src/thread-delivery.mjs, NativeDesktopRelay and                  *)
(* NativeToolsClient of src/src/native-relay.mjs, and between them the     *)
(* companion's RelaySocketServer, its request handler and its lifecycle    *)
(* in src/src/native-relay-companion.mjs.                                  *)
(*                                                                         *)
(* A request connects to the companion, runs its checks, writes one line   *)
(* and reads one.  The companion connects to Desktop's pipe, runs its own  *)
(* checks, writes the request there and waits.  Either wait can run out,   *)
(* either connection can break, the companion can be reloaded, shut down   *)
(* or killed, and each of them at any await of the other.                  *)
(***************************************************************************)
EXTENDS Naturals, FiniteSets

CONSTANTS
    Requests,
    DesktopOnly,    \* whether an external app-server may be used instead
    MaxPipes,       \* bound on connections to Desktop's pipe
    MaxStops        \* bound on reloads, shutdowns and kills

DispatchAssumption == DesktopOnly \in BOOLEAN /\ {MaxPipes, MaxStops} \subseteq Nat

VARIABLES
    pc,         \* of each request in the bridge
    result,     \* what deliver() reports
    conn,       \* the request's connection at the companion
    line,       \* the requests written and not read
    down,       \* the answer in the connection
    handler,    \* of each request in the companion
    pipeOf,     \* the connection to Desktop a handler is pending on
    pipe,       \* the current one, 0 if none
    opened,     \* how many there have been
    mode,       \* of the companion, see Modes
    listening,  \* its address is public
    stops,
    desk,       \* how often Desktop was sent the request
    app,        \* the requests given to an external app-server
    cut         \* the requests a reload broke off

bridge    == <<pc, result, app>>
link      == <<conn, line, down>>
work      == <<handler, pipeOf, desk>>
native    == <<pipe, opened>>
lifecycle == <<mode, listening, stops, cut>>
vars      == <<bridge, link, work, native, lifecycle>>

\* "refusing" and "draining" are quiesce() before and after its first look,
\* "quiesced" what a failed one leaves, "closing" a shutdown that waits.
Modes == {"active", "refusing", "draining", "quiesced", "closing", "down"}

TypeOK ==
    /\ pc \in [Requests -> {"off", "connecting", "checking", "sent", "fallback", "done"}]
    /\ result \in [Requests -> {"none", "acked", "not_sent", "unknown"}]
    /\ conn \in [Requests -> {"none", "backlog", "open", "refused", "gone"}]
    /\ line \subseteq Requests /\ app \subseteq Requests /\ cut \subseteq Requests
    /\ down \in [Requests -> {"none", "acked", "not_sent", "unknown"}]
    /\ handler \in [Requests -> {"none", "connecting", "checking", "written"}]
    /\ pipeOf \in [Requests -> 0..MaxPipes] /\ pipe \in 0..MaxPipes /\ opened \in 0..MaxPipes
    /\ mode \in Modes /\ listening \in BOOLEAN /\ stops \in 0..MaxStops
    /\ desk \in [Requests -> Nat]

Set(f, r, v) == [f EXCEPT ![r] = v]
Open(r) == pc[r] \in {"connecting", "checking", "sent"}

-----------------------------------------------------------------------------
(* The bridge. *)

Done(r, how) == pc' = Set(pc, r, "done") /\ result' = Set(result, r, how)

\* What a failure of the transport says.  Operators whose names end in Mutant
\* are wrong versions of the operator that follows them, kept to show that
\* the properties notice.
BreakMutant(r) ==
    /\ pc' = Set(pc, r, "fallback") /\ UNCHANGED result
Break(r) ==
    IF pc[r] = "sent" THEN Done(r, "unknown")
                      ELSE pc' = Set(pc, r, "fallback") /\ UNCHANGED result

Begin(r) ==
    /\ pc[r] = "off"
    /\ IF listening THEN pc' = Set(pc, r, "connecting") /\ conn' = Set(conn, r, "backlog")
                    ELSE pc' = Set(pc, r, "fallback") /\ UNCHANGED conn
    /\ UNCHANGED <<result, app, line, down, work, native, lifecycle>>

Connected(r) ==
    /\ pc[r] = "connecting" /\ conn[r] # "gone"
    /\ pc' = Set(pc, r, "checking")
    /\ UNCHANGED <<result, app, link, work, native, lifecycle>>

\* beforeSend() has returned, or thrown.
Write(r) ==
    /\ pc[r] = "checking"
    /\ \/ /\ conn[r] # "gone"
          /\ pc' = Set(pc, r, "sent") /\ line' = line \cup {r}
          /\ UNCHANGED result
       \/ Done(r, "not_sent") /\ UNCHANGED line
    /\ UNCHANGED <<app, conn, down, work, native, lifecycle>>

Hear(r) ==
    /\ Open(r) /\ down[r] # "none"
    /\ Done(r, down[r])
    /\ UNCHANGED <<app, link, work, native, lifecycle>>

\* The connection has gone, or the request's time is over.
Lose(r) ==
    /\ Open(r) /\ down[r] = "none" /\ conn[r] = "gone"
    /\ Break(r)
    /\ UNCHANGED <<app, link, work, native, lifecycle>>

TimeoutMutant(r) ==
    /\ pc[r] = "sent" /\ Break(r)
    /\ UNCHANGED <<app, link, work, native, lifecycle>>
Timeout(r) ==
    /\ Open(r) /\ Break(r)
    /\ UNCHANGED <<app, link, work, native, lifecycle>>

\* deliver() after RELAY_UNREACHABLE.
Fallback(r) ==
    /\ pc[r] = "fallback"
    /\ IF DesktopOnly THEN Done(r, "not_sent") /\ UNCHANGED app
                      ELSE app' = app \cup {r} /\ \E how \in {"acked", "unknown"} : Done(r, how)
    /\ UNCHANGED <<link, work, native, lifecycle>>

-----------------------------------------------------------------------------
(* The companion's end of the connection, and its handler. *)

Accept(r) ==
    /\ mode # "down" /\ conn[r] = "backlog"
    /\ IF mode = "active"
       THEN conn' = Set(conn, r, "open") /\ UNCHANGED down
       ELSE conn' = Set(conn, r, "refused") /\ down' = Set(down, r, "not_sent")
    /\ UNCHANGED <<bridge, line, work, native, lifecycle>>

\* The client has gone, the answer was written, or thirty idle seconds passed.
Close(r) ==
    /\ conn[r] \in {"open", "refused"}
    /\ conn[r] = "open" /\ ~Open(r) => r \notin line
    /\ conn' = Set(conn, r, "gone")
    /\ line' = line \ {r}
    /\ UNCHANGED <<bridge, down, work, native, lifecycle>>

\* #reply(), of handlers that end together.
Reply(S, how) ==
    down' = [r \in Requests |-> IF r \in S /\ conn[r] = "open" THEN how[r] ELSE down[r]]
Ended(S) == handler' = [r \in Requests |-> IF r \in S THEN "none" ELSE handler[r]]

AnswerOne(r, how) ==
    /\ Reply({r}, [x \in {r} |-> how])
    /\ Ended({r})

Read(r) ==
    /\ conn[r] = "open" /\ r \in line
    /\ line' = line \ {r}
    /\ \/ handler' = Set(handler, r, "connecting") /\ UNCHANGED down
       \/ AnswerOne(r, "not_sent")
    /\ UNCHANGED <<bridge, conn, pipeOf, desk, native, lifecycle>>

\* connect(): the pipe there is, or a new one, or none.
Attach(r) ==
    /\ handler[r] = "connecting"
    /\ \/ /\ pipe # 0 \/ opened < MaxPipes
          /\ opened' = IF pipe = 0 THEN opened + 1 ELSE opened
          /\ pipe' = IF pipe = 0 THEN opened + 1 ELSE pipe
          /\ pipeOf' = Set(pipeOf, r, pipe')
          /\ handler' = Set(handler, r, "checking")
          /\ UNCHANGED down
       \/ /\ pipe = 0
          /\ AnswerOne(r, "not_sent")
          /\ UNCHANGED <<native, pipeOf>>
    /\ UNCHANGED <<bridge, conn, line, desk, lifecycle>>

SamePipe(r) == pipe # 0 /\ pipeOf[r] = pipe

\* beforeSend() and the accounts were checked: Desktop is sent the request.
Dispatch(r) ==
    /\ handler[r] = "checking"
    /\ \/ /\ SamePipe(r)
          /\ handler' = Set(handler, r, "written")
          /\ desk' = Set(desk, r, desk[r] + 1)
          /\ UNCHANGED down
       \/ AnswerOne(r, "not_sent") /\ UNCHANGED desk
    /\ UNCHANGED <<bridge, conn, line, pipeOf, native, lifecycle>>

Answer(r) ==
    /\ handler[r] = "written" /\ SamePipe(r)
    /\ \E how \in {"acked", "unknown"} : AnswerOne(r, how)
    /\ UNCHANGED <<bridge, conn, line, pipeOf, desk, native, lifecycle>>

\* What an ended dispatch says of itself, by how far it has come.
SaysMutant(r) == "not_sent"
Says(r) == IF handler[r] = "written" THEN "unknown" ELSE "not_sent"

Expire(r) ==
    /\ handler[r] \in {"checking", "written"}
    /\ AnswerOne(r, Says(r))
    /\ UNCHANGED <<bridge, conn, line, pipeOf, desk, native, lifecycle>>

\* fail() of a connection, or close() of the client.
Pending == {r \in Requests : handler[r] \in {"checking", "written"}}

PipeBreaks ==
    /\ pipe # 0 /\ pipe' = 0
    /\ Reply(Pending, [r \in Pending |-> Says(r)])
    /\ Ended(Pending)
    /\ UNCHANGED <<bridge, conn, line, pipeOf, desk, opened, lifecycle>>

-----------------------------------------------------------------------------
(* The companion's lifecycle. *)

BusyMutant == FALSE
Busy == \E r \in Requests : conn[r] = "open" \/ handler[r] # "none"

\* stop(): every connection is destroyed, the native client closed.
Stop ==
    /\ conn' = [r \in Requests |-> IF conn[r] = "none" THEN "none" ELSE "gone"]
    /\ line' = {} /\ pipe' = 0
    /\ handler' = [r \in Requests |-> "none"]
    /\ listening' = FALSE
    /\ UNCHANGED <<bridge, down, pipeOf, desk, opened>>

\* quiesce() up to its drain, for a reload.
Quiesce ==
    /\ mode = "active" /\ stops < MaxStops /\ stops' = stops + 1
    /\ IF Busy THEN mode' = "refusing" /\ UNCHANGED listening
               ELSE mode' = "draining" /\ listening' = FALSE
    /\ UNCHANGED <<bridge, link, work, native, cut>>

\* The rest of it: the worker stops, and is told if something came late.
Quiesced ==
    /\ mode = "draining"
    /\ mode' = IF Busy THEN "quiesced" ELSE "down"
    /\ cut' = cut \cup {r \in Requests : conn[r] = "open" \/ handler[r] # "none"}
    /\ Stop
    /\ UNCHANGED stops

\* activate(), of the same worker or of the next.
AcceptsMutant == IF mode = "refusing" THEN mode ELSE "active"
Accepts == "active"

Activate ==
    /\ mode \in {"refusing", "quiesced", "down"}
    /\ mode' = Accepts /\ listening' = TRUE
    /\ UNCHANGED <<bridge, link, work, native, stops, cut>>

\* exitWhenClientCloses(): refuse, wait, and stop when the wait is over.
Shutdown ==
    /\ mode = "active" /\ stops < MaxStops /\ stops' = stops + 1
    /\ mode' = "closing"
    /\ UNCHANGED <<bridge, link, work, native, listening, cut>>

Exit ==
    /\ mode = "closing" /\ mode' = "down"
    /\ Stop
    /\ UNCHANGED <<stops, cut>>

Killed ==
    /\ mode # "down" /\ stops < MaxStops /\ stops' = stops + 1
    /\ mode' = "down"
    /\ Stop
    /\ UNCHANGED cut

-----------------------------------------------------------------------------
Init ==
    /\ pc = [r \in Requests |-> "off"] /\ result = [r \in Requests |-> "none"]
    /\ conn = [r \in Requests |-> "none"] /\ line = {} /\ down = [r \in Requests |-> "none"]
    /\ handler = [r \in Requests |-> "none"] /\ pipeOf = [r \in Requests |-> 0]
    /\ pipe = 0 /\ opened = 0 /\ mode = "active" /\ listening = TRUE /\ stops = 0
    /\ desk = [r \in Requests |-> 0] /\ app = {} /\ cut = {}

Next ==
    \/ \E r \in Requests :
         \/ Begin(r) \/ Connected(r) \/ Write(r) \/ Hear(r) \/ Lose(r) \/ Timeout(r) \/ Fallback(r)
         \/ Accept(r) \/ Close(r) \/ Read(r) \/ Attach(r) \/ Dispatch(r) \/ Answer(r) \/ Expire(r)
    \/ PipeBreaks \/ Quiesce \/ Quiesced \/ Activate \/ Shutdown \/ Exit \/ Killed

\* Timers fire, and the supervisor activates a worker again.
Fairness ==
    /\ \A r \in Requests : WF_vars(Timeout(r)) /\ WF_vars(Fallback(r)) /\ WF_vars(Expire(r))
    /\ WF_vars(Activate) /\ WF_vars(Quiesced) /\ WF_vars(Exit)

Spec == Init /\ [][Next]_vars
FairSpec == Spec /\ Fairness

-----------------------------------------------------------------------------
\* A request that is reported as not sent has not reached Desktop nor an
\* app-server, and never will.
NotSentIsTrue == \A r \in Requests : result[r] = "not_sent" => desk[r] = 0 /\ r \notin app

\* A request keeps the promise of Delivery on its way to Desktop or to an app-server,
\* although its answer passes through two connections, either of which may break at
\* any time, and a companion that may be reloaded or killed (deliver()).
Promise == INSTANCE Delivery WITH
    Sends <- Requests,
    delivered <- [r \in Requests |-> desk[r] + (IF r \in app THEN 1 ELSE 0)],
    told <- [r \in Requests |-> IF result[r] = "acked" THEN "delivered" ELSE result[r]]
KeepsPromise == Promise!Spec

\* A request is given to Desktop or to an app-server, and once: falling back
\* never repeats what the companion may still do.
DeliveredOnce ==
    \A r \in Requests :
      /\ desk[r] <= 1
      /\ r \in app => desk[r] = 0 /\ r \notin line /\ handler[r] = "none"

\* A reload breaks no request off: it happens only when none is under way,
\* and those that come during it are refused.
ReloadCutsNothing == cut = {}

\* Every request is answered.
Answered == \A r \in Requests : (pc[r] = "connecting") ~> (pc[r] = "done")

\* A companion that refuses requests for a reload, done or abandoned, accepts
\* them again.
Reopens == (mode # "active") ~> (mode = "active")
=============================================================================
