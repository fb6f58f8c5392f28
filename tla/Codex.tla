-------------------------------- MODULE Codex --------------------------------
(***************************************************************************)
(* The way to Codex: the creation of tasks, the queue of a task's prompts  *)
(* (Q), the dispatch to its two backends (D), the wait for the reply (W),  *)
(* the turns of an app-server (T) and the socket of the companion (K).     *)
(* One component, part, runs in a behaviour and the others stay as they    *)
(* are at first: they share no state.                                      *)
(***************************************************************************)
EXTENDS TaskCreation

CONSTANTS
    Parts,      \* the components that are run
    None,
    QueueCrashes,
    Sends, DesktopOnly, MaxPipes, MaxStops,
    Deliveries, Created, Twins, Blind, Waited, Grace, MaxTurns, MaxLog, MaxUsers,
    Asking, Attempts, Crowded, ServerTurns, MaxDrops, MaxCloses, MaxAsks,
    Companions, MaxSockets, SocketStops, SocketKills

VARIABLE part

VARIABLES q_phase, q_threadOperations, q_past, q_tries, q_dispatched, q_told, q_receipt, q_seen,
    q_written, q_inflight, q_got, q_crashes
qVars == <<q_phase, q_threadOperations, q_past, q_tries, q_dispatched, q_told, q_receipt, q_seen,
    q_written, q_inflight, q_got, q_crashes>>
Q == INSTANCE ThreadQueue WITH
    MaxCrashes <- QueueCrashes, phase <- q_phase,
    threadOperations <- q_threadOperations, past <- q_past, tries <- q_tries,
    dispatched <- q_dispatched, told <- q_told, receipt <- q_receipt, seen <- q_seen,
    written <- q_written, inflight <- q_inflight, got <- q_got, crashes <- q_crashes

VARIABLES d_pc, d_result, d_conn, d_line, d_down, d_handler, d_pipeOf, d_pipe, d_opened, d_mode,
    d_listening, d_stops, d_desk, d_app, d_cut
dVars == <<d_pc, d_result, d_conn, d_line, d_down, d_handler, d_pipeOf, d_pipe, d_opened, d_mode,
    d_listening, d_stops, d_desk, d_app, d_cut>>
D == INSTANCE NativeDispatch WITH
    Requests <- Sends, pc <- d_pc,
    result <- d_result, conn <- d_conn, line <- d_line, down <- d_down, handler <- d_handler,
    pipeOf <- d_pipeOf, pipe <- d_pipe, opened <- d_opened, mode <- d_mode,
    listening <- d_listening, stops <- d_stops, desk <- d_desk, app <- d_app, cut <- d_cut

VARIABLES w_log, w_flushed, w_turn, w_running, w_left, w_flight, w_landed, w_bind, w_pc, w_at,
    w_first, w_got, w_unmatched, w_deferred, w_out
wVars == <<w_log, w_flushed, w_turn, w_running, w_left, w_flight, w_landed, w_bind, w_pc, w_at,
    w_first, w_got, w_unmatched, w_deferred, w_out>>
W == INSTANCE ReplyWait WITH
    log <- w_log, flushed <- w_flushed, turn <- w_turn, running <- w_running, left <- w_left,
    flight <- w_flight, landed <- w_landed, bind <- w_bind, pc <- w_pc, at <- w_at,
    first <- w_first, got <- w_got, unmatched <- w_unmatched, deferred <- w_deferred,
    out <- w_out

VARIABLES t_phase, t_stale, t_tries, t_attached, t_active, t_cur, t_pc, t_mine, t_buffered,
    t_items, t_res, t_inbox, t_asked, t_running, t_blocked, t_owner, t_ended, t_loaded,
    t_subscribed, t_wanted, t_drops, t_closes, t_asks
tVars == <<t_phase, t_stale, t_tries, t_attached, t_active, t_cur, t_pc, t_mine, t_buffered,
    t_items, t_res, t_inbox, t_asked, t_running, t_blocked, t_owner, t_ended, t_loaded,
    t_subscribed, t_wanted, t_drops, t_closes, t_asks>>
T == INSTANCE AppServerTurns WITH
    Calls <- Asking, MaxTurns <- ServerTurns,
    phase <- t_phase, stale <- t_stale, tries <- t_tries, attached <- t_attached,
    active <- t_active, cur <- t_cur, pc <- t_pc, mine <- t_mine, buffered <- t_buffered,
    items <- t_items, res <- t_res, inbox <- t_inbox, asked <- t_asked, running <- t_running,
    blocked <- t_blocked, owner <- t_owner, ended <- t_ended, loaded <- t_loaded,
    subscribed <- t_subscribed, wanted <- t_wanted, drops <- t_drops, closes <- t_closes,
    asks <- t_asks

VARIABLES k_pc, k_mine, k_bound, k_found, k_again, k_path, k_private, k_live, k_stops, k_kills
kVars == <<k_pc, k_mine, k_bound, k_found, k_again, k_path, k_private, k_live, k_stops, k_kills>>
K == INSTANCE RelaySocket WITH
    MaxStops <- SocketStops, MaxKills <- SocketKills, pc <- k_pc,
    mine <- k_mine, bound <- k_bound, found <- k_found, again <- k_again, path <- k_path,
    private <- k_private, live <- k_live, stops <- k_stops, kills <- k_kills

ASSUME CodexAssumption ==
    /\ Q!QueueAssumption /\ D!DispatchAssumption /\ W!WaitAssumption
    /\ T!TurnsAssumption /\ K!SocketAssumption

SuiteInit ==
    /\ part \in Parts
    /\ Init /\ (part # "creation" => account = CHOOSE a \in Accounts : TRUE)
    /\ Q!Init
    /\ D!Init
    /\ W!Init
    /\ T!Init
    /\ K!Init

\* Only the component that was chosen takes steps.
SuiteNext ==
    \/ part = "creation" /\ Next /\ UNCHANGED <<part, qVars, dVars, wVars, tVars, kVars>>
    \/ part = "queue" /\ Q!Next /\ UNCHANGED <<part, vars, dVars, wVars, tVars, kVars>>
    \/ part = "dispatch" /\ D!Next /\ UNCHANGED <<part, vars, qVars, wVars, tVars, kVars>>
    \/ part = "wait" /\ W!Next /\ UNCHANGED <<part, vars, qVars, dVars, tVars, kVars>>
    \/ part = "turns" /\ T!Next /\ UNCHANGED <<part, vars, qVars, dVars, wVars, kVars>>
    \/ part = "socket" /\ K!Next /\ UNCHANGED <<part, vars, qVars, dVars, wVars, tVars>>

SuiteSpec == SuiteInit /\ [][SuiteNext]_<<part, vars, qVars, dVars, wVars, tVars, kVars>>

\* The fairness of each component's FairSpec, while it is the one that runs.
FairSuite ==
    /\ SuiteSpec
    /\ \A c \in Calls : WF_vars(part = "creation" /\ Work(c))
    /\ \A c \in Calls : WF_vars(part = "creation" /\ Observe(c))
    /\ WF_vars(part = "creation" /\ Boot)
    /\ WF_vars(part = "creation" /\ Repair)
    /\ \A c \in Calls : WF_qVars(part = "queue" /\ Q!Tick(c))
    /\ \A c \in Calls : WF_qVars(part = "queue" /\ Q!Deadline(c))
    /\ \A c \in Sends : WF_dVars(part = "dispatch" /\ D!Timeout(c))
    /\ \A c \in Sends : WF_dVars(part = "dispatch" /\ D!Fallback(c))
    /\ \A c \in Sends : WF_dVars(part = "dispatch" /\ D!Expire(c))
    /\ WF_dVars(part = "dispatch" /\ D!Activate)
    /\ WF_dVars(part = "dispatch" /\ D!Quiesced)
    /\ WF_dVars(part = "dispatch" /\ D!Exit)
    /\ WF_tVars(part = "turns" /\ T!Client)
    /\ WF_tVars(part = "turns" /\ T!Serving)
    /\ WF_tVars(part = "turns" /\ T!Timeout)
    /\ WF_tVars(part = "turns" /\ (\E c \in Asking : T!Take(c)))
    /\ \A p \in Companions : WF_kVars(part = "socket" /\ K!Start(p))

-----------------------------------------------------------------------------

\* A prompt keeps the promise of Delivery: it reaches its task once at most, and never
\* after it was reported "not sent", although its caller waits for the relay and tries
\* again (ThreadQueue), its connection breaks and the other backend is tried
\* (NativeDispatch).
KeepsPromise == Q!KeepsPromise /\ D!KeepsPromise

\* Between the inspection by which a call will know its reply and the write of its
\* prompt nothing else is written to the task (ThreadQueue).
InspectionHolds == Q!InspectionHolds

\* The reply that is given is that of one's own prompt, found in the rollout
\* (ReplyWait) or in the turn of the app-server (AppServerTurns).
OwnReply == W!OwnReply /\ W!NotShared /\ T!OwnAnswer

\* The client asks for a turn only when none of its own is running (AppServerTurns).
OneTurn == T!OneTurn

\* Every call is answered: behind an operation that hangs (ThreadQueue), over a
\* connection that breaks (NativeDispatch), by an app-server that drops the client
\* (AppServerTurns).
EveryCallEnds == Q!Answered /\ D!Answered /\ T!Returns

\* What was interrupted works again: a creation is confirmed to whoever holds its
\* delivery ID (TaskCreation), a companion accepts calls again after a reload
\* (NativeDispatch) and listens at its path after another was killed, and loses that path
\* only to one that had found a dead socket there and not yet removed it (RelaySocket).
EveryReload ==
    Recovers /\ D!Reopens /\ (part = "socket" => K!Converges) /\ K!OnlyInTheWindow

=============================================================================
