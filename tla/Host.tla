--------------------------------- MODULE Host ---------------------------------
(***************************************************************************)
(* What runs beside the bridge on a user's machine: the registration in    *)
(* the host's configuration, the supervisor of the MCP worker (S), the     *)
(* relay's service (R), its wire (W) and its updater (U), and the cache of *)
(* runtime snapshots (N).  One component, part, runs in a behaviour and    *)
(* the others stay as they are at first: they share no state, and the      *)
(* states are the disjoint union of theirs.                                *)
(***************************************************************************)
EXTENDS ConfigEdits

CONSTANTS
    Parts,      \* the components that are run
    None,
    Requests, Hello, Recoverable, RecoveryLimit, MaxQueue, MaxWorkers, Releases, WorkerFaults,
    Procs, Updates, Switches, Kills,
    Calls, MaxAttempts, MaxSockets, MaxStops,
    Updaters, V, First, Legacy, Faults, Toggles, Prunes, Repeats,
    Users, Pruners, Keys, Retain, UserDeaths

VARIABLE part

VARIABLES s_active, s_ready, s_failure, s_stopping, s_attempts, s_pc, s_previous, s_candidate,
    s_quiesced, s_reply, s_queue, s_pending, s_proc, s_phase, s_cmds, s_closed,
    s_retiring, s_rev, s_installed, s_at, s_aborted, s_sent, s_cancelled, s_answer,
    s_faults
sVars == <<s_active, s_ready, s_failure, s_stopping, s_attempts, s_pc, s_previous, s_candidate,
    s_quiesced, s_reply, s_queue, s_pending, s_proc, s_phase, s_cmds, s_closed,
    s_retiring, s_rev, s_installed, s_at, s_aborted, s_sent, s_cancelled, s_answer,
    s_faults>>
S == INSTANCE Supervisor WITH
    Calls <- Requests, MaxUpdates <- Releases, MaxFaults <- WorkerFaults,
    active <- s_active, ready <- s_ready, failure <- s_failure, stopping <- s_stopping,
    attempts <- s_attempts, pc <- s_pc, previous <- s_previous, candidate <- s_candidate,
    quiesced <- s_quiesced, reply <- s_reply, queue <- s_queue, pending <- s_pending,
    proc <- s_proc, phase <- s_phase, cmds <- s_cmds, closed <- s_closed,
    retiring <- s_retiring, rev <- s_rev, installed <- s_installed, at <- s_at,
    aborted <- s_aborted, sent <- s_sent, cancelled <- s_cancelled, answer <- s_answer,
    faults <- s_faults

VARIABLES r_lock, r_whole, r_seen, r_svc, r_again, r_reload, r_mem, r_aborted, r_d, r_rt,
    r_endpoint, r_saw, r_call, r_desired, r_moved, r_config, r_edits, r_crashes, r_robbed, r_cut
rVars == <<r_lock, r_whole, r_seen, r_svc, r_again, r_reload, r_mem, r_aborted, r_d, r_rt,
    r_endpoint, r_saw, r_call, r_desired, r_moved, r_config, r_edits, r_crashes, r_robbed, r_cut>>
R == INSTANCE RelayService WITH
    NoFile <- None, MaxUpdates <- Updates, MaxEdits <- Switches, MaxCrashes <- Kills,
    lock <- r_lock, whole <- r_whole, seen <- r_seen, svc <- r_svc, again <- r_again,
    reload <- r_reload, mem <- r_mem, aborted <- r_aborted, d <- r_d, rt <- r_rt,
    endpoint <- r_endpoint, saw <- r_saw, call <- r_call, desired <- r_desired,
    moved <- r_moved, config <- r_config, edits <- r_edits, crashes <- r_crashes,
    robbed <- r_robbed, cut <- r_cut

VARIABLES w_phase, w_method, w_attempts, w_result, w_peer, w_up, w_down, w_srv, w_relay,
    w_stops, w_job, w_known, w_late, w_accepted, w_handled
wVars == <<w_phase, w_method, w_attempts, w_result, w_peer, w_up, w_down, w_srv, w_relay,
    w_stops, w_job, w_known, w_late, w_accepted, w_handled>>
W == INSTANCE RelayWire WITH
    phase <- w_phase, method <- w_method, attempts <- w_attempts, result <- w_result,
    peer <- w_peer, up <- w_up, down <- w_down, srv <- w_srv,
    relay <- w_relay, stops <- w_stops, job <- w_job, known <- w_known, late <- w_late,
    accepted <- w_accepted, handled <- w_handled

VARIABLES u_pkg, u_caches, u_rt, u_task, u_cfg, u_relay, u_updater, u_last, u_userOff, u_notice,
    u_touched, u_faults, u_toggles, u_prunes, u_repeats
uVars == <<u_pkg, u_caches, u_rt, u_task, u_cfg, u_relay, u_updater, u_last, u_userOff, u_notice,
    u_touched, u_faults, u_toggles, u_prunes, u_repeats>>
U == INSTANCE RelayUpdate WITH
    Together <- FALSE, pkg <- u_pkg, caches <- u_caches, rt <- u_rt, task <- u_task, cfg <- u_cfg,
    relay <- u_relay, updater <- u_updater, last <- u_last, userOff <- u_userOff,
    notice <- u_notice, touched <- u_touched, faults <- u_faults, toggles <- u_toggles,
    prunes <- u_prunes, repeats <- u_repeats

VARIABLES n_dir, n_used, n_at, n_key, n_tries, n_lease, n_temp, n_orphan, n_recent, n_pr,
    n_todo, n_now, n_retired, n_lock, n_seen, n_had, n_stamp, n_dead
nVars == <<n_dir, n_used, n_at, n_key, n_tries, n_lease, n_temp, n_orphan, n_recent, n_pr,
    n_todo, n_now, n_retired, n_lock, n_seen, n_had, n_stamp, n_dead>>
N == INSTANCE Snapshots WITH
    Slow <- FALSE,
    MaxDead <- [who \in {"user", "pruner"} |-> IF who = "user" THEN UserDeaths ELSE 0],
    dir <- n_dir, used <- n_used, at <- n_at, key <- n_key, tries <- n_tries, lease <- n_lease,
    temp <- n_temp, orphan <- n_orphan, recent <- n_recent, pr <- n_pr, todo <- n_todo,
    now <- n_now, retired <- n_retired, lock <- n_lock, seen <- n_seen, had <- n_had,
    stamp <- n_stamp, dead <- n_dead

ASSUME HostAssumption ==
    /\ S!SupervisorAssumption /\ R!ServiceAssumption /\ W!WireAssumption
    /\ U!UpdateAssumption /\ N!SnapshotAssumption

SuiteInit ==
    /\ part \in Parts
    /\ Init /\ (part # "config" => file = [f \in Files |-> [entries |-> {}, id |-> 1]])
    /\ S!Init
    /\ R!Init
    /\ W!Init /\ (part # "wire" => w_relay)
    /\ U!Init /\ (part # "update" => u_relay = U!NoRelay)
    /\ N!Init

\* Only the component that was chosen takes steps.
SuiteNext ==
    \/ part = "config" /\ Next /\ UNCHANGED <<part, sVars, rVars, wVars, uVars, nVars>>
    \/ part = "supervisor" /\ S!Next /\ UNCHANGED <<part, vars, rVars, wVars, uVars, nVars>>
    \/ part = "service" /\ R!Next /\ UNCHANGED <<part, vars, sVars, wVars, uVars, nVars>>
    \/ part = "wire" /\ W!Next /\ UNCHANGED <<part, vars, sVars, rVars, uVars, nVars>>
    \/ part = "update" /\ U!Next /\ UNCHANGED <<part, vars, sVars, rVars, wVars, nVars>>
    \/ part = "snapshots" /\ N!Next /\ UNCHANGED <<part, vars, sVars, rVars, wVars, uVars>>

SuiteSpec == SuiteInit /\ [][SuiteNext]_<<part, vars, sVars, rVars, wVars, uVars, nVars>>

\* The fairness of each component's FairSpec, while it is the one that runs.
FairSuite ==
    /\ SuiteSpec
    /\ WF_sVars(part = "supervisor" /\ S!Check)
    /\ WF_sVars(part = "supervisor" /\ S!Boot)
    /\ WF_sVars(part = "supervisor" /\ S!Timeout)
    /\ \A w \in S!Workers : WF_sVars(part = "supervisor" /\ S!Control(w))
    /\ \A w \in S!Workers : WF_sVars(part = "supervisor" /\ s_retiring[w] /\ S!Dies(w))
    /\ \A w \in S!Workers : WF_sVars(part = "supervisor" /\ s_proc[w] = "down" /\ S!Fail(w))
    /\ \A w \in S!Workers : \A r \in S!Reqs : WF_sVars(part = "supervisor" /\ S!Begin(w, r))
    /\ \A w \in S!Workers : \A r \in S!Reqs : WF_sVars(part = "supervisor" /\ S!End(w, r))
    /\ \A w \in S!Workers : \A r \in S!Reqs : WF_sVars(part = "supervisor" /\ S!Message(w, r))
    /\ \A p \in Procs : WF_rVars(part = "service" /\ R!Service(p))
    /\ \A p \in Procs : WF_rVars(part = "service" /\ R!Daemon(p))
    /\ \A p \in Procs : WF_rVars(part = "service" /\ R!Watch(p))
    /\ \A p \in Procs : WF_rVars(part = "service" /\ (R!DrainArrives(p) \/ R!DrainFails(p)))
    /\ \A c \in Calls : WF_wVars(part = "wire" /\ W!Timeout(c))
    /\ \A c \in Calls : WF_wVars(part = "wire" /\ W!Drop(c))
    /\ WF_uVars(part = "update" /\ U!Follow)
    /\ WF_uVars(part = "update" /\ U!Stop)
    /\ WF_uVars(part = "update" /\ U!Launch)
    /\ \A u \in Updaters : WF_uVars(part = "update" /\ U!Work(u))
    /\ \A u \in Updaters : WF_uVars(part = "update" /\ (U!At(u, "failed") /\ U!Rerun(u)))

-----------------------------------------------------------------------------

\* One worker at a time is at work and none is left over, and a request is with one
\* worker only, is answered once, and truthfully when it was not sent (Supervisor).
Supervised == S!Supervised

\* A job keeps the promise of Delivery on its way to the relay, although connections
\* break and attempts are repeated (RelayWire).
KeepsPromise == W!KeepsPromise

\* There is one relay and one holder of the service's lock, through takeovers and
\* crashes, but for those whose lock or socket file another removed by its name
\* (RelayService), and a call is handled once and a job accepted once (RelayWire).
OneOfEach == R!OneRelay /\ R!HolderHasLock /\ W!HandledOnce /\ W!AcceptedOnce

\* The runtime a worker was started from stays in place (Snapshots).
UsedIsKept == N!UsedIsKept

\* What replaces another takes nothing away: a reload takes no worker from a call that
\* runs (Supervisor), and an update does not bring an older version back (RelayUpdate).
HandsOver == S!HandsOverIdle /\ U!NeverBack

\* Every request is answered, over the supervisor's workers and over the wire
\* (Supervisor, RelayWire).
EveryAnswer == S!EveryAnswer /\ W!Answered

\* What failed comes back: a worker after its crash (Supervisor), the relay after
\* its service or daemon was killed (RelayService), the relay of a user whose
\* update failed at any step and was repeated (RelayUpdate).
Recovers == S!Recovers /\ R!Serves /\ (part = "update" => U!Recovers)

===============================================================================
