------------------------------ MODULE Supervisor ------------------------------
(***************************************************************************)
(* The MCP supervisor, src/src/mcp-supervisor.mjs, and the lifecycle of    *)
(* the workers it forks, src/src/reload-control.mjs.                       *)
(*                                                                         *)
(* One client talks to one supervisor, which forwards its requests to the  *)
(* active worker.  When the installation changes, the supervisor prepares  *)
(* a candidate, quiesces the idle active worker, hands its state over and  *)
(* activates the candidate; requests that arrive meanwhile wait in a       *)
(* queue.  When the worker of a recoverable entry dies, it starts another. *)
(*                                                                         *)
(* Each stretch of supervisor code between two awaits is one step.  A      *)
(* control command travels over IPC and its worker runs commands one after *)
(* another; the supervisor gives up waiting after 15 seconds while the     *)
(* command stays in the worker's chain.  Requests travel over stdin, so    *)
(* nothing orders them with the commands.  The client never reuses a       *)
(* request ID and waits for the answer to initialize before it goes on.    *)
(***************************************************************************)
EXTENDS Naturals, Sequences, FiniteSets

CONSTANTS
    Calls,              \* requests other than initialize
    Hello,              \* the initialize request
    Recoverable,        \* recoverable: the entry may restart a dead worker
    RecoveryLimit,      \* recoveryLimit (5)
    MaxQueue,           \* MAX_QUEUE (256)
    MaxWorkers,         \* bound on the workers a supervisor forks
    MaxUpdates,         \* bound on changes of the installation
    MaxFaults           \* bound on timeouts, crashes and failed steps

Reqs    == Calls \cup {Hello}
Workers == 1..MaxWorkers
Nobody  == 0
Commands == {"inspect", "quiesce", "restore", "activate", "resume"}

SupervisorAssumption ==
    /\ Hello \notin Calls
    /\ Recoverable \in BOOLEAN
    /\ {RecoveryLimit, MaxQueue, MaxUpdates, MaxFaults} \subseteq Nat
    /\ MaxWorkers \in Nat \ {0}

VARIABLES
    active, ready, failure, stopping, attempts,     \* the supervisor's own variables
    pc,         \* what check(), or the answer to initialize, awaits
    previous, candidate, quiesced,                  \* check()'s locals
    reply,      \* outcome of the awaited control command
    queue,      \* requests held back during a reload
    pending,    \* clientPending of each worker
    proc,       \* the worker process: "stuck" when SIGKILL did not end it in time
    phase,      \* phase of the worker's reload control
    cmds,       \* the worker's serial chain of control commands
    closed, retiring,       \* the supervisor's Worker flags
    rev,        \* revision a worker runs
    installed,  \* revision of the installation
    at,         \* how far request r has got in worker w
    aborted,    \* requests whose cancellation was forwarded, with their worker
    sent, cancelled, answer,    \* the client: what it sent, withdrew and was told
    faults      \* budget used

own     == <<active, ready, failure, stopping, attempts>>
check   == <<pc, previous, candidate, quiesced, reply>>
worker  == <<proc, phase, closed, retiring, rev>>
client  == <<sent, cancelled>>
calls   == <<queue, pending, at, aborted, answer>>
vars    == <<own, check, worker, cmds, installed, client, calls, faults>>

Awaits  == {"idle", "boot", "inspect", "introduce", "quiesce", "restore", "activate",
            "retire", "reject", "resume", "stopFailed", "reintroduce", "reactivate",
            "rejectAgain"}
Answers == {"none", "result", "unknown", "not_sent", "cancelled", "twice"}
Places  == {"none", "inbox", "running", "done", "refused", "gone"}

TypeOK ==
    /\ active \in Workers /\ {ready, failure, stopping, quiesced} \subseteq BOOLEAN
    /\ attempts \in 0..RecoveryLimit
    /\ pc \in Awaits
    /\ previous \in Workers \cup {Nobody}
    /\ candidate \in Workers \cup {Nobody}
    /\ reply \in {"none", "ok", "no"}
    /\ queue \in Seq(Calls) /\ Len(queue) <= MaxQueue
    /\ pending \in [Workers -> SUBSET Reqs]
    /\ proc \in [Workers -> {"unborn", "up", "stuck", "down"}]
    /\ phase \in [Workers -> {"staged", "active", "quiescing", "quiesced"}]
    /\ cmds \in [Workers -> Seq([do : Commands, heard : BOOLEAN])]
    /\ {closed, retiring} \subseteq [Workers -> BOOLEAN]
    /\ rev \in [Workers -> 0..MaxUpdates] /\ installed \in 0..MaxUpdates
    /\ at \in [Workers \X Reqs -> Places]
    /\ aborted \subseteq Workers \X Reqs
    /\ sent \subseteq Reqs /\ cancelled \subseteq Calls
    /\ answer \in [Reqs -> Answers]
    /\ faults \in 0..MaxFaults

Switching   == pc \notin {"idle", "boot"}
CanRecover  == Recoverable /\ ready
Running(w)  == {r \in Reqs : at[<<w, r>>] = "running"}
Fault       == faults < MaxFaults /\ faults' = faults + 1
SomeFault(b) == IF b THEN Fault ELSE UNCHANGED faults
QueuedReqs  == {queue[k] : k \in 1..Len(queue)}

\* The answers as the client sees them after each r in S got answer kind.
Told(S, kind) ==
    [r \in Reqs |-> IF r \notin S THEN answer[r] ELSE IF answer[r] = "none" THEN kind ELSE "twice"]

-----------------------------------------------------------------------------
(* dispatch().  Operators whose names end in Mutant are wrong versions of   *)
(* the operator that follows them, for the model checker to tell apart.    *)

Forward(w, S) ==
    /\ pending' = [pending EXCEPT ![w] = @ \cup S]
    /\ at' = [p \in DOMAIN at |-> IF p[1] = w /\ p[2] \in S THEN "inbox" ELSE at[p]]
    /\ UNCHANGED answer

\* What dispatch() does with the requests S while no reload is under way.
Pass(S) ==
    IF stopping THEN UNCHANGED <<pending, at, answer>>
    ELSE IF failure' THEN /\ answer' = Told(S, "not_sent")
                          /\ UNCHANGED <<pending, at>>
    ELSE Forward(active', S)

WithoutMutant(r) == queue
Without(r) ==
    IF r \notin QueuedReqs THEN queue
    ELSE LET k == CHOOSE j \in DOMAIN queue : queue[j] = r
         IN  [i \in 1 .. Len(queue) - 1 |-> queue[IF i < k THEN i ELSE i + 1]]

ClientSends(r) ==
    /\ ~stopping /\ r \notin sent
    /\ r # Hello => answer[Hello] = "result"
    /\ sent' = sent \cup {r}
    /\ UNCHANGED <<own, check, worker, cmds, installed, cancelled, aborted, faults>>
    /\ \/ /\ failure \/ ~Switching
          /\ Pass({r})
          /\ UNCHANGED queue
       \/ /\ ~failure /\ Switching
          /\ UNCHANGED <<pending, at>>
          /\ IF Len(queue) >= MaxQueue
             THEN answer' = Told({r}, "not_sent") /\ UNCHANGED queue
             ELSE queue' = Append(queue, r) /\ UNCHANGED answer

\* notifications/cancelled: forwarded to the worker that has the request, or
\* the request is taken out of the queue.
ClientCancels(r) ==
    /\ ~stopping /\ r \in sent \ cancelled /\ answer[r] = "none"
    /\ cancelled' = cancelled \cup {r}
    /\ aborted' = aborted \cup {<<w, r>> : w \in {v \in Workers : r \in pending[v]}}
    /\ queue' = Without(r)
    /\ answer' = Told({r} \cap QueuedReqs, "cancelled")
    /\ UNCHANGED <<own, check, worker, cmds, installed, sent, pending, at, faults>>

\* shutdown(): every worker is told to stop.
Disconnect ==
    /\ ~stopping
    /\ stopping' = TRUE
    /\ retiring' = [w \in Workers |-> retiring[w] \/ proc[w] # "unborn"]
    /\ UNCHANGED <<active, ready, failure, attempts, check, proc, phase, closed, rev,
                   cmds, installed, client, calls, faults>>

-----------------------------------------------------------------------------
(* Workers. *)

\* A request leaves the worker's stdin: run() starts it or refuses it.
Begin(w, r) ==
    /\ proc[w] = "up" /\ at[<<w, r>>] = "inbox"
    /\ at' = [at EXCEPT ![<<w, r>>] = IF r = Hello THEN "done"
                                  ELSE IF phase[w] = "active" THEN "running" ELSE "refused"]
    /\ UNCHANGED <<own, check, worker, cmds, installed, client, queue, pending, aborted,
                   answer, faults>>

\* The handler ends.  The server answers unless the cancellation reached it first.
End(w, r) ==
    /\ proc[w] = "up" /\ at[<<w, r>>] = "running"
    /\ \E place \in {"done"} \cup (IF <<w, r>> \in aborted THEN {"gone"} ELSE {}) :
           at' = [at EXCEPT ![<<w, r>>] = place]
    /\ UNCHANGED <<own, check, worker, cmds, installed, client, queue, pending, aborted,
                   answer, faults>>

\* The oldest command is over; its result counts if the supervisor still waits for it.
Replies(w, result) ==
    /\ cmds' = [cmds EXCEPT ![w] = Tail(@)]
    /\ reply' = IF Head(cmds[w]).heard /\ ~retiring[w] THEN result ELSE reply

Reloadable(w) == phase[w] = "active" /\ Running(w) = {}

\* control(): any hook may also fail, or name a reason against a reload.
Control(w) ==
    /\ proc[w] = "up" /\ cmds[w] # <<>>
    /\ UNCHANGED <<own, pc, previous, candidate, quiesced, proc, closed, retiring, rev,
                   installed, client, calls>>
    /\ LET do == Head(cmds[w]).do
           Becomes(ok, p) == /\ Replies(w, IF ok THEN "ok" ELSE "no")
                             /\ phase' = [phase EXCEPT ![w] = p]
       IN  \E fails \in BOOLEAN :
           /\ SomeFault(fails)
           /\ \/ /\ do = "inspect"
                 /\ Becomes(Reloadable(w) /\ ~fails, phase[w])
              \/ /\ do = "quiesce" /\ phase[w] # "quiescing"
                 /\ IF Reloadable(w) /\ ~fails
                    THEN phase' = [phase EXCEPT ![w] = "quiescing"] /\ UNCHANGED <<cmds, reply>>
                    ELSE Becomes(FALSE, phase[w])
              \/ /\ do = "quiesce" /\ phase[w] = "quiescing"
                 /\ Becomes(Running(w) = {} /\ ~fails, "quiesced")
              \/ /\ do = "restore"
                 /\ Becomes(phase[w] = "staged" /\ ~fails, phase[w])
              \/ /\ do = "activate"
                 /\ IF phase[w] \in {"active", "staged"} /\ ~fails
                    THEN Becomes(TRUE, "active") ELSE Becomes(FALSE, phase[w])
              \/ /\ do = "resume"
                 /\ IF phase[w] \in {"active", "quiesced"} /\ ~fails
                    THEN Becomes(TRUE, "active") ELSE Becomes(FALSE, phase[w])

\* The process ends: asked to stop (in the end with SIGKILL), or by itself.
Dies(w) ==
    /\ proc[w] = "up"
    /\ SomeFault(~retiring[w])
    /\ proc' = [proc EXCEPT ![w] = "down"]
    /\ UNCHANGED <<own, check, phase, closed, retiring, rev, cmds, installed, client, calls>>

-----------------------------------------------------------------------------
(* What the supervisor hears from its workers. *)

Send(w, action) ==
    IF proc[w] = "up" /\ ~retiring[w]
    THEN /\ cmds' = [cmds EXCEPT ![w] = Append(@, [do |-> action, heard |-> TRUE])]
         /\ reply' = "none"
    ELSE reply' = "no" /\ UNCHANGED cmds

Awaited ==
    CASE pc = "boot" -> active
      [] pc \in {"inspect", "quiesce", "resume"} -> previous
      [] pc \in {"restore", "activate", "reactivate"} -> candidate
      [] OTHER -> Nobody

StillOwedMutant(w, r) == pending[w]
StillOwed(w, r) == pending[w] \ {r}

\* handlers.message: the worker's answer is passed on.  The answer to initialize
\* waits for the activation of the worker.
Message(w, r) ==
    /\ at[<<w, r>>] \in {"done", "refused"} /\ r \in pending[w]
    /\ pending' = [pending EXCEPT ![w] = StillOwed(w, r)]
    /\ UNCHANGED <<own, previous, candidate, quiesced, worker, installed, client, queue, at,
                   aborted, faults>>
    /\ IF r = Hello
       THEN pc' = "boot" /\ Send(w, "activate") /\ UNCHANGED answer
       ELSE /\ answer' = Told({r}, IF at[<<w, r>>] = "done" THEN "result" ELSE "not_sent")
            /\ UNCHANGED <<pc, reply, cmds>>

\* respond() goes on after the activation.
Boot ==
    /\ pc = "boot" /\ reply # "none"
    /\ pc' = "idle"
    /\ IF reply = "ok"
       THEN ready' = TRUE /\ answer' = Told({Hello}, "result") /\ UNCHANGED failure
       ELSE failure' = TRUE /\ answer' = Told({Hello}, "unknown") /\ UNCHANGED ready
    /\ UNCHANGED <<active, stopping, attempts, previous, candidate, quiesced, reply, worker,
                   cmds, installed, client, queue, pending, at, aborted, faults>>

\* fail(), once per worker: its process ended, or it wrote what is no message.
\* A worker that lived for a minute gives recovery all its attempts back.
Fail(w) ==
    /\ proc[w] # "unborn" /\ ~closed[w]
    /\ SomeFault(proc[w] # "down")
    /\ closed' = [closed EXCEPT ![w] = TRUE]
    /\ answer' = Told(pending[w], "unknown")
    /\ pending' = [pending EXCEPT ![w] = {}]
    /\ LET lost == w = active /\ ~retiring[w] /\ ~stopping
       IN  /\ failure' = (failure \/ lost)
           /\ \/ UNCHANGED attempts
              \/ lost /\ CanRecover /\ attempts' = 0
    /\ reply' = IF Awaited = w THEN "no" ELSE reply
    /\ cmds' = [cmds EXCEPT ![w] = [k \in DOMAIN @ |-> [@[k] EXCEPT !.heard = FALSE]]]
    /\ UNCHANGED <<active, ready, stopping, pc, previous, candidate, quiesced, proc, phase,
                   retiring, rev, installed, client, queue, at, aborted>>

\* The 15 seconds of a control command are over, also for one nobody will answer.
Timeout ==
    /\ Awaited # Nobody /\ reply # "no"
    /\ SomeFault(proc[Awaited] = "up" /\ ~retiring[Awaited])
    /\ reply' = "no"
    /\ cmds' = [cmds EXCEPT ![Awaited] = [k \in DOMAIN @ |-> [@[k] EXCEPT !.heard = FALSE]]]
    /\ UNCHANGED <<own, pc, previous, candidate, quiesced, worker, installed, client, calls>>

-----------------------------------------------------------------------------
(* check() *)

Forked == {w \in Workers : proc[w] # "unborn"}
Unforked(w) == w \notin Forked /\ \A v \in Workers : v < w => v \in Forked

MayForkMutant == TRUE
MayFork == ~stopping

\* snapshot() and spawn(): the worker starts staged.
Spawn(w) ==
    /\ MayFork /\ Unforked(w)
    /\ candidate' = w
    /\ proc' = [proc EXCEPT ![w] = "up"]
    /\ rev' = [rev EXCEPT ![w] = installed]
    /\ UNCHANGED <<phase, closed, retiring>>

FlushedMutant == {}
Flushed == QueuedReqs

KeptMutant == queue
Kept == <<>>

\* The finally of a reload: what was held back is dispatched.
Finish ==
    /\ pc' = "idle"
    /\ Pass(Flushed)
    /\ queue' = Kept

\* The finally of a recovery.
FinishRecovery == pc' = "idle" /\ UNCHANGED <<queue, pending, at, answer>>

Wait(step) == pc' = step /\ UNCHANGED <<queue, pending, at, answer>>

Stop(w) == retiring' = [retiring EXCEPT ![w] = TRUE] /\ UNCHANGED <<proc, phase, closed, rev>>

\* stop() resolves, or gives up on a process that SIGKILL did not end.
Stopped(w) == proc[w] = "down" /\ UNCHANGED <<proc, faults>>
Stuck(w)   == proc[w] = "up" /\ Fault /\ proc' = [proc EXCEPT ![w] = "stuck"]
GivenUp(w) == \/ Stuck(w)
              \/ proc[w] = "stuck" /\ UNCHANGED <<proc, faults>>

PollRest == UNCHANGED <<ready, stopping, rev, cmds, installed, client, aborted>>

NothingOwedMutant == TRUE
NothingOwed == pending[active] = {}

CheckReload ==
    /\ pc = "idle" /\ ready /\ ~stopping /\ ~failure
    /\ installed # rev[active]
    /\ NothingOwed
    /\ Forked # Workers                 \* bound
    /\ Wait("inspect") /\ previous' = active /\ candidate' = Nobody /\ quiesced' = FALSE
    /\ Send(active, "inspect")
    /\ UNCHANGED <<own, worker, installed, client, aborted, faults>>

\* The answer to inspect: prepare a candidate of the installed revision.
Inspected ==
    /\ pc = "inspect" /\ reply # "none"
    /\ UNCHANGED <<own, previous, quiesced, reply, cmds, installed, client, aborted>>
    /\ \/ /\ reply = "no"
          /\ Finish /\ UNCHANGED <<candidate, worker, faults>>
       \/ /\ reply = "ok"
          /\ \E w \in Workers : Spawn(w)
          /\ Wait("introduce") /\ UNCHANGED faults
       \/ /\ reply = "ok"               \* snapshot() or spawn() throws
          /\ SomeFault(MayFork)
          /\ Finish /\ UNCHANGED <<candidate, worker>>

\* initialize and tools/list of the candidate, tools/list of the previous worker.
Introduced ==
    /\ pc = "introduce"
    /\ UNCHANGED <<own, previous, candidate, installed, client, aborted>>
    /\ \/ /\ proc[candidate] = "up" /\ ~closed[candidate]
          /\ proc[previous] = "up" /\ ~closed[previous]
          /\ installed = rev[candidate]
          /\ quiesced' = TRUE
          /\ Wait("quiesce")
          /\ UNCHANGED <<worker, faults>>
          /\ Send(previous, "quiesce")
       \/ /\ SomeFault(/\ proc[candidate] = "up" /\ ~closed[candidate]
                       /\ proc[previous] = "up" /\ ~closed[previous]
                       /\ installed = rev[candidate])
          /\ Stop(candidate) /\ Wait("reject")
          /\ UNCHANGED <<quiesced, reply, cmds>>

\* The handover: restore and then activate once the previous worker is quiesced.
HandOver ==
    /\ pc \in {"quiesce", "restore"} /\ reply # "none"
    /\ UNCHANGED <<own, previous, candidate, quiesced, installed, client, aborted, faults>>
    /\ IF reply = "ok"
       THEN /\ UNCHANGED worker
            /\ Wait(IF pc = "quiesce" THEN "restore" ELSE "activate")
            /\ Send(candidate, IF pc = "quiesce" THEN "restore" ELSE "activate")
       ELSE Stop(candidate) /\ Wait("reject") /\ UNCHANGED <<reply, cmds>>

Switch ==
    /\ pc = "activate" /\ reply # "none"
    /\ UNCHANGED <<ready, stopping, attempts, previous, quiesced, reply, cmds, installed,
                   client, aborted, faults>>
    /\ IF reply = "ok" /\ ~stopping /\ ~closed[candidate]
       THEN /\ active' = candidate /\ candidate' = Nobody /\ failure' = FALSE
            /\ Stop(previous) /\ Wait("retire")
       ELSE /\ Stop(candidate) /\ Wait("reject")
            /\ UNCHANGED <<active, candidate, failure>>

\* The previous worker has stopped; an error of its stop is only logged.
Retired ==
    /\ pc = "retire"
    /\ Stopped(previous) \/ GivenUp(previous)
    /\ UNCHANGED <<own, previous, candidate, quiesced, reply, phase, closed, retiring, rev,
                   cmds, installed, client, aborted>>
    /\ Finish

RejectedFirstMutant == UNCHANGED <<proc, faults>>
RejectedFirst == Stopped(candidate) \/ GivenUp(candidate)

\* The catch of a reload: the candidate has stopped, the previous worker resumes.
Rejected ==
    /\ pc = "reject"
    /\ RejectedFirst
    /\ candidate' = Nobody
    /\ UNCHANGED <<own, previous, quiesced, phase, closed, retiring, rev, installed, client,
                   aborted>>
    /\ IF quiesced /\ ~closed[previous]
       THEN Send(previous, "resume") /\ Wait("resume")
       ELSE Finish /\ UNCHANGED <<reply, cmds>>

ResumedFailsMutant == FALSE
ResumedFails == reply = "no"

Resumed ==
    /\ pc = "resume" /\ reply # "none"
    /\ failure' = (failure \/ ResumedFails)
    /\ UNCHANGED <<active, ready, stopping, attempts, previous, candidate, quiesced, reply,
                   worker, cmds, installed, client, aborted, faults>>
    /\ Finish

MayRecoverMutant == attempts <= RecoveryLimit
OneAttemptMutant == attempts = 0
MayRecover == attempts < RecoveryLimit

CheckRecovery ==
    /\ pc = "idle" /\ ready /\ ~stopping /\ failure
    /\ CanRecover /\ MayRecover
    /\ Forked # Workers                 \* bound
    /\ attempts' = attempts + 1
    /\ Stop(active) /\ Wait("stopFailed")
    /\ previous' = active /\ candidate' = Nobody
    /\ UNCHANGED <<active, ready, failure, stopping, quiesced, reply, cmds, installed, client,
                   aborted, faults>>

MustStopMutant == TRUE
MustStop == proc[previous] = "down"

\* The dead worker's process is gone, or its stop failed.
StoppedFailed ==
    /\ pc = "stopFailed"
    /\ UNCHANGED <<own, previous, quiesced, reply, cmds, installed, client, aborted>>
    /\ \/ GivenUp(previous) /\ FinishRecovery
          /\ UNCHANGED <<candidate, phase, closed, retiring, rev>>
       \/ MustStop /\ (\E w \in Workers : Spawn(w)) /\ Wait("reintroduce") /\ UNCHANGED faults
       \/ /\ MustStop /\ SomeFault(MayFork)
          /\ FinishRecovery /\ UNCHANGED <<candidate, worker>>

Reintroduced ==
    /\ pc = "reintroduce"
    /\ UNCHANGED <<own, previous, candidate, quiesced, installed, client, aborted>>
    /\ \/ /\ proc[candidate] = "up" /\ ~closed[candidate]
          /\ UNCHANGED <<worker, faults>>
          /\ Wait("reactivate") /\ Send(candidate, "activate")
       \/ /\ SomeFault(proc[candidate] = "up" /\ ~closed[candidate])
          /\ Stop(candidate) /\ Wait("rejectAgain") /\ UNCHANGED <<reply, cmds>>

Reactivated ==
    /\ pc = "reactivate" /\ reply # "none"
    /\ UNCHANGED <<ready, stopping, attempts, previous, quiesced, reply, cmds, installed,
                   client, aborted, faults>>
    /\ IF reply = "ok" /\ ~stopping /\ ~closed[candidate]
       THEN /\ active' = candidate /\ candidate' = Nobody /\ failure' = FALSE
            /\ FinishRecovery /\ UNCHANGED worker
       ELSE /\ Stop(candidate) /\ Wait("rejectAgain")
            /\ UNCHANGED <<active, candidate, failure>>

\* A replacement that cannot be shown to have stopped ends recovery.
RejectedAgain ==
    /\ pc = "rejectAgain"
    /\ \/ Stopped(candidate) /\ UNCHANGED attempts
       \/ GivenUp(candidate) /\ attempts' = RecoveryLimit
    /\ candidate' = Nobody
    /\ FinishRecovery
    /\ UNCHANGED <<active, ready, failure, stopping, previous, quiesced, reply, phase, closed,
                   retiring, rev, cmds, installed, client, aborted>>

\* External: an update, or a change of the routing configuration, is installed.
Install ==
    /\ installed < MaxUpdates /\ ~stopping
    /\ installed' = installed + 1
    /\ UNCHANGED <<own, check, worker, cmds, client, calls, faults>>

-----------------------------------------------------------------------------
Init ==
    /\ active = 1 /\ ready = FALSE /\ failure = FALSE /\ stopping = FALSE /\ attempts = 0
    /\ pc = "idle" /\ previous = Nobody /\ candidate = Nobody /\ quiesced = FALSE
    /\ reply = "none" /\ queue = <<>>
    /\ pending = [w \in Workers |-> {}]
    /\ proc = [w \in Workers |-> IF w = 1 THEN "up" ELSE "unborn"]
    /\ phase = [w \in Workers |-> "staged"]
    /\ cmds = [w \in Workers |-> <<>>]
    /\ closed = [w \in Workers |-> FALSE] /\ retiring = [w \in Workers |-> FALSE]
    /\ rev = [w \in Workers |-> 0] /\ installed = 0
    /\ at = [p \in Workers \X Reqs |-> "none"]
    /\ aborted = {} /\ sent = {} /\ cancelled = {}
    /\ answer = [r \in Reqs |-> "none"]
    /\ faults = 0

Check ==
    \/ CheckReload \/ Inspected \/ Introduced \/ HandOver \/ Switch
    \/ Retired \/ Rejected \/ Resumed
    \/ CheckRecovery \/ StoppedFailed \/ Reintroduced \/ Reactivated \/ RejectedAgain

Next ==
    \/ \E r \in Reqs : ClientSends(r)
    \/ \E r \in Calls : ClientCancels(r)
    \/ Disconnect \/ Install
    \/ \E w \in Workers, r \in Reqs : Begin(w, r) \/ End(w, r) \/ Message(w, r)
    \/ \E w \in Workers : Control(w) \/ Dies(w) \/ Fail(w)
    \/ Boot \/ Timeout \/ Check

Spec == Init /\ [][Next]_vars

\* Timers fire and event loops turn; a worker that was told to stop is killed in
\* the end; calls end, because every provider call of a worker has a time limit.
Fairness ==
    /\ WF_vars(Check) /\ WF_vars(Boot) /\ WF_vars(Timeout)
    /\ \A w \in Workers :
        /\ WF_vars(Control(w))
        /\ WF_vars(retiring[w] /\ Dies(w))
        /\ WF_vars(proc[w] = "down" /\ Fail(w))
        /\ \A r \in Reqs : WF_vars(Begin(w, r)) /\ WF_vars(End(w, r)) /\ WF_vars(Message(w, r))

FairSpec == Spec /\ Fairness

-----------------------------------------------------------------------------
\* A request gets one answer, also when the worker that has it dies or hands over
\* while its answer, its cancellation or a queue flush is under way.
AnsweredOnce == \A r \in Reqs : answer[r] # "twice"

\* A request that was answered not_sent, or cancelled before dispatch, is not with
\* any worker and never will be.
NotSentIsTrue ==
    \A r \in Calls : answer[r] \in {"not_sent", "cancelled"} =>
        \A w \in Workers : at[<<w, r>>] \in {"none", "refused"}

\* No request is handed to a second worker: a worker's exit, a failed reload and
\* the queue replay nothing.
NeverReplayed ==
    \A r \in Reqs : Cardinality({w \in Workers : at[<<w, r>>] # "none"}) <= 1

\* Two live workers never accept tool calls at the same time, whichever command
\* timed out, failed or completed late.
OneActive ==
    Cardinality({w \in Workers : proc[w] = "up" /\ phase[w] = "active"}) <= 1

\* No request meets a worker that is staged or quiesced: the queue holds it back
\* until the active worker accepts calls, and every failed handover resumes it.
NeverRefused == \A w \in Workers, r \in Calls : at[<<w, r>>] # "refused"

\* Once the client is gone, no worker runs that was not told to stop.
NoOrphans == stopping => \A w \in Workers : proc[w] = "up" => retiring[w]

\* What the supervisor promises of its workers and of the requests it passes on.
Supervised == OneActive /\ NoOrphans /\ NeverReplayed /\ AnsweredOnce /\ NotSentIsTrue

\* A reload takes no worker away from a call that still runs, or from an answer
\* that is still to come, unless that worker had failed.
HandsOverIdle ==
    [][active' # active /\ ~failure => /\ Running(active) = {}
                                       /\ pending[active] = {}]_vars

\* Every request gets an answer, unless the client withdraws it or leaves.
EveryAnswer ==
    \A r \in Reqs : r \in sent ~> answer[r] # "none" \/ r \in cancelled \/ stopping

\* A recoverable entry gets a working worker back, until its attempts are used up.
Recovers ==
    failure /\ CanRecover ~> ~failure \/ attempts = RecoveryLimit \/ stopping

\* An installed update is activated once the calls under way have ended.
UpdateActivates ==
    ready /\ installed # rev[active] ~> installed = rev[active] \/ failure \/ stopping
=============================================================================
