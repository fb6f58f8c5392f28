--------------------------- MODULE BackgroundRelay ---------------------------
(***************************************************************************)
(* The background relay daemon of src/src/background-relay.mjs, with the   *)
(* parts of background-relay-daemon.mjs that stop and restart it.          *)
(*                                                                         *)
(* One Node process serves clients, keeps one receipt file per request,    *)
(* starts CLI workers in a scheduled pump, and writes the receipt at every *)
(* step.  The module keeps all of that control flow and abstracts the      *)
(* data: a prompt is its request ID, a directory binding is its project,   *)
(* a diagnostic is nothing.                                                *)
(*                                                                         *)
(* Atomicity.  The daemon is single-threaded: one action is the code       *)
(* between two awaits.  The pump is one setImmediate callback, taken here  *)
(* one job per step; while loop = "pump" no other daemon code runs, but    *)
(* the policy file, the worker processes and a crash are not held back.    *)
(*                                                                         *)
(* A receipt write (writeRelayJson) either succeeds, throws before its     *)
(* rename ("lost", the old file stays) or throws in the verification after *)
(* its rename ("late", the new file is there although the caller sees an   *)
(* error).                                                                 *)
(***************************************************************************)
EXTENDS Naturals, Sequences, FiniteSets

CONSTANTS
    Ids,            \* request IDs (also the IDs of their worker capabilities)
    Agents,         \* the enabled providers
    Projects,       \* project directories of the shared policy
    NoJob,          \* no receipt / not in memory
    NoId,           \* the parent of a request sent by a local client
    MaxConcurrent,  \* maxConcurrent (6)
    MaxPerAgent,    \* workers of one agent at a time (2)
    MaxQueued,      \* maxQueued (64)
    MaxRecords,     \* maxRecords (1024)
    MaxDepth,       \* delegation depth (4)
    MaxTree,        \* requests under one root (16)
    MaxFaults,      \* bound on failed receipt writes
    MaxCrashes,     \* bound on crashes of the daemon
    MaxStops        \* bound on drains, signals and updates

Terminal   == {"completed", "failed", "unknown"}
Statuses   == {"queued", "running"} \cup Terminal
Deliveries == {"not_sent", "sent", "unknown"}

Jobs == [agent : Agents, project : Projects, root : Ids,
         parent : Ids \cup {NoId}, depth : 0..MaxDepth,
         status : Statuses, delivery : Deliveries]

ASSUME RelayAssumption ==
    /\ NoJob \notin Jobs
    /\ NoId \notin Ids
    /\ IsFiniteSet(Ids)
    /\ MaxDepth \in Nat
    /\ MaxFaults \in Nat
    /\ MaxCrashes \in Nat
    /\ MaxStops \in Nat

VARIABLES
    disk,       \* the receipt files of the jobs directory
    job,        \* relay.jobs: the receipts in memory
    order,      \* insertion order of relay.jobs
    phase,      \* where execute() is for a request; all but "idle" are relay.active
    caps,       \* requests whose worker capability is registered
    loop,       \* relay.pumping and the setImmediate callback, see Turn below
    accepting,  \* relay.accepting
    exiting,    \* requestedExit # null
    daemon,     \* "up", "stopping" (stop() awaits its shutdown) or "down"
    granted,    \* projects the policy file authorizes now
    cli,        \* external: whether the worker process was given, has taken the prompt
    runs,       \* history: calls of adapter.run per request
    closed,     \* history: a terminal receipt of the request could be read
    faults, crashes, stops      \* budgets used

memory  == <<job, order, phase, caps, loop, accepting, exiting, daemon>>
history == <<runs, closed>>
budgets == <<faults, crashes, stops>>
vars    == <<disk, memory, granted, cli, history, budgets>>

TypeOK ==
    /\ disk \in [Ids -> Jobs \cup {NoJob}]
    /\ job \in [Ids -> Jobs \cup {NoJob}]
    /\ order \in Seq(Ids)
    /\ phase \in [Ids -> {"idle", "inspecting", "dispatched", "failing", "done"}]
    /\ caps \subseteq Ids
    /\ loop \in {"idle", "soon", "later", "pump"}
    /\ accepting \in BOOLEAN
    /\ exiting \in BOOLEAN
    /\ daemon \in {"up", "stopping", "down"}
    /\ granted \subseteq Projects
    /\ cli \in [Ids -> {"none", "written", "taken"}]
    /\ runs \in [Ids -> Nat]
    /\ closed \in [Ids -> BOOLEAN]
    /\ faults \in 0..MaxFaults
    /\ crashes \in 0..MaxCrashes
    /\ stops \in 0..MaxStops

Stored == {i \in Ids : disk[i] # NoJob}
Known  == {i \in Ids : job[i] # NoJob}
Queued == {i \in Known : job[i].status = "queued"}
Active == {i \in Ids : phase[i] # "idle"}
ActiveOf(a) == {i \in Active : job[i].agent = a}
Tree(r) == {i \in Known : job[i].root = r}

\* schedule() asks for a setImmediate callback, the pump.  Asked for from an I/O
\* callback it runs "soon", before the next timers; asked for from a timer, a close
\* callback or the pump itself it runs "later", and the poll timer may come first.
Due == loop \in {"soon", "later"}

\* Another event-loop callback may run.
Turn == daemon # "down" /\ loop # "pump"

\* n more receipt writes failed.
Faulty(n) == faults + n <= MaxFaults /\ faults' = faults + n

-----------------------------------------------------------------------------
(* enqueue: a local client or a running worker sends a request.  The        *)
(* operators whose names end in Mutant are wrong versions of the operator  *)
(* that follows them; the model checker must tell each from the right one. *)

\* An ID that is in memory returns its receipt or a conflict and changes nothing.
FreshMutant(i) == i \notin {k \in Known : job[k].status # "failed"}
Fresh(i) == job[i] = NoJob

RoomMutant == Cardinality(Known) < MaxRecords /\ Cardinality(Queued) <= MaxQueued
Room == Cardinality(Known) < MaxRecords /\ Cardinality(Queued) < MaxQueued

\* The limits that only a delegating worker w meets, for a child of agent a.
DelegableMutant(w, a) ==
    /\ job[w].depth + 1 <= MaxDepth
    /\ Cardinality(Tree(job[w].root)) < MaxTree
Delegable(w, a) ==
    /\ job[w].depth + 1 <= MaxDepth
    /\ Cardinality(Tree(job[w].root)) < MaxTree
    /\ Cardinality(Active) < MaxConcurrent
    /\ Cardinality(ActiveOf(a)) < MaxPerAgent

\* The receipt is written before the job enters memory; when the write throws
\* the client gets an error, whether or not the file is there.
EnqueueMutant(i, r) ==
    /\ job' = [job EXCEPT ![i] = r]
    /\ order' = Append(order, i)
    /\ loop' = "soon"
    /\ \/ disk' = [disk EXCEPT ![i] = r] /\ Faulty(0)
       \/ Faulty(1) /\ UNCHANGED disk
Enqueue(i, r) ==
    \/ /\ disk' = [disk EXCEPT ![i] = r]
       /\ job' = [job EXCEPT ![i] = r]
       /\ order' = Append(order, i)
       /\ loop' = "soon"
       /\ Faulty(0)
    \/ /\ disk' = [disk EXCEPT ![i] = r]
       /\ Faulty(1)
       /\ UNCHANGED <<job, order, loop>>

Send(i, a, p) ==
    /\ Turn /\ daemon = "up" /\ accepting
    /\ Fresh(i) /\ Room
    /\ p \in granted
    /\ Enqueue(i, [agent |-> a, project |-> p, root |-> i, parent |-> NoId,
                   depth |-> 0, status |-> "queued", delivery |-> "not_sent"])
    /\ UNCHANGED <<phase, caps, accepting, exiting, daemon, granted, cli,
                   history, crashes, stops>>

\* A worker delegates inside its own project, also while the relay drains.
Delegate(i, w, a) ==
    /\ Turn /\ daemon = "up"
    /\ w \in caps /\ job[w].project \in granted
    /\ Fresh(i) /\ Room /\ Delegable(w, a)
    /\ Enqueue(i, [agent |-> a, project |-> job[w].project, root |-> job[w].root,
                   parent |-> w, depth |-> job[w].depth + 1,
                   status |-> "queued", delivery |-> "not_sent"])
    /\ UNCHANGED <<phase, caps, accepting, exiting, daemon, granted, cli,
                   history, crashes, stops>>

-----------------------------------------------------------------------------
(* The end of execute(): its catch and finally, and the release of the slot. *)

\* The receipt that execute() leaves for receipt r and raw error state s, which
\* the Codex adapter spells differently.
FailedAsMutant(r, s) ==
    [r EXCEPT !.status = IF s = "unknown" THEN "unknown" ELSE "failed",
              !.delivery = s]
FailedAs(r, s) ==
    [r EXCEPT !.status = IF s = "unknown" THEN "unknown" ELSE "failed",
              !.delivery = IF s = "not-sent" THEN "not_sent" ELSE s]

\* The last write of receipt r, when the file holds d and n writes of this step
\* have already failed.  If it fails too the receipt is unknown in memory and the
\* relay stops accepting.
Settle(j, d, r, n) ==
    /\ closed' = [closed EXCEPT ![j] = TRUE]
    /\ \/ /\ job' = [job EXCEPT ![j] = r]
          /\ disk' = [disk EXCEPT ![j] = r]
          /\ Faulty(n)
          /\ UNCHANGED accepting
       \/ /\ job' = [job EXCEPT ![j] = FailedAs(r, "unknown")]
          /\ \E w \in {d, r} : disk' = [disk EXCEPT ![j] = w]
          /\ Faulty(n + 1)
          /\ accepting' = FALSE

\* .finally: the slot and the capability go, and the pump is asked for again.
ReleaseMutant(j) ==
    /\ phase' = [phase EXCEPT ![j] = "idle"]
    /\ caps' = caps \ {j}
    /\ UNCHANGED loop
ReleaseKeepsCapMutant(j) ==
    /\ phase' = [phase EXCEPT ![j] = "idle"]
    /\ loop' \in IF loop = "idle" THEN {"soon", "later"} ELSE {loop}
    /\ UNCHANGED caps
Release(j) ==
    /\ phase' = [phase EXCEPT ![j] = "idle"]
    /\ caps' = caps \ {j}
    /\ loop' \in IF loop = "idle" THEN {"soon", "later"} ELSE {loop}

\* What every exit of execute() outside the pump does and leaves alone.
Finish(j, d, r, n) ==
    /\ Settle(j, d, r, n)
    /\ Release(j)
    /\ UNCHANGED <<order, exiting, daemon, granted, cli, runs, crashes, stops>>

-----------------------------------------------------------------------------
(* schedule() and the first part of execute().                             *)

Startable(j) ==
    /\ j \in Queued
    /\ Cardinality(Active) < MaxConcurrent
    /\ Cardinality(ActiveOf(job[j].agent)) < MaxPerAgent

\* The loop over relay.jobs reaches j next.
NextInLine(j) ==
    /\ Startable(j)
    /\ \E k \in 1..Len(order) :
          /\ order[k] = j
          /\ \A l \in 1..(k - 1) : ~Startable(order[l])

StartJob(j) ==
    LET running == [job[j] EXCEPT !.status = "running"] IN
    /\ daemon # "down" /\ (Due \/ loop = "pump")
    /\ NextInLine(j)
    /\ loop' = "pump"
    /\ \/ /\ job[j].project \in granted
          /\ job' = [job EXCEPT ![j] = running]
          /\ disk' = [disk EXCEPT ![j] = running]
          /\ phase' = [phase EXCEPT ![j] = "inspecting"]
          /\ Faulty(0)
          /\ UNCHANGED <<accepting, closed>>
       \/ \* scope.recheck throws
          /\ job[j].project \notin granted
          /\ Settle(j, disk[j], FailedAs(job[j], "not_sent"), 0)
          /\ phase' = [phase EXCEPT ![j] = "done"]
       \/ \* the write of "running" throws
          /\ job[j].project \in granted
          /\ \E d \in {disk[j], running} :
                Settle(j, d, FailedAs(running, "not_sent"), 1)
          /\ phase' = [phase EXCEPT ![j] = "done"]
    /\ UNCHANGED <<order, caps, exiting, daemon, granted, cli, runs, crashes, stops>>

\* The loop ends; the jobs that failed inside it are released by microtasks.
EndPump ==
    LET done == {j \in Ids : phase[j] = "done"} IN
    /\ daemon # "down" /\ (Due \/ loop = "pump")
    /\ ~\E j \in Ids : NextInLine(j)
    /\ phase' = [j \in Ids |-> IF j \in done THEN "idle" ELSE phase[j]]
    /\ caps' = caps \ done
    /\ loop' = IF done = {} THEN "idle" ELSE "later"
    /\ UNCHANGED <<disk, job, order, accepting, exiting, daemon, granted, cli,
                   history, budgets>>

\* adapter.inspect has answered that the worker is ready; the policy is checked
\* again, the capability registered, the receipt written, and adapter.run called.
Checked(j) == job[j].project \in granted

RecordedMutant(j, r) == job' = [job EXCEPT ![j] = r] /\ UNCHANGED disk
Recorded(j, r) == job' = [job EXCEPT ![j] = r] /\ disk' = [disk EXCEPT ![j] = r]

Dispatch(j) ==
    /\ Turn /\ phase[j] = "inspecting" /\ Checked(j)
    /\ Recorded(j, [job[j] EXCEPT !.delivery = "unknown"])
    /\ phase' = [phase EXCEPT ![j] = "dispatched"]
    /\ caps' = caps \cup {j}
    /\ runs' = [runs EXCEPT ![j] = @ + 1]
    /\ UNCHANGED <<order, loop, accepting, exiting, daemon, granted, cli, closed,
                   budgets>>

\* The worker is not ready, or its project was revoked during the inspection.
NotDispatched(j) ==
    /\ Turn /\ phase[j] = "inspecting"
    /\ Finish(j, disk[j], FailedAs(job[j], "not_sent"), 0)

\* The write before adapter.run throws: an error of the relay's own says
\* not_sent, one of the file system leaves the state that was being written.
DispatchNotRecorded(j) ==
    LET r == [job[j] EXCEPT !.delivery = "unknown"] IN
    /\ Turn /\ phase[j] = "inspecting" /\ Checked(j)
    /\ \E d \in {disk[j], r}, s \in {"not_sent", "unknown"} :
          Finish(j, d, FailedAs(r, s), 1)

-----------------------------------------------------------------------------
(* The adapters (background-*-worker.mjs) and the worker processes.        *)

\* The adapter writes the prompt to the worker's stdin.
WritePrompt(j) ==
    /\ Turn /\ phase[j] = "dispatched" /\ cli[j] = "none"
    /\ cli' = [cli EXCEPT ![j] = "written"]
    /\ UNCHANGED <<disk, memory, granted, history, budgets>>

\* External: the worker process takes the prompt, even if the daemon is gone.
WorkerTakes(j) ==
    /\ cli[j] = "written"
    /\ cli' = [cli EXCEPT ![j] = "taken"]
    /\ UNCHANGED <<disk, memory, granted, history, budgets>>

\* onEvent("accepted").  If the write throws the adapter can only fail.
Accepted(j) ==
    LET r == [job[j] EXCEPT !.delivery = "sent"] IN
    /\ Turn /\ phase[j] = "dispatched"
    /\ cli[j] = "taken" /\ job[j].delivery # "sent"
    /\ job' = [job EXCEPT ![j] = r]
    /\ \/ disk' = [disk EXCEPT ![j] = r] /\ Faulty(0) /\ UNCHANGED phase
       \/ /\ \E d \in {disk[j], r} : disk' = [disk EXCEPT ![j] = d]
          /\ Faulty(1)
          /\ phase' = [phase EXCEPT ![j] = "failing"]
    /\ UNCHANGED <<order, caps, loop, accepting, exiting, daemon, granted, cli,
                   history, crashes, stops>>

\* adapter.run resolves, which every adapter does only after acceptance.
Returns(j) ==
    /\ Turn /\ phase[j] = "dispatched" /\ job[j].delivery = "sent"
    /\ Finish(j, disk[j], [job[j] EXCEPT !.status = "completed"], 0)

\* The delivery state an adapter's error carries.
ErrorStates(j) ==
    IF cli[j] = "none" THEN {"not_sent", "not-sent"}
    ELSE IF job[j].delivery = "sent" THEN {"sent", "unknown"} ELSE {"unknown"}

\* adapter.run rejects: a protocol error, an exit code, its timeout.
Throws(j) ==
    /\ Turn /\ phase[j] \in {"dispatched", "failing"}
    /\ \E s \in ErrorStates(j) : Finish(j, disk[j], FailedAs(job[j], s), 0)

-----------------------------------------------------------------------------
(* The policy file, and the life of the daemon.                            *)

\* External: the user edits the shared project policy.
EditPolicy ==
    /\ \E G \in SUBSET Projects : G # granted /\ granted' = G
    /\ UNCHANGED <<disk, memory, cli, history, budgets>>

\* A local client asks the relay to drain.
Drain ==
    /\ Turn /\ daemon = "up" /\ accepting
    /\ stops < MaxStops /\ stops' = stops + 1
    /\ accepting' = FALSE
    /\ UNCHANGED <<disk, job, order, phase, caps, loop, exiting, daemon, granted,
                   cli, history, faults, crashes>>

\* SIGTERM or SIGINT: requestStop(0).
Signal ==
    /\ Turn /\ daemon = "up" /\ ~exiting
    /\ stops < MaxStops /\ stops' = stops + 1
    /\ accepting' = FALSE /\ exiting' = TRUE
    /\ UNCHANGED <<disk, job, order, phase, caps, loop, daemon, granted,
                   cli, history, faults, crashes>>

\* The 2-second poll.  It notices changed source or configuration (updated), a
\* relay that no longer accepts, and a pending exit with no active worker.
LeavesMutant(updated) == exiting \/ updated
Leaves(updated) == exiting \/ updated \/ ~accepting

Poll(updated) ==
    /\ daemon = "up" /\ loop \in {"idle", "later"}
    /\ updated => ~exiting /\ stops < MaxStops
    /\ stops' = IF updated THEN stops + 1 ELSE stops
    /\ accepting' = (accepting /\ ~updated)
    /\ exiting' = Leaves(updated)
    /\ daemon' = IF Leaves(updated) /\ Active = {} THEN "stopping" ELSE "up"
    /\ UNCHANGED <<disk, job, order, phase, caps, loop, granted, cli, history,
                   faults, crashes>>

\* The process is gone and its memory with it.
Vanish ==
    /\ job' = [i \in Ids |-> NoJob]
    /\ order' = <<>>
    /\ phase' = [i \in Ids |-> "idle"]
    /\ caps' = {}
    /\ loop' = "idle"
    /\ accepting' = FALSE
    /\ exiting' = FALSE
    /\ daemon' = "down"
    /\ UNCHANGED <<disk, granted, cli, history, faults, stops>>

\* stop() has closed the transport and the desktop relay, and exits.
Exit == daemon = "stopping" /\ loop # "pump" /\ Vanish /\ UNCHANGED crashes

Crash ==
    /\ daemon # "down"
    /\ crashes < MaxCrashes /\ crashes' = crashes + 1
    /\ Vanish

\* initialize(): what a stored receipt becomes.
ConvertedMutant(r) ==
    IF r # NoJob /\ r.status = "running"
    THEN [r EXCEPT !.status = "queued", !.delivery = "not_sent"] ELSE r
Converted(r) ==
    IF r # NoJob /\ r.status = "running" THEN FailedAs(r, "unknown") ELSE r

\* The orders in which readdir may return the files of S.
Listings(S) == {o \in [1..Cardinality(S) -> S] : \A i \in S : \E k \in 1..Cardinality(S) : o[k] = i}

\* The service starts the daemon again and initialize() succeeds.
Restart ==
    /\ daemon = "down"
    /\ Cardinality(Stored) <= MaxRecords
    /\ disk' = [i \in Ids |-> Converted(disk[i])]
    /\ job' = disk'
    /\ order' \in Listings(Stored)
    /\ loop' = "soon"
    /\ accepting' = TRUE
    /\ daemon' = "up"
    /\ closed' = [i \in Ids |-> closed[i] \/ (i \in Stored /\ disk'[i].status \in Terminal)]
    /\ UNCHANGED <<phase, caps, exiting, granted, cli, runs, budgets>>

\* initialize() throws when a receipt cannot be rewritten; S was rewritten before.
RestartFails ==
    /\ daemon = "down"
    /\ Cardinality(Stored) <= MaxRecords
    /\ \E i \in Stored : disk[i].status = "running"
    /\ Faulty(1)
    /\ \E S \in SUBSET {i \in Stored : disk[i].status = "running"} :
          disk' = [i \in Ids |-> IF i \in S THEN Converted(disk[i]) ELSE disk[i]]
    /\ UNCHANGED <<memory, granted, cli, history, crashes, stops>>

-----------------------------------------------------------------------------
Init ==
    /\ disk = [i \in Ids |-> NoJob]
    /\ job = [i \in Ids |-> NoJob]
    /\ order = <<>>
    /\ phase = [i \in Ids |-> "idle"]
    /\ caps = {}
    /\ loop = "idle"
    /\ accepting = FALSE
    /\ exiting = FALSE
    /\ daemon = "down"
    /\ granted = Projects
    /\ cli = [i \in Ids |-> "none"]
    /\ runs = [i \in Ids |-> 0]
    /\ closed = [i \in Ids |-> FALSE]
    /\ faults = 0 /\ crashes = 0 /\ stops = 0

Ends(j) == Returns(j) \/ Throws(j)

Next ==
    \/ \E i \in Ids, a \in Agents, p \in Projects : Send(i, a, p)
    \/ \E i, w \in Ids, a \in Agents : Delegate(i, w, a)
    \/ \E j \in Ids : StartJob(j)
    \/ EndPump
    \/ \E j \in Ids : Dispatch(j) \/ NotDispatched(j) \/ DispatchNotRecorded(j)
    \/ \E j \in Ids : WritePrompt(j) \/ WorkerTakes(j) \/ Accepted(j)
    \/ \E j \in Ids : Ends(j)
    \/ EditPolicy
    \/ Drain \/ Signal
    \/ \E updated \in BOOLEAN : Poll(updated)
    \/ Exit \/ Crash \/ Restart \/ RestartFails

Spec == Init /\ [][Next]_vars

\* The event loop keeps turning: a requested pump runs, an inspection answers,
\* an adapter ends (its timer rejects after timeoutMs at the latest), the poll
\* timer fires, and stop() completes.  The service restarts a daemon that went
\* away.  Nothing is assumed of clients, workers, the policy file or the disk.
Fairness ==
    /\ \A j \in Ids :
          /\ WF_vars(StartJob(j))
          /\ WF_vars(Dispatch(j) \/ NotDispatched(j))
          /\ WF_vars(Ends(j))
    /\ WF_vars(EndPump)
    /\ WF_vars(Poll(FALSE))
    /\ WF_vars(Exit)
    /\ WF_vars(Restart)

FairSpec == Spec /\ Fairness

-----------------------------------------------------------------------------
(* Properties.                                                             *)

\* A request is handed to a worker at most once, through crashes, restarts,
\* failed writes and repeated sends of its ID.
AtMostOnce == \A i \in Ids : runs[i] <= 1

\* A receipt that says "not sent", in memory or in its file, is right: the
\* worker process was never given the prompt.  One that says "sent" is right too.
Truthful(r, i) ==
    r # NoJob => /\ r.delivery = "not_sent" => cli[i] = "none"
                 /\ r.delivery = "sent" => cli[i] = "taken"
ReceiptsAreTruthful == \A i \in Ids : Truthful(job[i], i) /\ Truthful(disk[i], i)

\* The relay never knows of a request that a crash would make it forget.
AcceptedIsDurable == Known \subseteq Stored

\* No wakeup is lost: when no pump is pending, nothing that could start waits.
NoStrandedWork == daemon # "down" /\ loop = "idle" => \A j \in Ids : ~Startable(j)

\* No set of workers waits on itself, whoever else takes a slot between a delegation
\* and the start of its child: some worker of the set has no queued child that only
\* the end of one of them could let start (limits of enqueue() for a delegating worker).
Waits(p, S) ==
    \E c \in Queued :
        /\ job[c].parent = p
        /\ \/ Cardinality(Active) >= MaxConcurrent /\ Active \subseteq S
           \/ /\ Cardinality(ActiveOf(job[c].agent)) >= MaxPerAgent
              /\ ActiveOf(job[c].agent) \subseteq S
NoCircularWait ==
    loop = "idle" => \A S \in (SUBSET Active) \ {{}} : \E p \in S : ~Waits(p, S)

\* The limits of the store, the queue and the delegation trees hold for what
\* the clients were told about and, after a restart, for what the files hold.
LimitsHold ==
    /\ Cardinality(Known) <= MaxRecords
    /\ Cardinality(Queued) <= MaxQueued
    /\ \A r \in Ids : Cardinality(Tree(r)) <= MaxTree
    /\ Cardinality(Active) <= MaxConcurrent
    /\ \A a \in Agents : Cardinality(ActiveOf(a)) <= MaxPerAgent

\* A worker's capability is worthless as soon as its request has ended.
CapabilitiesExpire == \A w \in caps : w \in Known /\ job[w].status = "running"

\* A request whose terminal receipt could be read is not started afterwards.
NoRunAfterClosed ==
    [][\A i \in Ids : runs'[i] # runs[i] => ~closed[i]]_vars

\* A planned stop (drain, signal, update) interrupts no worker.
DrainInterruptsNothing ==
    [][daemon = "stopping" /\ daemon' = "down" /\ crashes' = crashes => Active = {}]_vars

\* Every request the relay has accepted gets a terminal receipt in its file.
EverySettles ==
    \A i \in Ids : i \in Known ~> (i \in Stored /\ disk[i].status \in Terminal)

\* A relay that stops accepting is replaced by one that accepts.
DrainEnds == daemon = "up" /\ ~accepting ~> daemon = "up" /\ accepting

-----------------------------------------------------------------------------
\* The relay keeps the promise of WorkerLedger.  The stage of a request is read
\* off its receipt file r and the number n of times it was started.
StageOf(r, n) ==
    CASE r = NoJob -> "absent"
      [] r # NoJob /\ (r.status = "queued" \/ (r.status = "running" /\ n = 0)) -> "owed"
      [] r # NoJob /\ r.status = "running" /\ n # 0 -> "started"
      [] r # NoJob /\ r.status \in Terminal -> "settled"

Ledger == INSTANCE WorkerLedger WITH work <- [i \in Ids |-> StageOf(disk[i], runs[i])]

\* At most one start per request, nothing settles twice, and nothing settled
\* comes back, whatever is lost.
ImplementsLedger == Ledger!Spec
=============================================================================
