----------------------------- MODULE RelayService -----------------------------
(***************************************************************************)
(* The relay service, src/src/background-relay-service.mjs, which keeps    *)
(* one background relay daemon running, and how that daemon comes up and   *)
(* goes away (src/src/background-relay-daemon.mjs and the endpoint part of *)
(* src/src/background-relay.mjs).                                          *)
(*                                                                         *)
(* Any number of service processes may be started; a lock file in the      *)
(* relay's directory lets one of them work.  Each process is one element   *)
(* of Procs and starts once; d[p] is the daemon that service p forked, and *)
(* outlives p when p is killed.                                            *)
(*                                                                         *)
(* Services and daemons are processes: they interleave at every file       *)
(* operation on the lock and on the socket file of the endpoint.  "seen"   *)
(* and "saw" hold the processes whose lstat showed the file that is there  *)
(* now (device, inode and birth time); a new file empties them.            *)
(***************************************************************************)
EXTENDS Naturals, FiniteSets

CONSTANTS
    Procs,          \* service processes
    NoFile,         \* neither a lock nor a socket
    MaxUpdates,     \* bound on updates of the installation
    MaxEdits,       \* bound on edits of the configuration
    MaxCrashes      \* bound on killed processes and on failed calls

ServiceAssumption ==
    /\ NoFile \notin Procs
    /\ {MaxUpdates, MaxEdits, MaxCrashes} \subseteq Nat

VARIABLES
    lock,       \* the process that created the lock file
    whole,      \* the lock file has its content
    seen,       \* services that looked at this lock file and found it stale
    svc,        \* where each service is
    again,      \* services in their second attempt at the lock
    reload,     \* services that will run the new code after the release
    mem,        \* version of the code a service runs
    aborted,    \* services that got SIGTERM
    d,          \* the daemon of each service
    rt,         \* version a daemon was started with
    endpoint,   \* the daemon that created the socket file
    saw,        \* daemons that looked at this socket file and found it stale
    call,       \* services whose drain call is under way
    desired,    \* installed version
    moved,      \* the update went to another directory
    config,     \* the configuration file: relay "on", "off", or unreadable
    edits, crashes,
    robbed,     \* history: services whose lock was removed by one that judged an earlier lock
    cut         \* history: daemons whose socket was removed by one that judged an earlier file

locking  == <<lock, whole, seen, robbed>>
daemons  == <<d, rt, endpoint, saw, cut>>
world    == <<desired, moved, config, edits>>
vars     == <<locking, svc, again, reload, mem, aborted, daemons, call, world, crashes>>

Holding   == {"loop", "watch", "sleep"}
Listening == {"relay", "draining", "ending"}
Starting  == {"spawned", "probed", "unlink", "listen"}
Ended     == {"exited75", "exited"}

TypeOK ==
    /\ lock \in Procs \cup {NoFile} /\ whole \in BOOLEAN
    /\ {seen, again, reload, aborted, saw, call, robbed, cut} \subseteq SUBSET Procs
    /\ svc \in [Procs -> {"off", "create", "write", "exists", "recheck", "unlink", "release",
                          "down"} \cup Holding]
    /\ {mem, rt} \subseteq [Procs -> 0..MaxUpdates]
    /\ d \in [Procs -> {"none"} \cup Starting \cup Listening \cup Ended]
    /\ endpoint \in Procs \cup {NoFile}
    /\ desired \in 0..MaxUpdates /\ moved \in BOOLEAN /\ config \in {"on", "off", "broken"}
    /\ edits \in 0..MaxEdits /\ crashes \in 0..MaxCrashes

Alive(p) == svc[p] \notin {"off", "down"}
Goes(p, step) == svc' = [svc EXCEPT ![p] = step]
Fault(b) == IF b THEN crashes < MaxCrashes /\ crashes' = crashes + 1 ELSE UNCHANGED crashes

-----------------------------------------------------------------------------
(* acquireRelayServiceLock().  Operators whose names end in Mutant are      *)
(* wrong versions of the operator that follows them, for the model checker *)
(* to tell apart.                                                          *)

LockRest == UNCHANGED <<reload, mem, aborted, daemons, call, world>>

Start(p) ==
    /\ svc[p] = "off"
    /\ mem' = [mem EXCEPT ![p] = desired]
    /\ Goes(p, IF config = "on" THEN "create" ELSE "down")
    /\ UNCHANGED <<locking, again, reload, aborted, daemons, call, world, crashes>>

Create(p) ==
    /\ svc[p] = "create"
    /\ IF lock = NoFile
       THEN /\ lock' = p /\ whole' = FALSE /\ seen' = {} /\ robbed' = robbed \ {p}
            /\ Goes(p, "write")
       ELSE UNCHANGED locking /\ Goes(p, "exists")
    /\ UNCHANGED <<again, crashes>> /\ LockRest

\* The content goes to the file that was created, whatever its name leads to now.
Write(p) ==
    /\ svc[p] = "write"
    /\ whole' = (whole \/ lock = p)
    /\ Goes(p, "loop")
    /\ UNCHANGED <<lock, seen, robbed, again, crashes>> /\ LockRest

StaleMutant(p) == TRUE
Stale(p) == ~Alive(lock)

\* A lock that is gone, empty or not to be judged ends the attempt; a live owner wins.
Look(p) ==
    /\ svc[p] = "exists"
    /\ \E judged \in BOOLEAN :
        /\ Fault(~judged)
        /\ IF judged /\ lock # NoFile /\ whole /\ Stale(p)
           THEN seen' = seen \cup {p} /\ Goes(p, "recheck")
           ELSE UNCHANGED seen /\ Goes(p, "down")
    /\ UNCHANGED <<lock, whole, robbed, again>> /\ LockRest

Recheck(p) ==
    /\ svc[p] = "recheck"
    /\ Goes(p, IF p \in seen THEN "unlink" ELSE "down")
    /\ UNCHANGED <<locking, again, crashes>> /\ LockRest

\* unlink goes by name; two attempts are made.  A lock that was taken since the second
\* look is removed under its owner.
Unlink(p) ==
    /\ svc[p] = "unlink"
    /\ robbed' = robbed \cup ({lock} \ ({NoFile} \cup IF p \in seen THEN {lock} ELSE {}))
    /\ lock' = NoFile /\ whole' = FALSE /\ seen' = {}
    /\ Goes(p, IF lock = NoFile \/ p \in again THEN "down" ELSE "create")
    /\ again' = again \cup {p}
    /\ UNCHANGED crashes /\ LockRest

\* release(), then the end of the process or a run of the new code in the same process.
Release(p) ==
    /\ svc[p] = "release"
    /\ IF lock = p
       THEN lock' = NoFile /\ whole' = FALSE /\ seen' = {} /\ UNCHANGED robbed
       ELSE UNCHANGED locking
    /\ Goes(p, IF p \in reload /\ config = "on" THEN "create" ELSE "down")
    /\ mem' = [mem EXCEPT ![p] = IF p \in reload THEN desired ELSE @]
    /\ reload' = reload \ {p} /\ again' = again \ {p}
    /\ UNCHANGED <<aborted, daemons, call, world, crashes>>

-----------------------------------------------------------------------------
(* runBackgroundRelayService() *)

Leave(p, isReload) ==
    /\ Goes(p, "release")
    /\ reload' = IF isReload THEN reload \cup {p} ELSE reload

LoopRest == UNCHANGED <<locking, again, mem, aborted, world>>

OffMutant(p) == p \in aborted
Off(p) == p \in aborted \/ config # "on"

\* The top of the loop.  An update that moved the package is seen here; one in place
\* is seen when its daemon ends.
Loop(p) ==
    /\ svc[p] = "loop"
    /\ LoopRest /\ UNCHANGED <<call, endpoint, saw, cut>>
    /\ \/ /\ Off(p)
          /\ Leave(p, FALSE) /\ UNCHANGED <<d, rt, crashes>>
       \/ /\ ~Off(p)
          /\ \/ Fault(TRUE) /\ Leave(p, FALSE) /\ UNCHANGED <<d, rt>>
             \/ mem[p] # desired /\ moved /\ Leave(p, TRUE) /\ UNCHANGED <<d, rt, crashes>>
             \/ /\ mem[p] = desired \/ ~moved
                /\ d' = [d EXCEPT ![p] = "spawned"]
                /\ rt' = [rt EXCEPT ![p] = desired]
                /\ Goes(p, "watch") /\ UNCHANGED <<reload, crashes>>

\* SIGTERM to the daemon: requestStop(0), or the end of a daemon that is still starting.
Terminated(p) ==
    CASE d[p] \in Listening -> "ending"
      [] d[p] \in Starting  -> "exited"
      [] OTHER              -> d[p]

OutdatedMutant(p) == FALSE
Outdated(p) == rt[p] # desired \/ mem[p] # desired

\* Every two seconds: ask the relay behind the endpoint to drain if an update waits.
Watch(p) ==
    /\ svc[p] = "watch" /\ d[p] \notin Ended /\ p \notin call \cup aborted
    /\ Outdated(p)
    /\ call' = call \cup {p}
    /\ UNCHANGED <<svc, reload, daemons, crashes>> /\ LoopRest

\* The call connects, within its second, to whichever daemon listens by then.
DrainArrives(p) ==
    /\ p \in call /\ endpoint # NoFile /\ d[endpoint] \in Listening
    /\ d' = [d EXCEPT ![endpoint] = IF @ = "relay" THEN "draining" ELSE @]
    /\ call' = call \ {p}
    /\ UNCHANGED <<svc, reload, rt, endpoint, saw, cut, crashes>> /\ LoopRest

DrainFails(p) ==
    /\ p \in call
    /\ Fault(endpoint # NoFile /\ d[endpoint] \in Listening)
    /\ call' = call \ {p}
    /\ UNCHANGED <<svc, reload, daemons>> /\ LoopRest

\* The state file cannot be written once the daemon is up.
StateFails(p) ==
    /\ svc[p] = "watch" /\ d[p] \notin Ended
    /\ Fault(TRUE)
    /\ d' = [d EXCEPT ![p] = Terminated(p)]
    /\ Leave(p, FALSE)
    /\ UNCHANGED <<call, rt, endpoint, saw, cut>> /\ LoopRest

Reloads(p) == d[p] = "exited75" /\ mem[p] # desired

\* The child closed: stop, run the new code, or back off and start another daemon.
Closed(p) ==
    /\ svc[p] = "watch" /\ d[p] \in Ended
    /\ d' = [d EXCEPT ![p] = "none"]
    /\ IF p \notin aborted /\ ~Reloads(p)
       THEN Goes(p, "sleep") /\ UNCHANGED reload
       ELSE Leave(p, p \notin aborted)
    /\ UNCHANGED <<call, rt, endpoint, saw, cut, crashes>> /\ LoopRest

Wake(p) ==
    /\ svc[p] = "sleep" /\ Goes(p, "loop")
    /\ UNCHANGED <<reload, call, daemons, crashes>> /\ LoopRest

Abort(p) ==
    /\ Alive(p) /\ p \notin aborted
    /\ aborted' = aborted \cup {p}
    /\ d' = [d EXCEPT ![p] = IF svc[p] = "watch" THEN Terminated(p) ELSE @]
    /\ UNCHANGED <<locking, svc, again, reload, mem, rt, endpoint, saw, cut, call, world, crashes>>

Kill(p) ==
    /\ Alive(p) /\ Fault(TRUE)
    /\ Goes(p, "down") /\ call' = call \ {p}
    /\ UNCHANGED <<reload, daemons>> /\ LoopRest

-----------------------------------------------------------------------------
(* The daemon. *)

DaemonRest == UNCHANGED <<locking, svc, again, reload, mem, aborted, rt, call, world>>
Becomes(p, state) == d' = [d EXCEPT ![p] = state]

AnsweredMutant == FALSE
TakenMutant == TRUE
Answered == d[endpoint] \in Listening

\* A socket file that answers ends the start; one that refuses is stale.
Probe(p) ==
    /\ d[p] = "spawned"
    /\ IF config # "on" THEN Becomes(p, "exited") /\ UNCHANGED saw
       ELSE IF endpoint = NoFile THEN Becomes(p, "listen") /\ UNCHANGED saw
       ELSE IF Answered THEN Becomes(p, "exited") /\ UNCHANGED saw
       ELSE Becomes(p, "probed") /\ saw' = saw \cup {p}
    /\ UNCHANGED <<endpoint, cut, crashes>> /\ DaemonRest

Reprobe(p) ==
    /\ d[p] = "probed"
    /\ Becomes(p, IF endpoint = NoFile THEN "listen" ELSE IF p \in saw THEN "unlink" ELSE "exited")
    /\ UNCHANGED <<endpoint, saw, cut, crashes>> /\ DaemonRest

\* The socket file goes by its name, whoever's it is.
RemoveSocket(p, own) ==
    /\ endpoint' = NoFile /\ saw' = {}
    /\ cut' = cut \cup (IF own THEN {} ELSE {endpoint} \ {NoFile})

UnlinkSocket(p) ==
    /\ d[p] = "unlink"
    /\ Becomes(p, "listen") /\ RemoveSocket(p, p \in saw)
    /\ UNCHANGED crashes /\ DaemonRest

Listen(p) ==
    /\ d[p] = "listen"
    /\ IF endpoint = NoFile
       THEN Becomes(p, "relay") /\ endpoint' = p /\ saw' = {} /\ cut' = cut \ {p}
       ELSE Becomes(p, "exited") /\ UNCHANGED <<endpoint, saw, cut>>
    /\ UNCHANGED crashes /\ DaemonRest

\* The poll of the daemon: a changed configuration, code changed in place, or a drain
\* that was asked for.  A configuration that cannot be read ends the tick.
Poll(p) ==
    /\ config # "broken"
    /\ \/ d[p] = "relay" /\ (config = "off" \/ (rt[p] # desired /\ ~moved))
       \/ d[p] = "draining"
    /\ Becomes(p, "ending")
    /\ UNCHANGED <<endpoint, saw, cut, crashes>> /\ DaemonRest

\* Idle, and its exit was requested, after which the configuration is not read: close
\* the server, which removes the socket file, and exit.
Exit(p) ==
    /\ d[p] = "ending"
    /\ Becomes(p, "exited75") /\ RemoveSocket(p, endpoint = p)
    /\ UNCHANGED crashes /\ DaemonRest

KillDaemon(p) ==
    /\ d[p] \in Starting \cup Listening /\ Fault(TRUE)
    /\ Becomes(p, "exited")
    /\ UNCHANGED <<endpoint, saw, cut>> /\ DaemonRest

-----------------------------------------------------------------------------
Update ==
    /\ desired < MaxUpdates /\ desired' = desired + 1 /\ moved' \in BOOLEAN
    /\ UNCHANGED <<locking, svc, again, reload, mem, aborted, daemons, call, config, edits, crashes>>

Edit ==
    /\ edits < MaxEdits /\ edits' = edits + 1
    /\ config' \in {"on", "off", "broken"} \ {config}
    /\ UNCHANGED <<locking, svc, again, reload, mem, aborted, daemons, call, desired, moved, crashes>>

Init ==
    /\ lock = NoFile /\ whole = FALSE /\ seen = {}
    /\ svc = [p \in Procs |-> "off"]
    /\ again = {} /\ reload = {} /\ aborted = {} /\ call = {} /\ saw = {}
    /\ robbed = {} /\ cut = {}
    /\ mem = [p \in Procs |-> 0] /\ rt = [p \in Procs |-> 0]
    /\ d = [p \in Procs |-> "none"] /\ endpoint = NoFile
    /\ desired = 0 /\ moved = FALSE /\ config = "on" /\ edits = 0 /\ crashes = 0

Service(p) ==
    \/ Create(p) \/ Write(p) \/ Look(p) \/ Recheck(p) \/ Unlink(p) \/ Release(p)
    \/ Loop(p) \/ Closed(p) \/ Wake(p)

Daemon(p) ==
    Probe(p) \/ Reprobe(p) \/ UnlinkSocket(p) \/ Listen(p) \/ Poll(p) \/ Exit(p)

Next ==
    \/ \E p \in Procs :
        \/ Start(p) \/ Service(p) \/ Daemon(p)
        \/ Watch(p) \/ DrainArrives(p) \/ DrainFails(p)
        \/ StateFails(p) \/ Abort(p) \/ Kill(p) \/ KillDaemon(p)
    \/ Update \/ Edit

Spec == Init /\ [][Next]_vars

\* Processes run, timers fire, and a call to a listening endpoint gets through.
Fairness == \A p \in Procs :
    /\ WF_vars(Service(p)) /\ WF_vars(Daemon(p)) /\ WF_vars(Watch(p))
    /\ WF_vars(DrainArrives(p) \/ DrainFails(p))

FairSpec == Spec /\ Fairness

-----------------------------------------------------------------------------
\* A service that works owns the lock file and its content, so that two never work at
\* once, unless another that had judged the lock before it removed this one: unlinkSync
\* goes by name, after a second look that cannot exclude it (robbed).
HolderHasLock == \A p \in Procs : svc[p] \in Holding => (lock = p /\ whole) \/ p \in robbed

\* Two relays never serve one endpoint and one storage, also when a service was killed
\* and its daemon lives on, but for one whose socket file was removed in this way (cut).
OneRelay == Cardinality({p \in Procs \ cut : d[p] \in Listening}) <= 1

\* The same without the exception, which does not hold: two services find the lock of a
\* killed one, and the second to remove it removes the lock of the first.
HolderNotRobbed == \A p \in Procs : svc[p] \in Holding => lock = p /\ whole

\* Every service that works has a relay to offer in the end, whatever it finds at the
\* endpoint, unless the configuration or a signal says otherwise.
Serves == \A p \in Procs :
    svc[p] \in Holding ~>
        \/ \E q \in Procs : d[q] = "relay"
        \/ p \in aborted \/ config # "on" \/ ~Alive(p)

\* After an update, in place or moved, a working service comes to run the installed code
\* with a relay of the installed version, unless the relay of a killed service holds
\* the endpoint.
Converges == \A p \in Procs :
    svc[p] \in Holding /\ mem[p] # desired ~>
        \/ mem[p] = desired /\ d[p] = "relay" /\ rt[p] = desired
        \/ \E q \in Procs \ {p} : ~Alive(q) /\ d[q] \in Listening
        \/ p \in aborted \/ config # "on" \/ ~Alive(p)

\* A relay that was switched off stops, and so does its service.
SwitchedOff ==
    config = "off" ~>
        config # "off" \/ \A p \in Procs : svc[p] \notin Holding /\ d[p] \notin Listening
=============================================================================
