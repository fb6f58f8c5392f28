------------------------------ MODULE Snapshots ------------------------------
(***************************************************************************)
(* The cache of runtime snapshots, src/src/release-snapshot.mjs.  A user   *)
(* is one call of createReleaseSnapshot() with a lease and the worker that *)
(* runs from the result; a pruner is one process that calls                *)
(* pruneReleaseSnapshots() again and again.  All are processes of their    *)
(* own and share nothing but files: a snapshot directory for each key, a   *)
(* lease file for each user, temporaries, and the prune lock.              *)
(*                                                                         *)
(* What is in a snapshot, the copying and the digests are left out: a      *)
(* snapshot is verified if it is there when its files are read.  Time is   *)
(* two actions: an hour (which is longer than the age at which a lease, a  *)
(* temporary and the prune stamp are stale) and the day after which a      *)
(* snapshot counts as unused.                                              *)
(***************************************************************************)
EXTENDS Naturals, FiniteSets

CONSTANTS
    Users, Pruners,
    Keys,           \* contents a snapshot may have
    None,
    Retain,         \* snapshots kept however old they are
    Slow,           \* a pass of a pruner may take hours (a machine that sleeps)
    MaxDead         \* bound on users and pruners that are killed

SnapshotAssumption ==
    /\ Users \cap Pruners = {} /\ None \notin Users \cup Pruners \cup Keys
    /\ Retain \in Nat /\ MaxDead \in [{"user", "pruner"} -> Nat] /\ Slow \in BOOLEAN

VARIABLES
    dir,        \* keys whose snapshot directory is in place
    used,       \* keys whose directory was touched in the last day
    at, key, tries,     \* of each user: where it is, its snapshot, failed looks
    lease,      \* users whose lease file is there
    temp,       \* users whose temporary directory is there
    orphan,     \* killed users whose worker still runs
    recent,     \* processes that were alive in the last hour
    pr,         \* where each pruner is
    todo,       \* keys the pruner means to remove
    now,        \* the key it works on
    retired,    \* pruner -> the key whose directory it has moved away
    lock,       \* the pruner that wrote the prune lock
    seen,       \* pruners that looked at this lock and found it stale
    had,        \* pruner -> owner and viewers of a lock it has moved away
    stamp,      \* a pass began in the last hour
    dead        \* how many users and pruners were killed

cache  == <<dir, used>>
users  == <<at, key, tries, lease, temp, orphan>>
locks  == <<lock, seen, had>>
passes == <<pr, todo, now, retired>>
vars   == <<cache, users, recent, passes, locks, stamp, dead>>

NoLock == [owner |-> None, seen |-> {}]

TypeOK ==
    /\ {dir, used} \subseteq SUBSET Keys
    /\ at \in [Users -> {"off", "leased", "found", "verified", "preparing", "taken", "using",
                         "ended", "dead"}]
    /\ key \in [Users -> Keys \cup {None}] /\ tries \in [Users -> 0..2]
    /\ {lease, temp, orphan} \subseteq SUBSET Users /\ recent \subseteq Users \cup Pruners
    /\ pr \in [Pruners -> {"off", "lock", "relock", "move", "compare", "list", "processes", "next", "check",
                           "rename", "again", "unlock", "dead"}]
    /\ todo \in [Pruners -> SUBSET Keys] /\ {now, retired} \subseteq [Pruners -> Keys \cup {None}]
    /\ lock \in Pruners \cup {None} /\ seen \subseteq Pruners /\ stamp \in BOOLEAN
    /\ had \in [Pruners -> [owner : Pruners \cup {None}, seen : SUBSET Pruners]]

Alive == {u \in Users : at[u] \notin {"off", "dead"}} \cup {p \in Pruners : pr[p] # "dead"}
(* Operators whose names end in Mutant are wrong versions of the operator   *)
(* that follows them, for the model checker to tell apart.                 *)
StaleMutant(x) == FALSE
Stale(x) == x \notin Alive \cup recent
Leased(k) == \E u \in lease : key[u] = k /\ ~Stale(u)
Touched(k) == used \cup ({k} \cap dir)

-----------------------------------------------------------------------------
(* createReleaseSnapshot(), with a lease *)

UserRest == UNCHANGED <<passes, locks, stamp, dead>>
To(u, step) == at' = [at EXCEPT ![u] = step]

\* The lease is written before the directory is looked at.
Lease(u) ==
    /\ at[u] = "off"
    /\ \E k \in Keys : key' = [key EXCEPT ![u] = k]
    /\ To(u, "leased") /\ lease' = lease \cup {u} /\ recent' = recent \cup {u}
    /\ UNCHANGED <<cache, tries, temp, orphan>> /\ UserRest

Look(u) ==
    /\ at[u] = "leased" /\ key[u] \in dir
    /\ To(u, "found")
    /\ UNCHANGED <<cache, key, tries, lease, temp, orphan, recent>> /\ UserRest

\* An error: the temporary and the lease are removed.
Failed(u) ==
    /\ To(u, "ended") /\ lease' = lease \ {u} /\ temp' = temp \ {u} /\ used' = Touched(key[u])
    /\ UNCHANGED <<dir, key, orphan, recent>> /\ UserRest

Validate(u) ==
    /\ at[u] = "found" /\ key[u] \in dir
    /\ To(u, "verified")
    /\ UNCHANGED <<cache, key, tries, lease, temp, orphan, recent>> /\ UserRest

\* The directory was moved away under the reader: look again, twice at most.
Vanished(u) ==
    /\ at[u] = "found" /\ key[u] \notin dir
    /\ IF tries[u] < 2
       THEN /\ To(u, "leased") /\ tries' = [tries EXCEPT ![u] = @ + 1]
            /\ UNCHANGED <<cache, key, lease, temp, orphan, recent>> /\ UserRest
       ELSE Failed(u) /\ UNCHANGED tries

Prepare(u) ==
    /\ at[u] = "leased" /\ key[u] \notin dir
    /\ To(u, "preparing") /\ temp' = temp \cup {u}
    /\ UNCHANGED <<cache, key, tries, lease, orphan, recent>> /\ UserRest

\* The installation changed, or a file could not be copied.
Unprepared(u) == at[u] \in {"found", "preparing"} /\ Failed(u) /\ UNCHANGED tries

Place(u) ==
    /\ at[u] = "preparing" /\ key[u] \notin dir
    /\ dir' = dir \cup {key[u]} /\ used' = used \cup {key[u]}
    /\ temp' = temp \ {u} /\ To(u, "verified")
    /\ UNCHANGED <<key, tries, lease, orphan, recent>> /\ UserRest

\* Another process was first: its snapshot is verified and used.
Occupied(u) ==
    /\ at[u] = "preparing" /\ key[u] \in dir
    /\ To(u, "taken")
    /\ UNCHANGED <<cache, key, tries, lease, temp, orphan, recent>> /\ UserRest

Yield(u) ==
    /\ at[u] = "taken"
    /\ IF key[u] \in dir
       THEN /\ To(u, "verified") /\ temp' = temp \ {u}
            /\ UNCHANGED <<cache, key, lease, orphan, recent>> /\ UserRest
       ELSE Failed(u)
    /\ UNCHANGED tries

Finish(u) ==
    /\ at[u] = "verified"
    /\ To(u, "using") /\ used' = Touched(key[u])
    /\ UNCHANGED <<dir, key, tries, lease, temp, orphan, recent>> /\ UserRest

Release(u) ==
    /\ at[u] = "using"
    /\ To(u, "ended") /\ lease' = lease \ {u} /\ used' = Touched(key[u])
    /\ UNCHANGED <<dir, key, tries, temp, orphan, recent>> /\ UserRest

\* The process that holds the lease is killed; its worker may outlive it.
Kill(u) ==
    /\ at[u] \notin {"off", "ended", "dead"} /\ dead["user"] < MaxDead["user"]
    /\ dead' = [dead EXCEPT !["user"] = @ + 1]
    /\ To(u, "dead")
    /\ orphan' = IF at[u] = "using" THEN orphan \cup {u} ELSE orphan
    /\ UNCHANGED <<cache, key, tries, lease, temp, recent, passes, locks, stamp>>

OrphanEnds(u) ==
    /\ u \in orphan /\ orphan' = orphan \ {u}
    /\ UNCHANGED <<cache, at, key, tries, lease, temp, recent>> /\ UserRest

-----------------------------------------------------------------------------
(* The prune lock *)

Pass(p, step) == pr' = [pr EXCEPT ![p] = step]
LockRest == UNCHANGED <<cache, users, recent, todo, now, retired, stamp, dead>>

Begin(p) == pr[p] = "off" /\ Pass(p, "lock") /\ UNCHANGED locks /\ LockRest

Take(p) ==
    /\ pr[p] \in {"lock", "relock"} /\ lock = None
    /\ lock' = p /\ seen' = {} /\ Pass(p, "list") /\ UNCHANGED had /\ LockRest

\* A lock is stale when its owner is gone, or after ten minutes.
FindStale(p) ==
    /\ pr[p] = "lock" /\ lock # None
    /\ lock \notin Alive \/ Slow
    /\ seen' = seen \cup {p} /\ Pass(p, "move") /\ UNCHANGED <<lock, had>> /\ LockRest

GiveUp(p) ==
    /\ \/ pr[p] = "lock" /\ lock \in Alive
       \/ pr[p] = "relock" /\ lock # None
       \/ pr[p] = "move" /\ lock = None
    /\ Pass(p, "off") /\ UNCHANGED locks /\ LockRest

Move(p) ==
    /\ pr[p] = "move" /\ lock # None
    /\ had' = [had EXCEPT ![p] = [owner |-> lock, seen |-> seen]]
    /\ lock' = None /\ seen' = {} /\ Pass(p, "compare") /\ LockRest

\* Was the lock that was moved the one that was looked at?
SameMutant(p) == TRUE
Same(p) == p \in had[p].seen

Compare(p) ==
    /\ pr[p] = "compare"
    /\ had' = [had EXCEPT ![p] = NoLock]
    /\ IF Same(p) THEN Pass(p, "relock") /\ UNCHANGED <<lock, seen>>
       ELSE /\ Pass(p, "off")
            /\ IF lock = None THEN lock' = had[p].owner /\ seen' = had[p].seen
               ELSE UNCHANGED <<lock, seen>>
    /\ LockRest

Unlock(p) ==
    /\ pr[p] = "unlock"
    /\ IF lock = p THEN lock' = None /\ seen' = {} ELSE UNCHANGED <<lock, seen>>
    /\ Pass(p, "off") /\ UNCHANGED had /\ LockRest

-----------------------------------------------------------------------------
(* pruneReleaseSnapshots() *)

PassRest == UNCHANGED <<users, recent, locks, stamp, dead>>

\* The snapshots unused for a day, beyond the Retain used last, that have no
\* live lease.  The lease of a dead process still counts as use.
Candidates ==
    { C \in SUBSET (dir \ used) :
        \E newest \in SUBSET dir, spared \in SUBSET {key[u] : u \in lease} :
            /\ Cardinality(newest) = IF Retain < Cardinality(dir) THEN Retain ELSE Cardinality(dir)
            /\ newest \cap (dir \ used) # {} => used \cap dir \subseteq newest
            /\ C = {k \in dir \ (used \cup newest \cup spared) : ~Leased(k)} }

TooSoon(p) ==
    /\ pr[p] = "list" /\ stamp
    /\ Pass(p, "unlock") /\ UNCHANGED <<cache, todo, now, retired>> /\ PassRest

\* Stale leases and temporaries go, and the candidates are chosen.
List(p) ==
    /\ pr[p] = "list" /\ ~stamp
    /\ stamp' = TRUE
    /\ \E C \in Candidates :
         /\ todo' = [todo EXCEPT ![p] = C]
         /\ Pass(p, IF C = {} THEN "unlock" ELSE "processes")
    /\ lease' = {u \in lease : ~Stale(u)}
    /\ temp' = {u \in temp : ~Stale(u)}
    /\ retired' = [q \in Pruners |-> IF Stale(q) THEN None ELSE retired[q]]
    /\ UNCHANGED <<cache, at, key, tries, orphan, recent, now, locks, dead>>

\* A runtime that a running process was started from is left alone.
Running == {key[u] : u \in {v \in Users : at[v] = "using"} \cup orphan}

Processes(p) ==
    /\ pr[p] = "processes"
    /\ todo' = [todo EXCEPT ![p] = @ \ Running] /\ Pass(p, "next")
    /\ UNCHANGED <<cache, now, retired>> /\ PassRest

Unlisted(p) ==
    /\ pr[p] = "processes"
    /\ todo' = [todo EXCEPT ![p] = {}] /\ Pass(p, "unlock")
    /\ UNCHANGED <<cache, now, retired>> /\ PassRest

NextKey(p) ==
    /\ pr[p] = "next"
    /\ IF todo[p] = {} THEN Pass(p, "unlock") /\ UNCHANGED <<todo, now>>
       ELSE \E k \in todo[p] : /\ now' = [now EXCEPT ![p] = k] /\ Pass(p, "check")
                               /\ todo' = [todo EXCEPT ![p] = @ \ {k}]
    /\ UNCHANGED <<cache, retired>> /\ PassRest

\* retireSnapshot(): is it still unused and without a lease?
Spared(k) == k \notin dir \/ k \in used \/ Leased(k)

Check(p) ==
    /\ pr[p] = "check"
    /\ Pass(p, IF Spared(now[p]) THEN "next" ELSE "rename")
    /\ UNCHANGED <<cache, todo, now, retired>> /\ PassRest

Retire(p) ==
    /\ pr[p] = "rename"
    /\ IF now[p] \in dir
       THEN /\ dir' = dir \ {now[p]} /\ retired' = [retired EXCEPT ![p] = now[p]]
            /\ Pass(p, "again")
       ELSE Pass(p, "next") /\ UNCHANGED <<dir, retired>>
    /\ UNCHANGED <<used, todo, now>> /\ PassRest

\* Leased after all: move it back, unless another is in its place; else delete it.
AgainMutant(p) ==
    /\ pr[p] = "again"
    /\ retired' = [retired EXCEPT ![p] = None]
    /\ Pass(p, "next") /\ UNCHANGED <<cache, todo, now>> /\ PassRest

Again(p) ==
    /\ pr[p] = "again"
    /\ dir' = IF Leased(now[p]) THEN dir \cup {now[p]} ELSE dir
    /\ retired' = [retired EXCEPT ![p] = None]
    /\ Pass(p, "next") /\ UNCHANGED <<used, todo, now>> /\ PassRest

KillPruner(p) ==
    /\ pr[p] # "dead" /\ dead["pruner"] < MaxDead["pruner"]
    /\ dead' = [dead EXCEPT !["pruner"] = @ + 1]
    /\ Pass(p, "dead") /\ UNCHANGED <<cache, users, recent, todo, now, retired, locks, stamp>>

-----------------------------------------------------------------------------
(* Time *)

Busy == \E p \in Pruners : pr[p] \in {"processes", "next", "check", "rename", "again"}

Hour ==
    /\ Slow \/ ~Busy
    /\ stamp \/ recent # Alive
    /\ recent' = Alive /\ stamp' = FALSE
    /\ UNCHANGED <<cache, users, passes, locks, dead>>

Day(k) ==
    /\ Slow \/ ~Busy
    /\ k \in used /\ used' = used \ {k}
    /\ UNCHANGED <<dir, users, recent, passes, locks, stamp, dead>>

Init ==
    /\ dir = Keys /\ used = {}
    /\ at = [u \in Users |-> "off"] /\ key = [u \in Users |-> None] /\ tries = [u \in Users |-> 0]
    /\ lease = {} /\ temp = {} /\ orphan = {} /\ recent = {}
    /\ pr = [p \in Pruners |-> "off"] /\ todo = [p \in Pruners |-> {}]
    /\ now = [p \in Pruners |-> None] /\ retired = [p \in Pruners |-> None]
    /\ lock = None /\ seen = {} /\ had = [p \in Pruners |-> NoLock]
    /\ stamp = FALSE /\ dead = [who \in {"user", "pruner"} |-> 0]

UserStep(u) ==
    Look(u) \/ Validate(u) \/ Vanished(u) \/ Prepare(u) \/ Place(u) \/ Occupied(u) \/ Yield(u)
        \/ Finish(u)
PassStep(p) ==
    \/ Take(p) \/ FindStale(p) \/ GiveUp(p) \/ Move(p) \/ Compare(p) \/ Unlock(p) \/ TooSoon(p)
    \/ List(p) \/ Processes(p) \/ NextKey(p) \/ Check(p) \/ Retire(p) \/ Again(p)

Next ==
    \/ \E u \in Users : \/ UserStep(u) \/ Lease(u) \/ Unprepared(u) \/ Release(u) \/ Kill(u)
                        \/ OrphanEnds(u)
    \/ \E p \in Pruners : PassStep(p) \/ Begin(p) \/ Unlisted(p) \/ KillPruner(p)
    \/ Hour \/ \E k \in Keys : Day(k)

Spec == Init /\ [][Next]_vars

\* Processes go on, supervisors are started and prune, the listing of the
\* processes does not fail for ever, and time passes.
FairSpec ==
    /\ Spec /\ WF_vars(Hour) /\ \A k \in Keys : WF_vars(Day(k))
    /\ \A u \in Users : WF_vars(UserStep(u)) /\ WF_vars(OrphanEnds(u))
    /\ \A p \in Pruners : /\ WF_vars(PassStep(p)) /\ WF_vars(Begin(p))
                          /\ SF_vars(Processes(p)) /\ SF_vars(Take(p)) /\ SF_vars(List(p))

-----------------------------------------------------------------------------
(* Properties *)

\* The runtime a worker was started from is in place, or a pruner that has
\* moved it away is about to look at the leases again and to put it back
\* (retireSnapshot, lines 460-463).
UsedIsKept ==
    \A k \in Running :
        k \in dir \/ \E p \in Pruners : pr[p] = "again" /\ retired[p] = k /\ Leased(k)

\* Two pruners are never at work at once: a lock that was replaced after it
\* was found stale is not taken over (takeOverStalePruneLock).
OnePruner ==
    Cardinality({p \in Pruners : pr[p] \in {"list", "processes", "next", "check", "rename",
                                            "again"}}) <= 1

\* Once no process uses a snapshot any more, what killed processes left
\* behind goes away and no more than Retain snapshots stay, although pruners
\* are killed as well, the lock of one of them included.
Reclaimed ==
    <>[](Running = {} /\ \A u \in Users : at[u] \in {"off", "ended", "dead"})
        => <>[](lease = {} /\ temp = {} /\ Cardinality(dir) <= Retain)

=============================================================================
