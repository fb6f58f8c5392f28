----------------------------- MODULE SiteConnector -----------------------------
(***************************************************************************)
(* The hosted queue and the connector that works it off on the user's      *)
(* computer: class Queue of src/sites/codex-bridge/worker/index.mjs and    *)
(* SitesConnector with its journal in src/src/sites-connector.mjs.         *)
(*                                                                         *)
(* The connector polls for a job, journals it, asks Codex Desktop to do it *)
(* and uploads what came of it.  It may die at any point, any request to   *)
(* the site or its answer may be lost, the user may disconnect the         *)
(* computer, and the two sides read a job's deadline from clocks of their  *)
(* own.  Jobs are mutations: a prompt or a new task, under a request ID.   *)
(*                                                                         *)
(* Operators whose names end in Mutant are wrong versions of the operator  *)
(* that follows them, for the model checker to tell apart.                 *)
(***************************************************************************)
EXTENDS Naturals, FiniteSets

CONSTANTS
    Jobs,       \* rows of the queue
    Key(_),     \* the journal's name for a job: request IDs without their case
    Procs,      \* connector processes on one journal
    None,
    MaxCrashes, MaxFaults   \* bounds

SiteAssumption == None \notin Jobs /\ {MaxCrashes, MaxFaults} \subseteq Nat

VARIABLES
    pairing,            \* pending, active, revoked
    row, stored,        \* of each job at the site: its status and its result
    old, late,          \* its deadline has passed: at the site, at the connector
    file,               \* the journal
    pc, job, out, todo, \* of each process: where it is, its job, the outcome it
                        \* holds, the entries it still has to recover
    sent,               \* how often each job was dispatched
    crashes, faults

site    == <<pairing, row, stored, old>>
process == <<pc, job, out, todo>>
vars    == <<site, late, file, process, sent, crashes, faults>>

\* journal.key()
NameMutant(j) == j
Name(j) == Key(j)
Keys == {Name(j) : j \in Jobs}
Outcomes == {"done", "uncertain", "blocked"}

NoFile == [state |-> "none", job |-> None, result |-> "none", uploaded |-> FALSE]
Started(j) == [state |-> "started", job |-> j, result |-> "none", uploaded |-> FALSE]
Finished(j, r) == [state |-> "finished", job |-> j, result |-> r, uploaded |-> FALSE]

At(p, l) == pc[p] = l
Goto(p, l) == pc' = [pc EXCEPT ![p] = l]
Hold(p, j, r) == job' = [job EXCEPT ![p] = j] /\ out' = [out EXCEPT ![p] = r]
\* step() ends, with a result or an error; run() takes the next one.
Rest(p) == Goto(p, "idle") /\ Hold(p, None, "none") /\ todo' = [todo EXCEPT ![p] = {}]

-----------------------------------------------------------------------------
(* The site *)

Pair ==
    /\ pairing = "pending" /\ pairing' = "active"
    /\ UNCHANGED <<row, stored, old, late, file, process, sent, crashes, faults>>

\* The pairing is looked at before the row is inserted and may have ended since.
Enqueue(j) ==
    /\ row[j] = "none" /\ pairing # "pending" /\ row' = [row EXCEPT ![j] = "queued"]
    /\ UNCHANGED <<pairing, stored, old, late, file, process, sent, crashes, faults>>

Disconnect ==
    /\ pairing = "active" /\ pairing' = "revoked"
    /\ row' = [j \in Jobs |-> CASE row[j] = "queued" -> "revoked" [] row[j] = "claimed" -> "uncertain"
                                [] OTHER -> row[j]]
    /\ UNCHANGED <<stored, old, late, file, process, sent, crashes, faults>>

Expire(j) ==
    /\ row[j] # "none"
    /\ \/ ~old[j] /\ old' = [old EXCEPT ![j] = TRUE] /\ late' = late
       \/ ~late[j] /\ late' = [late EXCEPT ![j] = TRUE] /\ old' = old
    /\ UNCHANGED <<pairing, row, stored, file, process, sent, crashes, faults>>

\* Queue.complete(): a result is taken once, and the same one again.
TakesMutant(j, r) == row[j] = "claimed"
Takes(j, r) == row[j] = "claimed" \/ (row[j] = "completed" /\ stored[j] = r)

\* What the owner reads with read_codex_request.
Told(j) ==
    IF row[j] = "queued" /\ old[j] THEN "not_dispatched"
    ELSE IF row[j] = "revoked" \/ stored[j] = "blocked" THEN "not_dispatched"
    ELSE IF row[j] = "claimed" /\ old[j] THEN "uncertain"
    ELSE IF row[j] = "completed" THEN stored[j] ELSE row[j]

-----------------------------------------------------------------------------
(* A request to the site: its effect, then ok; or it is refused, or lost    *)
(* before or after its effect.                                             *)

Lost == faults < MaxFaults /\ faults' = faults + 1
Arrived == faults' = faults

\* POST /agent/result
Post(p, j, r, ok) ==
    \/ /\ pairing = "active" /\ Takes(j, r)
       /\ row' = [row EXCEPT ![j] = "completed"] /\ stored' = [stored EXCEPT ![j] = r]
       /\ ((Arrived /\ ok) \/ (Lost /\ Rest(p)))
    \/ /\ (Lost \/ (Arrived /\ ~(pairing = "active" /\ Takes(j, r))))
       /\ Rest(p) /\ UNCHANGED <<row, stored>>

\* POST /agent/heartbeat
Beat(p, ok, failed) == (pairing = "active" /\ Arrived /\ ok) \/ (pairing # "active" /\ Arrived /\ failed) \/ (Lost /\ failed)

-----------------------------------------------------------------------------
(* The connector *)

Begin(p) ==
    /\ At(p, "down") /\ Rest(p)
    /\ UNCHANGED <<site, late, file, sent, crashes, faults>>

Crash(p) ==
    /\ ~At(p, "down") /\ crashes < MaxCrashes /\ crashes' = crashes + 1
    /\ Goto(p, "down") /\ Hold(p, None, "none") /\ todo' = [todo EXCEPT ![p] = {}]
    /\ UNCHANGED <<site, late, file, sent, faults>>

\* journal.pending(): a file that was left half written makes every step fail.
List(p) ==
    /\ At(p, "idle") /\ \A k \in Keys : file[k].state # "torn"
    /\ todo' = [todo EXCEPT ![p] = {file[k] : k \in {k \in Keys : file[k].state # "none" /\ ~file[k].uploaded}}]
    /\ Goto(p, "recover") /\ UNCHANGED <<job, out>>
    /\ UNCHANGED <<site, late, file, sent, crashes, faults>>

\* recover(): what was begun is given up as uncertain, never done again.
RedoMutant(e) == "done"
GivenUp(e) == IF e.state = "started" THEN "uncertain" ELSE e.result

Recover(p) ==
    /\ At(p, "recover") /\ \E e \in todo[p] :
          /\ file' = IF e.state = "started" THEN [file EXCEPT ![Name(e.job)] = Finished(e.job, GivenUp(e))] ELSE file
          /\ Hold(p, e.job, GivenUp(e)) /\ todo' = [todo EXCEPT ![p] = @ \ {e}]
          /\ Goto(p, "alive")
    /\ UNCHANGED <<site, late, sent, crashes, faults>>

Alive(p) ==
    /\ At(p, "alive")
    /\ Beat(p, Goto(p, "upload") /\ UNCHANGED <<job, out, todo>>, Rest(p))
    /\ UNCHANGED <<site, late, file, sent, crashes>>

\* Queue.poll(): the job is claimed with the answer, which may be lost.
Claims(j) == row[j] = "queued" /\ ~old[j]

Poll(p) ==
    /\ At(p, "recover") /\ todo[p] = {}
    /\ IF pairing = "active" /\ \E j \in Jobs : Claims(j)
       THEN \E j \in Jobs :
              /\ Claims(j) /\ row' = [row EXCEPT ![j] = "claimed"]
              /\ \/ Arrived /\ Goto(p, "begin") /\ Hold(p, j, "none") /\ todo' = todo
                 \/ Lost /\ Rest(p)
       ELSE Rest(p) /\ Arrived /\ row' = row
    /\ UNCHANGED <<pairing, stored, old, late, file, sent, crashes>>

\* Before the journal: a job that is too late, or whose request ID is another's.
Refuse(p) ==
    LET j == job[p] IN
    /\ At(p, "begin") /\ (late[j] \/ (file[Name(j)].state # "none" /\ file[Name(j)].job # j))
    /\ Post(p, j, "blocked", Rest(p))
    /\ UNCHANGED <<pairing, old, late, file, sent, crashes>>

\* journal.begin() creates the entry; one that exists is not run again.
Fresh(j) == file[Name(j)].state = "none"

Journal(p) ==
    LET j == job[p] IN
    /\ At(p, "begin") /\ (file[Name(j)].state = "none" \/ file[Name(j)].job = j)
    /\ file' = IF Fresh(j) THEN [file EXCEPT ![Name(j)] = Started(j)] ELSE file
    /\ out' = [out EXCEPT ![p] = IF Fresh(j) THEN "none" ELSE "uncertain"]
    /\ Goto(p, "check") /\ UNCHANGED <<job, todo>>
    /\ UNCHANGED <<site, late, sent, crashes, faults>>

\* The process dies between the creation of the entry and its contents.
Tear(p) ==
    /\ At(p, "begin") /\ Fresh(job[p]) /\ crashes < MaxCrashes /\ crashes' = crashes + 1
    /\ file' = [file EXCEPT ![Name(job[p])] = [NoFile EXCEPT !.state = "torn"]]
    /\ Goto(p, "down") /\ Hold(p, None, "none") /\ UNCHANGED todo
    /\ UNCHANGED <<site, late, sent, faults>>

\* withHeartbeat(): the pairing is verified before anything is done.
Check(p) ==
    /\ At(p, "check")
    /\ Beat(p, Goto(p, IF out[p] = "none" THEN "run" ELSE "save") /\ UNCHANGED <<job, out, todo>>, Rest(p))
    /\ UNCHANGED <<site, late, file, sent, crashes>>

\* execute(): whatever fails, the outcome of a mutation is uncertain.
Fail(p) ==
    /\ pc[p] \in {"run", "verified", "sent"}
    /\ out' = [out EXCEPT ![p] = "uncertain"] /\ Goto(p, "save") /\ UNCHANGED <<job, todo>>
    /\ UNCHANGED <<site, late, file, sent, crashes, faults>>

\* beforeDispatch(): the pairing is verified once more.
Verify(p) ==
    /\ At(p, "run") /\ ~late[job[p]]
    /\ Beat(p, Goto(p, "verified") /\ UNCHANGED out, Goto(p, "save") /\ out' = [out EXCEPT ![p] = "uncertain"])
    /\ UNCHANGED <<job, todo, site, late, file, sent, crashes>>

Dispatch(p) ==
    /\ At(p, "verified") /\ ~late[job[p]]
    /\ sent' = [sent EXCEPT ![job[p]] = @ + 1] /\ Goto(p, "sent")
    /\ UNCHANGED <<job, out, todo, site, late, file, crashes, faults>>

Return(p) ==
    /\ At(p, "sent") /\ out' = [out EXCEPT ![p] = "done"] /\ Goto(p, "save") /\ UNCHANGED <<job, todo>>
    /\ UNCHANGED <<site, late, file, sent, crashes, faults>>

Save(p) ==
    /\ At(p, "save") /\ file' = [file EXCEPT ![Name(job[p])] = Finished(job[p], out[p])]
    /\ Goto(p, "upload") /\ UNCHANGED <<job, out, todo>>
    /\ UNCHANGED <<site, late, sent, crashes, faults>>

UploadMutant(p) ==
    /\ At(p, "upload") /\ Goto(p, "mark") /\ UNCHANGED <<job, out, todo>>
    /\ UNCHANGED <<site, late, file, sent, crashes, faults>>

Upload(p) ==
    /\ At(p, "upload")
    /\ Post(p, job[p], out[p], Goto(p, "mark") /\ UNCHANGED <<job, out, todo>>)
    /\ UNCHANGED <<pairing, old, late, file, sent, crashes>>

Mark(p) ==
    /\ At(p, "mark") /\ file' = [file EXCEPT ![Name(job[p])] = [Finished(job[p], out[p]) EXCEPT !.uploaded = TRUE]]
    /\ Goto(p, "recover") /\ Hold(p, None, "none") /\ UNCHANGED todo
    /\ UNCHANGED <<site, late, sent, crashes, faults>>

-----------------------------------------------------------------------------

Init ==
    /\ pairing = "pending" /\ row = [j \in Jobs |-> "none"] /\ stored = [j \in Jobs |-> "none"]
    /\ old = [j \in Jobs |-> FALSE] /\ late = old /\ file = [k \in Keys |-> NoFile]
    /\ pc = [p \in Procs |-> "down"] /\ job = [p \in Procs |-> None] /\ out = [p \in Procs |-> "none"]
    /\ todo = [p \in Procs |-> {}] /\ sent = [j \in Jobs |-> 0] /\ crashes = 0 /\ faults = 0

Working(p) ==
    \/ Begin(p) \/ List(p) \/ Recover(p) \/ Alive(p) \/ Poll(p) \/ Refuse(p) \/ Journal(p)
    \/ Check(p) \/ Verify(p) \/ Dispatch(p) \/ Return(p) \/ Fail(p) \/ Save(p) \/ Upload(p) \/ Mark(p)

Next ==
    \/ Pair \/ Disconnect
    \/ \E j \in Jobs : Enqueue(j) \/ Expire(j)
    \/ \E p \in Procs : Working(p) \/ Crash(p) \/ Tear(p)

Spec == Init /\ [][Next]_vars

\* run() takes one step after the other, and a person starts the connector again.
FairSpec == Spec /\ \A p \in Procs : WF_vars(Working(p))

-----------------------------------------------------------------------------

TypeOK ==
    /\ pairing \in {"pending", "active", "revoked"}
    /\ \A j \in Jobs : row[j] \in {"none", "queued", "claimed", "completed", "revoked", "uncertain"}
    /\ \A p \in Procs : job[p] \in Jobs \cup {None} /\ out[p] \in Outcomes \cup {"none"}

\* A request is dispatched to Codex Desktop at most once, whatever is lost and
\* however often the connector is restarted: also under two spellings of its ID.
AtMostOnce ==
    /\ \A j \in Jobs : sent[j] <= 1
    /\ \A j, k \in Jobs : Key(j) = Key(k) /\ sent[j] > 0 /\ sent[k] > 0 => j = k

\* What the owner is told of a request is so: one called not dispatched, expired
\* or blocked was not dispatched and never will be, one called done was.
TellsTheTruth ==
    \A j \in Jobs : /\ (Told(j) = "not_dispatched" => sent[j] = 0)
                    /\ (Told(j) = "done" => sent[j] = 1)

\* An entry the journal calls uploaded is one whose result the site holds: nothing
\* is dropped from the list of what is left to upload before that.
UploadedIsStored ==
    \A k \in Keys : file[k].uploaded =>
        row[file[k].job] = "completed" /\ stored[file[k].job] = file[k].result

\* recover() tells of an entry that the connector stopped after claiming it: no
\* process is still at work on the request.
StoppedIsTrue ==
    [][\A p \in Procs : At(p, "recover") /\ pc'[p] = "alive" =>
          \A q \in Procs \ {p} : ~(job[q] = job'[p] /\ pc[q] \in {"run", "verified", "sent"})]_vars

\* What was claimed and journalled is uploaded in the end, unless the computer is
\* disconnected, or a crash has left an entry that cannot be read.
Uploaded ==
    \A k \in Keys : file[k].state \in {"started", "finished"} ~>
        \/ file[k].uploaded \/ pairing = "revoked" \/ \E l \in Keys : file[l].state = "torn"

=============================================================================
