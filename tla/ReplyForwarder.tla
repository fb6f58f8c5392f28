---------------------------- MODULE ReplyForwarder ----------------------------
(***************************************************************************)
(* The forwarding of Claude's replies to Codex tasks, one at a time and at *)
(* a bounded rate: class ReplyForwarder of src/src/reply-forwarder.mjs, as *)
(* src/src/claude-bridge.mjs uses it, through reloads of the worker that   *)
(* holds it.  The worker runs one handler at a time; forwardNext() waits   *)
(* twice, in beforeForward and in deliver, and anything may run meanwhile. *)
(*                                                                         *)
(* "arrived" is what happened at the other side.  Time is one bit: whether *)
(* the minimal interval since the last attempt is still running.           *)
(***************************************************************************)
EXTENDS Naturals, Sequences, SequencesExt

CONSTANTS
    Replies,    \* original message IDs
    None,
    Limit,      \* maxPerSession of each worker: a set, one value per reload
    MaxReloads  \* bound on reloads

ForwarderAssumption ==
    Limit \subseteq Nat \ {0} /\ Limit # {} /\ MaxReloads \in Nat /\ None \notin Replies

VARIABLES
    status,     \* of each reply's receipt; "none" before it is enqueued
    queue, active, timer, attempts, closed, max,    \* the fields
    rested,     \* the interval since the last attempt is over
    step,       \* where forwardNext() waits: "idle", "before", "deliver"
    arrived,    \* how often each reply reached its task
    sent,       \* the replies in the order they were attempted
    came,       \* the replies in the order they were queued
    reloads

fields == <<queue, active, timer, attempts, closed, max>>
vars   == <<status, fields, rested, step, arrived, sent, came, reloads>>

Terminal == {"forwarded", "failed", "unknown", "blocked"}

TypeOK ==
    /\ status \in [Replies -> {"none", "queued", "sending"} \cup Terminal]
    /\ queue \in Seq(Replies) /\ sent \in Seq(Replies) /\ came \in Seq(Replies)
    /\ active \in Replies \cup {None} /\ timer \in {"none", "now", "rested"}
    /\ attempts \in Nat /\ max \in Nat /\ closed \in BOOLEAN /\ rested \in BOOLEAN
    /\ step \in {"idle", "before", "deliver"} /\ arrived \in [Replies -> Nat]
    /\ reloads \in 0..MaxReloads

Mark(f, S, s) == [r \in Replies |-> IF r \in S THEN s ELSE f[r]]

-----------------------------------------------------------------------------

\* When the next attempt may be made.  Operators whose names end in Mutant are
\* wrong versions of the operator that follows them, for the model checker to
\* tell apart.
DelayMutant == "now"
Delay == IF rested THEN "now" ELSE "rested"

\* #scheduleNext(), on the queue, the active entry and the statuses it is
\* called with.
ScheduleNext(q, a, n, st) ==
    LET idle == closed \/ a # None \/ timer # "none" \/ q = <<>>
    IN  IF idle
        THEN queue' = q /\ status' = st /\ timer' = timer
        ELSE IF n >= max
             THEN queue' = <<>> /\ status' = Mark(st, ToSet(q), "blocked") /\ timer' = timer
             ELSE queue' = q /\ status' = st /\ timer' = Delay

SeenMutant(r) == status[r] \notin {"none", "forwarded"}
Seen(r) == status[r] # "none"

Enqueue(r) ==
    /\ ~Seen(r)
    /\ IF closed \/ attempts >= max
       THEN status' = [status EXCEPT ![r] = "blocked"] /\ UNCHANGED <<queue, timer, came>>
       ELSE /\ ScheduleNext(Append(queue, r), active, attempts, [status EXCEPT ![r] = "queued"])
            /\ came' = Append(came, r)
    /\ UNCHANGED <<active, attempts, closed, max, rested, step, arrived, sent, reloads>>

\* The timer: forwardNext() takes the first entry and awaits beforeForward.
Fire ==
    /\ timer = "now" \/ (timer = "rested" /\ rested)
    /\ timer' = "none"
    /\ IF closed \/ active # None \/ queue = <<>> THEN UNCHANGED <<queue, active, step>>
       ELSE active' = Head(queue) /\ queue' = Tail(queue) /\ step' = "before"
    /\ UNCHANGED <<status, attempts, closed, max, rested, arrived, sent, came, reloads>>

\* The finally: nothing is active and the next entry is scheduled.
DoneMutant(st) ==
    /\ active' = None /\ step' = "idle" /\ status' = st
    /\ UNCHANGED <<queue, timer, closed, max, arrived, sent, came, reloads>>

Done(st) ==
    /\ active' = None /\ step' = "idle"
    /\ ScheduleNext(queue, None, attempts, st)
    /\ UNCHANGED <<closed, max, arrived, sent, came, reloads>>

Refused ==
    /\ step = "before"
    /\ Done(IF status[active] = "blocked" THEN status
            ELSE [status EXCEPT ![active] = "failed"])
    /\ UNCHANGED <<attempts, rested>>

\* After the wait: was the forwarder closed in the meantime?
ShutMutant == FALSE
Shut == closed

Blocked ==
    /\ step = "before" /\ Shut
    /\ Done([status EXCEPT ![active] = "blocked"]) /\ UNCHANGED <<attempts, rested>>

Attempt ==
    /\ step = "before" /\ ~Shut
    /\ step' = "deliver" /\ attempts' = attempts + 1 /\ rested' = FALSE
    /\ status' = [status EXCEPT ![active] = "sending"] /\ sent' = Append(sent, active)
    /\ UNCHANGED <<queue, active, timer, closed, max, arrived, came, reloads>>

\* The delivery reaches the task at most once while it is under way.
Arrive ==
    /\ step = "deliver" /\ arrived[active] < Len(SelectSeq(sent, LAMBDA r : r = active))
    /\ arrived' = [arrived EXCEPT ![active] = @ + 1]
    /\ UNCHANGED <<status, fields, rested, step, sent, came, reloads>>

\* An error says that nothing was sent, or leaves it open; an error that
\* says both leaves it open (failureState).
ErrorsMutant == {"failed"}
Errors == IF arrived[active] = 0 THEN {"failed", "unknown"} ELSE {"unknown"}

Delivered ==
    /\ step = "deliver" /\ arrived[active] > 0
    /\ Done([status EXCEPT ![active] = "forwarded"]) /\ UNCHANGED <<attempts, rested>>

Failed ==
    /\ step = "deliver"
    /\ \E s \in Errors : Done([status EXCEPT ![active] = s]) /\ UNCHANGED <<attempts, rested>>

Rest == ~rested /\ rested' = TRUE
        /\ UNCHANGED <<status, fields, step, arrived, sent, came, reloads>>

Close ==
    /\ ~closed /\ closed' = TRUE /\ timer' = "none" /\ queue' = <<>>
    /\ LET waiting == ToSet(queue) \cup {r \in {active} \ {None} : status[r] = "queued"}
       IN  status' = Mark(status, waiting, "blocked")
    /\ UNCHANGED <<active, attempts, max, rested, step, arrived, sent, came, reloads>>

\* A reload: the next worker goes on with the receipts, the count, the time
\* of the last attempt and the smaller limit.
ReloadReason ==
    \/ active # None \/ queue # <<>> \/ timer # "none"
    \/ \E r \in Replies : status[r] \in {"queued", "sending", "unknown"}

Keep(l) == max' = IF l < max THEN l ELSE max

Reload ==
    /\ ~ReloadReason /\ reloads < MaxReloads
    /\ reloads' = reloads + 1
    /\ \E l \in Limit : Keep(l)
    /\ UNCHANGED <<status, queue, active, timer, attempts, closed, rested, step, arrived, sent, came>>

Init ==
    /\ status = [r \in Replies |-> "none"] /\ queue = <<>> /\ active = None /\ timer = "none"
    /\ attempts = 0 /\ closed = FALSE /\ max \in Limit /\ rested = TRUE /\ step = "idle"
    /\ arrived = [r \in Replies |-> 0] /\ sent = <<>> /\ came = <<>> /\ reloads = 0

Forward == Refused \/ Blocked \/ Attempt \/ Delivered \/ Failed

Next ==
    \/ \E r \in Replies : Enqueue(r)
    \/ Fire \/ Forward \/ Arrive \/ Rest \/ Close \/ Reload

Spec == Init /\ [][Next]_vars

\* Timers fire, and what is awaited ends: delivery has a deadline of its own.
FairSpec == Spec /\ WF_vars(Fire) /\ WF_vars(Forward) /\ WF_vars(Rest)

-----------------------------------------------------------------------------
(* Properties *)

\* A reply is attempted once at most, in the order the replies came, however
\* often it is handed in again and across reloads.
OnceInOrder ==
    /\ \A i, j \in DOMAIN sent : sent[i] = sent[j] => i = j
    /\ \A i, j \in DOMAIN sent : i < j =>
         \E k, l \in DOMAIN came : k < l /\ came[k] = sent[i] /\ came[l] = sent[j]

\* A reply whose receipt says it was not sent, or blocked, did not arrive.
NotSentIsTrue ==
    \A r \in Replies : status[r] \in {"queued", "failed", "blocked"} => arrived[r] = 0

\* No more attempts than the limit the user set, and none before the interval
\* is over, across reloads that change the limit.
Throttled ==
    [][ Len(sent') > Len(sent) => rested /\ Len(sent') <= max ]_vars

\* Nothing is attempted after the forwarder was closed (close(), lines
\* 151-162), even if forwardNext() was waiting.
ClosedIsClosed == [][ closed => sent' = sent ]_vars

\* Every queued reply comes to an end.
Ends == \A r \in Replies : status[r] \in {"queued", "sending"} ~> status[r] \in Terminal

=============================================================================
