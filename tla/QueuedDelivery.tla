---------------------------- MODULE QueuedDelivery ----------------------------
(***************************************************************************)
(* Queued Claude delivery, src/src/queued-claude-delivery.mjs.             *)
(*                                                                         *)
(* A message to a Claude session that is not running is a file in a        *)
(* directory that every bridge process of the user shares.  A sender       *)
(* enqueues; the drain inside the recipient's session claims the entry     *)
(* with an exclusive file, writes it to the session's socket and records   *)
(* what it knows.  Every drain sweeps every entry.                         *)
(*                                                                         *)
(* Atomicity.  Processes interleave between the read and the write of      *)
(* transition() (the write is an fsync and a rename) and at every await.   *)
(* What follows a write in the same synchronous block, the release of the  *)
(* claim, belongs to the write's step.  A sweep lists the entries and looks *)
(* at their claims in one step: what it would settle or remove by an older *)
(* look, it would by that one.  Each entry that it settles, and each stale *)
(* claim that it removes by its name, is a step of its own; entries past   *)
(* their retention are removed at once, as nothing writes them any more.   *)
(*                                                                         *)
(* Time.  A pair <<i, t>> in "passed" says that the time limit t of entry  *)
(* i has gone by.  An entry may expire between any two steps.  The other   *)
(* limits are durations of five minutes and more, which no synchronous     *)
(* block lasts: they run out only while every process is at an await.      *)
(***************************************************************************)
EXTENDS Naturals, Sequences, FiniteSets

CONSTANTS
    Ids,                \* queue entry IDs
    Texts,              \* what a sender says to a recipient: the dedupe keys
    Tasks,              \* recipients: saved tasks of Claude Desktop
    To,                 \* To[t]: the recipient of text t
    Drains,             \* drain processes
    Home,               \* Home[d]: the task whose session process d runs in
    Senders,            \* bridge processes that enqueue
    NoEntry, NoId,      \* no file, no entry at hand
    MaxActive,          \* maxActive (64)
    MaxPerRecipient,    \* maxActivePerRecipient (8)
    MaxAttempts,        \* MAX_SEND_ATTEMPTS (8)
    MaxFaults,          \* bound on failed writes
    MaxCrashes          \* bound on drain processes that die

Waiting  == {"queued", "dispatching"}
NoResend == Waiting \cup {"sent_unconfirmed", "unknown"}
Settled  == {"sent_unconfirmed", "refused", "expired", "unknown"}
States   == Waiting \cup Settled

Entries == [text : Texts, state : States, attempts : 0..(MaxAttempts - 1)]
Limits  == {"ttl", "uncertain", "claim", "reply", "retention"}

QueueAssumption ==
    /\ NoEntry \notin Entries
    /\ NoId \notin Ids
    /\ IsFiniteSet(Ids)
    /\ To \in [Texts -> Tasks]
    /\ Home \in [Drains -> Tasks]
    /\ MaxActive \in Nat /\ MaxPerRecipient \in Nat /\ MaxAttempts \in Nat \ {0}
    /\ MaxFaults \in Nat
    /\ MaxCrashes \in Nat

VARIABLES
    file,       \* the entry files
    claims,     \* entries whose claim file exists
    born,       \* entries in the order of their createdAt
    passed,     \* time limits that have gone by
    pc,         \* where the tick of a drain is
    todo,       \* what a sweep still has to do: entries to settle, with their state in
                \* its list, and claims to remove
    job,        \* the entry a drain is working on
    next,       \* what a transition() that has read its entry will write
    draft,      \* what a sender that has read the directory will write
    answered,   \* external: entries whose reply is in the session's transcript
    sends,      \* history: how often an entry was written to a socket
    robbed,     \* history: entries that lost a claim to a sweep that had judged another
    faults, crashes     \* budgets used

drain == <<pc, todo, job, next>>
vars  == <<file, claims, born, passed, drain, draft, answered, sends, robbed, faults, crashes>>

TypeOK ==
    /\ file \in [Ids -> Entries \cup {NoEntry}]
    /\ claims \subseteq Ids
    /\ born \in Seq(Ids)
    /\ passed \subseteq Ids \X Limits
    /\ pc \in [Drains -> {"idle", "sweeping", "settling", "identifying", "picked",
                          "writing", "sending", "sent"}]
    /\ todo \in [Drains -> SUBSET (Ids \X (Waiting \cup {"claim"}))]
    /\ job \in [Drains -> Ids \cup {NoId}]
    /\ next \in [Drains -> Entries \cup {NoEntry}]
    /\ draft \in [Senders -> Texts \cup {NoEntry}]
    /\ answered \subseteq Ids
    /\ sends \in [Ids -> Nat]
    /\ robbed \subseteq Ids
    /\ faults \in 0..MaxFaults
    /\ crashes \in 0..MaxCrashes

Stored   == {i \in Ids : file[i] # NoEntry}
In(s)    == {i \in Stored : file[i].state = s}
Out(i)   == <<i, "ttl">> \in passed
Pending  == {i \in In("queued") : ~Out(i)}
For(t)   == {i \in Stored : To[file[i].text] = t}
Unused   == {i \in Ids : \A k \in 1..Len(born) : born[k] # i}

\* i comes before every other entry of S in list().
Oldest(i, S) ==
    /\ i \in S
    /\ \E k \in 1..Len(born) : born[k] = i /\ \A l \in 1..(k - 1) : born[l] \notin S

\* Every process is at an await, or waits for its timer.
Awaiting ==
    /\ \A d \in Drains : /\ pc[d] \in {"idle", "sweeping", "identifying", "sending"}
                         /\ todo[d] = {}
    /\ \A s \in Senders : draft[s] = NoEntry

\* n more file writes failed.
Faulty(n) == faults + n <= MaxFaults /\ faults' = faults + n

\* update() gives the entry a new updatedAt.
Touched(P, i) == P \ {<<i, "uncertain">>, <<i, "retention">>}

-----------------------------------------------------------------------------
(* enqueue().  Operators whose names end in Mutant are wrong versions of    *)
(* the operator that follows them, for the model checker to tell apart.    *)

\* An entry that a new one with its text would repeat: one that has expired is
\* over, whether or not a sweep has said so.
Repeats(i) == file[i].state \in NoResend /\ ~(file[i].state = "queued" /\ Out(i))

IsNewMutant(t) ==
    ~\E i \in Stored : file[i].text = t /\ file[i].state \in Waiting /\ ~Out(i)
IsNew(t) == ~\E i \in Stored : file[i].text = t /\ Repeats(i)

ActiveNow == {i \in Stored : file[i].state \in Waiting /\ ~Out(i)}

RoomMutant(t) ==
    /\ Cardinality(ActiveNow) < MaxActive
    /\ Cardinality(ActiveNow \cap For(t)) <= MaxPerRecipient
Room(t) ==
    /\ Cardinality(ActiveNow) < MaxActive
    /\ Cardinality(ActiveNow \cap For(t)) < MaxPerRecipient

\* The sender has listed the directory and found neither a duplicate nor a limit.
\* Ids bounds the entries: a sender starts only when one is left for it.
Enqueue(s, t) ==
    /\ draft[s] = NoEntry
    /\ Cardinality({x \in Senders : draft[x] # NoEntry}) < Cardinality(Unused)
    /\ IsNew(t)
    /\ Room(To[t])
    /\ draft' = [draft EXCEPT ![s] = t]
    /\ UNCHANGED <<file, claims, born, passed, drain, answered, sends, robbed, faults, crashes>>

WriteEntry(s) ==
    /\ draft[s] # NoEntry
    /\ draft' = [draft EXCEPT ![s] = NoEntry]
    /\ \/ /\ \E i \in Unused :
                /\ file' = [file EXCEPT ![i] = [text |-> draft[s], state |-> "queued",
                                                attempts |-> 0]]
                /\ born' = Append(born, i)
          /\ Faulty(0)
       \/ Faulty(1) /\ UNCHANGED <<file, born>>
    /\ UNCHANGED <<claims, passed, drain, answered, sends, robbed, crashes>>

-----------------------------------------------------------------------------
(* One tick of a drain, up to its claim.                                    *)

\* The sweep's list: entries to settle, stale claims of queued entries, and settled
\* entries past their retention.
DueMutant == {x \in Stored \X {"queued"} : file[x[1]].state = x[2] /\ Out(x[1])}
Due == {x \in Stored \X Waiting :
            /\ file[x[1]].state = x[2]
            /\ x[2] = "queued" => Out(x[1])
            /\ x[2] = "dispatching" => <<x[1], "uncertain">> \in passed}
StaleClaims == {i \in Pending : <<i, "claim">> \in passed}
Worn == {i \in Stored : file[i].state \in Settled /\ <<i, "retention">> \in passed}

Sweep(d) ==
    /\ pc[d] = "idle"
    /\ todo' = [todo EXCEPT ![d] = Due \cup (StaleClaims \X {"claim"})]
    /\ claims' = claims \ Worn
    /\ file' = [i \in Ids |-> IF i \in Worn THEN NoEntry ELSE file[i]]
    /\ pc' = [pc EXCEPT ![d] = "sweeping"]
    /\ UNCHANGED <<born, passed, job, next, draft, answered, sends, robbed, faults, crashes>>

\* transition() of a swept entry reads it again and goes on only in the same state.
SweepRead(d) ==
    /\ pc[d] = "sweeping"
    /\ \E x \in todo[d] :
          /\ x[2] \in Waiting
          /\ todo' = [todo EXCEPT ![d] = @ \ {x}]
          /\ IF x[1] \in In(x[2])
             THEN /\ next' = [next EXCEPT ![d] =
                        [file[x[1]] EXCEPT !.state = IF x[2] = "queued" THEN "expired"
                                                     ELSE "unknown"]]
                  /\ job' = [job EXCEPT ![d] = x[1]]
                  /\ pc' = [pc EXCEPT ![d] = "settling"]
             ELSE UNCHANGED <<next, job, pc>>
    /\ UNCHANGED <<file, claims, born, passed, draft, answered, sends, robbed, faults, crashes>>

\* releaseStaleClaim() removes by its name the claim it found stale: another sweep may
\* have removed that one, and another drain have claimed the entry since.
Unclaim(d) ==
    /\ pc[d] = "sweeping"
    /\ \E i \in Ids :
          /\ <<i, "claim">> \in todo[d]
          /\ todo' = [todo EXCEPT ![d] = @ \ {<<i, "claim">>}]
          /\ claims' = claims \ {i}
          /\ robbed' = IF i \in claims /\ <<i, "claim">> \notin passed
                       THEN robbed \cup {i} ELSE robbed
    /\ UNCHANGED <<file, born, passed, pc, job, next, draft, answered, sends, faults, crashes>>

SweepWrite(d) ==
    /\ pc[d] = "settling"
    /\ \/ /\ file' = [file EXCEPT ![job[d]] = next[d]]
          /\ passed' = Touched(passed, job[d])
          /\ claims' = IF next[d].state = "unknown" THEN claims \ {job[d]} ELSE claims
          /\ pc' = [pc EXCEPT ![d] = "sweeping"]
          /\ Faulty(0)
          /\ UNCHANGED todo
       \/ \* the write throws, and with it the tick
          /\ Faulty(1)
          /\ pc' = [pc EXCEPT ![d] = "idle"]
          /\ todo' = [todo EXCEPT ![d] = {}]
          /\ UNCHANGED <<file, passed, claims>>
    /\ UNCHANGED <<born, job, next, draft, answered, sends, robbed, crashes>>

\* An earlier entry of task t was sent and is not answered yet.
AwaitingReply(t) ==
    \E i \in In("sent_unconfirmed") \cap For(t) :
        i \notin answered /\ <<i, "reply">> \notin passed

MayLookMutant(t) == Pending \cap For(t) # {}
MayLook(t) == Pending \cap For(t) # {} /\ ~AwaitingReply(t)

\* The session knows its own task.  With something pending for it and no reply
\* awaited the tick goes on to read the identity, otherwise it ends.
Look(d) ==
    /\ pc[d] = "sweeping" /\ todo[d] = {}
    /\ \/ /\ MayLook(Home[d])
          /\ pc' = [pc EXCEPT ![d] = "identifying"]
       \/ \* nothing to do, or the session is not verified
          pc' = [pc EXCEPT ![d] = "idle"]
    /\ UNCHANGED <<file, claims, born, passed, todo, job, next, draft, answered, sends,
                   robbed, faults, crashes>>

\* The identity was read again and matches an entry, or it does not.
Identify(d) ==
    /\ pc[d] = "identifying"
    /\ \/ \E i \in Ids :
             /\ Oldest(i, Pending \cap For(Home[d]))
             /\ job' = [job EXCEPT ![d] = i]
             /\ pc' = [pc EXCEPT ![d] = "picked"]
       \/ pc' = [pc EXCEPT ![d] = "idle"] /\ UNCHANGED job
    /\ UNCHANGED <<file, claims, born, passed, todo, next, draft, answered, sends,
                   robbed, faults, crashes>>

-----------------------------------------------------------------------------
(* The claim, and dispatch().                                              *)

\* The entry is read again under the claim.
StillQueuedMutant(i) == i \in Stored
StillQueued(i) == i \in In("queued")

\* O_EXCL: only one process creates the claim file.
Claimable(i) == i \notin claims

\* The claim succeeds and the entry is still queued: it goes to dispatching, or
\* is refused because the session, its policy or the projects say so.
Claim(d) ==
    /\ pc[d] = "picked"
    /\ Claimable(job[d]) /\ StillQueued(job[d])
    /\ claims' = claims \cup {job[d]}
    /\ passed' = passed \ {<<job[d], "claim">>}
    /\ \E s \in {"dispatching", "refused"} :
          next' = [next EXCEPT ![d] = [file[job[d]] EXCEPT !.state = s]]
    /\ pc' = [pc EXCEPT ![d] = "writing"]
    /\ UNCHANGED <<file, born, todo, job, draft, answered, sends, robbed, faults, crashes>>

\* Another process has the claim, the entry is no longer queued, or the session
\* is gone: the claim, where it was taken, is released again.
NoClaim(d) ==
    /\ pc[d] = "picked"
    /\ pc' = [pc EXCEPT ![d] = "idle"]
    /\ UNCHANGED <<file, claims, born, passed, todo, job, next, draft, answered, sends,
                   robbed, faults, crashes>>

\* transition() writes what it read with its patch.  Unless this opens the
\* dispatch, the tick ends here and its claim is released, as it is when the
\* write throws.
WriteState(d) ==
    /\ pc[d] = "writing"
    /\ \/ /\ file' = [file EXCEPT ![job[d]] = next[d]]
          /\ passed' = Touched(passed, job[d]) \ {<<job[d], "reply">>}
          /\ Faulty(0)
          /\ IF next[d].state = "dispatching"
             THEN pc' = [pc EXCEPT ![d] = "sending"] /\ UNCHANGED claims
             ELSE pc' = [pc EXCEPT ![d] = "idle"] /\ claims' = claims \ {job[d]}
       \/ /\ Faulty(1)
          /\ pc' = [pc EXCEPT ![d] = "idle"]
          /\ claims' = claims \ {job[d]}
          /\ UNCHANGED <<file, passed>>
    /\ UNCHANGED <<born, todo, job, next, draft, answered, sends, robbed, crashes>>

\* transition(entry, "dispatching", patch): the entry is read, and unless it is
\* still dispatching nothing is written and the tick ends.
StillDispatching(i) == i \in In("dispatching")

Leave(d, s, n) ==
    IF StillDispatching(job[d])
    THEN /\ next' = [next EXCEPT ![d] = [file[job[d]] EXCEPT !.state = s, !.attempts = n]]
         /\ pc' = [pc EXCEPT ![d] = "writing"]
         /\ UNCHANGED claims
    ELSE /\ pc' = [pc EXCEPT ![d] = "idle"]
         /\ claims' = claims \ {job[d]}
         /\ UNCHANGED next

\* The message is written to the session's socket.
Send(d) ==
    /\ pc[d] = "sending"
    /\ sends' = [sends EXCEPT ![job[d]] = @ + 1]
    /\ pc' = [pc EXCEPT ![d] = "sent"]
    /\ UNCHANGED <<file, claims, born, passed, todo, job, next, draft, answered,
                   robbed, faults, crashes>>

SaveSent(d) ==
    /\ pc[d] = "sent"
    /\ Leave(d, "sent_unconfirmed", next[d].attempts)
    /\ UNCHANGED <<file, born, passed, todo, job, draft, answered, sends, robbed, faults, crashes>>

\* deliveryUncertain: the write began and failed; the message may have arrived.
UncertainStateMutant == "queued"
UncertainState == "unknown"

SendUncertain(d) ==
    /\ pc[d] = "sending"
    /\ \/ UNCHANGED sends
       \/ sends' = [sends EXCEPT ![job[d]] = @ + 1]
    /\ Leave(d, UncertainState, next[d].attempts)
    /\ UNCHANGED <<file, born, passed, todo, job, draft, answered, robbed, faults, crashes>>

\* The send failed before anything was written: a check of beforeSend refuses the
\* message, or the attempt is counted and the last one refuses it.
FailBeforeWriteMutant(n) == "queued"
FailBeforeWrite(n) == IF n + 1 >= MaxAttempts THEN "refused" ELSE "queued"

SendFails(d) ==
    LET n == next[d].attempts IN
    /\ pc[d] = "sending"
    /\ \/ Leave(d, "refused", n)
       \/ Leave(d, FailBeforeWrite(n), IF FailBeforeWrite(n) = "queued" THEN n + 1 ELSE n)
    /\ UNCHANGED <<file, born, passed, todo, job, draft, answered, sends, robbed, faults, crashes>>

SendEnds(d) == Send(d) \/ SendUncertain(d) \/ SendFails(d)

-----------------------------------------------------------------------------
(* The surroundings.                                                        *)

\* A drain process dies and another one takes its place.
Crash(d) ==
    /\ pc[d] # "idle"
    /\ crashes < MaxCrashes /\ crashes' = crashes + 1
    /\ pc' = [pc EXCEPT ![d] = "idle"]
    /\ todo' = [todo EXCEPT ![d] = {}]
    /\ UNCHANGED <<file, claims, born, passed, job, next, draft, answered, sends, robbed, faults>>

\* External: the session answers a message that reached it.
Reply(i) ==
    /\ sends[i] > 0 /\ i \notin answered
    /\ answered' = answered \cup {i}
    /\ UNCHANGED <<file, claims, born, passed, drain, draft, sends, robbed, faults, crashes>>

\* A time limit that runs for entry i goes by.
Runs(i, t) ==
    CASE t = "ttl"       -> file[i].state \in Waiting
      [] t = "uncertain" -> file[i].state = "dispatching"
      [] t = "claim"     -> i \in claims
      [] t = "reply"     -> file[i].state = "sent_unconfirmed"
      [] t = "retention" -> file[i].state \in Settled

TimePasses(i, t) ==
    /\ t = "ttl" \/ Awaiting
    /\ i \in Stored /\ Runs(i, t) /\ <<i, t>> \notin passed
    /\ passed' = passed \cup {<<i, t>>}
    /\ UNCHANGED <<file, claims, born, drain, draft, answered, sends, robbed, faults, crashes>>

-----------------------------------------------------------------------------
Init ==
    /\ file = [i \in Ids |-> NoEntry]
    /\ claims = {}
    /\ born = <<>>
    /\ passed = {}
    /\ pc = [d \in Drains |-> "idle"]
    /\ todo = [d \in Drains |-> {}]
    /\ job = [d \in Drains |-> NoId]
    /\ next = [d \in Drains |-> NoEntry]
    /\ draft = [s \in Senders |-> NoEntry]
    /\ answered = {}
    /\ sends = [i \in Ids |-> 0]
    /\ robbed = {}
    /\ faults = 0 /\ crashes = 0

Settles(d) == SweepRead(d) \/ Unclaim(d) \/ SweepWrite(d)
Claims(d)  == Claim(d) \/ NoClaim(d)
Tick(d)    == \/ Sweep(d) \/ Settles(d) \/ Look(d) \/ Identify(d) \/ Claims(d)
              \/ WriteState(d) \/ SendEnds(d) \/ SaveSent(d)

Next ==
    \/ \E s \in Senders, t \in Texts : Enqueue(s, t)
    \/ \E s \in Senders : WriteEntry(s)
    \/ \E d \in Drains : Tick(d) \/ Crash(d)
    \/ \E i \in Ids : Reply(i)
    \/ \E i \in Ids, t \in Limits : TimePasses(i, t)

Spec == Init /\ [][Next]_vars

\* The poll timer of a drain fires and its awaits end.  An entry's expiry comes, and
\* the five minutes of a dispatch pass also when the drains are busy now and then.
Fairness ==
    /\ \A d \in Drains : WF_vars(Tick(d))
    /\ \A s \in Senders : WF_vars(WriteEntry(s))
    /\ \A i \in Ids : WF_vars(TimePasses(i, "ttl")) /\ SF_vars(TimePasses(i, "uncertain"))

FairSpec == Spec /\ Fairness

-----------------------------------------------------------------------------
(* Properties.                                                              *)

\* No entry is written to a socket twice: not after a crash, a failed save, a slow
\* dispatcher that a sweep gave up on, or by two drains of one session.  The exception
\* is an entry whose claim a sweep removed in the place of a stale one.
AtMostOnce == \A i \in Ids \ robbed : sends[i] <= 1

\* Without the exception it does not hold: two drains that each hold a claim of one
\* entry have both read it as queued.
NeverSentTwice == \A i \in Ids : sends[i] <= 1

\* A receipt that says refused or expired is right that nothing was delivered, one
\* that says sent is right that something was, and one that still waits in the
\* queue has not been delivered.
ReceiptsAreTruthful ==
    \A i \in Stored :
        /\ file[i].state \in {"queued", "refused", "expired"} => sends[i] = 0
        /\ file[i].state = "sent_unconfirmed" => sends[i] = 1

\* What the test "a dispatcher whose entry was already settled does not restore it"
\* says: no step takes an entry from a settled state back to a waiting one.
SettledStays ==
    [][\A i \in Stored : file[i].state \in Settled =>
          file'[i] = NoEntry \/ file'[i].state \in Settled]_vars

\* A text that may still be, or may have been, delivered has one entry, until that
\* entry's expiry: a retried send does not put the message in the queue again.
NoDuplicates ==
    \A i, j \in Stored :
        /\ i # j /\ file[i].text = file[j].text
        /\ {file[i].state, file[j].state} \subseteq NoResend
        => Out(i) \/ Out(j)

\* The limits on waiting entries.
LimitsHold ==
    /\ Cardinality(ActiveNow) <= MaxActive
    /\ \A t \in Tasks : Cardinality(ActiveNow \cap For(t)) <= MaxPerRecipient

\* Entries for one session go out one at a time: none is dispatched while the
\* answer to an earlier one is awaited.
OneAtATime ==
    [][\A i \in In("queued") :
          file'[i] # NoEntry /\ file'[i].state = "dispatching" =>
              ~AwaitingReply(To[file[i].text])]_vars

\* No entry waits forever: it is sent, refused, expired or given up.
EverySettles == \A i \in Ids : i \in Stored /\ file[i].state \in Waiting ~>
                               ~(i \in Stored /\ file[i].state \in Waiting)
=============================================================================
