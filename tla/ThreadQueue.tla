----------------------------- MODULE ThreadQueue -----------------------------
(***************************************************************************)
(* Prompts sent to one Codex task: the send_to_codex_thread tool of        *)
(* src/src/index.mjs over withThread(), send() and request() of            *)
(* DesktopTaskDelivery in src/src/thread-delivery.mjs, one exchange with   *)
(* the native relay (#roundTrip() of src/src/native-relay.mjs), the wait   *)
(* for its recovery (src/src/relay-wake.mjs) and the reply receipts of     *)
(* src/src/desktop-reply-receipts.mjs.                                     *)
(*                                                                         *)
(* Operations on the task run one after the other.  The caller of each is  *)
(* answered at its deadline at the latest; the operation itself may run    *)
(* on, and keeps the task until it ends.  What the relay and Desktop do    *)
(* with a written request is NativeDispatch's subject; here it may reach   *)
(* the task at any later time, unless the relay says that it sent nothing. *)
(***************************************************************************)
EXTENDS Naturals, Sequences, FiniteSets, Functions

CONSTANTS
    Calls,
    MaxCrashes      \* bound on the ends of the bridge's process

QueueAssumption == MaxCrashes \in Nat

VARIABLES
    phase,              \* where the operation of each call is
    threadOperations,   \* the unsettled operations, in the order of their calls
    past,               \* the deadline of each call has passed
    tries,              \* requests made for the prompt
    dispatched,         \* context.dispatched
    told,               \* what the caller was told
    receipt,            \* the reply receipt on disk
    seen,               \* how much was written when the call inspected the task
    written,            \* the requests written, in order
    inflight, got,      \* what may still reach the task, and what did, how often
    crashes

op     == <<phase, threadOperations, past, tries>>
answer == <<dispatched, told, receipt>>
task   == <<seen, written, inflight, got>>
vars   == <<op, answer, task, crashes>>

TypeOK ==
    /\ phase \in [Calls -> {"off", "queued", "inspect", "inspected", "prepared", "sending",
                            "waking", "written", "observing", "settled", "gone"}]
    /\ threadOperations \in Seq(Calls) /\ past \in [Calls -> BOOLEAN] /\ tries \in [Calls -> 0..2]
    /\ dispatched \in [Calls -> BOOLEAN]
    /\ told \in [Calls -> {"none", "not_sent", "unknown", "unconfirmed", "accepted"}]
    /\ receipt \in [Calls -> {"none", "unconfirmed", "accepted"}]
    /\ seen \in [Calls -> Nat] /\ written \in Seq(Calls)
    /\ inflight \subseteq Calls /\ got \in [Calls -> Nat] /\ crashes \in 0..MaxCrashes

Init ==
    /\ phase = [i \in Calls |-> "off"] /\ threadOperations = <<>>
    /\ past = [i \in Calls |-> FALSE] /\ tries = [i \in Calls |-> 0]
    /\ dispatched = [i \in Calls |-> FALSE] /\ told = [i \in Calls |-> "none"]
    /\ receipt = [i \in Calls |-> "none"] /\ seen = [i \in Calls |-> 0] /\ written = <<>>
    /\ inflight = {} /\ got = [i \in Calls |-> 0] /\ crashes = 0

Set(f, i, v) == [f EXCEPT ![i] = v]
Holds(i, p) == phase[i] = p
Turn(i) == threadOperations # <<>> /\ Head(threadOperations) = i
Goes(i, p) == phase' = Set(phase, i, p) /\ UNCHANGED threadOperations

\* The first answer counts: a caller answered at its deadline hears no more.
Tell(i, what) == told' = IF told[i] = "none" THEN Set(told, i, what) ELSE told

\* The promise settles and the next operation may start.
Leave(i) == IF Turn(i) THEN Tail(threadOperations) ELSE threadOperations
Settle(i) == phase' = Set(phase, i, "settled") /\ threadOperations' = Leave(i)

\* failure(): what an error says of the delivery.
Failure(i) == IF dispatched[i] THEN "unknown" ELSE "not_sent"

-----------------------------------------------------------------------------
(* withThread() *)

Enter(i) ==
    /\ phase[i] = "off"
    /\ phase' = Set(phase, i, "queued") /\ threadOperations' = Append(threadOperations, i)
    /\ UNCHANGED <<past, tries, answer, task, crashes>>

\* Operators whose names end in Mutant are wrong versions of the operator that
\* follows them, for the model checker to tell apart.
TickMutant(i) ==
    /\ phase[i] \notin {"off", "queued", "gone"} /\ ~past[i] /\ past' = Set(past, i, TRUE)
    /\ UNCHANGED <<phase, threadOperations, tries, answer, task, crashes>>
Tick(i) ==
    /\ phase[i] \notin {"off", "gone"} /\ ~past[i] /\ past' = Set(past, i, TRUE)
    /\ UNCHANGED <<phase, threadOperations, tries, answer, task, crashes>>

\* onDeadline(): a prepared delivery is reported with its receipt.
OnDeadlineMutant(i) == IF receipt[i] = "none" THEN Failure(i) ELSE "accepted"
OnDeadline(i) ==
    IF receipt[i] = "none" THEN Failure(i)
    ELSE IF phase[i] = "observing" THEN "accepted" ELSE "unconfirmed"

\* The deadline answers the caller; the operation keeps its place.
DeadlineMutant(i) ==
    /\ phase[i] \notin {"off", "gone"} /\ past[i] /\ told[i] = "none"
    /\ Tell(i, OnDeadline(i))
    /\ threadOperations' = Leave(i)
    /\ UNCHANGED <<phase, past, tries, dispatched, receipt, task, crashes>>
Deadline(i) ==
    /\ phase[i] \notin {"off", "gone"} /\ past[i] /\ told[i] = "none"
    /\ Tell(i, OnDeadline(i))
    /\ UNCHANGED <<op, dispatched, receipt, task, crashes>>

Start(i) ==
    /\ Holds(i, "queued") /\ Turn(i)
    /\ IF past[i] THEN Settle(i) /\ Tell(i, "not_sent") ELSE Goes(i, "inspect") /\ UNCHANGED told
    /\ UNCHANGED <<past, tries, dispatched, receipt, task, crashes>>

-----------------------------------------------------------------------------
(* send() and request() *)

\* beforeDesktopRequest(): the last check before the write marks the call.
Marked(i) == Set(dispatched, i, TRUE)

\* create(): the receipt is complete on disk before its id is known.
Create(i) == receipt' = Set(receipt, i, "unconfirmed")

Fails(i) ==
    /\ Settle(i) /\ Tell(i, Failure(i))
    /\ UNCHANGED <<past, tries, dispatched, receipt, task, crashes>>

Inspect(i) ==
    /\ Holds(i, "inspect")
    /\ \/ /\ ~past[i] /\ Goes(i, "inspected") /\ seen' = Set(seen, i, Len(written))
          /\ UNCHANGED <<past, tries, answer, written, inflight, got, crashes>>
       \/ Fails(i)

\* onPrepared(): the receipt is stored before anything is sent.
Prepare(i) ==
    /\ Holds(i, "inspected")
    /\ \/ /\ Goes(i, "prepared") /\ Create(i)
          /\ UNCHANGED <<past, tries, dispatched, told, task, crashes>>
       \/ Fails(i)

\* One attempt at the request: not after the deadline.
AttemptMutant(i) ==
    /\ Goes(i, "sending") /\ tries' = [tries EXCEPT ![i] = @ + 1]
    /\ UNCHANGED <<past, answer, task, crashes>>
Attempt(i) ==
    IF past[i] THEN Fails(i)
    ELSE /\ Goes(i, "sending") /\ tries' = [tries EXCEPT ![i] = @ + 1]
         /\ UNCHANGED <<past, answer, task, crashes>>

Send(i) == Holds(i, "prepared") /\ (Attempt(i) \/ Fails(i))

\* Connected and checked once more, the request is written.
Write(i) ==
    /\ Holds(i, "sending") /\ Goes(i, "written")
    /\ dispatched' = Marked(i)
    /\ written' = Append(written, i) /\ inflight' = inflight \cup {i}
    /\ UNCHANGED <<past, tries, told, receipt, seen, got, crashes>>

\* The connection fails before the write, perhaps after the last check.
Unreachable(i) ==
    /\ Holds(i, "sending") /\ dispatched' \in {dispatched, Marked(i)}
    /\ IF tries[i] = 1 THEN Goes(i, "waking") /\ UNCHANGED told
       ELSE Settle(i) /\ Tell(i, IF dispatched'[i] THEN "unknown" ELSE "not_sent")
    /\ UNCHANGED <<past, tries, receipt, task, crashes>>

\* A check before the write refuses.
Refused(i) == Holds(i, "sending") /\ Fails(i)

\* wakeRelay() ends: the relay answers again, or the wait is over.
Wake(i) == Holds(i, "waking") /\ (Attempt(i) \/ Fails(i))

Acknowledged(i) ==
    /\ i \notin inflight /\ got[i] > 0
    /\ Goes(i, "observing") /\ receipt' = Set(receipt, i, "accepted")
    /\ UNCHANGED <<past, tries, dispatched, told, task, crashes>>

\* The relay answers that it sent nothing.
Declined(i) ==
    /\ i \in inflight /\ inflight' = inflight \ {i}
    /\ IF tries[i] = 1 THEN \/ Goes(i, "waking") /\ UNCHANGED told    \* it is unreachable itself
                            \/ Settle(i) /\ Tell(i, Failure(i))
       ELSE Settle(i) /\ Tell(i, Failure(i))
    /\ UNCHANGED <<past, tries, dispatched, receipt, seen, written, got, crashes>>

\* No answer, or a lost connection: the delivery stays unconfirmed, and is not repeated.
LostMutant(i) ==
    /\ IF tries[i] = 1 THEN Goes(i, "waking") /\ UNCHANGED told
       ELSE Settle(i) /\ Tell(i, "unconfirmed")
    /\ UNCHANGED <<past, tries, dispatched, receipt, task, crashes>>
Lost(i) ==
    /\ Settle(i) /\ Tell(i, "unconfirmed")
    /\ UNCHANGED <<past, tries, dispatched, receipt, task, crashes>>

\* Any other answer is an error, with the prompt sent or not.
Answer(i) == Holds(i, "written") /\ (Acknowledged(i) \/ Declined(i) \/ Lost(i) \/ Fails(i))

\* wait() ends with a reply or without; the prompt was accepted.
Observe(i) ==
    /\ Holds(i, "observing") /\ Settle(i) /\ Tell(i, "accepted")
    /\ UNCHANGED <<past, tries, dispatched, receipt, task, crashes>>

-----------------------------------------------------------------------------
(* Around the bridge *)

Deliver(i) ==
    /\ i \in inflight /\ inflight' = inflight \ {i} /\ got' = [got EXCEPT ![i] = @ + 1]
    /\ UNCHANGED <<op, answer, seen, written, crashes>>

Crash ==
    /\ crashes < MaxCrashes /\ crashes' = crashes + 1
    /\ phase' = [i \in Calls |-> IF phase[i] = "off" THEN "off" ELSE "gone"]
    /\ threadOperations' = <<>>
    /\ UNCHANGED <<past, tries, answer, task>>

Operate(i) ==
    \/ Start(i) \/ Inspect(i) \/ Prepare(i) \/ Send(i) \/ Write(i) \/ Unreachable(i)
    \/ Refused(i) \/ Wake(i) \/ Answer(i) \/ Observe(i)

Next ==
    \/ \E i \in Calls : Enter(i) \/ Tick(i) \/ Deadline(i) \/ Operate(i) \/ Deliver(i)
    \/ Crash

Spec == Init /\ [][Next]_vars

\* Timers fire; an operation may hang for ever.
TimerSpec == Spec /\ \A i \in Calls : WF_vars(Tick(i)) /\ WF_vars(Deadline(i))

-----------------------------------------------------------------------------
(* Properties *)

\* A prompt keeps the promise of Delivery, although its caller is answered at a
\* deadline while the operation runs on, and the request is repeated when the relay
\* could not be reached (withThread(), request()).
Promise == INSTANCE Delivery WITH
    Sends <- Calls,
    delivered <- got,
    told <- [i \in Calls |-> CASE told[i] = "accepted" -> "delivered"
                             [] told[i] = "unconfirmed" -> "unknown"
                             [] OTHER -> told[i]]
KeepsPromise == Promise!Spec

\* The caller of a prompt that was told that it was not sent may send it
\* again: it was not written, and never will be, even by an operation that
\* outlives its deadline or waits for the relay.
NotSentIsTrue == \A i \in Calls : told[i] = "not_sent" => i \notin Range(written)

\* Waiting for the relay and sending again never makes two prompts of one.
SentOnce == \A i \in Calls : got[i] + (IF i \in inflight THEN 1 ELSE 0) <= 1

\* Between the inspection by which a call will recognise its reply and the
\* write of its prompt nothing else is written to the task, though the
\* operations before it outlive their deadlines.
InspectionHolds ==
    \A p \in DOMAIN written : \A q \in seen[written[p]] + 1 .. p - 1 : written[q] = written[p]

\* Whatever may reach the task has a receipt by which its reply can be found,
\* whenever the process ends; an accepted receipt or answer speaks of a prompt
\* that the task has; and a caller is given the receipt of one it may have.
Receipted == \A i \in Calls :
    /\ i \in inflight \/ got[i] > 0 => receipt[i] # "none"
    /\ "accepted" \in {receipt[i], told[i]} => got[i] = 1
    /\ told[i] = "unconfirmed" => receipt[i] # "none"

\* Every caller is answered, even behind an operation that hangs.
Answered == \A i \in Calls : phase[i] # "off" ~> told[i] # "none" \/ phase[i] = "gone"

=============================================================================
