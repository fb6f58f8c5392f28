----------------------------- MODULE PeerDelivery -----------------------------
(***************************************************************************)
(* Messages from one Codex worker to one Claude session, the replies that  *)
(* come back, and reloads of the worker: class PeerEndpoint of             *)
(* src/src/peer-protocol.mjs with the send_to_claude_session tool of       *)
(* src/src/claude-bridge.mjs and the control of src/src/reload-control.mjs.*)
(*                                                                         *)
(* A Desktop session is answered by what its transcript says of a message  *)
(* (Transcript = TRUE); any other session answers with a frame on the      *)
(* worker's own socket, one connection for each.  "at" is what the session *)
(* made of each message, "flight" the lines written to it and not read.    *)
(***************************************************************************)
EXTENDS Naturals, Sequences, FiniteSets, SequencesExt

CONSTANTS
    Messages,   \* the message of each call of the tool
    None,
    Transcript, \* BOOLEAN: the recipient is a Desktop session
    Attempts,   \* PEER_SEND_ATTEMPTS
    MaxReloads, \* bound on reloads begun
    MaxOther    \* bound on messages the session sends unasked

PeerAssumption ==
    /\ None \notin Messages /\ Transcript \in BOOLEAN
    /\ Attempts \in Nat \ {0} /\ MaxReloads \in Nat /\ MaxOther \in {0, 1}

VARIABLES
    e,          \* the fields of the PeerEndpoint
    pc, tries,  \* of each call
    queue,      \* requestQueues: the calls for this target, in order
    chosen,     \* the account each call selected
    checking,   \* calls whose beforeSend() is awaited on an open connection
    result,     \* what each call returned
    gave,       \* the record each call returned as its reply
    account,    \* the accounts signed in now
    at, flight, \* the other side
    backlog, open,  \* frames from the session: connected, accepted
    others,     \* messages sent unasked so far
    phase,      \* of a reload
    raced,      \* activityRevision moved since the endpoint was paused
    dropped,    \* a frame was cut off since the reload began
    drained,    \* records taken by read_claude_inbox
    reloads

calls == <<pc, tries, queue, chosen, checking, result, gave>>
side  == <<at, flight, others, account>>
frames == <<backlog, open>>
reload == <<phase, raced, dropped, reloads>>
vars  == <<e, calls, side, frames, reload, drained>>

Frames == [kind : {"status"}, of : Messages, says : {"held", "delivered", "declined"}]
            \cup [kind : {"reply"}, of : Messages \cup {None}]

Waiting == {m \in Messages : pc[m] = "wait"}

-----------------------------------------------------------------------------
(* What the methods of the endpoint do to its fields.                      *)

\* #removePendingReply() of each message of ms
Release(x, ms) ==
    LET gone == Cardinality(ms \cap x.pending)
    IN  [x EXCEPT !.pending = @ \ ms, !.unconfirmed = IF @ > gone THEN @ - gone ELSE 0]

\* The record that waitForReply() of m would take.
Matches(m, rec, after) ==
    /\ rec.kind = "reply" /\ rec.seq > after
    /\ Transcript => rec.source = "transcript" /\ rec.to = m
    /\ rec.to \in {None, m}

Taken(m, records, after) ==
    LET found == {i \in DOMAIN records : Matches(m, records[i], after)}
    IN  IF found = {} THEN None ELSE records[CHOOSE i \in found : \A j \in found : i <= j]

\* #publishMessage() of each record: it gets a number, is kept, and is heard by
\* every wait that it matches.
Publish(x, records, waiting) ==
    LET new == [i \in DOMAIN records |-> [records[i] EXCEPT !.seq = x.sequence + i]]
    IN  [x EXCEPT !.sequence = @ + Len(records), !.inbox = @ \o new,
           !.heard = [m \in Messages |-> IF m \in waiting /\ @[m] = None
                                         THEN Taken(m, new, x.after[m]) ELSE @[m]]]

\* Whether a record may answer the pending message m.  Operators whose names
\* end in Mutant are wrong versions of the operator that follows them, for the
\* model checker to tell apart.
CorrelatedMutant(rec, m) == TRUE
Correlated(rec, m) == Transcript => rec.source = "transcript" /\ rec.to = m

\* #receiveMessage() of a frame, which names no message that it answers
Receive(x, of, waiting) ==
    LET rec == [kind |-> "reply", source |-> "peer", to |-> None, of |-> of, seq |-> 0]
        own == {m \in x.pending : Correlated(rec, m)}
    IN  IF own = {} THEN Publish(x, <<rec>>, waiting)
        ELSE LET m == CHOOSE n \in own : TRUE
             IN  Publish(Release([x EXCEPT !.sent[m] = "reply", !.by[m] = of], {m}),
                         <<[rec EXCEPT !.to = m]>>, waiting)

\* What the transcript makes #refreshTranscriptReplies() publish about m: its
\* reply, by #receiveMessage(), or that it was interrupted
Outcome(m) ==
    IF at[m] = "answered"
    THEN [kind |-> "reply", source |-> "transcript", to |-> m, of |-> m, seq |-> 0]
    ELSE [kind |-> "status", source |-> "bridge", to |-> m, of |-> m, seq |-> 0]

\* #refreshTranscriptReplies(): what was not looked at since the transcript
\* last changed is looked at; with nothing left to wait for, polling ends.
Refresh(x, waiting) ==
    IF x.paused \/ x.pollOff THEN x
    ELSE LET look     == IF Transcript THEN x.pending \ x.seen ELSE {}
             answered == {m \in look : at[m] = "answered"}
             ended    == {m \in look : at[m] \in {"answered", "interrupted"}}
             order    == SetToSeq(ended)
             y == Release([x EXCEPT
                    !.seen = @ \cup look,
                    !.sent = [m \in Messages |-> IF m \in answered THEN "reply" ELSE @[m]],
                    !.by   = [m \in Messages |-> IF m \in answered THEN m ELSE @[m]],
                    !.receipts = [m \in Messages |->
                                    IF m \in ended \ answered THEN "interrupted" ELSE @[m]]], ended)
         IN  [Publish(y, [i \in DOMAIN order |-> Outcome(order[i])], waiting) EXCEPT
                !.polling = @ /\ y.pending # {}]

\* #startTranscriptPolling()
Poll(x) ==
    [x EXCEPT !.polling = @ \/ (Transcript /\ ~x.paused /\ ~x.pollOff /\ x.pending # {})]

\* start(), which begins to poll for what was restored
StartMutant(x) == [x EXCEPT !.started = TRUE, !.pollOff = FALSE]
Start(x) == IF x.started THEN x ELSE Poll([x EXCEPT !.started = TRUE, !.pollOff = FALSE])

-----------------------------------------------------------------------------
(* A call of send_to_claude_session.                                       *)

Init ==
    /\ e = [started |-> TRUE, paused |-> FALSE, polling |-> FALSE, pollOff |-> FALSE,
            pending |-> {}, unconfirmed |-> 0, seen |-> {}, inbox |-> <<>>, sequence |-> 0,
            sent |-> [m \in Messages |-> "no"], by |-> [m \in Messages |-> None],
            receipts |-> [m \in Messages |-> "none"],
            after |-> [m \in Messages |-> 0], heard |-> [m \in Messages |-> None]]
    /\ pc = [m \in Messages |-> "idle"] /\ tries = [m \in Messages |-> 0] /\ queue = <<>>
    /\ chosen = [m \in Messages |-> 0] /\ checking = {}
    /\ result = [m \in Messages |-> "none"] /\ gave = [m \in Messages |-> None]
    /\ account = 1 /\ at = [m \in Messages |-> "none"] /\ flight = {} /\ others = 0
    /\ backlog = {} /\ open = {}
    /\ phase = "active" /\ raced = FALSE /\ dropped = FALSE /\ reloads = 0 /\ drained = 0

\* A call begins: it notes the accounts and takes its place behind the calls
\* for the same target.  The control lets no call in while a reload is under way.
Call(m) ==
    /\ pc[m] = "idle" /\ phase = "active"
    /\ pc' = [pc EXCEPT ![m] = "queued"] /\ queue' = Append(queue, m)
    /\ chosen' = [chosen EXCEPT ![m] = account]
    /\ UNCHANGED <<e, tries, checking, result, gave, side, frames, reload, drained>>

ReturnMutant(m, r) ==
    pc' = [pc EXCEPT ![m] = "done"] /\ result' = [result EXCEPT ![m] = r] /\ UNCHANGED queue
Return(m, r) ==
    /\ pc' = [pc EXCEPT ![m] = "done"]
    /\ result' = [result EXCEPT ![m] = r]
    /\ queue' = SelectSeq(queue, LAMBDA n : n # m)

\* Whether the last, synchronous part of beforeSend() lets m pass.
AllowedMutant(m) == TRUE
Allowed(m) == account = chosen[m]

\* The turn of m comes and the first beforeSend() refuses.
Blocked(m) ==
    /\ pc[m] = "queued" /\ Head(queue) = m
    /\ Return(m, "not_sent")
    /\ UNCHANGED <<e, tries, chosen, checking, gave, side, frames, reload, drained>>

\* The turn of m comes: it is refused while an earlier message is unanswered,
\* and registered as pending otherwise.
Busy(x) == x.unconfirmed > 0

Begin(m) ==
    /\ pc[m] = "queued" /\ Head(queue) = m /\ Allowed(m)
    /\ LET x == Refresh(e, Waiting)
       IN  IF Busy(x)
           THEN /\ e' = x /\ Return(m, "not_sent") /\ UNCHANGED tries
           ELSE /\ e' = Poll([x EXCEPT !.pending = @ \cup {m}, !.unconfirmed = @ + 1,
                                !.sent[m] = "open", !.after[m] = x.sequence])
                /\ pc' = [pc EXCEPT ![m] = "connect"] /\ tries' = [tries EXCEPT ![m] = 1]
                /\ UNCHANGED <<queue, result>>
    /\ UNCHANGED <<chosen, checking, gave, side, frames, reload, drained>>

\* The catch of sendAndWait(): a message that cannot have been written is
\* failed and no longer pending, any other one stays pending.
FailedMutant(m, uncertain) == Release([e EXCEPT !.sent[m] = IF uncertain THEN "unsure" ELSE "failed"], {m})
Failed(m, uncertain) ==
    IF uncertain
    THEN [e EXCEPT !.sent[m] = IF @ = "reply" THEN @ ELSE "unsure"]
    ELSE Release([e EXCEPT !.sent[m] = "failed"], {m})

\* No connection: the attempt is repeated while attempts are left.
Unreachable(m) ==
    /\ pc[m] = "connect"
    /\ \/ /\ tries[m] < Attempts /\ tries' = [tries EXCEPT ![m] = @ + 1]
          /\ UNCHANGED <<e, pc, queue, result>>
       \/ e' = Failed(m, FALSE) /\ Return(m, "not_sent") /\ UNCHANGED tries
    /\ UNCHANGED <<chosen, checking, gave, side, frames, reload, drained>>

Connect(m) ==
    /\ pc[m] = "connect"
    /\ pc' = [pc EXCEPT ![m] = "verify"] /\ checking' = checking \cup {m}
    /\ tries' = [tries EXCEPT ![m] = 0] /\ UNCHANGED <<e, queue, chosen, result, gave, side, frames, reload, drained>>

\* The connection breaks, or its time is over, while beforeSend() is awaited.
VerifyEnds(m) ==
    /\ pc[m] = "verify"
    /\ e' = Failed(m, FALSE) /\ Return(m, "not_sent")
    /\ UNCHANGED <<tries, chosen, checking, gave, side, frames, reload, drained>>

\* beforeSend() returns.  What was settled meanwhile is not written.
SettledMutant(m) == FALSE
Settled(m) == pc[m] # "verify"

Verified(m) ==
    /\ m \in checking /\ checking' = checking \ {m}
    /\ \/ Settled(m) /\ UNCHANGED <<e, pc, queue, result, flight>>
       \/ /\ ~Settled(m) /\ ~Allowed(m)
          /\ e' = Failed(m, FALSE) /\ Return(m, "not_sent") /\ UNCHANGED flight
       \/ /\ ~Settled(m) /\ Allowed(m)
          /\ flight' = flight \cup {m} /\ pc' = [pc EXCEPT ![m] = "write"]
          /\ UNCHANGED <<e, queue, result>>
    /\ UNCHANGED <<tries, chosen, gave, at, others, account, frames, reload, drained>>

\* The write fails or takes too long: the line may have arrived, or may still.
Uncertain(m) ==
    /\ pc[m] = "write"
    /\ e' = Failed(m, TRUE) /\ Return(m, "unknown")
    /\ flight' \in {flight, flight \ {m}}
    /\ UNCHANGED <<tries, chosen, checking, gave, at, others, account, frames, reload, drained>>

\* The write is done.  With waitSec 0 the call returns at once, otherwise it
\* takes a reply that is there or waits for one.
Wrote(m) ==
    /\ pc[m] = "write"
    /\ \/ Return(m, "unknown") /\ UNCHANGED e
       \/ /\ pc' = [pc EXCEPT ![m] = "wait"] /\ UNCHANGED <<queue, result>>
          /\ e' = [e EXCEPT !.heard[m] = Taken(m, e.inbox, e.after[m])]
    /\ UNCHANGED <<tries, chosen, checking, gave, side, frames, reload, drained>>

\* The wait ends with a reply, with a receipt that ends it, or with time.  A
\* reply is kept from an account that did not send the message.
Waited(m) ==
    /\ pc[m] = "wait"
    /\ e' = [e EXCEPT !.heard[m] = None]
    /\ gave' = [gave EXCEPT ![m] = e.heard[m]]
    /\ Return(m, IF e.heard[m] # None THEN IF account = chosen[m] THEN "reply" ELSE "hidden" ELSE "unknown")
    /\ UNCHANGED <<tries, chosen, checking, side, frames, reload, drained>>

\* The poll, read_claude_delivery, and read_claude_inbox
Observe ==
    /\ e.polling /\ e' = Refresh(e, Waiting)
    /\ UNCHANGED <<calls, side, frames, reload, drained>>

ReadDelivery ==
    /\ phase = "active" /\ e' = Refresh(e, Waiting)
    /\ UNCHANGED <<calls, side, frames, reload, drained>>

Drain ==
    /\ phase = "active" /\ e.inbox # <<>>
    /\ e' = [e EXCEPT !.inbox = Tail(@)] /\ drained' = drained + 1
    /\ UNCHANGED <<calls, side, frames, reload>>

-----------------------------------------------------------------------------
(* The session.                                                            *)

Listening == e.started /\ phase = "active"

\* A frame for the worker; where nothing listens, it is not sent.
Say(f) == backlog' = IF Listening THEN backlog \cup {f} ELSE backlog

Took(m) ==
    /\ m \in flight /\ flight' = flight \ {m}
    /\ at' = [at EXCEPT ![m] = "got"] /\ e' = [e EXCEPT !.seen = {}]
    /\ \E s \in {"held", "delivered"} : Say([kind |-> "status", of |-> m, says |-> s])
    /\ UNCHANGED <<calls, others, account, open, reload, drained>>

Declines(m) ==
    /\ at[m] = "got" /\ at' = [at EXCEPT ![m] = "declined"]
    /\ Say([kind |-> "status", of |-> m, says |-> "declined"])
    /\ UNCHANGED <<e, calls, flight, others, account, open, reload, drained>>

\* The message is answered: in the transcript, and for any other session in a frame.
Answers(m) ==
    /\ at[m] = "got" /\ at' = [at EXCEPT ![m] = "answered"]
    /\ IF Transcript THEN e' = [e EXCEPT !.seen = {}] /\ UNCHANGED backlog
       ELSE Listening /\ Say([kind |-> "reply", of |-> m]) /\ UNCHANGED e
    /\ UNCHANGED <<calls, flight, others, account, open, reload, drained>>

\* A new command of the user cuts the message off from what follows.
Interrupted(m) ==
    /\ Transcript /\ at[m] = "got" /\ at' = [at EXCEPT ![m] = "interrupted"]
    /\ e' = [e EXCEPT !.seen = {}]
    /\ UNCHANGED <<calls, flight, others, account, frames, reload, drained>>

Unasked ==
    /\ others < MaxOther /\ others' = others + 1 /\ Listening
    /\ Say([kind |-> "reply", of |-> None])
    /\ UNCHANGED <<e, calls, at, flight, account, open, reload, drained>>

SwitchAccount ==
    /\ account = 1 /\ account' = 2
    /\ UNCHANGED <<e, calls, at, flight, others, frames, reload, drained>>

-----------------------------------------------------------------------------
(* Frames from the session: #handleConnection().                           *)

\* The connection is taken; a paused endpoint cuts it off.
Accept(f) ==
    /\ f \in backlog /\ backlog' = backlog \ {f}
    /\ open' = IF e.paused THEN open ELSE open \cup {f}
    /\ raced' = (raced \/ phase = "closing") /\ dropped' = (dropped \/ e.paused)
    /\ UNCHANGED <<e, calls, side, phase, reloads, drained>>

\* Its data comes: a status of the pending message, or a message.
Data(f) ==
    /\ f \in open /\ open' = open \ {f}
    /\ raced' = (raced \/ phase = "closing") /\ dropped' = (dropped \/ e.paused)
    /\ e' = IF e.paused THEN e
            ELSE IF f.kind = "reply"
            THEN Receive(e, f.of, Waiting)
            ELSE IF f.of \notin e.pending THEN e
            ELSE LET x == [e EXCEPT !.receipts[f.of] = f.says]
                 IN  IF f.says = "declined" THEN Release(x, {f.of}) ELSE x
    /\ UNCHANGED <<calls, side, backlog, phase, reloads, drained>>

-----------------------------------------------------------------------------
(* A reload of the worker.                                                 *)

Terminal(x, m) == x.receipts[m] \in {"declined", "interrupted"}

Resumable(x, m) ==
    /\ Transcript /\ x.sent[m] \in {"open", "unsure"} /\ x.receipts[m] \in {"none", "delivered"}
    /\ at[m] \in {"got", "answered", "interrupted"}

\* reloadReason()
MayReload(x) ==
    /\ open = {} /\ queue = <<>>
    /\ \A m \in x.pending : Resumable(x, m)
    /\ x.unconfirmed = Cardinality(x.pending)
    /\ \A m \in Messages : x.sent[m] \in {"open", "unsure"} => Terminal(x, m) \/ m \in x.pending

\* quiesce() begins: the socket is withdrawn.
Withdraw ==
    /\ phase = "active" /\ reloads < MaxReloads
    /\ e' = Refresh(e, Waiting) /\ MayReload(e')
    /\ phase' = "withdrawn" /\ reloads' = reloads + 1 /\ raced' = FALSE /\ dropped' = FALSE
    /\ UNCHANGED <<calls, side, frames, drained>>

\* What was connected has been accepted and the connections have been given
\* their second: with a reason to wait the reload fails, otherwise the
\* endpoint is paused.
DrainedMutant == TRUE
Drained == backlog = {}

Pause ==
    /\ phase = "withdrawn" /\ Drained
    /\ LET x == Refresh(e, Waiting)
       IN  IF MayReload(x)
           THEN /\ e' = [x EXCEPT !.paused = TRUE, !.polling = FALSE]
                /\ phase' = "closing"
           ELSE e' = [x EXCEPT !.started = FALSE] /\ phase' = "failed"
    /\ UNCHANGED <<calls, side, frames, raced, dropped, reloads, drained>>

\* The server has closed, and with it every connection; what was not accepted
\* is cut off by the system.
Close ==
    /\ phase = "closing" /\ open = {}
    /\ e' = [e EXCEPT !.started = FALSE]
    /\ phase' = IF raced \/ ~MayReload(e) THEN "failed" ELSE "quiesced"
    /\ dropped' = (dropped \/ backlog # {}) /\ backlog' = {}
    /\ UNCHANGED <<calls, side, open, raced, reloads, drained>>

\* exportReloadState() and restoreReloadState(): the next worker's endpoint.
RestoredMutant(x) == [x EXCEPT !.paused = FALSE, !.pollOff = TRUE, !.unconfirmed = 0, !.inbox = <<>>]
Restored(x) == [x EXCEPT !.paused = FALSE, !.pollOff = TRUE, !.seen = {},
                         !.unconfirmed = Cardinality(x.pending)]

Restore ==
    /\ phase = "quiesced" /\ phase' = "restored" /\ e' = Restored(e)
    /\ UNCHANGED <<calls, side, frames, raced, dropped, reloads, drained>>

\* The next worker is activated, or this one is resumed.
Activate ==
    /\ phase \in {"restored", "quiesced", "failed"} /\ phase' = "active"
    /\ e' = Start([e EXCEPT !.paused = FALSE])
    /\ UNCHANGED <<calls, side, frames, raced, dropped, reloads, drained>>

-----------------------------------------------------------------------------
Sending(m) ==
    \/ Blocked(m) \/ Begin(m) \/ Unreachable(m) \/ Connect(m) \/ VerifyEnds(m)
    \/ Uncertain(m) \/ Wrote(m) \/ Waited(m)
Session(m) == Took(m) \/ Declines(m) \/ Answers(m) \/ Interrupted(m)
Reloading == Pause \/ Close \/ Restore \/ Activate

Next ==
    \/ \E m \in Messages : Call(m) \/ Sending(m) \/ Verified(m) \/ Session(m)
    \/ Observe \/ ReadDelivery \/ Drain \/ Unasked \/ SwitchAccount
    \/ \E f \in Frames : Accept(f) \/ Data(f)
    \/ Withdraw \/ Reloading

Spec == Init /\ [][Next]_vars

\* Timers end every step of a call, the loop takes connections and their data,
\* the interval fires, and the supervisor carries a reload through.
FairSpec ==
    /\ Spec
    /\ \A m \in Messages : WF_vars(Sending(m)) /\ WF_vars(Verified(m))
    /\ WF_vars(Observe) /\ WF_vars(Reloading)
    /\ \A f \in Frames : WF_vars(Accept(f)) /\ WF_vars(Data(f))

-----------------------------------------------------------------------------
TypeOK ==
    /\ e.pending \subseteq Messages /\ e.unconfirmed \in Nat /\ e.sequence \in Nat
    /\ e.seen \subseteq Messages /\ \A b \in {e.started, e.paused, e.polling, e.pollOff} : b \in BOOLEAN
    /\ e.sent \in [Messages -> {"no", "open", "unsure", "failed", "reply"}]
    /\ e.receipts \in [Messages -> {"none", "held", "delivered", "declined", "interrupted"}]
    /\ pc \in [Messages -> {"idle", "queued", "connect", "verify", "write", "wait", "done"}]
    /\ result \in [Messages -> {"none", "not_sent", "unknown", "reply", "hidden"}]
    /\ at \in [Messages -> {"none", "got", "declined", "answered", "interrupted"}]
    /\ queue \in Seq(Messages) /\ flight \subseteq Messages /\ checking \subseteq Messages
    /\ backlog \subseteq Frames /\ open \subseteq Frames /\ drained \in Nat
    /\ phase \in {"active", "withdrawn", "closing", "failed", "quiesced", "restored"}

\* A message is written only when every earlier one has been answered,
\* refused or interrupted by the session: waits that timed out, uncertain
\* writes and reloads in between change nothing (sendAndWait).
OneOutstanding ==
    [][\A m \in flight' \ flight : \A n \in Messages \ {m} : n \notin flight /\ at[n] # "got"]_vars

\* What is recorded or returned as the reply to a message of a Desktop session
\* is the answer to that message, never an unasked message or the answer to
\* another one (#receiveMessage, waitForReply).
OwnReply ==
    \A m \in Messages :
        /\ e.sent[m] = "reply" => e.by[m] = m
        /\ gave[m] # None => gave[m].of = m

\* A message keeps the promise of Delivery, although its sender is verified on an open
\* connection, a write may be uncertain and the worker is reloaded.  What a returned
\* reply says is OwnReply's subject: here it promises nothing (send, sendAndWait).
Promise == INSTANCE Delivery WITH
    Sends <- Messages,
    delivered <- [m \in Messages |-> IF at[m] = "none" THEN 0 ELSE 1],
    told <- [m \in Messages |-> IF result[m] \in {"reply", "hidden"} THEN "unknown" ELSE result[m]]
KeepsPromise == Promise!Spec

\* A message reported as not sent is not with the session and not on its way,
\* whatever timed out while the sender was being verified (send).
NotSentIsTrue ==
    \A m \in Messages : result[m] = "not_sent" \/ e.sent[m] = "failed" => m \notin flight /\ at[m] = "none"

\* No message is written after the accounts it was meant for have changed
\* (beforeSend of send_to_claude_session, on the open connection).
AccountHolds == [][\A m \in flight' \ flight : account = chosen[m]]_vars

\* A worker that hands over has cut no frame of the session off: what came
\* during the reload was handled, or the reload failed (quiesce).
ReloadCutsNothing == phase \in {"quiesced", "restored"} => ~dropped

\* Every record ever published is in the inbox or was read from it, across
\* reloads (exportReloadState, restoreReloadState).
InboxIsWhole == e.sequence = Len(e.inbox) + drained

\* Every call returns (sendAndWait).
Ends == \A m \in Messages : pc[m] = "queued" ~> pc[m] = "done"

\* A pending message whose outcome is in the transcript is released, whether
\* anyone asks for it or not, and after a reload (#refreshTranscriptReplies).
Noticed ==
    \A m \in Messages : m \in e.pending /\ at[m] \in {"answered", "interrupted"} ~> m \notin e.pending
=============================================================================
