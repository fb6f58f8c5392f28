------------------------ MODULE AntigravityOutbound ------------------------
(***************************************************************************)
(* Work handed on by an Antigravity conversation: send_to_agent_task and   *)
(* read_agent_delivery of src/src/antigravity-outbound-bridge.mjs over the *)
(* targets of src/src/antigravity-outbound-targets.mjs, and the choice of  *)
(* a Claude session in src/src/claude-session-router.mjs.                  *)
(*                                                                         *)
(* Between any two awaits of a send the user may change the account or the *)
(* sender's permissions, the recipient's process may be replaced, and      *)
(* other conversations send to the same session.  The peer's maps and the  *)
(* targets' own receipts must agree when the worker is reloaded.           *)
(* Operators named ...Mutant are faulty variants for the mutation runs.    *)
(***************************************************************************)
EXTENDS Naturals, FiniteSets

CONSTANTS Requests,
          Sender,       \* the conversation of each
          Claude,       \* the requests to the Claude session; the others go to a Codex task
          MaxChanges,   \* bound: changes of account, permissions and session
          MaxReloads, MaxCrashes

Nobody == 0
OutboundAssumption ==
  /\ Claude \subseteq Requests /\ Nobody \notin Requests
  /\ \A r \in Requests : Sender[r] # Nobody
  /\ {MaxChanges, MaxReloads, MaxCrashes} \subseteq Nat
Senders == {Sender[r] : r \in Requests}

VARIABLES
  acct, perm,   \* the account, each sender's permissions: a number for every change
  session,      \* the live process of the Claude session, Nobody if it is closed
  pc,           \* of each request's operation
  ctx,          \* the identity and account a request began with, and the session it chose
  delivered,    \* the circumstances in which a request reached its recipient
  record,       \* its durable receipt
  linked,       \* the request whose native message the receipt names
  msg,          \* the peer's own state of the request's message
  receipts,     \* the targets' map from a message to its sender
  changes, reloads, crashes
world == <<acct, perm, session>>
memory == <<msg, receipts>>
bounds == <<changes, reloads, crashes>>
vars == <<world, pc, ctx, delivered, record, linked, memory, bounds>>

Nothing == [acct |-> Nobody, perm |-> Nobody, session |-> Nobody]
Init ==
  /\ acct = 1 /\ perm = [s \in Senders |-> 1] /\ session = 1
  /\ pc = [r \in Requests |-> "new"] /\ ctx = [r \in Requests |-> Nothing]
  /\ delivered = [r \in Requests |-> Nothing]
  /\ record = [r \in Requests |-> "none"] /\ linked = [r \in Requests |-> Nobody]
  /\ msg = [r \in Requests |-> "none"] /\ receipts = [r \in Requests |-> Nobody]
  /\ changes = 0 /\ reloads = 0 /\ crashes = 0

Go(r, step) == pc' = [pc EXCEPT ![r] = step]
Settle(r, outcome) == Go(r, "done") /\ record' = [record EXCEPT ![r] = outcome]
\* A receipt is kept for every message the peer kept, by the sender of the request.
Own(r) == receipts' = [receipts EXCEPT ![r] = Sender[r]]
Active(r) == pc[r] \notin {"new", "done"}

CheckMutant(r) == perm[Sender[r]] = ctx[r].perm
\* operation().check: the account and the sender are the ones the request began with.
Check(r) == acct = ctx[r].acct /\ perm[Sender[r]] = ctx[r].perm
----------------------------------------------------------------------------
\* sender(): who asks, with the permissions of the conversation.
Resolve(r) == ctx' = [ctx EXCEPT ![r].perm = perm[Sender[r]]]

\* The sender is resolved, then dispatch() writes the pending receipt.
Dispatch(r) ==
  /\ pc[r] = "new" /\ Go(r, "begin")
  /\ Resolve(r)
  /\ record' = [record EXCEPT ![r] = "pending"]
  /\ UNCHANGED <<world, delivered, linked, memory, bounds>>

\* The sender is checked again and operation() takes the account.
Begin(r) ==
  /\ pc[r] = "begin"
  /\ IF perm[Sender[r]] = ctx[r].perm
     THEN ctx' = [ctx EXCEPT ![r].acct = acct] /\ Go(r, "locate") /\ UNCHANGED record
     ELSE Settle(r, "not_sent") /\ UNCHANGED ctx
  /\ UNCHANGED <<world, delivered, linked, memory, bounds>>

\* recoverClaudeDesktopSession only ever finds a session that is already live.
Recoverable(r) == r \in Claude => session # Nobody

LocateMutant(r) ==
  /\ pc[r] = "locate" /\ Check(r) /\ Recoverable(r)
  /\ ctx' = [ctx EXCEPT ![r].session = IF r \in Claude THEN session ELSE Nobody]
  /\ Go(r, IF r \in Claude THEN "queue" ELSE "verify")
  /\ UNCHANGED <<world, delivered, record, linked, memory, bounds>>
\* The exact recipient, or a refusal: another project, class or inbound policy, a
\* session that is closed or ambiguous.  No session is ever opened.
Locate(r) ==
  /\ pc[r] = "locate"
  /\ \/ Check(r) /\ Recoverable(r)
        /\ ctx' = [ctx EXCEPT ![r].session = IF r \in Claude THEN session ELSE Nobody]
        /\ Go(r, IF r \in Claude THEN "queue" ELSE "verify") /\ UNCHANGED record
     \/ Settle(r, "not_sent") /\ UNCHANGED ctx
  /\ UNCHANGED <<world, delivered, linked, memory, bounds>>

\* The peer's queue for a session admits one send at a time.
Sending(r) == pc[r] \in {"verify", "write"} /\ r \in Claude
Outstanding(r) == {q \in Claude \ {r} : ctx[q].session = ctx[r].session /\ msg[q] \in {"waiting", "uncertain"}}

EnqueueMutant(r) ==
  /\ pc[r] = "queue" /\ \A q \in Requests : ~(Sending(q) /\ ctx[q].session = ctx[r].session)
  /\ \/ /\ Check(r) /\ session = ctx[r].session /\ Outstanding(r) = {}
        /\ Go(r, "verify") /\ msg' = [msg EXCEPT ![r] = "sending"]
        /\ UNCHANGED <<record, linked, receipts>>
     \/ /\ Check(r) /\ session = ctx[r].session
        /\ \E q \in Outstanding(r) : linked' = [linked EXCEPT ![r] = q] /\ receipts' = [receipts EXCEPT ![q] = Sender[r]]
        /\ Settle(r, "not_sent") /\ UNCHANGED msg
     \/ ~(Check(r) /\ session = ctx[r].session) /\ Settle(r, "not_sent") /\ UNCHANGED <<linked, memory>>
  /\ UNCHANGED <<world, ctx, delivered, bounds>>
\* Checks, then the peer keeps the message; or it is refused while another one
\* still waits for its answer (PEER_REPLY_PENDING names that one).
Enqueue(r) ==
  /\ pc[r] = "queue" /\ \A q \in Requests : ~(Sending(q) /\ ctx[q].session = ctx[r].session)
  /\ \/ /\ Check(r) /\ session = ctx[r].session /\ Outstanding(r) = {}
        /\ Go(r, "verify") /\ msg' = [msg EXCEPT ![r] = "sending"]
        /\ UNCHANGED <<record, linked>>
     \/ /\ Check(r) /\ session = ctx[r].session
        /\ \E q \in Outstanding(r) : linked' = [linked EXCEPT ![r] = q]
        /\ Settle(r, "not_sent") /\ UNCHANGED msg
     \/ ~(Check(r) /\ session = ctx[r].session) /\ Settle(r, "not_sent") /\ UNCHANGED <<linked, msg>>
  /\ UNCHANGED <<world, ctx, delivered, receipts, bounds>>

RefusedMutant(r) ==
  /\ msg' = IF r \in Claude THEN [msg EXCEPT ![r] = "failed"] ELSE msg
  /\ UNCHANGED <<receipts, linked>>
\* A send that failed before it was written; the peer keeps its message as failed,
\* and so must the targets.
Refused(r) ==
  IF r \in Claude
  THEN msg' = [msg EXCEPT ![r] = "failed"] /\ Own(r) /\ linked' = [linked EXCEPT ![r] = r]
  ELSE UNCHANGED <<memory, linked>>

\* The check just before the write: the account, the sender, the same recipient.
Verify(r) ==
  /\ pc[r] = "verify"
  /\ \/ Check(r) /\ (r \in Claude => session = ctx[r].session)
        /\ Go(r, "write") /\ UNCHANGED <<record, memory, linked>>
     \/ Settle(r, "not_sent") /\ Refused(r)
  /\ UNCHANGED <<world, ctx, delivered, bounds>>

Circumstances(r) == [acct |-> acct, perm |-> perm[Sender[r]], session |-> IF r \in Claude THEN session ELSE Nobody]

\* The write.  Claude's socket is that of the chosen process; the companion refuses
\* another account.  What broke the connection after the write stays unknown.
Write(r) ==
  /\ pc[r] = "write"
  /\ LET reaches == IF r \in Claude THEN session = ctx[r].session ELSE acct = ctx[r].acct IN
     \/ /\ reaches /\ delivered' = [delivered EXCEPT ![r] = Circumstances(r)]
        /\ Go(r, "answered") /\ msg' = [msg EXCEPT ![r] = IF r \in Claude THEN "waiting" ELSE @]
        /\ IF r \in Claude THEN Own(r) /\ linked' = [linked EXCEPT ![r] = r] ELSE UNCHANGED <<receipts, linked>>
        /\ UNCHANGED record
     \/ /\ \/ reaches /\ delivered' = [delivered EXCEPT ![r] = Circumstances(r)]
           \/ UNCHANGED delivered
        /\ Settle(r, "unknown")
        /\ IF r \in Claude
           THEN msg' = [msg EXCEPT ![r] = "uncertain"] /\ Own(r) /\ linked' = [linked EXCEPT ![r] = r]
           ELSE UNCHANGED <<memory, linked>>
     \/ UNCHANGED delivered /\ Settle(r, "not_sent") /\ Refused(r)
  /\ UNCHANGED <<world, ctx, bounds>>

AnswerMutant(r) ==
  /\ pc[r] = "answered" /\ Settle(r, IF Check(r) THEN "accepted" ELSE "not_sent")
  /\ UNCHANGED <<world, ctx, delivered, linked, memory, bounds>>
\* The answer counts only for the account and the sender the request began with.
Answer(r) ==
  /\ pc[r] = "answered" /\ Settle(r, IF Check(r) THEN "accepted" ELSE "unknown")
  /\ UNCHANGED <<world, ctx, delivered, linked, memory, bounds>>

\* Claude's answer is found in its transcript (PeerDelivery has how).
Reply(r) ==
  /\ msg[r] \in {"waiting", "uncertain"} /\ delivered[r] # Nothing
  /\ msg' = [msg EXCEPT ![r] = "replied"]
  /\ UNCHANGED <<world, pc, ctx, delivered, record, linked, receipts, bounds>>
----------------------------------------------------------------------------
\* inspect(): no delivery is active and no message is uncertain.
Reloadable == ~(\E r \in Requests : Active(r)) /\ \A r \in Requests : msg[r] \notin {"sending", "uncertain"}
Kept == {r \in Requests : msg[r] # "none"}
\* restoreReloadState: the receipts must be those of the peer's messages.
Restorable == Kept = {r \in Requests : receipts[r] # Nobody}

ReloadedMutant(r) == IF msg[r] = "waiting" THEN receipts[r] ELSE Nobody
\* Each exported receipt is restored.
Reloaded(r) == receipts[r]

Reload ==
  /\ Reloadable /\ reloads < MaxReloads /\ reloads' = reloads + 1
  /\ receipts' = IF Restorable THEN [r \in Requests |-> Reloaded(r)] ELSE receipts
  /\ UNCHANGED <<world, pc, ctx, delivered, record, linked, msg, changes, crashes>>

\* A killed worker loses its maps; a pending receipt is read as unknown from then on.
Crash ==
  /\ crashes < MaxCrashes /\ crashes' = crashes + 1
  /\ pc' = [r \in Requests |-> IF Active(r) THEN "done" ELSE pc[r]]
  /\ record' = [r \in Requests |-> IF Active(r) THEN "unknown" ELSE record[r]]
  /\ msg' = [r \in Requests |-> "none"] /\ receipts' = [r \in Requests |-> Nobody]
  /\ UNCHANGED <<world, ctx, delivered, linked, changes, reloads>>

\* The user changes the account or a sender's permissions; a session ends or starts.
Change ==
  /\ changes < MaxChanges /\ changes' = changes + 1
  /\ \/ acct' = acct + 1 /\ UNCHANGED <<perm, session>>
     \/ \E s \in Senders : perm' = [perm EXCEPT ![s] = @ + 1] /\ UNCHANGED <<acct, session>>
     \/ session' = (IF session = Nobody THEN changes + 2 ELSE Nobody) /\ UNCHANGED <<acct, perm>>
  /\ UNCHANGED <<pc, ctx, delivered, record, linked, memory, reloads, crashes>>

Operate(r) == Begin(r) \/ Locate(r) \/ Enqueue(r) \/ Verify(r) \/ Write(r) \/ Answer(r)
Next ==
  \/ \E r \in Requests : Dispatch(r) \/ Operate(r) \/ Reply(r)
  \/ Reload \/ Crash \/ Change
Spec == Init /\ [][Next]_vars
\* Every await of an operation ends: the relay and the peer have deadlines.
FairSpec == Spec /\ \A r \in Requests : WF_vars(Operate(r))
----------------------------------------------------------------------------
\* A receipt says "not sent" only of work that never reached its recipient
\* (antigravity-outbound-targets.mjs:219-222, 246-252; antigravity-deliveries.mjs:126-128).
NotSentIsTrue == \A r \in Requests : record[r] = "not_sent" => delivered[r] = Nothing

\* Accepted work was delivered for the account, the permissions and to the process
\* the request was checked for, although each may change at every await (lines 89-94, 231-245).
AcceptedAsChecked == \A r \in Requests : record[r] = "accepted" => delivered[r] = ctx[r]

\* The receipt of a message stays with the conversation that sent it, also when
\* another conversation is refused because of it (lines 242, 247).
ReceiptIsOwners == \A r \in Requests : receipts[r] \in {Nobody, Sender[r]}

\* An idle worker can always be reloaded: its receipts are those of the peer's
\* messages, failed ones included (lines 317-318).
AlwaysRestorable == Reloadable => Restorable

\* A receipt that names its native message stays readable until the worker dies.
StaysReadable ==
  \A r \in Requests : pc[r] = "done" /\ linked[r] = r /\ crashes = 0 => receipts[r] = Sender[r]

\* Every request that was dispatched is settled.
Settled == \A r \in Requests : pc[r] = "begin" ~> pc[r] = "done"
=============================================================================
