----------------------------- MODULE RemoteHandoff -----------------------------
(***************************************************************************)
(* A prompt sent to Codex Desktop on another computer: the remote_codex    *)
(* tool, SSH, the receiver and the companion's handler, all in             *)
(* src/src/remote-codex.mjs and src/src/remote-codex-tools.mjs, with the   *)
(* receipts of src/src/native-creation-receipts.mjs.                       *)
(*                                                                         *)
(* Every call repeats one request ID.  A call may lose its way before or   *)
(* after the handler, its deadlines may pass while the handler goes on,    *)
(* the companion may die, and the receiving account, the project and the   *)
(* task's place in it may change between any two steps of the handler,     *)
(* each of which awaits Codex Desktop.                                     *)
(*                                                                         *)
(* Operators whose names end in Mutant are wrong versions of the operator  *)
(* that follows them, for the model checker to tell apart.                 *)
(***************************************************************************)
EXTENDS Naturals, FiniteSets

CONSTANTS
    Calls, None,
    Accounts,   \* that may be signed in on the receiving computer
    MaxChanges, MaxCrashes  \* bounds

ASSUME HandoffAssumption ==
    None \notin Calls /\ Accounts # {} /\ {MaxChanges, MaxCrashes} \subseteq Nat

VARIABLES
    client,     \* of each call: idle, waiting, or what it returned
    pc,         \* of its handler
    acc,        \* the account its handler captured
    reply,      \* what the handler answered
    receipt,    \* the file of the request ID
    account, place, member, \* signed in; the project and its repository are the
                            \* ones asked for; the task is listed in the project
    sent, by,   \* how often the prompt was sent, and by which call's handler
    changes, crashes

handler == <<pc, acc, reply, receipt>>
world   == <<account, place, member, changes>>
vars    == <<client, handler, world, sent, by, crashes>>

NoReceipt == [state |-> "none", acc |-> None]
Outcomes == {"submitted", "unconfirmed", "refused", "changed"}

-----------------------------------------------------------------------------
(* The calling side *)

\* exchangeRemoteRequest(): ssh is spawned; the request may get lost on the way.
Call(c) ==
    /\ client[c] = "idle" /\ client' = [client EXCEPT ![c] = "waiting"]
    /\ \E l \in {"start", "lost"} : pc' = [pc EXCEPT ![c] = l]
    /\ UNCHANGED <<acc, reply, receipt, world, sent, by, crashes>>

\* The answer of the handler through the receiver and ssh.  The tool then checks
\* its own side, and a change there takes the place of the answer.
Hear(c) ==
    /\ client[c] = "waiting" /\ pc[c] = "answered"
    /\ \E r \in {reply[c], "changed"} : client' = [client EXCEPT ![c] = r]
    /\ UNCHANGED <<handler, world, sent, by, crashes>>

\* The socket's 30 seconds or the 35 of ssh are over, or either breaks.
SaysMutant == "refused"
Says == "unconfirmed"

Timeout(c) ==
    /\ client[c] = "waiting" /\ client' = [client EXCEPT ![c] = Says]
    /\ UNCHANGED <<handler, world, sent, by, crashes>>

-----------------------------------------------------------------------------
(* handleRemoteRequest() *)

Goto(c, l) == pc' = [pc EXCEPT ![c] = l]
Answer(c, r) == Goto(c, "answered") /\ reply' = [reply EXCEPT ![c] = r]

\* check()
Good(c) == account = acc[c] /\ place
\* inspect(): project, task and list.
Target(c) == Good(c) /\ member

\* The account is captured, and check() passes for it.
Start(c) ==
    /\ pc[c] = "start" /\ acc' = [acc EXCEPT ![c] = account]
    /\ IF place THEN Goto(c, "inspect") /\ reply' = reply ELSE Answer(c, "refused")
    /\ UNCHANGED <<receipt, client, world, sent, by, crashes>>

\* The receipt of another account, or one that was cut short, cannot be read.
Readable(c) == receipt.state # "torn" /\ receipt.acc = acc[c]

\* reserve() creates the receipt exclusively.
FreeMutant == receipt.state \notin {"pending", "completed"}
Free == receipt.state = "none"

Reserve(c) ==
    /\ pc[c] = "inspect"
    /\ IF ~Target(c) THEN Answer(c, "refused") /\ UNCHANGED receipt
       ELSE IF Free THEN Goto(c, "reserved") /\ receipt' = [state |-> "pending", acc |-> acc[c]] /\ reply' = reply
       ELSE /\ Answer(c, IF ~Readable(c) THEN "refused"
                         ELSE IF receipt.state = "completed" THEN "submitted" ELSE "unconfirmed")
            /\ UNCHANGED receipt
    /\ UNCHANGED <<acc, client, world, sent, by, crashes>>

\* After the reservation every failure leaves a failed receipt.
FailMutant(c) ==
    /\ pc[c] \in {"reserved", "guard", "sent"} /\ Answer(c, "unconfirmed")
    /\ UNCHANGED <<receipt, acc, client, world, sent, by, crashes>>

Fail(c) ==
    /\ pc[c] \in {"reserved", "guard", "sent"}
    /\ receipt' = [receipt EXCEPT !.state = "failed"] /\ Answer(c, "unconfirmed")
    /\ UNCHANGED <<acc, client, world, sent, by, crashes>>

Inspect(c) ==
    /\ pc[c] = "reserved" /\ Target(c) /\ Goto(c, "guard")
    /\ UNCHANGED <<acc, reply, receipt, client, world, sent, by, crashes>>

\* beforeSend: inspect(), then check() as the prompt is written.
Guard(c) == Good(c)

Send(c) ==
    /\ pc[c] = "guard" /\ Guard(c)
    /\ sent' = sent + 1 /\ by' = by \cup {c} /\ Goto(c, "sent")
    /\ UNCHANGED <<acc, reply, receipt, client, world, crashes>>

Complete(c) ==
    /\ pc[c] = "sent" /\ Target(c)
    /\ receipt' = [receipt EXCEPT !.state = "completed"] /\ Answer(c, "submitted")
    /\ UNCHANGED <<acc, client, world, sent, by, crashes>>

-----------------------------------------------------------------------------

\* The companion dies with its handlers; a reservation may be cut short.
Crash ==
    /\ crashes < MaxCrashes /\ crashes' = crashes + 1
    /\ \/ receipt' = receipt
       \/ /\ \E c \in Calls : pc[c] = "inspect" /\ Target(c) /\ Free /\ receipt' = [state |-> "torn", acc |-> acc[c]]
    /\ pc' = [c \in Calls |-> IF pc[c] \in {"idle", "start"} THEN pc[c] ELSE "lost"]
    /\ UNCHANGED <<acc, reply, client, world, sent, by>>

Change ==
    /\ changes < MaxChanges /\ changes' = changes + 1
    /\ \/ account' \in Accounts \ {account} /\ UNCHANGED <<place, member>>
       \/ place' = ~place /\ UNCHANGED <<account, member>>
       \/ member' = ~member /\ UNCHANGED <<account, place>>
    /\ UNCHANGED <<client, handler, sent, by, crashes>>

Init ==
    /\ client = [c \in Calls |-> "idle"] /\ pc = client /\ acc = [c \in Calls |-> None]
    /\ reply = [c \in Calls |-> "none"] /\ receipt = NoReceipt
    /\ account \in Accounts /\ place = TRUE /\ member = TRUE
    /\ sent = 0 /\ by = {} /\ changes = 0 /\ crashes = 0

Handle(c) == Start(c) \/ Reserve(c) \/ Fail(c) \/ Inspect(c) \/ Send(c) \/ Complete(c)

Next ==
    \/ \E c \in Calls : Call(c) \/ Hear(c) \/ Timeout(c) \/ Handle(c)
    \/ Crash \/ Change

Spec == Init /\ [][Next]_vars

\* Timers fire; the calls a handler awaits return or fail.
FairSpec == Spec /\ \A c \in Calls : WF_vars(Timeout(c)) /\ WF_vars(Handle(c))

-----------------------------------------------------------------------------

TypeOK ==
    /\ client \in [Calls -> Outcomes \cup {"idle", "waiting"}]
    /\ pc \in [Calls -> {"idle", "lost", "start", "inspect", "reserved", "guard", "sent", "answered"}]
    /\ acc \in [Calls -> Accounts \cup {None}] /\ reply \in [Calls -> Outcomes \cup {"none"}]
    /\ receipt \in [state : {"none", "torn", "pending", "completed", "failed"}, acc : Accounts \cup {None}]
    /\ account \in Accounts /\ place \in BOOLEAN /\ member \in BOOLEAN
    /\ sent \in Nat /\ by \subseteq Calls /\ changes \in Nat /\ crashes \in Nat

\* However often the request ID is sent again, after a timeout, a crash of the
\* companion or a change of account, the prompt is written at most once.
AtMostOnce == sent <= 1

\* A call that returns submitted, from its own send or from the receipt, is right:
\* the prompt was sent.  One that is refused did not send it.
TellsTheTruth ==
    \A c \in Calls :
        /\ client[c] = "submitted" => sent = 1 /\ receipt.state = "completed"
        /\ client[c] = "refused" => c \notin by

\* Every call returns, and a reservation does not stay pending while its companion
\* lives.
Settles ==
    /\ \A c \in Calls : client[c] = "waiting" ~> client[c] \in Outcomes
    /\ receipt.state = "pending" ~> receipt.state # "pending" \/ crashes > 0

=============================================================================
