-------------------------------- MODULE Remote --------------------------------
(***************************************************************************)
(* The ways to Antigravity and of remote access: the hand-off of a remote  *)
(* task, the delivery to Antigravity Desktop (A), the sessions of its      *)
(* command line (C), what Antigravity sends to Claude and Codex (O) and    *)
(* the connector of the paired site (S).  One component, part, runs in a   *)
(* behaviour: the components share no state.                               *)
(***************************************************************************)
EXTENDS RemoteHandoff

CONSTANTS
    Parts,      \* the components that are run
    Prompts, Conversations, Sidecars, For, MaxLost,
    Starts, Sends, Home, Capacity,
    Works, Origin, ToClaude, WorkChanges, WorkReloads, WorkCrashes,
    Jobs, Key(_), Procs, JobCrashes, MaxFaults

VARIABLE part

VARIABLES a_life, a_receipt, a_stage, a_owner, a_sending, a_looking, a_handed, a_replied,
    a_running, a_told
aVars == <<a_life, a_receipt, a_stage, a_owner, a_sending, a_looking, a_handed, a_replied,
    a_running, a_told>>
A == INSTANCE AntigravityDelivery WITH
    Requests <- Prompts, Of <- For, life <- a_life, receipt <- a_receipt,
    stage <- a_stage, owner <- a_owner, sending <- a_sending, looking <- a_looking,
    handed <- a_handed, replied <- a_replied, running <- a_running, told <- a_told

VARIABLES c_status, c_delivery, c_pending, c_child, c_work, c_closing, c_stage, c_outcome,
    c_gave, c_written, c_open, c_reserved
cVars == <<c_status, c_delivery, c_pending, c_child, c_work, c_closing, c_stage, c_outcome,
    c_gave, c_written, c_open, c_reserved>>
C == INSTANCE AntigravityCli WITH
    status <- c_status, delivery <- c_delivery, pending <- c_pending,
    child <- c_child, work <- c_work, closing <- c_closing, stage <- c_stage,
    outcome <- c_outcome, gave <- c_gave, written <- c_written, open <- c_open,
    reserved <- c_reserved

VARIABLES o_acct, o_perm, o_session, o_pc, o_ctx, o_delivered, o_record, o_linked, o_msg,
    o_receipts, o_changes, o_reloads, o_crashes
oVars == <<o_acct, o_perm, o_session, o_pc, o_ctx, o_delivered, o_record, o_linked, o_msg,
    o_receipts, o_changes, o_reloads, o_crashes>>
O == INSTANCE AntigravityOutbound WITH
    Requests <- Works, Sender <- Origin, Claude <- ToClaude, MaxChanges <- WorkChanges,
    MaxReloads <- WorkReloads, MaxCrashes <- WorkCrashes, acct <- o_acct, perm <- o_perm,
    session <- o_session, pc <- o_pc, ctx <- o_ctx, delivered <- o_delivered,
    record <- o_record, linked <- o_linked, msg <- o_msg, receipts <- o_receipts,
    changes <- o_changes, reloads <- o_reloads, crashes <- o_crashes

VARIABLES s_pairing, s_row, s_stored, s_old, s_late, s_file, s_pc, s_job, s_out, s_todo, s_sent,
    s_crashes, s_faults
sVars == <<s_pairing, s_row, s_stored, s_old, s_late, s_file, s_pc, s_job, s_out, s_todo, s_sent,
    s_crashes, s_faults>>
S == INSTANCE SiteConnector WITH
    MaxCrashes <- JobCrashes, pairing <- s_pairing, row <- s_row,
    stored <- s_stored, old <- s_old, late <- s_late, file <- s_file, pc <- s_pc, job <- s_job,
    out <- s_out, todo <- s_todo, sent <- s_sent, crashes <- s_crashes, faults <- s_faults

ASSUME RemoteAssumption ==
    A!AntigravityAssumption /\ C!CliAssumption /\ O!OutboundAssumption /\ S!SiteAssumption

SuiteInit ==
    /\ part \in Parts
    /\ Init /\ (part # "handoff" => account = CHOOSE a \in Accounts : TRUE)
    /\ A!Init
    /\ C!Init
    /\ O!Init
    /\ S!Init

\* Only the component that was chosen takes steps.
SuiteNext ==
    \/ part = "handoff" /\ Next /\ UNCHANGED <<part, aVars, cVars, oVars, sVars>>
    \/ part = "antigravity" /\ A!Next /\ UNCHANGED <<part, vars, cVars, oVars, sVars>>
    \/ part = "cli" /\ C!Next /\ UNCHANGED <<part, vars, aVars, oVars, sVars>>
    \/ part = "outbound" /\ O!Next /\ UNCHANGED <<part, vars, aVars, cVars, sVars>>
    \/ part = "site" /\ S!Next /\ UNCHANGED <<part, vars, aVars, cVars, oVars>>

SuiteSpec == SuiteInit /\ [][SuiteNext]_<<part, vars, aVars, cVars, oVars, sVars>>

\* The fairness of each component's FairSpec, while it is the one that runs.
FairSuite ==
    /\ SuiteSpec
    /\ \A c \in Calls : WF_vars(part = "handoff" /\ Timeout(c))
    /\ \A c \in Calls : WF_vars(part = "handoff" /\ Handle(c))
    /\ \A s \in Sidecars : WF_aVars(part = "antigravity" /\ A!Start(s))
    /\ \A r \in Prompts : WF_aVars(part = "antigravity" /\ A!Operate(r))
    /\ \A c \in Conversations : WF_aVars(part = "antigravity" /\ A!Rest(c))
    /\ \A s \in Sidecars, r \in Prompts : WF_aVars(part = "antigravity" /\ A!Look(s, r))
    /\ \A s \in Sidecars, r \in Prompts : WF_aVars(part = "antigravity" /\ A!Refresh(s, r))
    /\ \A p \in Starts \cup Sends : WF_cVars(part = "cli" /\ C!Verify(p))
    /\ \A p \in Starts \cup Sends : WF_cVars(part = "cli" /\ C!Send(p))
    /\ \A k \in Starts : WF_cVars(part = "cli" /\ C!Begin(k))
    /\ \A k \in Starts : WF_cVars(part = "cli" /\ C!Cleanup(k))
    /\ \A k \in Starts : WF_cVars(part = "cli" /\ C!Leave(k))
    /\ \A k \in Starts : WF_cVars(part = "cli" /\ C!TurnTimeout(k))
    /\ \A k \in Starts : WF_cVars(part = "cli" /\ C!Closed(k))
    /\ \A k \in Starts : WF_cVars(part = "cli" /\ C!CloseTold(k))
    /\ \A k \in Starts : WF_cVars(part = "cli" /\ c_status[k] = "starting" /\ C!Fails(k))
    /\ \A k \in Starts : WF_cVars(part = "cli" /\ c_child[k] = "told" /\ C!Dies(k))
    /\ \A r \in Works : WF_oVars(part = "outbound" /\ O!Operate(r))
    /\ \A p \in Procs : WF_sVars(part = "site" /\ S!Working(p))

-----------------------------------------------------------------------------

\* However often a request is repeated, its prompt is handed over at most once: to
\* Antigravity (AntigravityDelivery) and by the connector of a site (SiteConnector).
HandedOnce == A!AtMostOnce /\ S!AtMostOnce

\* What a receipt says is so: of a delivery to Antigravity (AntigravityDelivery), of a
\* request to its command line (AntigravityCli), of what it sends itself
\* (AntigravityOutbound) and of a job of the site (SiteConnector).
ReceiptsAreTrue == A!TellsTheTruth /\ C!NotSentIsTrue /\ O!NotSentIsTrue /\ S!TellsTheTruth

\* Places for sessions are never leaked or given twice, and a result goes to its own
\* prompt (AntigravityCli).
PlacesHold == C!PlacesHold /\ C!OwnResult

\* Work is accepted only as it was checked, and an idle worker can always be
\* reloaded with its receipts (AntigravityOutbound).
AcceptedAsChecked == O!AcceptedAsChecked /\ O!ReceiptIsOwners /\ O!AlwaysRestorable

\* Every call is answered, or a caller that keeps asking learns of its reply
\* (RemoteHandoff, AntigravityDelivery, AntigravityCli, AntigravityOutbound,
\* SiteConnector).
EveryCallEnds ==
    Settles /\ A!Ends /\ A!Reported /\ C!Answered /\ C!NoStrays /\ O!Settled /\ S!Uploaded

\* What recover() says of a started entry, that the connector stopped after claiming
\* it, is so: no process is still at work on that request (SiteConnector).
StoppedIsTrue == S!StoppedIsTrue

===============================================================================
