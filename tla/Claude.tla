-------------------------------- MODULE Claude --------------------------------
(***************************************************************************)
(* The way to Claude: the queue of texts for a session, with any number of *)
(* processes and (Q) with one; the peer protocol of Claude Desktop (P);    *)
(* and the forwarding of replies to Codex (F).  One component, part, runs  *)
(* in a behaviour and the others stay as they are at first: they share no  *)
(* state.  MCClaude adds the transcript that a reply is read from.         *)
(***************************************************************************)
EXTENDS QueuedDelivery

CONSTANTS
    Parts,      \* the components that are run
    None,
    Process, Task,      \* the one process of Q, and the session it runs in
    SoloIds, SoloTexts, SoloTo, SoloActive, SoloPerRecipient, SoloFaults, SoloCrashes,
    Messages, Transcript, Attempts, MaxReloads, MaxOther,
    Replies, Limit, ForwarderReloads

VARIABLE part

VARIABLES q_file, q_claims, q_born, q_passed, q_pc, q_todo, q_job, q_next, q_draft, q_answered,
    q_sends, q_robbed, q_faults, q_crashes
qVars == <<q_file, q_claims, q_born, q_passed, q_pc, q_todo, q_job, q_next, q_draft, q_answered,
    q_sends, q_robbed, q_faults, q_crashes>>
Q == INSTANCE QueuedDelivery WITH
    Ids <- SoloIds, Texts <- SoloTexts, To <- SoloTo,
    Drains <- {Process}, Home <- [d \in {Process} |-> Task], Senders <- {Process},
    MaxActive <- SoloActive, MaxPerRecipient <- SoloPerRecipient,
    MaxFaults <- SoloFaults, MaxCrashes <- SoloCrashes,
    file <- q_file, claims <- q_claims, born <- q_born, passed <- q_passed,
    pc <- q_pc, todo <- q_todo, job <- q_job, next <- q_next, draft <- q_draft,
    answered <- q_answered, sends <- q_sends, robbed <- q_robbed,
    faults <- q_faults, crashes <- q_crashes

VARIABLES p_e, p_pc, p_tries, p_queue, p_chosen, p_checking, p_result, p_gave, p_account, p_at,
    p_flight, p_backlog, p_open, p_others, p_phase, p_raced, p_dropped, p_drained,
    p_reloads
pVars == <<p_e, p_pc, p_tries, p_queue, p_chosen, p_checking, p_result, p_gave, p_account, p_at,
    p_flight, p_backlog, p_open, p_others, p_phase, p_raced, p_dropped, p_drained,
    p_reloads>>
P == INSTANCE PeerDelivery WITH
    e <- p_e, pc <- p_pc, tries <- p_tries,
    queue <- p_queue, chosen <- p_chosen, checking <- p_checking, result <- p_result,
    gave <- p_gave, account <- p_account, at <- p_at, flight <- p_flight, backlog <- p_backlog,
    open <- p_open, others <- p_others, phase <- p_phase, raced <- p_raced,
    dropped <- p_dropped, drained <- p_drained, reloads <- p_reloads

VARIABLES f_status, f_queue, f_active, f_timer, f_attempts, f_closed, f_max, f_rested, f_step,
    f_arrived, f_sent, f_came, f_reloads
fVars == <<f_status, f_queue, f_active, f_timer, f_attempts, f_closed, f_max, f_rested, f_step,
    f_arrived, f_sent, f_came, f_reloads>>
F == INSTANCE ReplyForwarder WITH
    MaxReloads <- ForwarderReloads,
    status <- f_status, queue <- f_queue, active <- f_active, timer <- f_timer,
    attempts <- f_attempts, closed <- f_closed, max <- f_max, rested <- f_rested,
    step <- f_step, arrived <- f_arrived, sent <- f_sent, came <- f_came, reloads <- f_reloads

ASSUME ClaudeAssumption ==
    QueueAssumption /\ Q!QueueAssumption /\ P!PeerAssumption /\ F!ForwarderAssumption

SuiteInit ==
    /\ part \in Parts
    /\ Init
    /\ Q!Init
    /\ P!Init
    /\ F!Init /\ (part # "forwarder" => f_max = CHOOSE l \in Limit : TRUE)

\* Only the component that was chosen takes steps.
SuiteNext ==
    \/ part = "queue" /\ Next /\ UNCHANGED <<part, qVars, pVars, fVars>>
    \/ part = "solo" /\ Q!Next /\ UNCHANGED <<part, vars, pVars, fVars>>
    \/ part = "peer" /\ P!Next /\ UNCHANGED <<part, vars, qVars, fVars>>
    \/ part = "forwarder" /\ F!Next /\ UNCHANGED <<part, vars, qVars, pVars>>

SuiteSpec == SuiteInit /\ [][SuiteNext]_<<part, vars, qVars, pVars, fVars>>

\* The fairness of each component's FairSpec, while it is the one that runs.
SuiteFairness ==
    /\ \A d \in Drains : WF_vars(part = "queue" /\ Tick(d))
    /\ \A s \in Senders : WF_vars(part = "queue" /\ WriteEntry(s))
    /\ \A i \in Ids : WF_vars(part = "queue" /\ TimePasses(i, "ttl"))
    /\ \A i \in Ids : SF_vars(part = "queue" /\ TimePasses(i, "uncertain"))
    /\ \A m \in Messages : WF_pVars(part = "peer" /\ P!Sending(m))
    /\ \A m \in Messages : WF_pVars(part = "peer" /\ P!Verified(m))
    /\ WF_pVars(part = "peer" /\ P!Observe)
    /\ WF_pVars(part = "peer" /\ P!Reloading)
    /\ \A f \in P!Frames : WF_pVars(part = "peer" /\ P!Accept(f))
    /\ \A f \in P!Frames : WF_pVars(part = "peer" /\ P!Data(f))
    /\ WF_fVars(part = "forwarder" /\ F!Fire)
    /\ WF_fVars(part = "forwarder" /\ F!Forward)
    /\ WF_fVars(part = "forwarder" /\ F!Rest)

-----------------------------------------------------------------------------

\* A sender is told the truth about its text, and no text is queued twice or beyond
\* the limits, with one process that drains the queue (QueuedDelivery).
ReceiptsAreTrue == Q!ReceiptsAreTruthful /\ Q!NoDuplicates /\ Q!LimitsHold

\* What the session sends answers only the message it is for, also where it sends
\* something unasked (PeerDelivery).
OwnReply == P!OwnReply

\* A message is written to a session only when it has settled every earlier one, over
\* waits that ran out, uncertain writes and reloads (PeerDelivery).
OneOutstanding == P!OneOutstanding

\* A message keeps the promise of Delivery on its way to the session, although writes
\* are uncertain and the worker is reloaded (PeerDelivery).
KeepsPromise == P!KeepsPromise

\* No reload cuts a reply off, what was received is kept whole and given to the message
\* it answers (PeerDelivery), and replies are forwarded once each and in the order they
\* came (ReplyForwarder).
RepliesAreKept ==
    P!ReloadCutsNothing /\ P!InboxIsWhole /\ P!OwnReply /\ P!NotSentIsTrue /\ F!OnceInOrder

\* Every text that was queued is settled (QueuedDelivery), an answer or the end of a
\* session is noticed (PeerDelivery), and the forwarder comes to rest: every reply ends,
\* and none is attempted once it is closed, although it may wait just then (ReplyForwarder).
EverythingSettles == EverySettles /\ P!Noticed /\ F!Ends /\ F!ClosedIsClosed

=============================================================================
