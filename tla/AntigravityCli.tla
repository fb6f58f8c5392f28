---------------------------- MODULE AntigravityCli ----------------------------
(***************************************************************************)
(* Sessions of the Antigravity command line that a bridge owns:            *)
(* AntigravityCliSession in src/src/antigravity-cli.mjs and the handlers   *)
(* that start, use and close them in src/src/antigravity-bridge.mjs.       *)
(*                                                                         *)
(* A session is a child process that takes prompts on its input and gives  *)
(* one result for each on its output.  It may be slow, die, or not die     *)
(* when told to; callers may use a session before its first prompt was     *)
(* sent, and close it while a prompt is on its way to it.                  *)
(*                                                                         *)
(* Operators whose names end in Mutant are wrong versions of the operator  *)
(* that follows them, for the model checker to tell apart.                 *)
(***************************************************************************)
EXTENDS Naturals, FiniteSets, Sequences

CONSTANTS
    Starts,         \* requests that start a session, which is named by its request
    Sends,          \* requests that use one
    Home,           \* of each of Sends, the session it is for
    None, Capacity

CliAssumption ==
    /\ Home \in [Sends -> Starts] /\ Starts \cap Sends = {}
    /\ None \notin Starts \cup Sends /\ Capacity \in Nat \ {0}

VARIABLES
    status,     \* of each session: new, starting, idle, running, unknown, failed,
                \* closed, closing
    delivery,   \* deliveryState of each session
    pending,    \* the request that waits for the session's result
    child,      \* of each session: none, alive, told (to end), dead
    work,       \* the prompts its child has not answered
    closing,    \* of each session: no, waiting, or the answer of close()
    stage,      \* of each request
    outcome,    \* of each request: what its receipt says
    gave,       \* the prompt whose result a request was given
    written,    \* prompts that were written to a child
    open,       \* sessions
    reserved    \* starts that hold a place: startingSessions is their number

session == <<status, delivery, pending>>
process == <<child, work, written>>
request == <<stage, outcome, gave>>
vars    == <<session, process, closing, request, open, reserved>>

Requests == Starts \cup Sends
Session(p) == IF p \in Starts THEN p ELSE Home[p]
Dead(k) == status[k] \in {"failed", "closed"}

Go(p, s) == stage' = [stage EXCEPT ![p] = s]
End(p, o) == stage' = [stage EXCEPT ![p] = "over"] /\ outcome' = [outcome EXCEPT ![p] = o]

-----------------------------------------------------------------------------
(* Starting a session *)

Full == Cardinality(open) + Cardinality(reserved) >= Capacity

Ask(p) ==
    /\ stage[p] = "idle"
    /\ IF p \in Starts THEN ~Full ELSE Session(p) \in open
    /\ Go(p, "queued")
    /\ UNCHANGED <<session, process, closing, outcome, gave, open, reserved>>

\* The operation of start_antigravity_cli_session counts once more, reserves a
\* place and spawns the child.
FullStillMutant == FALSE
FullStill == Full

Begin(k) ==
    /\ k \in Starts /\ stage[k] = "queued"
    /\ IF FullStill THEN End(k, "failed") /\ UNCHANGED <<status, child, reserved>>
       ELSE /\ Go(k, "starting") /\ UNCHANGED outcome
            /\ status' = [status EXCEPT ![k] = "starting"]
            /\ child' = [child EXCEPT ![k] = "alive"] /\ reserved' = reserved \cup {k}
    /\ UNCHANGED <<delivery, pending, work, written, closing, gave, open>>

\* The child's first event: the session is idle and, once its identity is in the
\* receipt, can be used by others.
Opened(k) ==
    /\ status[k] = "starting" /\ child[k] = "alive"
    /\ status' = [status EXCEPT ![k] = "idle"]
    /\ \/ open' = open \cup {k} /\ reserved' = reserved \ {k} /\ Go(k, "verify")
       \/ Go(k, "cleanup") /\ UNCHANGED <<open, reserved>>
    /\ UNCHANGED <<delivery, pending, process, closing, outcome, gave>>

\* The sender is asked for again before the prompt is sent.
Verify(p) ==
    /\ stage[p] = IF p \in Starts THEN "verify" ELSE "queued"
    /\ \/ Go(p, "send") /\ UNCHANGED outcome
       \/ IF p \in Starts THEN Go(p, "cleanup") /\ UNCHANGED outcome ELSE End(p, "failed")
    /\ UNCHANGED <<session, process, closing, gave, open, reserved>>

\* A start that failed for certain gives its session up, waits until it is closed
\* and then frees the place it may still hold.
CloseOwnMutant(k) == UNCHANGED <<closing, child>>
CloseOwn(k) ==
    /\ closing' = [closing EXCEPT ![k] = IF @ = "no" THEN "waiting" ELSE @]
    /\ child' = [child EXCEPT ![k] = IF @ = "alive" THEN "told" ELSE @]

Cleanup(k) ==
    /\ stage[k] = "cleanup" /\ open' = open \ {k} /\ CloseOwn(k) /\ Go(k, "leave")
    /\ UNCHANGED <<session, work, written, outcome, gave, reserved>>

Leave(k) ==
    /\ stage[k] = "leave" /\ closing[k] # "waiting"
    /\ reserved' = reserved \ {k} /\ End(k, "failed")
    /\ UNCHANGED <<session, process, closing, gave, open>>

-----------------------------------------------------------------------------
(* A turn *)

\* send(): only to an idle session, whose state is unknown from then on.
Send(p) ==
    LET k == Session(p) IN
    /\ stage[p] = "send"
    /\ IF status[k] = "idle" /\ pending[k] = None
       THEN /\ Go(p, "waiting") /\ UNCHANGED outcome
            /\ status' = [status EXCEPT ![k] = "running"]
            /\ delivery' = [delivery EXCEPT ![k] = "unknown"]
            /\ pending' = [pending EXCEPT ![k] = p]
            /\ IF closing[k] # "no" THEN UNCHANGED <<work, written>>   \* its input has ended
               ELSE /\ work' = [work EXCEPT ![k] = Append(@, p)]
                    /\ written' = written \cup {p}
       ELSE /\ IF p \in Starts /\ delivery[k] # "unknown" THEN Go(p, "cleanup") /\ UNCHANGED outcome
               ELSE End(p, IF delivery[k] = "not-sent" THEN "failed" ELSE "unknown")
            /\ UNCHANGED <<session, work, written>>
    /\ UNCHANGED <<child, closing, gave, open, reserved>>

\* A result of the child, for the prompt it has had longest.
Result(k) ==
    /\ work[k] # <<>> /\ child[k] \in {"alive", "told"}
    /\ work' = [work EXCEPT ![k] = Tail(@)]
    /\ IF Dead(k) THEN UNCHANGED <<session, request>>
       ELSE /\ delivery' = [delivery EXCEPT ![k] = "completed"]
            /\ pending' = [pending EXCEPT ![k] = None]
            /\ IF pending[k] = None THEN UNCHANGED <<status, request>>
               ELSE /\ status' = [status EXCEPT ![k] = "idle"]
                    /\ End(pending[k], "completed")
                    /\ gave' = [gave EXCEPT ![pending[k]] = Head(work[k])]
    /\ UNCHANGED <<child, written, closing, open, reserved>>

\* The deadline of a turn: the child may still be at it.
OverdueMutant == "idle"
Overdue == "unknown"

WaitsMutant(k) == pending[k] # None /\ child[k] = "told"
Waits(k) == pending[k] # None

TurnTimeout(k) ==
    /\ Waits(k)
    /\ status' = [status EXCEPT ![k] = Overdue]
    /\ pending' = [pending EXCEPT ![k] = None] /\ End(pending[k], "unknown")
    /\ UNCHANGED <<delivery, process, closing, gave, open, reserved>>

\* fail(): who waits is told, and the child killed.
UncertainMutant(k) == delivery[k] = "unknown" /\ status[k] # "running"
Uncertain(k) == pending[k] # None \/ delivery[k] = "unknown"

FailSession(k) ==
    /\ status' = [status EXCEPT ![k] = IF Uncertain(k) THEN "unknown" ELSE "failed"]
    /\ delivery' = [delivery EXCEPT ![k] = IF pending[k] # None THEN "unknown" ELSE @]
    /\ pending' = [pending EXCEPT ![k] = None]
    /\ IF pending[k] # None THEN End(pending[k], IF Uncertain(k) THEN "unknown" ELSE "failed")
       ELSE IF stage[k] = "starting" THEN Go(k, "cleanup") /\ UNCHANGED outcome
       ELSE UNCHANGED <<stage, outcome>>

\* The start's deadline, output that is too long or not understood, an error of a
\* pipe, a write after the end of the input.
Fails(k) ==
    /\ status[k] \in {"starting", "idle", "running"} /\ child[k] \in {"alive", "told"}
    /\ FailSession(k) /\ child' = [child EXCEPT ![k] = "told"]
    /\ UNCHANGED <<work, written, closing, gave, open, reserved>>

\* The child's end, whatever the reason.
Dies(k) ==
    /\ child[k] \in {"alive", "told"} /\ child' = [child EXCEPT ![k] = "dead"]
    /\ IF status[k] = "starting" \/ pending[k] # None THEN FailSession(k)
       ELSE /\ status' = [status EXCEPT ![k] = IF @ \in {"failed", "unknown"} THEN @ ELSE "closed"]
            /\ UNCHANGED <<delivery, pending, stage, outcome>>
    /\ UNCHANGED <<work, written, closing, gave, open, reserved>>

-----------------------------------------------------------------------------
(* Closing *)

Busy(k) == status[k] \in {"running", "starting"}

CloseAsked(k) ==
    /\ k \in open /\ ~Busy(k) /\ closing[k] = "no"
    /\ closing' = [closing EXCEPT ![k] = "waiting"]
    /\ child' = [child EXCEPT ![k] = IF @ = "alive" THEN "told" ELSE @]
    /\ UNCHANGED <<session, work, written, request, open, reserved>>

\* finishClose() waits for the child to exit, kills it, and waits once more; what
\* waits on a child that did not exit in time is told so.
Closed(k) ==
    /\ closing[k] = "waiting"
    /\ LET end == IF child[k] = "dead" THEN "closed" ELSE "closing" IN
       closing' = [closing EXCEPT ![k] = end] /\ status' = [status EXCEPT ![k] = end]
    /\ pending' = [pending EXCEPT ![k] = None]
    /\ IF pending[k] = None THEN UNCHANGED <<delivery, stage, outcome>>
       ELSE End(pending[k], "unknown") /\ delivery' = [delivery EXCEPT ![k] = "unknown"]
    /\ UNCHANGED <<process, gave, open, reserved>>

\* The caller who closed, or closes again, is given the one answer of close(); a
\* session that may still have its child keeps its place.
CloseTold(k) ==
    /\ k \in open /\ closing[k] \in {"closed", "closing"}
    /\ open' = IF closing[k] = "closed" THEN open \ {k} ELSE open
    /\ UNCHANGED <<session, process, closing, request, reserved>>

-----------------------------------------------------------------------------

Init ==
    /\ status = [k \in Starts |-> "new"] /\ delivery = [k \in Starts |-> "not-sent"]
    /\ pending = [k \in Starts |-> None] /\ child = [k \in Starts |-> "none"]
    /\ work = [k \in Starts |-> <<>>] /\ closing = [k \in Starts |-> "no"]
    /\ stage = [p \in Requests |-> "idle"] /\ outcome = [p \in Requests |-> "none"]
    /\ gave = [p \in Requests |-> None]
    /\ written = {} /\ open = {} /\ reserved = {}

Next ==
    \/ \E p \in Requests : Ask(p) \/ Verify(p) \/ Send(p)
    \/ \E k \in Starts : \/ Begin(k) \/ Opened(k) \/ Cleanup(k) \/ Leave(k) \/ Result(k)
                         \/ TurnTimeout(k) \/ Fails(k) \/ Dies(k)
                         \/ CloseAsked(k) \/ Closed(k) \/ CloseTold(k)

Spec == Init /\ [][Next]_vars

\* Handlers go on, deadlines pass, and a child that was killed ends.
FairSpec ==
    /\ Spec
    /\ \A p \in Requests : WF_vars(Verify(p)) /\ WF_vars(Send(p))
    /\ \A k \in Starts :
        /\ WF_vars(Begin(k)) /\ WF_vars(Cleanup(k)) /\ WF_vars(Leave(k)) /\ WF_vars(TurnTimeout(k))
        /\ WF_vars(Closed(k)) /\ WF_vars(CloseTold(k))
        /\ WF_vars(status[k] = "starting" /\ Fails(k)) /\ WF_vars(child[k] = "told" /\ Dies(k))

-----------------------------------------------------------------------------

\* Of the sessions that are open or starting there are never more than a bridge may
\* have, and a place is reserved for exactly the starts that have not opened theirs:
\* none leaks when a start fails at any of its steps.
PlacesHold ==
    /\ Cardinality(open) + Cardinality(reserved) <= Capacity
    /\ reserved \subseteq {k \in Starts \ open : stage[k] \in {"starting", "cleanup", "leave"}}

\* A request is never given the result of another prompt, late as it may be.
OwnResult == \A p \in Requests : gave[p] \in {None, p}

\* A request whose receipt says it was not sent was never written to a child.
NotSentIsTrue == \A p \in Requests : outcome[p] = "failed" => p \notin written

\* Every request is answered, and the child of a session whose start failed ends.
Answered == \A p \in Requests : (stage[p] # "idle") ~> (stage[p] = "over")
NoStrays == \A k \in Starts :
    (stage[k] = "over" /\ outcome[k] = "failed") ~> (child[k] \in {"none", "dead"})

\* What the code promises its callers and does not keep: a session that was closed
\* and whose child has ended gives its place back to the caller who asks again.
GivesBack == \A k \in Starts :
    (k \in open /\ closing[k] \in {"closed", "closing"} /\ child[k] = "dead") ~> (k \notin open)
=============================================================================
