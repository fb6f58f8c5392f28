-------------------------- MODULE AntigravityDelivery --------------------------
(***************************************************************************)
(* Messages to Antigravity Desktop: the sidecar the app launches           *)
(* (src/src/antigravity-sidecar.mjs), its durable receipts                 *)
(* (src/src/antigravity-deliveries.mjs), the native command that delivers  *)
(* (src/src/antigravity-desktop.mjs) and the bridge that asks              *)
(* (src/src/antigravity-bridge.mjs).                                       *)
(*                                                                         *)
(* A sidecar ends when its parent does, and a new one may serve while the  *)
(* old one still closes; a sidecar that ends leaves behind the receipts it *)
(* never finished and a native command that may yet deliver.               *)
(*                                                                         *)
(* Operators whose names end in Mutant are wrong versions of the operator  *)
(* that follows them, for the model checker to tell apart.                 *)
(***************************************************************************)
EXTENDS Naturals, FiniteSets

CONSTANTS
    Requests, Conversations, None,
    Sidecars,           \* lives of the sidecar
    Of,                 \* of each request, the conversation it is for
    MaxLost             \* bound: sidecars that lose their parent or are killed

AntigravityAssumption ==
    /\ Of \in [Requests -> Conversations]
    /\ MaxLost \in Nat /\ None \notin Sidecars

VARIABLES
    life,       \* of each sidecar: new, up, closing, gone
    receipt,    \* the status in the file of each request, or none
    stage,      \* of the operation of each request
    owner,      \* the sidecar whose operation it is (active)
    sending,    \* of each sidecar, the conversations it is sending to
    looking,    \* of each sidecar and request, the receipt its refresh() read
    handed,     \* how often Antigravity took the prompt of a request
    replied,    \* requests whose final reply is in the transcript
    running,    \* conversations that are not idle
    told        \* of each request, every status a caller was told

op     == <<stage, owner, sending>>
native == <<handed, replied, running>>
vars   == <<life, receipt, op, looking, native, told>>

Tell(r, s) == told' = [told EXCEPT ![r] = @ \cup {s}]
Lost == Cardinality({s \in Sidecars : life[s] \in {"closing", "gone"}})
Active(s, r) == owner[r] = s

\* read(): a receipt that is pending for an operation of no one here is unknown.
Seen(s, r) == IF receipt[r] = "pending" /\ ~Active(s, r) THEN "unknown" ELSE receipt[r]

-----------------------------------------------------------------------------
(* The life of a sidecar *)

\* serveAntigravityDesktop(): one sidecar owns the socket.
Start(s) ==
    /\ life[s] = "new" /\ \A t \in Sidecars : life[t] # "up"
    /\ life' = [life EXCEPT ![s] = "up"]
    /\ UNCHANGED <<receipt, op, looking, native, told>>

\* The parent guard fails: the socket is given up, then the process exits.
ParentLost(s) ==
    /\ life[s] = "up" /\ Lost < MaxLost
    /\ life' = [life EXCEPT ![s] = "closing"]
    /\ UNCHANGED <<receipt, op, looking, native, told>>

\* The end of its process, after the loss of its parent or at any time.  A native
\* command it has started goes on without it.
Exit(s) ==
    /\ life[s] = "closing" \/ (life[s] = "up" /\ Lost < MaxLost)
    /\ life' = [life EXCEPT ![s] = "gone"]
    /\ stage' = [r \in Requests |-> IF owner[r] # s THEN stage[r]
                                    ELSE IF stage[r] = "native" THEN "orphan" ELSE "idle"]
    /\ owner' = [r \in Requests |-> IF owner[r] = s THEN None ELSE owner[r]]
    /\ sending' = [sending EXCEPT ![s] = {}]
    /\ looking' = [looking EXCEPT ![s] = [r \in Requests |-> "none"]]
    /\ UNCHANGED <<receipt, native, told>>

-----------------------------------------------------------------------------
(* Asking for a delivery *)

\* dispatch(): the first to make the file has the operation; everyone else is
\* given the receipt that is there.
FreshMutant(s, r) == receipt[r] = "none" \/ Seen(s, r) = "unknown"
Fresh(s, r) == receipt[r] = "none"

Dispatch(s, r) ==
    /\ life[s] = "up" /\ Fresh(s, r)
    /\ receipt' = [receipt EXCEPT ![r] = "pending"]
    /\ stage' = [stage EXCEPT ![r] = "queued"] /\ owner' = [owner EXCEPT ![r] = s]
    /\ \E a \in {"pending", "unknown"} : Tell(r, a)    \* the answer may get lost
    /\ UNCHANGED <<life, sending, looking, native>>

Again(s, r) ==
    /\ life[s] = "up" /\ receipt[r] # "none"
    /\ \E a \in {Seen(s, r), "unknown"} : Tell(r, a)
    /\ UNCHANGED <<life, receipt, op, looking, native>>

-----------------------------------------------------------------------------
(* The operation of a request *)

Finish(r, outcome) == stage' = [stage EXCEPT ![r] = outcome]

\* The operation starts: the parent must be there, and no other delivery to the
\* conversation under way.
TakenMutant(s, r) == FALSE
Taken(s, r) == Of[r] \in sending[s]

Claim(r) ==
    /\ stage[r] = "queued"
    /\ IF life[owner[r]] = "up" /\ ~Taken(owner[r], r)
       THEN /\ stage' = [stage EXCEPT ![r] = "inspect"]
            /\ sending' = [sending EXCEPT ![owner[r]] = @ \cup {Of[r]}]
       ELSE Finish(r, "failed") /\ UNCHANGED sending
    /\ UNCHANGED <<life, receipt, owner, looking, native, told>>

Release(r) == sending' = [sending EXCEPT ![owner[r]] = @ \ {Of[r]}]

\* The conversation is looked up, its metadata asked for and compared, it is looked
\* up again, and the end of its transcript noted in the receipt.
Inspect(r) ==
    /\ stage[r] = "inspect"
    /\ \/ /\ Of[r] \notin running
          /\ stage' = [stage EXCEPT ![r] = "native"] /\ UNCHANGED sending
       \/ Finish(r, "failed") /\ Release(r)
    /\ UNCHANGED <<life, receipt, owner, looking, native, told>>

\* Antigravity takes the prompt, whoever is left to hear of it.
Take(r) ==
    /\ stage[r] \in {"native", "orphan"}
    /\ stage' = [stage EXCEPT ![r] = IF @ = "native" THEN "taken" ELSE "idle"]
    /\ handed' = [handed EXCEPT ![r] = @ + 1] /\ running' = running \cup {Of[r]}
    /\ UNCHANGED <<life, receipt, owner, sending, looking, replied, told>>

\* The native command returns, fails, or is stopped after 30 seconds; what went
\* wrong once it was started does not tell whether the prompt was taken.
NotKnownMutant == "failed"
NotKnown == "unknown"

OverdueMutant(r) == FALSE
Overdue(r) == stage[r] \in {"native", "taken"}

Return(r) ==
    /\ \/ stage[r] = "taken" /\ Finish(r, "accepted")
       \/ Overdue(r) /\ Finish(r, NotKnown)
    /\ Release(r)
    /\ UNCHANGED <<life, receipt, owner, looking, native, told>>

\* The outcome is written, or could not be, and the operation is over.
Settle(r) ==
    /\ stage[r] \in {"accepted", "unknown", "failed"}
    /\ \/ receipt' = [receipt EXCEPT ![r] = stage[r]]
       \/ UNCHANGED receipt
    /\ stage' = [stage EXCEPT ![r] = "idle"] /\ owner' = [owner EXCEPT ![r] = None]
    /\ UNCHANGED <<life, sending, looking, native, told>>

-----------------------------------------------------------------------------
(* Replies *)

\* A conversation comes to rest, with or without a final reply to a request.
Rest(c) ==
    /\ c \in running /\ running' = running \ {c}
    /\ \/ \E r \in Requests : /\ Of[r] = c /\ handed[r] > 0
                              /\ replied' = replied \cup {r}
       \/ UNCHANGED replied
    /\ UNCHANGED <<life, receipt, op, looking, handed, told>>

\* refresh(): a receipt of no operation here is compared with the transcript, ...
Look(s, r) ==
    /\ life[s] = "up" /\ receipt[r] # "none" /\ looking[s][r] = "none"
    /\ IF Active(s, r) THEN Tell(r, "pending") /\ UNCHANGED looking
       ELSE looking' = [looking EXCEPT ![s][r] = receipt[r]] /\ UNCHANGED told
    /\ UNCHANGED <<life, receipt, op, native>>

\* ... observeAntigravityDelivery(), ...
Observed(seen, r) ==
    IF seen \in {"accepted", "unknown"} /\ r \in replied /\ Of[r] \notin running
    THEN "reply" ELSE seen

\* The sidecar's answer is compared with the transcript once more by the bridge.
AnswerMutant(seen, r) == seen
Answer(seen, r) == Observed(seen, r)

\* ... and replaced if it is still what was read.  What read() says of a pending
\* receipt carries an identity of its own and is never equal to itself.
SameMutant(s, r) == TRUE
Same(s, r) == looking[s][r] = receipt[r] /\ receipt[r] # "pending" /\ ~Active(s, r)

Refresh(s, r) ==
    LET read == IF looking[s][r] = "pending" THEN "unknown" ELSE looking[s][r]
        seen == Observed(read, r)
        mine == IF Same(s, r) THEN seen ELSE Seen(s, r)
    IN  /\ looking[s][r] # "none"
        /\ looking' = [looking EXCEPT ![s][r] = "none"]
        /\ receipt' = [receipt EXCEPT ![r] = IF Same(s, r) /\ seen = "reply"
                                             THEN seen ELSE @]
        /\ Tell(r, Answer(mine, r))
        /\ UNCHANGED <<life, op, native>>

-----------------------------------------------------------------------------

Init ==
    /\ life = [s \in Sidecars |-> "new"] /\ receipt = [r \in Requests |-> "none"]
    /\ stage = [r \in Requests |-> "idle"] /\ owner = [r \in Requests |-> None]
    /\ sending = [s \in Sidecars |-> {}]
    /\ looking = [s \in Sidecars |-> [r \in Requests |-> "none"]]
    /\ handed = [r \in Requests |-> 0] /\ replied = {} /\ running = {}
    /\ told = [r \in Requests |-> {}]

Operate(r) == Claim(r) \/ Inspect(r) \/ Return(r) \/ Settle(r)

Next ==
    \/ \E s \in Sidecars : Start(s) \/ ParentLost(s) \/ Exit(s)
    \/ \E s \in Sidecars, r \in Requests : Dispatch(s, r) \/ Again(s, r) \/ Look(s, r) \/ Refresh(s, r)
    \/ \E r \in Requests : Claim(r) \/ Inspect(r) \/ Take(r) \/ Return(r) \/ Settle(r)
    \/ \E c \in Conversations : Rest(c)

Spec == Init /\ [][Next]_vars

\* Sidecars are launched, operations go on (the native command has a deadline),
\* conversations come to rest, and callers keep reading the receipt.
FairSpec ==
    /\ Spec
    /\ \A s \in Sidecars : WF_vars(Start(s))
    /\ \A r \in Requests : WF_vars(Operate(r))
    /\ \A c \in Conversations : WF_vars(Rest(c))
    /\ \A s \in Sidecars, r \in Requests : WF_vars(Look(s, r)) /\ WF_vars(Refresh(s, r))

-----------------------------------------------------------------------------

\* However often a request is repeated, to however many sidecars, its prompt is
\* handed to Antigravity at most once.
AtMostOnce == \A r \in Requests : handed[r] <= 1

\* A caller that is told a delivery failed may send the prompt again: it was not
\* and will not be delivered.  One that is told of an acceptance or of a reply was.
TellsTheTruth ==
    \A r \in Requests :
        /\ "failed" \in told[r] \cup {receipt[r]} => handed[r] = 0 /\ stage[r] # "orphan"
        /\ "accepted" \in told[r] \cup {receipt[r]} => handed[r] = 1
        /\ "reply" \in told[r] \cup {receipt[r]} => r \in replied

\* A sidecar never has two prompts on their way to one conversation.
OneAtATime ==
    \A r, q \in Requests :
        /\ {stage[r], stage[q]} \subseteq {"inspect", "native", "taken"}
        /\ owner[r] = owner[q] /\ Of[r] = Of[q]
        => r = q

\* Across operations that end and receipts that are refreshed meanwhile by another
\* sidecar, a receipt goes from pending to its outcome and from there only to the
\* reply: a reply once recorded stays.
Forward ==
    [][\A r \in Requests : receipt'[r] # receipt[r] =>
          \/ receipt[r] = "none" /\ receipt'[r] = "pending"
          \/ receipt[r] = "pending" /\ receipt'[r] \in {"accepted", "unknown", "failed"}
          \/ receipt[r] \in {"accepted", "unknown"} /\ receipt'[r] = "reply"]_vars

\* Every operation ends, and the conversations it held are free again.
Ends == \A r \in Requests : (stage[r] = "queued") ~> (owner[r] = None)

\* A reply to a delivered prompt is reported to a caller that keeps reading, even
\* when the sidecar that delivered it ended before it could write the outcome.
Reported == \A r \in Requests :
    (r \in replied) ~> (Of[r] \in running \/ "reply" \in told[r])
=============================================================================
