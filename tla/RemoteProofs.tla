---------------------------- MODULE RemoteProofs ----------------------------
(***************************************************************************)
(* Theorems about the components of Remote, and about all of them in the   *)
(* suite, for every value of the constants.  The names of a component's    *)
(* definitions begin with the letter of its instance.                      *)
(***************************************************************************)
EXTENDS Remote, Sequences, FiniteSetTheorems, TLAPS

(* The hand-off of a remote task (RemoteHandoff) *)

\* The handlers that hold the reservation.
Working == {c \in Calls : pc[c] \in {"reserved", "guard", "sent"}}

\* There is at most one, under the account of the receipt, which is pending then.
OneWorks ==
    /\ \A c, d \in Working : c = d
    /\ \A c \in Working : receipt.state = "pending" /\ receipt.acc = acc[c]

\* How far it is says whether the prompt was sent; without a reservation it never was.
SentAgrees ==
    /\ sent = 0 <=> by = {}
    /\ sent \in {0, 1}
    /\ receipt.state \in {"none", "torn"} => sent = 0
    /\ \A c \in Working : IF pc[c] = "sent" THEN by = {c} ELSE by = {}
    /\ \A c \in by : pc[c] \in {"sent", "answered", "lost"}

\* A handler answers once, and refuses only if it did not send.
AnswersAgree ==
    \A c \in Calls :
        /\ pc[c] \notin {"answered", "lost"} => reply[c] = "none" /\ client[c] # "refused"
        /\ pc[c] = "answered" => reply[c] # "none"
        /\ "refused" \in {reply[c], client[c]} => c \notin by
        /\ client[c] = "idle" => pc[c] = "idle"

\* The receipt is completed once the prompt was sent, for good.
CompletedIsSent ==
    /\ receipt.state = "completed" => sent = 1
    /\ \A c \in Calls : "submitted" \in {reply[c], client[c]} => receipt.state = "completed"

IInv == TypeOK /\ OneWorks /\ SentAgrees /\ AnswersAgree /\ CompletedIsSent

-----------------------------------------------------------------------------

\* The initial states satisfy it.
LEMMA InitIInv == Init => IInv
BY HandoffAssumption
DEF Init, IInv, TypeOK, OneWorks, SentAgrees, AnswersAgree, CompletedIsSent, Working, NoReceipt

\* Every step keeps it.
LEMMA NextIInv == IInv /\ [Next]_vars => IInv'
<1> SUFFICES ASSUME IInv, [Next]_vars PROVE IInv'
  OBVIOUS
<1> USE HandoffAssumption DEF IInv
<1>1. ASSUME NEW c \in Calls, Call(c) PROVE IInv'
  <2>1. TypeOK'
    BY <1>1 DEF Call, handler, world, TypeOK, Working, Outcomes
  <2>2. OneWorks'
    BY <1>1 DEF Call, handler, world, TypeOK, OneWorks, Working
  <2>3. SentAgrees'
    BY <1>1 DEF Call, handler, world, TypeOK, SentAgrees, AnswersAgree, Working, Outcomes,
       OneWorks
  <2>4. AnswersAgree'
    BY <1>1 DEF Call, handler, world, TypeOK, AnswersAgree, Working, Outcomes, SentAgrees,
       CompletedIsSent
  <2>5. CompletedIsSent'
    BY <1>1 DEF Call, handler, world, TypeOK, CompletedIsSent, Working, Outcomes, SentAgrees,
       OneWorks
  <2> QED BY <2>1, <2>2, <2>3, <2>4, <2>5
<1>2. ASSUME NEW c \in Calls, Hear(c) PROVE IInv'
  <2>1. TypeOK'
    BY <1>2 DEF Hear, handler, world, TypeOK, AnswersAgree, Outcomes
  <2>2. OneWorks'
    BY <1>2 DEF Hear, handler, world, TypeOK, OneWorks, Working
  <2>3. SentAgrees'
    BY <1>2 DEF Hear, handler, world, TypeOK, SentAgrees, Working, Outcomes, OneWorks
  <2>4. AnswersAgree'
    BY <1>2 DEF Hear, handler, world, TypeOK, AnswersAgree, Working, Outcomes, SentAgrees,
       CompletedIsSent
  <2>5. CompletedIsSent'
    BY <1>2 DEF Hear, handler, world, TypeOK, CompletedIsSent, Working, Outcomes, SentAgrees,
       OneWorks
  <2> QED BY <2>1, <2>2, <2>3, <2>4, <2>5
<1>3. ASSUME NEW c \in Calls, Timeout(c) PROVE IInv'
  <2>1. TypeOK'
    BY <1>3 DEF Timeout, handler, world, TypeOK, Working, Says, Outcomes
  <2>2. OneWorks'
    BY <1>3 DEF Timeout, handler, world, TypeOK, OneWorks, Working, Says
  <2>3. SentAgrees'
    BY <1>3 DEF Timeout, handler, world, TypeOK, SentAgrees, Working, Says, Outcomes, OneWorks
  <2>4. AnswersAgree'
    BY <1>3 DEF Timeout, handler, world, TypeOK, AnswersAgree, Working, Says, Outcomes,
       SentAgrees, CompletedIsSent
  <2>5. CompletedIsSent'
    BY <1>3 DEF Timeout, handler, world, TypeOK, CompletedIsSent, Working, Says, Outcomes,
       SentAgrees, OneWorks
  <2> QED BY <2>1, <2>2, <2>3, <2>4, <2>5
<1>4. ASSUME NEW c \in Calls, Start(c) PROVE IInv'
  <2>1. TypeOK'
    BY <1>4 DEF Start, handler, world, TypeOK, Working, Goto, Answer, Outcomes
  <2>2. OneWorks'
    BY <1>4 DEF Start, handler, world, TypeOK, OneWorks, Working, Goto, Answer
  <2>3. SentAgrees'
    BY <1>4 DEF Start, handler, world, TypeOK, SentAgrees, Working, Goto, Answer, Outcomes,
       OneWorks
  <2>4. AnswersAgree'
    BY <1>4 DEF Start, handler, world, TypeOK, AnswersAgree, Working, Goto, Answer, Outcomes,
       SentAgrees, CompletedIsSent
  <2>5. CompletedIsSent'
    BY <1>4 DEF Start, handler, world, TypeOK, CompletedIsSent, Working, Goto, Answer,
       Outcomes, SentAgrees, OneWorks
  <2> QED BY <2>1, <2>2, <2>3, <2>4, <2>5
<1>5. ASSUME NEW c \in Calls, Reserve(c) PROVE IInv'
  <2>1. TypeOK'
    BY <1>5 DEF Reserve, handler, world, TypeOK, Working, Goto, Answer, Target, Good,
       Readable, Free, Outcomes
  <2>2. OneWorks'
    BY <1>5 DEF Reserve, handler, world, TypeOK, OneWorks, Working, Goto, Answer, Target,
       Good, Readable, Free
  <2>3. SentAgrees'
    BY <1>5 DEF Reserve, handler, world, TypeOK, SentAgrees, Working, Goto, Answer, Target,
       Good, Readable, Free, Outcomes, OneWorks
  <2>4. AnswersAgree'
    BY <1>5 DEF Reserve, handler, world, TypeOK, AnswersAgree, Working, Goto, Answer, Target,
       Good, Readable, Free, Outcomes, SentAgrees, CompletedIsSent
  <2>5. CompletedIsSent'
    BY <1>5 DEF Reserve, handler, world, TypeOK, CompletedIsSent, Working, Goto, Answer,
       Target, Good, Readable, Free, Outcomes, SentAgrees, OneWorks
  <2> QED BY <2>1, <2>2, <2>3, <2>4, <2>5
<1>6. ASSUME NEW c \in Calls, Fail(c) PROVE IInv'
  <2>1. TypeOK'
    BY <1>6 DEF Fail, handler, world, TypeOK, Working, Goto, Answer, Outcomes
  <2>2. OneWorks'
    BY <1>6 DEF Fail, handler, world, TypeOK, OneWorks, Working, Goto, Answer
  <2>3. SentAgrees'
    BY <1>6 DEF Fail, handler, world, TypeOK, SentAgrees, Working, Goto, Answer, Outcomes,
       OneWorks
  <2>4. AnswersAgree'
    BY <1>6 DEF Fail, handler, world, TypeOK, AnswersAgree, Working, Goto, Answer, Outcomes,
       SentAgrees, CompletedIsSent
  <2>5. CompletedIsSent'
    BY <1>6 DEF Fail, handler, world, TypeOK, CompletedIsSent, Working, Goto, Answer,
       Outcomes, SentAgrees, OneWorks
  <2> QED BY <2>1, <2>2, <2>3, <2>4, <2>5
<1>7. ASSUME NEW c \in Calls, Inspect(c) PROVE IInv'
  <2>1. TypeOK'
    BY <1>7 DEF Inspect, handler, world, TypeOK, Working, Goto, Target, Good, Outcomes
  <2>2. OneWorks'
    BY <1>7 DEF Inspect, handler, world, TypeOK, OneWorks, Working, Goto, Target, Good
  <2>3. SentAgrees'
    BY <1>7 DEF Inspect, handler, world, TypeOK, SentAgrees, Working, Goto, Target, Good,
       Outcomes, OneWorks
  <2>4. AnswersAgree'
    BY <1>7 DEF Inspect, handler, world, TypeOK, AnswersAgree, Working, Goto, Target, Good,
       Outcomes, SentAgrees, CompletedIsSent
  <2>5. CompletedIsSent'
    BY <1>7 DEF Inspect, handler, world, TypeOK, CompletedIsSent, Working, Goto, Target, Good,
       Outcomes, SentAgrees, OneWorks
  <2> QED BY <2>1, <2>2, <2>3, <2>4, <2>5
<1>8. ASSUME NEW c \in Calls, Send(c) PROVE IInv'
  <2>1. TypeOK'
    BY <1>8 DEF Send, handler, world, TypeOK, Working, Goto, Guard, Good, Outcomes
  <2>2. OneWorks'
    BY <1>8 DEF Send, handler, world, TypeOK, OneWorks, Working, Goto, Guard, Good
  <2>3. SentAgrees'
    BY <1>8 DEF Send, handler, world, TypeOK, SentAgrees, Working, Goto, Guard, Good,
       Outcomes, OneWorks
  <2>4. AnswersAgree'
    BY <1>8 DEF Send, handler, world, TypeOK, AnswersAgree, Working, Goto, Guard, Good,
       Outcomes, SentAgrees, CompletedIsSent
  <2>5. CompletedIsSent'
    BY <1>8 DEF Send, handler, world, TypeOK, CompletedIsSent, Working, Goto, Guard, Good,
       Outcomes, SentAgrees, OneWorks
  <2> QED BY <2>1, <2>2, <2>3, <2>4, <2>5
<1>9. ASSUME NEW c \in Calls, Complete(c) PROVE IInv'
  <2>1. TypeOK'
    BY <1>9 DEF Complete, handler, world, TypeOK, Working, Goto, Answer, Target, Good, Outcomes
  <2>2. OneWorks'
    BY <1>9 DEF Complete, handler, world, TypeOK, OneWorks, Working, Goto, Answer, Target, Good
  <2>3. SentAgrees'
    BY <1>9 DEF Complete, handler, world, TypeOK, SentAgrees, Working, Goto, Answer, Target,
       Good, Outcomes, OneWorks
  <2>4. AnswersAgree'
    BY <1>9 DEF Complete, handler, world, TypeOK, AnswersAgree, Working, Goto, Answer, Target,
       Good, Outcomes, SentAgrees, CompletedIsSent
  <2>5. CompletedIsSent'
    BY <1>9 DEF Complete, handler, world, TypeOK, CompletedIsSent, Working, Goto, Answer,
       Target, Good, Outcomes, SentAgrees, OneWorks
  <2> QED BY <2>1, <2>2, <2>3, <2>4, <2>5
<1>10. CASE Crash
  <2>1. TypeOK'
    BY <1>10 DEF Crash, handler, world, TypeOK, Outcomes, Working, OneWorks, SentAgrees,
       AnswersAgree, CompletedIsSent
  <2>2. OneWorks'
    BY <1>10 DEF Crash, handler, world, TypeOK, Outcomes, Working, OneWorks, SentAgrees,
       AnswersAgree, CompletedIsSent
  <2>3. SentAgrees'
    BY <1>10 DEF Crash, handler, world, TypeOK, Outcomes, Working, OneWorks, SentAgrees,
       AnswersAgree, CompletedIsSent, Free, Target, Good
  <2>4. AnswersAgree'
    BY <1>10 DEF Crash, handler, world, TypeOK, Outcomes, Working, OneWorks, SentAgrees,
       AnswersAgree, CompletedIsSent
  <2>5. CompletedIsSent'
    BY <1>10 DEF Crash, handler, world, TypeOK, Outcomes, Working, OneWorks, SentAgrees,
       AnswersAgree, CompletedIsSent, Free, Target, Good
  <2> QED BY <2>1, <2>2, <2>3, <2>4, <2>5
<1>11. CASE Change
  <2>1. TypeOK'
    <3>1. account' \in Accounts /\ changes' \in Nat
      BY <1>11 DEF Change, world, TypeOK
    <3>2. place' \in BOOLEAN /\ member' \in BOOLEAN
      BY <1>11, Zenon DEF Change, TypeOK
    <3> QED BY <1>11, <3>1, <3>2 DEF Change, handler, TypeOK
  <2>2. OneWorks'
    BY <1>11 DEF Change, handler, world, TypeOK, Outcomes, Working, OneWorks, SentAgrees,
       AnswersAgree, CompletedIsSent
  <2>3. SentAgrees'
    BY <1>11 DEF Change, handler, world, TypeOK, Outcomes, Working, OneWorks, SentAgrees,
       AnswersAgree, CompletedIsSent
  <2>4. AnswersAgree'
    BY <1>11 DEF Change, handler, world, TypeOK, Outcomes, Working, OneWorks, SentAgrees,
       AnswersAgree, CompletedIsSent
  <2>5. CompletedIsSent'
    BY <1>11 DEF Change, handler, world, TypeOK, Outcomes, Working, OneWorks, SentAgrees,
       AnswersAgree, CompletedIsSent
  <2> QED BY <2>1, <2>2, <2>3, <2>4, <2>5
<1>12. CASE UNCHANGED vars
  <2>1. TypeOK'
    BY <1>12 DEF vars, handler, world, TypeOK, Outcomes, Working, OneWorks, SentAgrees,
       AnswersAgree, CompletedIsSent
  <2>2. OneWorks'
    BY <1>12 DEF vars, handler, world, TypeOK, Outcomes, Working, OneWorks, SentAgrees,
       AnswersAgree, CompletedIsSent
  <2>3. SentAgrees'
    BY <1>12 DEF vars, handler, world, TypeOK, Outcomes, Working, OneWorks, SentAgrees,
       AnswersAgree, CompletedIsSent
  <2>4. AnswersAgree'
    BY <1>12 DEF vars, handler, world, TypeOK, Outcomes, Working, OneWorks, SentAgrees,
       AnswersAgree, CompletedIsSent
  <2>5. CompletedIsSent'
    BY <1>12 DEF vars, handler, world, TypeOK, Outcomes, Working, OneWorks, SentAgrees,
       AnswersAgree, CompletedIsSent
  <2> QED BY <2>1, <2>2, <2>3, <2>4, <2>5
<1> QED BY <1>1, <1>2, <1>3, <1>4, <1>5, <1>6, <1>7, <1>8, <1>9, <1>10, <1>11, <1>12 DEF Next, Handle

-----------------------------------------------------------------------------

\* The inductive invariant holds in every reachable state.
THEOREM Invariance == Spec => []IInv
BY InitIInv, NextIInv, PTL DEF Spec

\* Every variable keeps its type, whatever the calls, accounts and bounds are.
THEOREM TypeCorrect == Spec => []TypeOK
BY Invariance, PTL DEF IInv

\* A request ID that is sent again, by any number of calls and after any number of
\* crashes, timeouts and changes of account, never has its prompt written twice.
THEOREM SentAtMostOnce == Spec => []AtMostOnce
<1>1. IInv => AtMostOnce
  BY DEF IInv, SentAgrees, AtMostOnce
<1> QED BY <1>1, Invariance, PTL

\* A call that returns submitted is right, and one that is refused sent nothing.
THEOREM Truthfulness == Spec => []TellsTheTruth
<1>1. IInv => TellsTheTruth
  BY DEF IInv, AnswersAgree, CompletedIsSent, TellsTheTruth
<1> QED BY <1>1, Invariance, PTL

-----------------------------------------------------------------------------
(* The delivery to Antigravity Desktop (AntigravityDelivery) *)

Statuses == {"none", "pending", "accepted", "unknown", "failed", "reply"}
AStages == {"idle", "queued", "inspect", "native", "taken", "orphan", "accepted", "unknown", "failed"}

AType ==
    /\ a_life \in [Sidecars -> {"new", "up", "closing", "gone"}]
    /\ a_receipt \in [Prompts -> Statuses]
    /\ a_stage \in [Prompts -> AStages]
    /\ a_owner \in [Prompts -> Sidecars \cup {None}]
    /\ a_sending \in [Sidecars -> SUBSET Conversations]
    /\ a_looking \in [Sidecars -> [Prompts -> Statuses]]
    /\ a_handed \in [Prompts -> Nat]
    /\ a_replied \in SUBSET Prompts /\ a_running \in SUBSET Conversations
    /\ a_told \in [Prompts -> SUBSET Statuses]

AOwned == \A r \in Prompts :
    /\ a_owner[r] = None <=> a_stage[r] \in {"idle", "orphan"}
    /\ a_stage[r] # "idle" => a_receipt[r] = "pending"
    /\ a_receipt[r] = "none" => a_handed[r] = 0

AHeld == \A r \in Prompts :
    a_stage[r] \in {"inspect", "native", "taken"} => For[r] \in a_sending[a_owner[r]]

AHanded == \A r \in Prompts :
    /\ a_stage[r] \in {"queued", "inspect", "native", "orphan", "failed"} => a_handed[r] = 0
    /\ a_stage[r] \in {"taken", "accepted"} => a_handed[r] = 1
    /\ a_handed[r] \in {0, 1}
    /\ r \in a_replied => a_handed[r] = 1

ASaid == \A r \in Prompts :
    /\ "failed" \in a_told[r] => a_receipt[r] = "failed"
    /\ a_receipt[r] = "failed" => a_handed[r] = 0
    /\ "accepted" \in a_told[r] \cup {a_receipt[r]} => a_handed[r] = 1
    /\ "reply" \in a_told[r] \cup {a_receipt[r]} => r \in a_replied

AInv == AType /\ AOwned /\ AHeld /\ AHanded /\ ASaid /\ A!OneAtATime


\* What the module assumes of its constants, of A.
LEMMA AAssumed == For \in [Prompts -> Conversations] /\ None \notin Sidecars
BY RemoteAssumption DEF A!AntigravityAssumption

\* The initial states satisfy it.
LEMMA AInit == A!Init => AInv
<1> SUFFICES ASSUME A!Init PROVE AInv
  OBVIOUS
<1> USE AAssumed DEF A!Init, AInv
<1>1. AType
  BY DEF AType, Statuses, AStages
<1>2. AOwned /\ AHeld /\ AHanded /\ ASaid /\ A!OneAtATime
  BY DEF AOwned, AHeld, AHanded, ASaid, A!OneAtATime
<1> QED BY <1>1, <1>2

\* A sidecar starts.
LEMMA AStartKeeps ==
  ASSUME AInv, NEW s \in Sidecars, A!Start(s) PROVE AInv'
<1> USE AAssumed DEF AInv, A!op, A!native
<1>1. AType'
  BY DEF A!Start, AType
<1>2. AOwned'
  BY DEF A!Start, AOwned
<1>3. AHeld'
  BY DEF A!Start, AHeld
<1>4. AHanded'
  BY DEF A!Start, AHanded
<1>5. ASaid'
  BY DEF A!Start, ASaid
<1>6. A!OneAtATime'
  BY DEF A!Start, A!OneAtATime
<1> QED BY <1>1, <1>2, <1>3, <1>4, <1>5, <1>6

\* Its parent is lost.
LEMMA AParentLostKeeps ==
  ASSUME AInv, NEW s \in Sidecars, A!ParentLost(s) PROVE AInv'
<1> USE AAssumed DEF AInv, A!op, A!native
<1>1. AType'
  BY DEF A!ParentLost, AType
<1>2. AOwned'
  BY DEF A!ParentLost, AOwned
<1>3. AHeld'
  BY DEF A!ParentLost, AHeld
<1>4. AHanded'
  BY DEF A!ParentLost, AHanded
<1>5. ASaid'
  BY DEF A!ParentLost, ASaid
<1>6. A!OneAtATime'
  BY DEF A!ParentLost, A!OneAtATime
<1> QED BY <1>1, <1>2, <1>3, <1>4, <1>5, <1>6

\* Its process ends.
LEMMA AExitKeeps ==
  ASSUME AInv, NEW s \in Sidecars, A!Exit(s) PROVE AInv'
<1> USE AAssumed DEF AInv, A!op, A!native
<1>1. AType'
  BY DEF A!Exit, Statuses, AStages, AType
<1>2. AOwned'
  BY DEF A!Exit, AOwned
<1>3. AHeld'
  BY DEF A!Exit, AHeld
<1>4. AHanded'
  BY DEF A!Exit, AHanded
<1>5. ASaid'
  BY DEF A!Exit, ASaid
<1>6. A!OneAtATime'
  BY DEF A!Exit, A!OneAtATime
<1> QED BY <1>1, <1>2, <1>3, <1>4, <1>5, <1>6

\* A request makes its receipt.
LEMMA ADispatchKeeps ==
  ASSUME AInv, NEW s \in Sidecars, NEW r \in Prompts, A!Dispatch(s, r) PROVE AInv'
<1> USE AAssumed DEF AInv, A!op, A!native
<1>1. AType'
  BY DEF A!Dispatch, A!Tell, Statuses, AStages, AType
<1>2. AOwned'
  BY DEF A!Dispatch, AType, AOwned
<1>3. AHeld'
  BY DEF A!Dispatch, AType, AHeld
<1>4. AHanded'
  BY DEF A!Dispatch, A!Fresh, AOwned, AHanded
<1>5. ASaid'
  BY DEF A!Dispatch, A!Fresh, A!Tell, Statuses, AStages, AType, AOwned, AHeld, AHanded, ASaid,
     A!OneAtATime
<1>6. A!OneAtATime'
  BY DEF A!Dispatch, AType, A!OneAtATime
<1> QED BY <1>1, <1>2, <1>3, <1>4, <1>5, <1>6

\* A repeated one is given what is there.
LEMMA AAgainKeeps ==
  ASSUME AInv, NEW s \in Sidecars, NEW r \in Prompts, A!Again(s, r) PROVE AInv'
<1> USE AAssumed DEF AInv, A!op, A!native
<1>1. AType'
  BY DEF A!Again, A!Seen, A!Tell, Statuses, AType
<1>2. AOwned'
  BY DEF A!Again, AOwned
<1>3. AHeld'
  BY DEF A!Again, AHeld
<1>4. AHanded'
  BY DEF A!Again, AHanded
<1>5. ASaid'
  BY DEF A!Again, A!Seen, A!Tell, ASaid
<1>6. A!OneAtATime'
  BY DEF A!Again, A!OneAtATime
<1> QED BY <1>1, <1>2, <1>3, <1>4, <1>5, <1>6

\* The operation starts.
LEMMA AClaimKeeps ==
  ASSUME AInv, NEW r \in Prompts, A!Claim(r) PROVE AInv'
<1> USE AAssumed DEF AInv, A!op, A!native
<1>1. AType'
  <2>1. a_owner[r] \in Sidecars
    BY DEF AType, AOwned, A!Claim
  <2>2. a_sending' \in [Sidecars -> SUBSET Conversations]
    BY <2>1 DEF AType, A!Claim
  <2>3. a_stage' \in [Prompts -> AStages]
    BY DEF AType, A!Claim, A!Finish, AStages
  <2> QED
    BY <2>1, <2>2, <2>3 DEF AType, A!Claim
<1>2. AOwned'
  BY DEF A!Claim, A!Finish, AType, AOwned
<1>3. AHeld'
  BY DEF A!Claim, A!Finish, AType, AOwned, AHeld
<1>4. AHanded'
  BY DEF A!Claim, A!Finish, AType, AHanded
<1>5. ASaid'
  BY DEF A!Claim, ASaid
<1>6. A!OneAtATime'
  BY DEF A!Claim, A!Taken, A!Finish, AType, AHeld, A!OneAtATime
<1> QED BY <1>1, <1>2, <1>3, <1>4, <1>5, <1>6

\* The conversation is looked up.
LEMMA AInspectKeeps ==
  ASSUME AInv, NEW r \in Prompts, A!Inspect(r) PROVE AInv'
<1> USE AAssumed DEF AInv, A!op, A!native
<1>1. AType'
  <2>1. a_owner[r] \in Sidecars
    BY DEF AType, AOwned, A!Inspect
  <2>2. a_sending' \in [Sidecars -> SUBSET Conversations]
    BY <2>1 DEF AType, A!Inspect, A!Release
  <2>3. a_stage' \in [Prompts -> AStages]
    BY DEF AType, A!Inspect, A!Finish, AStages
  <2> QED
    BY <2>1, <2>2, <2>3 DEF AType, A!Inspect
<1>2. AOwned'
  BY DEF A!Inspect, A!Finish, AType, AOwned
<1>3. AHeld'
  BY DEF A!Inspect, A!Finish, A!Release, AType, AOwned, AHeld, A!OneAtATime
<1>4. AHanded'
  BY DEF A!Inspect, A!Finish, AType, AHanded
<1>5. ASaid'
  BY DEF A!Inspect, ASaid
<1>6. A!OneAtATime'
  BY DEF A!Inspect, A!Finish, AType, A!OneAtATime
<1> QED BY <1>1, <1>2, <1>3, <1>4, <1>5, <1>6

\* Antigravity takes the prompt.
LEMMA ATakeKeeps ==
  ASSUME AInv, NEW r \in Prompts, A!Take(r) PROVE AInv'
<1> USE AAssumed DEF AInv, A!op, A!native
<1>1. AType'
  <2>1. a_stage' \in [Prompts -> AStages]
    BY DEF AType, A!Take, AStages
  <2>2. For[r] \in Conversations
    OBVIOUS
  <2>3. a_running' = a_running \cup {For[r]}
    BY DEF A!Take
  <2>4. a_handed' \in [Prompts -> Nat]
    BY DEF AType, A!Take
  <2> QED
    BY <2>1, <2>2, <2>3, <2>4 DEF AType, A!Take
<1>2. AOwned'
  BY DEF A!Take, AOwned
<1>3. AHeld'
  BY DEF A!Take, AHeld
<1>4. AHanded'
  BY DEF A!Take, AType, AHanded
<1>5. ASaid'
  BY DEF A!Take, AOwned, AHanded, ASaid
<1>6. A!OneAtATime'
  BY DEF A!Take, A!OneAtATime
<1> QED BY <1>1, <1>2, <1>3, <1>4, <1>5, <1>6

\* The native command returns.
LEMMA AReturnKeeps ==
  ASSUME AInv, NEW r \in Prompts, A!Return(r) PROVE AInv'
<1> USE AAssumed DEF AInv, A!op, A!native
<1>1. AType'
  BY DEF A!Return, A!Finish, A!Release, A!NotKnown, A!Overdue, Statuses, AStages, AType, AOwned
<1>2. AOwned'
  BY DEF A!Return, A!Finish, A!NotKnown, A!Overdue, AType, AOwned
<1>3. AHeld'
  BY DEF A!Return, A!Finish, A!Release, A!NotKnown, A!Overdue, AType, AHeld, A!OneAtATime
<1>4. AHanded'
  BY DEF A!Return, A!Finish, A!NotKnown, AType, AHanded
<1>5. ASaid'
  BY DEF A!Return, ASaid
<1>6. A!OneAtATime'
  BY DEF A!Return, A!Finish, A!Overdue, AType, A!OneAtATime
<1> QED BY <1>1, <1>2, <1>3, <1>4, <1>5, <1>6

\* The outcome is written.
LEMMA ASettleKeeps ==
  ASSUME AInv, NEW r \in Prompts, A!Settle(r) PROVE AInv'
<1> USE AAssumed DEF AInv, A!op, A!native
<1>1. AType'
  BY DEF A!Settle, Statuses, AStages, AType
<1>2. AOwned'
  BY DEF A!Settle, AType, AOwned
<1>3. AHeld'
  BY DEF A!Settle, AHeld
<1>4. AHanded'
  BY DEF A!Settle, AHanded
<1>5. ASaid'
  BY DEF A!Settle, AType, AOwned, AHanded, ASaid
<1>6. A!OneAtATime'
  BY DEF A!Settle, A!OneAtATime
<1> QED BY <1>1, <1>2, <1>3, <1>4, <1>5, <1>6

\* A conversation comes to rest.
LEMMA ARestKeeps ==
  ASSUME AInv, NEW c \in Conversations, A!Rest(c) PROVE AInv'
<1> USE AAssumed DEF AInv, A!op, A!native
<1>1. AType'
  BY DEF A!Rest, AType
<1>2. AOwned'
  BY DEF A!Rest, AOwned
<1>3. AHeld'
  BY DEF A!Rest, AHeld
<1>4. AHanded'
  BY DEF A!Rest, AHanded
<1>5. ASaid'
  BY DEF A!Rest, ASaid
<1>6. A!OneAtATime'
  BY DEF A!Rest, A!OneAtATime
<1> QED BY <1>1, <1>2, <1>3, <1>4, <1>5, <1>6

\* A caller's refresh begins.
LEMMA ALookKeeps ==
  ASSUME AInv, NEW s \in Sidecars, NEW r \in Prompts, A!Look(s, r) PROVE AInv'
<1> USE AAssumed DEF AInv, A!op, A!native
<1>1. AType'
  <2>1. a_receipt[r] \in Statuses
    BY DEF AType
  <2>2. a_looking \in [Sidecars -> [Prompts -> Statuses]]
    BY DEF AType
  <2>3. \/ a_looking' = a_looking
         \/ a_looking' = [a_looking EXCEPT ![s][r] = a_receipt[r]]
    BY DEF A!Look
  <2>4. a_looking' \in [Sidecars -> [Prompts -> Statuses]]
    BY <2>1, <2>2, <2>3
  <2>5. a_told' \in [Prompts -> SUBSET Statuses]
    BY DEF AType, A!Look, A!Tell, Statuses
  <2> QED
    BY <2>1, <2>2, <2>3, <2>4, <2>5 DEF AType, A!Look
<1>2. AOwned'
  BY DEF A!Look, AOwned
<1>3. AHeld'
  BY DEF A!Look, AHeld
<1>4. AHanded'
  BY DEF A!Look, AHanded
<1>5. ASaid'
  BY DEF A!Look, A!Tell, AType, ASaid
<1>6. A!OneAtATime'
  BY DEF A!Look, A!OneAtATime
<1> QED BY <1>1, <1>2, <1>3, <1>4, <1>5, <1>6

\* It ends.
LEMMA ARefreshKeeps ==
  ASSUME AInv, NEW s \in Sidecars, NEW r \in Prompts, A!Refresh(s, r) PROVE AInv'
<1> USE AAssumed DEF AInv, A!op, A!native
<1>1. AType'
  <2>1. a_looking' \in [Sidecars -> [Prompts -> Statuses]]
    BY DEF AType, A!Refresh, Statuses
  <2>2. a_receipt' \in [Prompts -> Statuses]
    BY DEF AType, A!Refresh, Statuses
  <2>3. a_told' \in [Prompts -> SUBSET Statuses]
    BY DEF AType, A!Refresh, A!Tell, Statuses, A!Answer, A!Observed, A!Seen
  <2> QED
    BY <2>1, <2>2, <2>3 DEF AType, A!Refresh
<1>2. AOwned'
  BY DEF A!Refresh, A!Same, AOwned
<1>3. AHeld'
  BY DEF A!Refresh, AHeld
<1>4. AHanded'
  BY DEF A!Refresh, AHanded
<1>5. ASaid'
  BY DEF A!Refresh, A!Observed, A!Same, A!Seen, A!Answer, A!Tell, ASaid
<1>6. A!OneAtATime'
  BY DEF A!Refresh, A!OneAtATime
<1> QED BY <1>1, <1>2, <1>3, <1>4, <1>5, <1>6


\* Every step keeps it.
LEMMA ANext == AInv /\ [A!Next]_aVars => AInv'
<1> SUFFICES ASSUME AInv, [A!Next]_aVars PROVE AInv'
  OBVIOUS
<1>1. ASSUME NEW s \in Sidecars, A!Start(s) \/ A!ParentLost(s) \/ A!Exit(s) PROVE AInv'
  BY <1>1, AStartKeeps, AParentLostKeeps, AExitKeeps
<1>2. ASSUME NEW s \in Sidecars, NEW r \in Prompts,
             A!Dispatch(s, r) \/ A!Again(s, r) \/ A!Look(s, r) \/ A!Refresh(s, r)
      PROVE AInv'
  BY <1>2, ADispatchKeeps, AAgainKeeps, ALookKeeps, ARefreshKeeps
<1>3. ASSUME NEW r \in Prompts,
             A!Claim(r) \/ A!Inspect(r) \/ A!Take(r) \/ A!Return(r) \/ A!Settle(r)
      PROVE AInv'
  BY <1>3, AClaimKeeps, AInspectKeeps, ATakeKeeps, AReturnKeeps, ASettleKeeps
<1>4. ASSUME NEW c \in Conversations, A!Rest(c) PROVE AInv'
  BY <1>4, ARestKeeps
<1>5. CASE UNCHANGED aVars
  BY <1>5 DEF aVars, AInv, AType, AOwned, AHeld, AHanded, ASaid, A!OneAtATime
<1> QED
  BY <1>1, <1>2, <1>3, <1>4, <1>5 DEF A!Next

\* The promises.
LEMMA APromises == AInv => A!AtMostOnce /\ A!TellsTheTruth
BY DEF AInv, AOwned, AHanded, ASaid, A!AtMostOnce, A!TellsTheTruth

\* A receipt goes forward.
AStep == \A r \in Prompts : a_receipt'[r] # a_receipt[r] =>
          \/ a_receipt[r] = "none" /\ a_receipt'[r] = "pending"
          \/ a_receipt[r] = "pending" /\ a_receipt'[r] \in {"accepted", "unknown", "failed"}
          \/ a_receipt[r] \in {"accepted", "unknown"} /\ a_receipt'[r] = "reply"
\* A receipt that is written again says more than before.
LEMMA AForward == AInv /\ [A!Next]_aVars => AStep
<1> SUFFICES ASSUME AInv, [A!Next]_aVars PROVE AStep
  OBVIOUS
<1>1. ASSUME NEW s \in Sidecars, A!Start(s) \/ A!ParentLost(s) \/ A!Exit(s) PROVE AStep
  BY <1>1 DEF A!Start, A!ParentLost, A!Exit, AStep
<1>2. ASSUME NEW s \in Sidecars, NEW r \in Prompts,
             A!Dispatch(s, r) \/ A!Again(s, r) \/ A!Look(s, r) \/ A!Refresh(s, r)
      PROVE AStep
  BY <1>2 DEF A!Dispatch, A!Again, A!Look, A!Refresh, A!Fresh, A!Same, A!Observed, AStep, AInv,
     AType
<1>3. ASSUME NEW r \in Prompts,
             A!Claim(r) \/ A!Inspect(r) \/ A!Take(r) \/ A!Return(r) \/ A!Settle(r)
      PROVE AStep
  BY <1>3 DEF A!Claim, A!Inspect, A!Take, A!Return, A!Settle, AStep, AInv, AType, AOwned
<1>4. ASSUME NEW c \in Conversations, A!Rest(c) PROVE AStep
  BY <1>4 DEF A!Rest, AStep
<1>5. CASE UNCHANGED aVars
  BY <1>5 DEF aVars, AStep
<1> QED
  BY <1>1, <1>2, <1>3, <1>4, <1>5 DEF A!Next

\* The state of a receipt goes forward only, over crashes and repeated calls.
THEOREM AForwardOnly == A!Spec => A!Forward
<1>1. A!Init => AInv
  BY AInit
<1>2. AInv /\ [A!Next]_(A!vars) => AInv'
  BY ANext DEF A!vars, A!op, A!native, aVars
<1>3. AInv /\ [A!Next]_(A!vars) => AStep
  BY AForward DEF A!vars, A!op, A!native, aVars
<1> QED
  BY <1>1, <1>2, <1>3, PTL DEF A!Spec, A!Forward, AStep

-----------------------------------------------------------------------------
(* The sessions of the command line (AntigravityCli) *)

CStages == {"idle", "queued", "starting", "verify", "send", "waiting", "cleanup", "leave", "over"}

CType ==
    /\ c_status \in [Starts -> {"new", "starting", "idle", "running", "unknown", "failed", "closed", "closing"}]
    /\ c_delivery \in [Starts -> {"not-sent", "unknown", "completed"}]
    /\ c_pending \in [Starts -> C!Requests \cup {None}]
    /\ c_child \in [Starts -> {"none", "alive", "told", "dead"}]
    /\ c_work \in [Starts -> Seq(C!Requests)]
    /\ c_closing \in [Starts -> {"no", "waiting", "closed", "closing"}]
    /\ c_stage \in [C!Requests -> CStages]
    /\ c_outcome \in [C!Requests -> {"none", "failed", "unknown", "completed"}]
    /\ c_gave \in [C!Requests -> C!Requests \cup {None}]
    /\ c_written \in SUBSET C!Requests
    /\ c_open \in SUBSET Starts /\ c_reserved \in SUBSET Starts

\* Of the sessions that are open or starting there are no more than there may be.
CPlaces ==
    /\ IsFiniteSet(c_open) /\ IsFiniteSet(c_reserved)
    /\ Cardinality(c_open) + Cardinality(c_reserved) <= Capacity

\* A start that is under way holds its place, and only a session that was opened is open.
CStarting == \A k \in Starts :
    /\ c_status[k] = "starting" <=> c_stage[k] = "starting"
    /\ c_stage[k] \in {"idle", "queued"} =>
          c_status[k] = "new" /\ c_child[k] = "none" /\ c_closing[k] = "no"
    /\ c_stage[k] = "starting" => k \in c_reserved /\ c_closing[k] = "no"
    /\ k \in c_reserved => k \notin c_open /\ c_stage[k] \in {"starting", "cleanup", "leave"}
    /\ k \in c_open => c_stage[k] \in {"verify", "send", "waiting", "cleanup", "over"}

\* A child has at most one prompt, and the session waits for no other.
CTurn == \A k \in Starts :
    /\ c_pending[k] # None <=> c_status[k] = "running"
    /\ c_status[k] \in {"new", "starting", "idle"} => c_work[k] = <<>>
    /\ c_status[k] = "running" => c_work[k] \in {<<>>, <<c_pending[k]>>}
    /\ c_pending[k] # None => c_stage[c_pending[k]] = "waiting" /\ C!Session(c_pending[k]) = k

\* What was written to a child waits for its result, or has one.
CSent == \A p \in C!Requests :
    /\ p \in c_written => c_stage[p] \in {"waiting", "over"}
    /\ c_outcome[p] = "failed" => c_stage[p] = "over" /\ p \notin c_written
    /\ c_gave[p] \in {None, p}

CInv == CType /\ CPlaces /\ CStarting /\ CTurn /\ CSent

\* What the module assumes of its constants, of C.
LEMMA CAssumed ==
    /\ Home \in [Sends -> Starts] /\ Starts \cap Sends = {}
    /\ None \notin Starts \cup Sends /\ Capacity \in Nat \ {0}
BY RemoteAssumption DEF C!CliAssumption

\* The size of a set is the same in the instance.
LEMMA CCardinality == \A Z : C!Cardinality(Z) = Cardinality(Z)
BY DEF C!Cardinality, Cardinality

\* One more member, or fewer, and the size.
LEMMA Grows ==
  ASSUME NEW Z, IsFiniteSet(Z), NEW x
  PROVE  /\ IsFiniteSet(Z \cup {x}) /\ Cardinality(Z \cup {x}) \in Nat
         /\ Cardinality(Z \cup {x}) <= Cardinality(Z) + 1
<1>1. Cardinality(Z) \in Nat
  BY FS_CardinalityType
<1>2. /\ IsFiniteSet(Z \cup {x})
      /\ Cardinality(Z \cup {x}) = IF x \in Z THEN Cardinality(Z) ELSE Cardinality(Z) + 1
  BY FS_AddElement
<1> QED BY <1>1, <1>2

\* One member less.
LEMMA Shrinks ==
  ASSUME NEW Z, IsFiniteSet(Z), NEW x
  PROVE  /\ IsFiniteSet(Z \ {x}) /\ Cardinality(Z \ {x}) \in Nat
         /\ Cardinality(Z \ {x}) = IF x \in Z THEN Cardinality(Z) - 1 ELSE Cardinality(Z)
<1>1. Cardinality(Z) \in Nat
  BY FS_CardinalityType
<1>2. /\ IsFiniteSet(Z \ {x})
      /\ Cardinality(Z \ {x}) = IF x \in Z THEN Cardinality(Z) - 1 ELSE Cardinality(Z)
  BY FS_RemoveElement
<1>3. Cardinality(Z \ {x}) \in Nat
  BY <1>2, FS_CardinalityType
<1> QED BY <1>2, <1>3

\* Every request is for a session.
LEMMA CSessions == \A p \in C!Requests : C!Session(p) \in Starts
BY CAssumed DEF C!Requests, C!Session

\* The initial states satisfy it.
LEMMA CInitial == C!Init => CInv
<1> SUFFICES ASSUME C!Init PROVE CInv
  OBVIOUS
<1> USE CAssumed DEF C!Init, CInv
<1>1. CType
  BY DEF CType, CStages
<1>2. CPlaces
  BY FS_EmptySet DEF CPlaces
<1>3. CStarting /\ CTurn /\ CSent
  BY DEF CStarting, CTurn, CSent, C!Requests
<1> QED BY <1>1, <1>2, <1>3

\* A request is accepted, if there is room for the session it starts.
LEMMA CAskKeeps ==
  ASSUME CInv, NEW p \in C!Requests, C!Ask(p) PROVE CInv'
<1> USE CAssumed DEF CInv, C!session, C!process, C!request
<1>1. CType'
  BY DEF C!Ask, C!Go, CStages, CType
<1>2. CPlaces'
  BY DEF C!Ask, CPlaces
<1>3. CStarting'
  BY DEF C!Ask, C!Go, CStarting
<1>4. CTurn'
  BY DEF C!Ask, C!Go, CTurn
<1>5. CSent'
  BY DEF C!Ask, C!Go, CSent
<1> QED BY <1>1, <1>2, <1>3, <1>4, <1>5

\* A place is reserved and the child spawned, if there still is room.
LEMMA CBeginKeeps ==
  ASSUME CInv, NEW k \in Starts, C!Begin(k) PROVE CInv'
<1> USE CAssumed DEF CInv, C!session, C!process, C!request
<1>1. CType'
  <2>1. /\ c_stage \in [C!Requests -> CStages]
        /\ c_outcome \in [C!Requests -> {"none", "failed", "unknown", "completed"}]
        /\ c_status \in [Starts -> {"new", "starting", "idle", "running", "unknown",
                                "failed", "closed", "closing"}]
        /\ c_child \in [Starts -> {"none", "alive", "told", "dead"}]
        /\ c_reserved \in SUBSET Starts
    BY DEF CType
  <2>2. c_stage' \in [C!Requests -> CStages]
    BY <2>1 DEF C!Begin, C!End, C!Go, CStages
  <2>3. c_outcome' \in [C!Requests -> {"none", "failed", "unknown", "completed"}]
    BY <2>1 DEF C!Begin, C!End
  <2>4. c_status' \in [Starts -> {"new", "starting", "idle", "running", "unknown",
                             "failed", "closed", "closing"}]
    BY <2>1 DEF C!Begin
  <2>5. c_child' \in [Starts -> {"none", "alive", "told", "dead"}]
    BY <2>1 DEF C!Begin
  <2>6. c_reserved' \in SUBSET Starts
    BY <2>1 DEF C!Begin
  <2> QED
    BY <2>1, <2>2, <2>3, <2>4, <2>5, <2>6 DEF CType, C!Begin
<1>2. CPlaces'
  <2>1. Cardinality(c_open) \in Nat /\ Cardinality(c_reserved) \in Nat
    BY FS_CardinalityType DEF CPlaces
  <2>2. \/ UNCHANGED <<c_open, c_reserved>>
        \/ /\ Cardinality(c_open) + Cardinality(c_reserved) < Capacity
           /\ c_reserved' = c_reserved \cup {k} /\ c_open' = c_open
    BY <2>1, CCardinality DEF C!Begin, C!FullStill, C!Full
  <2>3. /\ IsFiniteSet(c_reserved \cup {k}) /\ Cardinality(c_reserved \cup {k}) \in Nat
        /\ Cardinality(c_reserved \cup {k}) <= Cardinality(c_reserved) + 1
    BY Grows DEF CPlaces
  <2> QED
    BY <2>1, <2>2, <2>3 DEF CPlaces
<1>3. CStarting'
  BY DEF C!Begin, C!Go, C!End, C!Requests, CType, CStarting
<1>4. CTurn'
  BY DEF C!Begin, C!End, C!Go, CType, CStarting, CTurn
<1>5. CSent'
  BY DEF C!Begin, C!End, C!Go, CType, CSent
<1> QED BY <1>1, <1>2, <1>3, <1>4, <1>5

\* The child is up: the place is given up for the session, or kept until the start is cleaned up.
LEMMA COpenedKeeps ==
  ASSUME CInv, NEW k \in Starts, C!Opened(k) PROVE CInv'
<1> USE CAssumed DEF CInv, C!session, C!process, C!request
<1>1. CType'
  BY DEF C!Opened, C!Go, C!Requests, CStages, C!Session, CType
<1>2. CPlaces'
  <2>1. Cardinality(c_open) \in Nat /\ Cardinality(c_reserved) \in Nat
    BY FS_CardinalityType DEF CPlaces
  <2>2. \/ UNCHANGED <<c_open, c_reserved>>
        \/ c_reserved' = c_reserved \ {k} /\ c_open' = c_open \cup {k}
    BY DEF C!Opened
  <2>3. k \in c_reserved
    BY DEF C!Opened, CStarting
  <2>4. /\ IsFiniteSet(c_open \cup {k}) /\ Cardinality(c_open \cup {k}) \in Nat
        /\ Cardinality(c_open \cup {k}) <= Cardinality(c_open) + 1
    BY Grows DEF CPlaces
  <2>5. /\ IsFiniteSet(c_reserved \ {k}) /\ Cardinality(c_reserved \ {k}) \in Nat
        /\ Cardinality(c_reserved \ {k}) = Cardinality(c_reserved) - 1
    BY <2>3, Shrinks DEF CPlaces
  <2>6. CASE UNCHANGED <<c_open, c_reserved>>
    BY <2>6 DEF CPlaces
  <2>7. CASE c_reserved' = c_reserved \ {k} /\ c_open' = c_open \cup {k}
    BY <2>1, <2>4, <2>5, <2>7 DEF CPlaces
  <2> QED
    BY <2>1, <2>2, <2>3, <2>4, <2>5, <2>6, <2>7
<1>3. CStarting'
  BY DEF C!Opened, C!Go, C!Requests, CType, CStarting
<1>4. CTurn'
  BY DEF C!Opened, C!Go, CType, CStarting, CTurn
<1>5. CSent'
  BY DEF C!Opened, C!Go, CType, CStarting, CSent
<1> QED BY <1>1, <1>2, <1>3, <1>4, <1>5

\* The sender is asked for again.
LEMMA CVerifyKeeps ==
  ASSUME CInv, NEW p \in C!Requests, C!Verify(p) PROVE CInv'
<1> USE CAssumed DEF CInv, C!session, C!process, C!request
<1>1. CType'
  <2>1. c_stage \in [C!Requests -> CStages] /\ c_outcome \in [C!Requests -> {"none", "failed", "unknown", "completed"}]
    BY DEF CType
  <2>2. c_stage' \in [C!Requests -> CStages]
    BY <2>1 DEF C!Verify, C!End, C!Go, CStages
  <2>3. c_outcome' \in [C!Requests -> {"none", "failed", "unknown", "completed"}]
    BY <2>1 DEF C!Verify, C!End
  <2> QED
    BY <2>1, <2>2, <2>3 DEF CType, C!Verify
<1>2. CPlaces'
  BY DEF C!Verify, CPlaces
<1>3. CStarting'
  BY DEF C!Verify, C!Go, C!End, C!Requests, CType, CStarting
<1>4. CTurn'
  BY DEF C!Verify, C!Go, C!End, CType, CTurn
<1>5. CSent'
  BY DEF C!Verify, C!Go, C!End, CType, CSent
<1> QED BY <1>1, <1>2, <1>3, <1>4, <1>5

\* A failed start gives its session up.
LEMMA CCleanupKeeps ==
  ASSUME CInv, NEW k \in Starts, C!Cleanup(k) PROVE CInv'
<1> USE CAssumed DEF CInv, C!session, C!process, C!request
<1>1. CType'
  BY DEF C!Cleanup, C!Go, C!CloseOwn, C!Requests, CStages, CType
<1>2. CPlaces'
  <2>1. Cardinality(c_open) \in Nat /\ Cardinality(c_reserved) \in Nat
    BY FS_CardinalityType DEF CPlaces
  <2>2. c_open' \subseteq c_open /\ UNCHANGED c_reserved
    BY DEF C!Cleanup
  <2>3. IsFiniteSet(c_open') /\ Cardinality(c_open') <= Cardinality(c_open)
    BY <2>2, FS_Subset DEF CPlaces
  <2>4. Cardinality(c_open') \in Nat
    BY <2>3, FS_CardinalityType
  <2> QED
    BY <2>1, <2>2, <2>3, <2>4 DEF CPlaces
<1>3. CStarting'
  BY DEF C!Cleanup, C!Go, C!CloseOwn, CStarting
<1>4. CTurn'
  BY DEF C!Cleanup, C!Go, CTurn
<1>5. CSent'
  BY DEF C!Cleanup, C!Go, CSent
<1> QED BY <1>1, <1>2, <1>3, <1>4, <1>5

\* It frees the place it may still hold.
LEMMA CLeaveKeeps ==
  ASSUME CInv, NEW k \in Starts, C!Leave(k) PROVE CInv'
<1> USE CAssumed DEF CInv, C!session, C!process, C!request
<1>1. CType'
  BY DEF C!Leave, C!End, C!Requests, CStages, CType
<1>2. CPlaces'
  <2>1. Cardinality(c_open) \in Nat /\ Cardinality(c_reserved) \in Nat
    BY FS_CardinalityType DEF CPlaces
  <2>2. c_reserved' \subseteq c_reserved /\ UNCHANGED c_open
    BY DEF C!Leave
  <2>3. IsFiniteSet(c_reserved') /\ Cardinality(c_reserved') <= Cardinality(c_reserved)
    BY <2>2, FS_Subset DEF CPlaces
  <2>4. Cardinality(c_reserved') \in Nat
    BY <2>3, FS_CardinalityType
  <2> QED
    BY <2>1, <2>2, <2>3, <2>4 DEF CPlaces
<1>3. CStarting'
  BY DEF C!Leave, C!End, C!Requests, CStages, C!Session, CType, CStarting, CTurn
<1>4. CTurn'
  BY DEF C!Leave, C!End, CTurn
<1>5. CSent'
  BY DEF C!Leave, C!End, CType, CSent
<1> QED BY <1>1, <1>2, <1>3, <1>4, <1>5


\* A prompt is sent, or refused.
LEMMA CSendKeeps ==
  ASSUME CInv, NEW p \in C!Requests, C!Send(p) PROVE CInv'
<1> USE CAssumed DEF CInv, C!session, C!process, C!request
<1> DEFINE k == C!Session(p)
<1>1. k \in Starts /\ k = C!Session(p)
  BY CSessions
<1> HIDE DEF k
<1>2. /\ c_stage \in [C!Requests -> CStages] /\ c_stage[p] = "send"
      /\ UNCHANGED <<c_child, c_closing, c_gave, c_open, c_reserved>>
  BY DEF C!Send, CType
<1>3. CPlaces'
  BY <1>2 DEF CPlaces
<1>4. ASSUME c_status[k] = "idle", c_pending[k] = None,
             c_stage' = [c_stage EXCEPT ![p] = "waiting"], UNCHANGED c_outcome,
             c_status' = [c_status EXCEPT ![k] = "running"],
             c_delivery' = [c_delivery EXCEPT ![k] = "unknown"],
             c_pending' = [c_pending EXCEPT ![k] = p],
             \/ UNCHANGED <<c_work, c_written>>
             \/ /\ c_work' = [c_work EXCEPT ![k] = Append(@, p)]
                /\ c_written' = c_written \cup {p}
      PROVE  CInv'
  <2>1. c_work[k] = <<>> /\ Append(<<>>, p) = <<p>> /\ <<p>> \in Seq(C!Requests)
    BY <1>1, <1>4 DEF CTurn
  <2>2. c_work' = c_work \/ c_work' = [c_work EXCEPT ![k] = <<p>>]
    BY <1>4, <2>1
  <2>3. CType'
    <3>1. c_work' \in [Starts -> Seq(C!Requests)]
      BY <1>1, <2>1, <2>2 DEF CType
    <3> QED BY <1>1, <1>2, <1>4, <3>1 DEF CType, CStages
  <2>4. CStarting'
    BY <1>1, <1>2, <1>4 DEF CStarting
  <2>5. CTurn'
    <3>1. c_work'[k] \in {<<>>, <<p>>} /\ \A j \in Starts \ {k} : c_work'[j] = c_work[j]
      BY <1>1, <2>1, <2>2 DEF CType
    <3>2. \A j \in Starts \ {k} : UNCHANGED <<c_status[j], c_pending[j]>>
      BY <1>4
    <3>3. \A j \in Starts : c_pending[j] # None => c_pending[j] # p /\ c_pending[j] \in C!Requests
      BY <1>2 DEF CType, CTurn
    <3>4. c_status'[k] = "running" /\ c_pending'[k] = p /\ p # None
      BY <1>1, <1>4 DEF CType, C!Requests
    <3> QED BY <1>1, <1>2, <1>4, <3>1, <3>2, <3>3, <3>4 DEF CTurn
  <2>6. CSent'
    BY <1>1, <1>2, <1>4 DEF CSent
  <2> QED BY <1>3, <2>3, <2>4, <2>5, <2>6
<1>5. ASSUME UNCHANGED <<c_status, c_delivery, c_pending, c_work, c_written, c_outcome>>,
             p \in Starts, c_stage' = [c_stage EXCEPT ![p] = "cleanup"]
      PROVE  CInv'
  <2>1. CType'
    BY <1>2, <1>5 DEF CType, CStages
  <2>2. CStarting' /\ CTurn' /\ CSent'
    BY <1>2, <1>5 DEF CStarting, CTurn, CSent
  <2> QED BY <1>3, <2>1, <2>2
<1>6. ASSUME UNCHANGED <<c_status, c_delivery, c_pending, c_work, c_written>>,
             NEW o \in {"failed", "unknown"}, c_outcome' = [c_outcome EXCEPT ![p] = o],
             c_stage' = [c_stage EXCEPT ![p] = "over"]
      PROVE  CInv'
  <2>1. CType'
    BY <1>2, <1>6 DEF CType, CStages
  <2>2. CStarting' /\ CTurn'
    BY <1>2, <1>6 DEF CStarting, CTurn
  <2>3. CSent'
    BY <1>2, <1>6 DEF CSent
  <2> QED BY <1>3, <2>1, <2>2, <2>3
<1>7. CASE c_status[k] = "idle" /\ c_pending[k] = None
  BY <1>1, <1>4, <1>7 DEF C!Send, C!Go
<1>8. CASE ~(c_status[k] = "idle" /\ c_pending[k] = None)
  BY <1>1, <1>5, <1>6, <1>8 DEF C!Send, C!Go, C!End
<1> QED
  BY <1>7, <1>8

\* A result is that of the one prompt the child has.
LEMMA CResultKeeps ==
  ASSUME CInv, NEW k \in Starts, C!Result(k) PROVE CInv'
<1> USE CAssumed DEF CInv, C!session, C!process, C!request
<1>1. CType'
  <2>1. /\ c_stage \in [C!Requests -> CStages]
        /\ c_outcome \in [C!Requests -> {"none", "failed", "unknown", "completed"}]
        /\ c_status \in [Starts -> {"new", "starting", "idle", "running", "unknown",
                                "failed", "closed", "closing"}]
        /\ c_delivery \in [Starts -> {"not-sent", "unknown", "completed"}]
        /\ c_pending \in [Starts -> C!Requests \cup {None}]
        /\ c_work \in [Starts -> Seq(C!Requests)]
        /\ c_gave \in [C!Requests -> C!Requests \cup {None}]
    BY DEF CType
  <2>2. c_stage' \in [C!Requests -> CStages]
    BY <2>1 DEF C!Result, C!End, C!Dead, CStages
  <2>3. c_outcome' \in [C!Requests -> {"none", "failed", "unknown", "completed"}]
    BY <2>1 DEF C!Result, C!End, C!Dead
  <2>4. c_status' \in [Starts -> {"new", "starting", "idle", "running", "unknown",
                             "failed", "closed", "closing"}]
    BY <2>1 DEF C!Result
  <2>5. c_delivery' \in [Starts -> {"not-sent", "unknown", "completed"}]
    BY <2>1 DEF C!Result, C!End, C!Dead
  <2>6. c_pending' \in [Starts -> C!Requests \cup {None}]
    BY <2>1 DEF C!Result, C!Dead
  <2>7. c_work' \in [Starts -> Seq(C!Requests)]
    BY <2>1 DEF C!Result
  <2>8. c_pending[k] \in C!Requests \cup {None} /\ Head(c_work[k]) \in C!Requests
    BY DEF CType, C!Result
  <2>9. c_gave' \in [C!Requests -> C!Requests \cup {None}]
    BY <2>1, <2>8 DEF C!Result, C!Dead
  <2> QED
    BY <2>1, <2>2, <2>3, <2>4, <2>5, <2>6, <2>7, <2>8, <2>9 DEF CType, C!Result
<1>2. CPlaces'
  BY DEF C!Result, CPlaces
<1>3. CStarting'
  BY DEF C!Result, C!End, C!Requests, CType, CStarting, CTurn
<1>4. CTurn'
  BY DEF C!Result, C!End, CStages, C!Session, CType, CTurn
<1>5. CSent'
  BY DEF C!Result, C!End, CType, CTurn, CSent
<1> QED BY <1>1, <1>2, <1>3, <1>4, <1>5

\* The deadline of a turn: what is sent stays unknown.
LEMMA CTurnTimeoutKeeps ==
  ASSUME CInv, NEW k \in Starts, C!TurnTimeout(k) PROVE CInv'
<1> USE CAssumed DEF CInv, C!session, C!process, C!request
<1>1. CType'
  BY DEF C!TurnTimeout, C!Waits, C!Overdue, C!End, CStages, CType
<1>2. CPlaces'
  BY DEF C!TurnTimeout, CPlaces
<1>3. CStarting'
  BY DEF C!TurnTimeout, C!Waits, C!Overdue, C!End, CStarting, CTurn
<1>4. CTurn'
  BY DEF C!TurnTimeout, C!Overdue, C!End, CType, CTurn
<1>5. CSent'
  BY DEF C!TurnTimeout, C!End, CSent
<1> QED BY <1>1, <1>2, <1>3, <1>4, <1>5

\* A session fails.
LEMMA CFailsKeeps ==
  ASSUME CInv, NEW k \in Starts, C!Fails(k) PROVE CInv'
<1> USE CAssumed DEF CInv, C!session, C!process, C!request
<1>1. CType'
  BY DEF C!Fails, C!FailSession, C!Uncertain, C!End, C!Go, C!Requests, CStages, C!Session, CType
<1>2. CPlaces'
  BY DEF C!Fails, CPlaces
<1>3. CStarting'
  BY DEF C!Fails, C!FailSession, C!End, C!Go, C!Requests, CType, CStarting, CTurn
<1>4. CTurn'
  BY DEF C!Fails, C!FailSession, C!End, C!Go, CType, CTurn
<1>5. CSent'
  BY DEF C!Fails, C!FailSession, C!Uncertain, C!End, C!Go, CType, CSent
<1> QED BY <1>1, <1>2, <1>3, <1>4, <1>5

\* A child ends.
LEMMA CDiesKeeps ==
  ASSUME CInv, NEW k \in Starts, C!Dies(k) PROVE CInv'
<1> USE CAssumed DEF CInv, C!session, C!process, C!request
<1>1. CType'
  <2>1. /\ c_stage \in [C!Requests -> CStages]
        /\ c_outcome \in [C!Requests -> {"none", "failed", "unknown", "completed"}]
        /\ c_status \in [Starts -> {"new", "starting", "idle", "running", "unknown",
                                "failed", "closed", "closing"}]
        /\ c_delivery \in [Starts -> {"not-sent", "unknown", "completed"}]
        /\ c_pending \in [Starts -> C!Requests \cup {None}]
        /\ c_child \in [Starts -> {"none", "alive", "told", "dead"}]
    BY DEF CType
  <2>2. c_stage' \in [C!Requests -> CStages]
    BY <2>1 DEF C!Dies, C!FailSession, C!End, C!Go, CStages
  <2>3. c_outcome' \in [C!Requests -> {"none", "failed", "unknown", "completed"}]
    BY <2>1 DEF C!Dies, C!FailSession, C!End
  <2>4. c_status' \in [Starts -> {"new", "starting", "idle", "running", "unknown",
                             "failed", "closed", "closing"}]
    BY <2>1 DEF C!Dies, C!FailSession
  <2>5. c_delivery' \in [Starts -> {"not-sent", "unknown", "completed"}]
    BY <2>1 DEF C!Dies, C!FailSession
  <2>6. c_pending' \in [Starts -> C!Requests \cup {None}]
    BY <2>1 DEF C!Dies, C!FailSession
  <2>7. c_child' \in [Starts -> {"none", "alive", "told", "dead"}]
    BY <2>1 DEF C!Dies
  <2> QED
    BY <2>1, <2>2, <2>3, <2>4, <2>5, <2>6, <2>7 DEF CType, C!Dies
<1>2. CPlaces'
  BY DEF C!Dies, CPlaces
<1>3. CStarting'
  BY DEF C!Dies, C!FailSession, C!End, C!Go, C!Requests, CType, CStarting, CTurn
<1>4. CTurn'
  BY DEF C!Dies, C!FailSession, C!End, C!Go, CType, CTurn
<1>5. CSent'
  BY DEF C!Dies, C!FailSession, C!Uncertain, C!End, C!Go, CType, CSent
<1> QED BY <1>1, <1>2, <1>3, <1>4, <1>5

\* A session is closed.
LEMMA CCloseAskedKeeps ==
  ASSUME CInv, NEW k \in Starts, C!CloseAsked(k) PROVE CInv'
<1> USE CAssumed DEF CInv, C!session, C!process, C!request
<1>1. CType'
  BY DEF C!CloseAsked, CType
<1>2. CPlaces'
  BY DEF C!CloseAsked, CPlaces
<1>3. CStarting'
  BY DEF C!CloseAsked, CStarting
<1>4. CTurn'
  BY DEF C!CloseAsked, CTurn
<1>5. CSent'
  BY DEF C!CloseAsked, CSent
<1> QED BY <1>1, <1>2, <1>3, <1>4, <1>5

\* The wait for its child ends.
LEMMA CClosedKeeps ==
  ASSUME CInv, NEW k \in Starts, C!Closed(k) PROVE CInv'
<1> USE CAssumed DEF CInv, C!session, C!process, C!request
<1>1. CType'
  BY DEF C!Closed, C!End, C!Requests, CStages, C!Session, CType
<1>2. CPlaces'
  BY DEF C!Closed, CPlaces
<1>3. CStarting'
  BY DEF C!Closed, C!End, C!Requests, CType, CStarting, CTurn
<1>4. CTurn'
  BY DEF C!Closed, C!End, CType, CTurn
<1>5. CSent'
  BY DEF C!Closed, C!End, CType, CSent
<1> QED BY <1>1, <1>2, <1>3, <1>4, <1>5

\* The answer of close() frees the place.
LEMMA CCloseToldKeeps ==
  ASSUME CInv, NEW k \in Starts, C!CloseTold(k) PROVE CInv'
<1> USE CAssumed DEF CInv, C!session, C!process, C!request
<1>1. CType'
  BY DEF C!CloseTold, CType
<1>2. CPlaces'
  <2>1. Cardinality(c_open) \in Nat /\ Cardinality(c_reserved) \in Nat
    BY FS_CardinalityType DEF CPlaces
  <2>2. c_open' \subseteq c_open /\ UNCHANGED c_reserved
    BY DEF C!CloseTold
  <2>3. IsFiniteSet(c_open') /\ Cardinality(c_open') <= Cardinality(c_open)
    BY <2>2, FS_Subset DEF CPlaces
  <2>4. Cardinality(c_open') \in Nat
    BY <2>3, FS_CardinalityType
  <2> QED
    BY <2>1, <2>2, <2>3, <2>4 DEF CPlaces
<1>3. CStarting'
  BY DEF C!CloseTold, CStarting
<1>4. CTurn'
  BY DEF C!CloseTold, CTurn
<1>5. CSent'
  BY DEF C!CloseTold, CSent
<1> QED BY <1>1, <1>2, <1>3, <1>4, <1>5


\* Every step keeps it.
LEMMA CNext == CInv /\ [C!Next]_cVars => CInv'
<1> SUFFICES ASSUME CInv, [C!Next]_cVars PROVE CInv'
  OBVIOUS
<1>1. ASSUME NEW p \in C!Requests, C!Ask(p) \/ C!Verify(p) \/ C!Send(p) PROVE CInv'
  BY <1>1, CAskKeeps, CVerifyKeeps, CSendKeeps
<1>2. ASSUME NEW k \in Starts,
             \/ C!Begin(k) \/ C!Opened(k) \/ C!Cleanup(k) \/ C!Leave(k) \/ C!Result(k)
             \/ C!TurnTimeout(k) \/ C!Fails(k) \/ C!Dies(k)
             \/ C!CloseAsked(k) \/ C!Closed(k) \/ C!CloseTold(k)
      PROVE  CInv'
  BY <1>2, CBeginKeeps, COpenedKeeps, CCleanupKeeps, CLeaveKeeps, CResultKeeps,
     CTurnTimeoutKeeps, CFailsKeeps, CDiesKeeps, CCloseAskedKeeps, CClosedKeeps, CCloseToldKeeps
<1>3. CASE UNCHANGED cVars
  BY <1>3 DEF cVars, CInv, CType, CPlaces, CStarting, CTurn, CSent
<1> QED
  BY <1>1, <1>2, <1>3 DEF C!Next

\* Places are never leaked, results are a prompt's own, and "not sent" is true.
LEMMA CPromises == CInv => C!PlacesHold /\ C!OwnResult /\ C!NotSentIsTrue
BY CCardinality DEF CInv, CType, CPlaces, CStarting, CSent, C!PlacesHold, C!OwnResult,
   C!NotSentIsTrue

-----------------------------------------------------------------------------
(* What Antigravity sends (AntigravityOutbound) *)

Steps == {"new", "begin", "locate", "queue", "verify", "write", "answered", "done"}
Contexts == [acct : Nat, perm : Nat, session : Nat]

OType ==
    /\ o_acct \in Nat /\ o_perm \in [O!Senders -> Nat] /\ o_session \in Nat
    /\ o_changes \in Nat /\ o_crashes \in Nat
    /\ o_pc \in [Works -> Steps]
    /\ o_ctx \in [Works -> Contexts] /\ o_delivered \in [Works -> Contexts]
    /\ o_record \in [Works -> {"none", "pending", "accepted", "unknown", "not_sent"}]
    /\ o_linked \in [Works -> Works \cup {O!Nobody}]
    /\ o_msg \in [Works -> {"none", "sending", "waiting", "uncertain", "failed", "replied"}]
    /\ o_receipts \in [Works -> {Origin[r] : r \in Works} \cup {O!Nobody}]

\* Work reaches its recipient with the write and not before, and a receipt is final.
OWritten == \A r \in Works :
    /\ o_pc[r] \notin {"answered", "done"} => o_delivered[r] = O!Nothing
    /\ o_record[r] = "not_sent" => o_delivered[r] = O!Nothing
    /\ o_record[r] \in {"not_sent", "accepted"} => o_pc[r] = "done"

\* Account and permissions only ever change to new ones, so what is the same at the
\* end was the same all along.
OCircumstances == \A r \in Works :
    /\ o_ctx[r].acct <= o_acct /\ o_ctx[r].perm <= o_perm[Origin[r]]
    /\ r \notin ToClaude => o_ctx[r].session = O!Nobody
    /\ o_pc[r] = "answered" =>
          /\ o_ctx[r].acct <= o_delivered[r].acct /\ o_delivered[r].acct <= o_acct
          /\ o_ctx[r].perm <= o_delivered[r].perm /\ o_delivered[r].perm <= o_perm[Origin[r]]
          /\ o_delivered[r].session = o_ctx[r].session
    /\ o_record[r] = "accepted" => o_delivered[r] = o_ctx[r]

\* The targets have a receipt for exactly the messages the peer has taken.
OReceipts == \A r \in Works :
    /\ o_receipts[r] \in {O!Nobody, Origin[r]}
    /\ o_receipts[r] = O!Nobody <=> o_msg[r] \in {"none", "sending"}
    /\ o_pc[r] \in {"new", "begin", "locate", "queue"} => o_msg[r] = "none"
    /\ o_linked[r] = r /\ o_crashes = 0 => o_receipts[r] = Origin[r]

OInv == OType /\ OWritten /\ OCircumstances /\ OReceipts

\* What the module assumes of its constants, of O.
LEMMA OAssumed ==
    /\ ToClaude \subseteq Works /\ O!Nobody \notin Works /\ \A r \in Works : Origin[r] # O!Nobody
    /\ O!Senders = {Origin[r] : r \in Works} /\ O!Nobody = 0
BY RemoteAssumption DEF O!OutboundAssumption, O!Senders, O!Nobody

\* The initial states satisfy it.
LEMMA OInitial == O!Init => OInv
<1> SUFFICES ASSUME O!Init PROVE OInv
  OBVIOUS
<1> USE OAssumed DEF O!Init, OInv
<1>1. OType
  BY DEF OType, Steps, Contexts, O!Nothing
<1>2. OWritten /\ OCircumstances /\ OReceipts
  BY DEF OWritten, OCircumstances, OReceipts, O!Nothing
<1> QED BY <1>1, <1>2

\* A request gets its receipt and the permissions it began with.
LEMMA ODispatchKeeps ==
  ASSUME OInv, NEW r \in Works, O!Dispatch(r) PROVE OInv'
<1> USE OAssumed DEF OInv, O!world, O!memory, O!bounds
<1>1. OType'
  BY DEF O!Dispatch, O!Go, O!Resolve, Steps, Contexts, OType
<1>2. OWritten'
  BY DEF O!Dispatch, O!Go, OWritten
<1>3. OCircumstances'
  <2>1. \A q \in Works \ {r} : o_ctx'[q] = o_ctx[q]
    BY DEF O!Dispatch, O!Resolve
  <2>2. /\ o_ctx'[r].acct = o_acct \/ o_ctx'[r].acct = o_ctx[r].acct
        /\ o_ctx'[r].perm = o_perm[Origin[r]] \/ o_ctx'[r].perm = o_ctx[r].perm
        /\ r \notin ToClaude => o_ctx'[r].session \in {o_ctx[r].session, O!Nobody}
    BY DEF O!Dispatch, O!Resolve
  <2>3. \A p \in Works : o_ctx[p].acct \in Nat /\ o_ctx[p].perm \in Nat /\ o_ctx[p].session \in Nat
    BY DEF OType, Contexts
  <2>4. \A p \in Works : o_perm[Origin[p]] \in Nat
    BY DEF OType
  <2>5. UNCHANGED <<o_acct, o_perm, o_delivered>> /\ o_pc'[r] # "answered" /\ o_record'[r] # "accepted"
    BY DEF OWritten, O!Dispatch, O!Go
  <2>6. \A q \in Works \ {r} : o_pc'[q] = o_pc[q] /\ o_record'[q] = o_record[q]
    BY DEF O!Dispatch, O!Go
  <2> QED
    BY <2>1, <2>2, <2>3, <2>4, <2>5, <2>6 DEF OCircumstances, OType
<1>4. OReceipts'
  BY DEF O!Dispatch, O!Go, OReceipts
<1> QED BY <1>1, <1>2, <1>3, <1>4

\* It takes the account.
LEMMA OBeginKeeps ==
  ASSUME OInv, NEW r \in Works, O!Begin(r) PROVE OInv'
<1> USE OAssumed DEF OInv, O!world, O!memory, O!bounds
<1>1. OType'
  <2>1. /\ o_pc \in [Works -> Steps]
        /\ o_ctx \in [Works -> Contexts]
        /\ o_record \in [Works -> {"none", "pending", "accepted", "unknown", "not_sent"}]
    BY DEF OType
  <2>2. Origin[r] \in O!Senders /\ o_perm[Origin[r]] \in Nat /\ o_acct \in Nat /\ o_session \in Nat
    BY DEF OType
  <2>3. o_pc' \in [Works -> Steps]
    BY <2>1, <2>2 DEF O!Begin, O!Go, O!Settle, Steps
  <2>4. o_ctx' \in [Works -> Contexts]
    BY <2>1, <2>2 DEF O!Begin, Contexts
  <2>5. o_record' \in [Works -> {"none", "pending", "accepted", "unknown", "not_sent"}]
    BY <2>1, <2>2 DEF O!Begin, O!Settle
  <2> QED
    BY <2>1, <2>2, <2>3, <2>4, <2>5 DEF OType, O!Begin
<1>2. OWritten'
  BY DEF O!Begin, O!Go, O!Settle, OType, OWritten
<1>3. OCircumstances'
  <2>1. \A q \in Works \ {r} : o_ctx'[q] = o_ctx[q]
    BY DEF OType, O!Begin
  <2>2. /\ o_ctx'[r].acct = o_acct \/ o_ctx'[r].acct = o_ctx[r].acct
        /\ o_ctx'[r].perm = o_perm[Origin[r]] \/ o_ctx'[r].perm = o_ctx[r].perm
        /\ r \notin ToClaude => o_ctx'[r].session \in {o_ctx[r].session, O!Nobody}
    BY DEF OType, Contexts, O!Begin
  <2>3. \A p \in Works : o_ctx[p].acct \in Nat /\ o_ctx[p].perm \in Nat /\ o_ctx[p].session \in Nat
    BY DEF OType, Contexts
  <2>4. \A p \in Works : o_perm[Origin[p]] \in Nat
    BY DEF OType
  <2>5. UNCHANGED <<o_acct, o_perm, o_delivered>> /\ o_pc'[r] # "answered" /\ o_record'[r] # "accepted"
    BY DEF OType, OWritten, O!Begin, O!Go, O!Settle
  <2>6. \A q \in Works \ {r} : o_pc'[q] = o_pc[q] /\ o_record'[q] = o_record[q]
    BY DEF OType, O!Begin, O!Go, O!Settle
  <2> QED
    BY <2>1, <2>2, <2>3, <2>4, <2>5, <2>6 DEF OCircumstances, OType
<1>4. OReceipts'
  BY DEF O!Begin, O!Go, O!Settle, OType, OReceipts
<1> QED BY <1>1, <1>2, <1>3, <1>4

\* It chooses the session, or is refused.
LEMMA OLocateKeeps ==
  ASSUME OInv, NEW r \in Works, O!Locate(r) PROVE OInv'
<1> USE OAssumed DEF OInv, O!world, O!memory, O!bounds
<1>1. OType'
  <2>1. /\ o_pc \in [Works -> Steps]
        /\ o_ctx \in [Works -> Contexts]
        /\ o_record \in [Works -> {"none", "pending", "accepted", "unknown", "not_sent"}]
    BY DEF OType
  <2>2. Origin[r] \in O!Senders /\ o_perm[Origin[r]] \in Nat /\ o_acct \in Nat /\ o_session \in Nat
    BY DEF OType
  <2>3. o_pc' \in [Works -> Steps]
    BY <2>1, <2>2 DEF O!Locate, O!Go, O!Settle, Steps
  <2>4. o_ctx' \in [Works -> Contexts]
    BY <2>1, <2>2 DEF O!Locate, Contexts
  <2>5. o_record' \in [Works -> {"none", "pending", "accepted", "unknown", "not_sent"}]
    BY <2>1, <2>2 DEF O!Locate, O!Settle
  <2> QED
    BY <2>1, <2>2, <2>3, <2>4, <2>5 DEF OType, O!Locate
<1>2. OWritten'
  BY DEF O!Locate, O!Go, O!Settle, OType, OWritten
<1>3. OCircumstances'
  <2>1. \A q \in Works \ {r} : o_ctx'[q] = o_ctx[q]
    BY DEF OType, O!Locate
  <2>2. /\ o_ctx'[r].acct = o_acct \/ o_ctx'[r].acct = o_ctx[r].acct
        /\ o_ctx'[r].perm = o_perm[Origin[r]] \/ o_ctx'[r].perm = o_ctx[r].perm
        /\ r \notin ToClaude => o_ctx'[r].session \in {o_ctx[r].session, O!Nobody}
    BY DEF OType, Contexts, O!Locate
  <2>3. \A p \in Works : o_ctx[p].acct \in Nat /\ o_ctx[p].perm \in Nat /\ o_ctx[p].session \in Nat
    BY DEF OType, Contexts
  <2>4. \A p \in Works : o_perm[Origin[p]] \in Nat
    BY DEF OType
  <2>5. UNCHANGED <<o_acct, o_perm, o_delivered>> /\ o_pc'[r] # "answered" /\ o_record'[r] # "accepted"
    BY DEF OType, OWritten, O!Locate, O!Go, O!Settle
  <2>6. \A q \in Works \ {r} : o_pc'[q] = o_pc[q] /\ o_record'[q] = o_record[q]
    BY DEF OType, O!Locate, O!Go, O!Settle
  <2> QED
    BY <2>1, <2>2, <2>3, <2>4, <2>5, <2>6 DEF OCircumstances, OType
<1>4. OReceipts'
  BY DEF O!Locate, O!Go, O!Settle, OType, OReceipts
<1> QED BY <1>1, <1>2, <1>3, <1>4

\* The peer takes its message, or refuses it for one that is outstanding.
LEMMA OEnqueueKeeps ==
  ASSUME OInv, NEW r \in Works, O!Enqueue(r) PROVE OInv'
<1> USE OAssumed DEF OInv, O!world, O!memory, O!bounds
<1>1. OType'
  <2>1. /\ o_pc \in [Works -> Steps]
        /\ o_record \in [Works -> {"none", "pending", "accepted", "unknown", "not_sent"}]
        /\ o_linked \in [Works -> Works \cup {O!Nobody}]
        /\ o_msg \in [Works -> {"none", "sending", "waiting", "uncertain", "failed",
                            "replied"}]
    BY DEF OType
  <2>2. o_pc' \in [Works -> Steps]
    BY <2>1 DEF O!Enqueue, O!Go, O!Settle, Steps
  <2>3. o_record' \in [Works -> {"none", "pending", "accepted", "unknown", "not_sent"}]
    BY <2>1 DEF O!Enqueue, O!Settle
  <2>4. o_linked' \in [Works -> Works \cup {O!Nobody}]
    BY <2>1 DEF O!Enqueue, O!Outstanding
  <2>5. o_msg' \in [Works -> {"none", "sending", "waiting", "uncertain", "failed",
                         "replied"}]
    BY <2>1 DEF O!Enqueue
  <2> QED
    BY <2>1, <2>2, <2>3, <2>4, <2>5 DEF OType, O!Enqueue
<1>2. OWritten'
  BY DEF O!Enqueue, O!Go, O!Settle, OType, OWritten
<1>3. OCircumstances'
  BY DEF O!Enqueue, O!Go, O!Settle, OType, OCircumstances
<1>4. OReceipts'
  BY DEF O!Enqueue, O!Go, O!Settle, O!Outstanding, OType, OReceipts
<1> QED BY <1>1, <1>2, <1>3, <1>4

\* The check before the write; a refused message gets its receipt.
LEMMA OVerifyKeeps ==
  ASSUME OInv, NEW r \in Works, O!Verify(r) PROVE OInv'
<1> USE OAssumed DEF OInv, O!world, O!memory, O!bounds
<1>1. OType'
  <2>1. /\ o_pc \in [Works -> Steps]
        /\ o_record \in [Works -> {"none", "pending", "accepted", "unknown", "not_sent"}]
        /\ o_linked \in [Works -> Works \cup {O!Nobody}]
        /\ o_msg \in [Works -> {"none", "sending", "waiting", "uncertain", "failed",
                            "replied"}]
        /\ o_receipts \in [Works -> {Origin[q] : q \in Works} \cup {O!Nobody}]
    BY DEF OType
  <2>2. o_pc' \in [Works -> Steps]
    BY <2>1 DEF O!Verify, O!Go, O!Settle, Steps
  <2>3. o_record' \in [Works -> {"none", "pending", "accepted", "unknown", "not_sent"}]
    BY <2>1 DEF O!Verify, O!Settle
  <2>4. o_linked' \in [Works -> Works \cup {O!Nobody}]
    BY <2>1 DEF O!Verify, O!Refused
  <2>5. o_msg' \in [Works -> {"none", "sending", "waiting", "uncertain", "failed",
                         "replied"}]
    BY <2>1 DEF O!Verify, O!Refused
  <2>6. o_receipts' \in [Works -> {Origin[q] : q \in Works} \cup {O!Nobody}]
    BY <2>1 DEF O!Verify, O!Refused, O!Own
  <2> QED
    BY <2>1, <2>2, <2>3, <2>4, <2>5, <2>6 DEF OType, O!Verify
<1>2. OWritten'
  BY DEF O!Verify, O!Go, O!Settle, OType, OWritten
<1>3. OCircumstances'
  BY DEF O!Verify, O!Go, O!Settle, OType, OCircumstances
<1>4. OReceipts'
  BY DEF O!Verify, O!Go, O!Settle, O!Refused, O!Own, OType, OReceipts
<1> QED BY <1>1, <1>2, <1>3, <1>4

\* The write: the only step in which work reaches its recipient.
LEMMA OWriteKeeps ==
  ASSUME OInv, NEW r \in Works, O!Write(r) PROVE OInv'
<1> USE OAssumed DEF OInv, O!world, O!memory, O!bounds
<1>1. OType'
  <2>1. /\ o_pc \in [Works -> Steps]
        /\ o_delivered \in [Works -> Contexts]
        /\ o_record \in [Works -> {"none", "pending", "accepted", "unknown", "not_sent"}]
        /\ o_linked \in [Works -> Works \cup {O!Nobody}]
        /\ o_msg \in [Works -> {"none", "sending", "waiting", "uncertain", "failed",
                            "replied"}]
        /\ o_receipts \in [Works -> {Origin[q] : q \in Works} \cup {O!Nobody}]
    BY DEF OType
  <2>2. Origin[r] \in O!Senders /\ o_perm[Origin[r]] \in Nat /\ o_acct \in Nat /\ o_session \in Nat
    BY DEF OType
  <2>3. O!Circumstances(r) \in Contexts
    BY <2>2 DEF O!Circumstances, Contexts
  <2>4. o_pc' \in [Works -> Steps]
    BY <2>1, <2>2, <2>3 DEF O!Write, O!Go, O!Settle, Steps
  <2>5. o_delivered' \in [Works -> Contexts]
    BY <2>1, <2>2, <2>3 DEF O!Write
  <2>6. o_record' \in [Works -> {"none", "pending", "accepted", "unknown", "not_sent"}]
    BY <2>1, <2>2, <2>3 DEF O!Write, O!Settle
  <2>7. o_linked' \in [Works -> Works \cup {O!Nobody}]
    BY <2>1, <2>2, <2>3 DEF O!Write, O!Go, O!Settle, O!Refused, O!Own
  <2>8. o_msg' \in [Works -> {"none", "sending", "waiting", "uncertain", "failed",
                         "replied"}]
    BY <2>1, <2>2, <2>3 DEF O!Write, O!Refused
  <2>9. o_receipts' \in [Works -> {Origin[q] : q \in Works} \cup {O!Nobody}]
    BY <2>1, <2>2, <2>3 DEF O!Write, O!Refused, O!Own
  <2> QED
    BY <2>1, <2>2, <2>3, <2>4, <2>5, <2>6, <2>7, <2>8, <2>9 DEF OType, O!Write
<1>2. OWritten'
  BY DEF O!Write, O!Go, O!Settle, OType, OWritten
<1>3. OCircumstances'
  BY DEF O!Write, O!Go, O!Settle, O!Circumstances, Steps, OType, OWritten, OCircumstances
<1>4. OReceipts'
  BY DEF O!Write, O!Go, O!Settle, O!Refused, O!Own, OType, OReceipts
<1> QED BY <1>1, <1>2, <1>3, <1>4

\* The answer counts only in the circumstances of the beginning.
LEMMA OAnswerKeeps ==
  ASSUME OInv, NEW r \in Works, O!Answer(r) PROVE OInv'
<1> USE OAssumed DEF OInv, O!world, O!memory, O!bounds
<1>1. OType'
  BY DEF O!Answer, O!Go, O!Settle, Steps, OType
<1>2. OWritten'
  BY DEF O!Answer, O!Go, O!Settle, OType, OWritten
<1>3. OCircumstances'
  <2>1. /\ o_ctx[r] \in Contexts /\ o_delivered[r] \in Contexts
        /\ o_acct \in Nat /\ o_perm[Origin[r]] \in Nat
    BY DEF OType
  <2>2. O!Check(r) => /\ o_ctx[r].acct = o_delivered[r].acct /\ o_ctx[r].perm = o_delivered[r].perm
                      /\ o_ctx[r].session = o_delivered[r].session
    BY <2>1 DEF O!Check, O!Answer, OCircumstances, Contexts
  <2>3. O!Check(r) => o_delivered[r] = o_ctx[r]
    BY <2>1, <2>2 DEF Contexts
  <2>4. /\ UNCHANGED <<o_acct, o_perm, o_ctx, o_delivered>> /\ o_pc'[r] = "done"
        /\ o_record'[r] = "accepted" => O!Check(r)
    BY DEF OType, O!Answer, O!Settle, O!Go
  <2>5. \A q \in Works \ {r} : o_pc'[q] = o_pc[q] /\ o_record'[q] = o_record[q]
    BY DEF O!Answer, O!Settle, O!Go
  <2> QED
    BY <2>1, <2>2, <2>3, <2>4, <2>5 DEF OCircumstances
<1>4. OReceipts'
  BY DEF O!Answer, O!Go, O!Settle, OReceipts
<1> QED BY <1>1, <1>2, <1>3, <1>4

\* Claude answers.
LEMMA OReplyKeeps ==
  ASSUME OInv, NEW r \in Works, O!Reply(r) PROVE OInv'
<1> USE OAssumed DEF OInv, O!world, O!memory, O!bounds
<1>1. OType'
  BY DEF O!Reply, OType
<1>2. OWritten'
  BY DEF O!Reply, OWritten
<1>3. OCircumstances'
  BY DEF O!Reply, OCircumstances
<1>4. OReceipts'
  BY DEF O!Reply, OReceipts
<1> QED BY <1>1, <1>2, <1>3, <1>4

\* A reload restores the receipts.
LEMMA OReloadKeeps ==
  ASSUME OInv, O!Reload PROVE OInv'
<1> USE OAssumed DEF OInv, O!world, O!memory, O!bounds
<1>1. OType'
  BY DEF O!Reload, O!Reloaded, OType
<1>2. OWritten'
  BY DEF O!Reload, OWritten
<1>3. OCircumstances'
  BY DEF O!Reload, O!Reloaded, OCircumstances
<1>4. OReceipts'
  BY DEF O!Reload, O!Reloaded, OReceipts
<1> QED BY <1>1, <1>2, <1>3, <1>4

\* A killed worker loses its maps.
LEMMA OCrashKeeps ==
  ASSUME OInv, O!Crash PROVE OInv'
<1> USE OAssumed DEF OInv, O!world, O!memory, O!bounds
<1>1. OType'
  BY DEF O!Crash, Steps, OType
<1>2. OWritten'
  BY DEF O!Crash, O!Active, Steps, Contexts, OType, OWritten, OCircumstances, OReceipts
<1>3. OCircumstances'
  BY DEF O!Crash, OCircumstances
<1>4. OReceipts'
  BY DEF O!Crash, OType, OReceipts
<1> QED BY <1>1, <1>2, <1>3, <1>4


\* The user changes something.
LEMMA OChangeKeeps ==
  ASSUME OInv, O!Change PROVE OInv'
<1> USE OAssumed DEF OInv, O!world, O!memory, O!bounds
<1>1. UNCHANGED <<o_pc, o_ctx, o_delivered, o_record, o_linked, o_msg, o_receipts, o_crashes>>
  BY DEF O!Change
<1>2. /\ o_acct \in Nat /\ o_perm \in [O!Senders -> Nat]
      /\ o_session \in Nat /\ o_changes \in Nat
  BY DEF OType
<1>3. /\ o_acct' = o_acct \/ o_acct' = o_acct + 1
      /\ o_perm' = o_perm \/ \E s \in O!Senders : o_perm' = [o_perm EXCEPT ![s] = o_perm[s] + 1]
      /\ o_session' = o_session \/ o_session' = o_changes + 2 \/ o_session' = 0
      /\ o_changes' = o_changes + 1
  BY DEF O!Change
<1>4. /\ o_acct' \in Nat /\ o_session' \in Nat /\ o_changes' \in Nat
      /\ o_acct <= o_acct'
  BY <1>2, <1>3
<1>5. o_perm' \in [O!Senders -> Nat] /\ \A s \in O!Senders : o_perm[s] <= o_perm'[s]
  BY <1>2, <1>3
<1>6. OType'
  BY <1>1, <1>4, <1>5 DEF OType
<1>7. OWritten' /\ OReceipts'
  BY <1>1 DEF OWritten, OReceipts
<1>8. OCircumstances'
  <2>1. \A r \in Works : /\ o_ctx[r].acct \in Nat /\ o_ctx[r].perm \in Nat
                          /\ o_delivered[r].acct \in Nat /\ o_delivered[r].perm \in Nat
    BY DEF OType, Contexts
  <2>2. \A r \in Works : /\ o_perm[Origin[r]] \in Nat /\ o_perm'[Origin[r]] \in Nat
                          /\ o_perm[Origin[r]] <= o_perm'[Origin[r]]
    BY <1>2, <1>5
  <2> QED BY <1>1, <1>2, <1>4, <2>1, <2>2 DEF OCircumstances
<1> QED BY <1>6, <1>7, <1>8


\* Every step keeps it.
LEMMA ONext == OInv /\ [O!Next]_oVars => OInv'
<1> SUFFICES ASSUME OInv, [O!Next]_oVars PROVE OInv'
  OBVIOUS
<1>1. ASSUME NEW r \in Works, O!Dispatch(r) \/ O!Operate(r) \/ O!Reply(r) PROVE OInv'
  BY <1>1, ODispatchKeeps, OBeginKeeps, OLocateKeeps, OEnqueueKeeps, OVerifyKeeps, OWriteKeeps,
     OAnswerKeeps, OReplyKeeps DEF O!Operate
<1>2. CASE O!Reload \/ O!Crash \/ O!Change
  BY <1>2, OReloadKeeps, OCrashKeeps, OChangeKeeps
<1>3. CASE UNCHANGED oVars
  BY <1>3 DEF oVars, OInv, OType, OWritten, OCircumstances, OReceipts
<1> QED
  BY <1>1, <1>2, <1>3 DEF O!Next

\* What was refused was not sent, and what was accepted was as it was checked.
LEMMA OPromises ==
  OInv => /\ O!NotSentIsTrue /\ O!AcceptedAsChecked /\ O!ReceiptIsOwners /\ O!AlwaysRestorable
          /\ O!StaysReadable
BY OAssumed DEF OInv, OType, OWritten, OCircumstances, OReceipts, O!NotSentIsTrue,
   O!AcceptedAsChecked,
  O!ReceiptIsOwners, O!AlwaysRestorable, O!StaysReadable, O!Reloadable, O!Restorable, O!Kept

-----------------------------------------------------------------------------
(* The connector of a site (SiteConnector) *)

Rows == {"none", "queued", "claimed", "completed", "revoked", "uncertain"}
Results == {"none", "done", "uncertain"}
Entries == [state : {"none", "torn", "started", "finished"}, job : Jobs \cup {None},
            result : Results, uploaded : BOOLEAN]
Resting == {"down", "idle", "recover"}
Busy == {"begin", "check", "run", "verified", "sent", "save", "upload", "mark", "alive"}

SType ==
    /\ s_row \in [Jobs -> Rows]
    /\ s_stored \in [Jobs -> Results \cup {"blocked"}]
    /\ s_file \in [S!Keys -> Entries]
    /\ s_pc \in [Procs -> Resting \cup Busy]
    /\ s_job \in [Procs -> Jobs \cup {None}]
    /\ s_out \in [Procs -> Results]
    /\ s_todo \in [Procs -> SUBSET Entries]
    /\ s_sent \in [Jobs -> Nat]

\* Who has a job is at work on it, and an entry is kept under the name of its job.
SBelongs ==
    /\ \A p \in Procs : s_pc[p] \in Busy <=> s_job[p] # None
    /\ \A k \in S!Keys : s_file[k].state \in {"started", "finished"} => s_file[k].job \in Jobs
    /\ \A p \in Procs : \A e \in s_todo[p] : e.job \in Jobs

\* Nothing is left of a job in the connector.
Unknown(j) ==
    /\ \A k \in S!Keys : s_file[k].job # j
    /\ \A p \in Procs : \A e \in s_todo[p] : e.job # j
    /\ s_sent[j] = 0

\* A job that was not claimed, or was refused, is nowhere in the connector.
SUntouched == \A j \in Jobs :
    s_row[j] \in {"none", "queued", "revoked"} \/ s_stored[j] = "blocked" =>
        Unknown(j) /\ \A p \in Procs : s_job[p] # j

SBegun == \A p \in Procs : s_pc[p] = "begin" =>
    /\ Unknown(s_job[p]) /\ s_stored[s_job[p]] = "none"
    /\ \A q \in Procs : s_job[q] = s_job[p] => q = p

\* The right to dispatch.
May(p) == s_pc[p] \in {"check", "run", "verified"} /\ s_out[p] = "none"

SRight ==
    /\ \A p \in Procs : May(p) =>
          /\ s_file[S!Name(s_job[p])].state # "none"
          /\ \A q \in Procs : May(q) /\ S!Name(s_job[q]) = S!Name(s_job[p]) => q = p
          /\ \A j \in Jobs : S!Name(j) = S!Name(s_job[p]) => s_sent[j] = 0
    /\ \A p \in Procs : s_pc[p] \in {"run", "verified"} => s_out[p] = "none"
    /\ \A j \in Jobs : s_sent[j] > 0 => s_file[S!Name(j)].state # "none"
    /\ \A j \in Jobs : s_sent[j] \in {0, 1}
    /\ \A i, j \in Jobs : S!Name(i) = S!Name(j) /\ s_sent[i] > 0 /\ s_sent[j] > 0 => i = j

SDone ==
    /\ \A p \in Procs : s_pc[p] = "sent" \/ s_out[p] = "done" => s_sent[s_job[p]] = 1
    /\ \A k \in S!Keys : s_file[k].result = "done" => s_sent[s_file[k].job] = 1
    /\ \A p \in Procs : \A e \in s_todo[p] : e.result = "done" => s_sent[e.job] = 1
    /\ \A j \in Jobs : s_stored[j] = "done" => s_sent[j] = 1

SStored ==
    /\ \A j \in Jobs : s_stored[j] # "none" => s_row[j] = "completed"
    /\ \A p \in Procs : s_pc[p] = "mark" =>
          s_row[s_job[p]] = "completed" /\ s_stored[s_job[p]] = s_out[p]
    /\ \A k \in S!Keys : s_file[k].uploaded =>
          s_file[k].job \in Jobs /\ s_row[s_file[k].job] = "completed" /\ s_stored[s_file[k].job] = s_file[k].result

SInv == SType /\ SBelongs /\ SUntouched /\ SBegun /\ SRight /\ SDone /\ SStored

\* What the module assumes of its constants, of S.
LEMMA SAssumed == None \notin Jobs
BY RemoteAssumption DEF S!SiteAssumption

\* The initial states satisfy it.
LEMMA SInitial == S!Init => SInv
<1> SUFFICES ASSUME S!Init PROVE SInv
  OBVIOUS
<1> USE SAssumed DEF S!Init, SInv, S!NoFile
<1>1. SType
  BY DEF SType, Rows, Results, Entries, Resting, Busy
<1>2. SBelongs /\ SUntouched /\ SBegun /\ SRight /\ SDone /\ SStored
  BY DEF SBelongs, SUntouched, Unknown, SBegun, SRight, May, SDone, SStored, S!Keys, Busy
<1> QED BY <1>1, <1>2

\* The computer is paired.
LEMMA SPairKeeps ==
  ASSUME SInv, S!Pair PROVE SInv'
<1> USE SAssumed DEF SInv, S!site, S!process
<1>1. SType'
  BY DEF S!Pair, Results, Entries, Resting, Busy, Unknown, May, S!Keys, S!Name, SType, SBelongs
<1>2. SBelongs'
  BY DEF S!Pair, Rows, Results, Entries, Resting, Busy, Unknown, May, S!Keys, S!Name, SType,
     SBelongs, SUntouched, SBegun, SRight, SDone, SStored
<1>3. SUntouched'
  BY DEF S!Pair, Results, Entries, Resting, Busy, Unknown, May, S!Keys, S!Name, SType, SBelongs,
     SUntouched, SBegun
<1>4. SBegun'
  BY DEF S!Pair, Results, Entries, Resting, Busy, Unknown, May, S!Keys, S!Name, SType, SBelongs,
     SUntouched, SBegun
<1>5. SRight'
  BY DEF S!Pair, Results, Entries, Resting, Busy, Unknown, May, S!Keys, S!Name, SType, SBelongs,
     SBegun, SRight
<1>6. SDone'
  BY DEF S!Pair, Rows, Results, Entries, Resting, Busy, Unknown, May, S!Keys, S!Name, SType,
     SBelongs, SUntouched, SBegun, SRight, SDone, SStored
<1>7. SStored'
  BY DEF S!Pair, Results, Entries, Resting, Busy, Unknown, May, S!Keys, S!Name, SType, SBelongs,
     SBegun, SStored
<1> QED BY <1>1, <1>2, <1>3, <1>4, <1>5, <1>6, <1>7

\* A request gets its row.
LEMMA SEnqueueKeeps ==
  ASSUME SInv, NEW j \in Jobs, S!Enqueue(j) PROVE SInv'
<1> USE SAssumed DEF SInv, S!site, S!process
<1>1. SType'
  BY DEF S!Enqueue, Rows, Results, Entries, Resting, Busy, Unknown, May, S!Keys, S!Name, SType,
     SBelongs
<1>2. SBelongs'
  BY DEF S!Enqueue, Rows, Results, Entries, Resting, Busy, Unknown, May, S!Keys, S!Name, SType,
     SBelongs, SUntouched, SBegun, SRight, SDone, SStored
<1>3. SUntouched'
  BY DEF S!Enqueue, Results, Entries, Resting, Busy, Unknown, May, S!Keys, S!Name, SType,
     SBelongs, SUntouched, SBegun
<1>4. SBegun'
  BY DEF S!Enqueue, Results, Entries, Resting, Busy, Unknown, May, S!Keys, S!Name, SType,
     SBelongs, SUntouched, SBegun
<1>5. SRight'
  BY DEF S!Enqueue, Results, Entries, Resting, Busy, Unknown, May, S!Keys, S!Name, SType,
     SBelongs, SBegun, SRight
<1>6. SDone'
  BY DEF S!Enqueue, Rows, Results, Entries, Resting, Busy, Unknown, May, S!Keys, S!Name, SType,
     SBelongs, SUntouched, SBegun, SRight, SDone, SStored
<1>7. SStored'
  BY DEF S!Enqueue, Results, Entries, Resting, Busy, Unknown, May, S!Keys, S!Name, SType,
     SBelongs, SBegun, SStored
<1> QED BY <1>1, <1>2, <1>3, <1>4, <1>5, <1>6, <1>7

\* The owner disconnects the computer.
LEMMA SDisconnectKeeps ==
  ASSUME SInv, S!Disconnect PROVE SInv'
<1> USE SAssumed DEF SInv, S!site, S!process
<1>1. SType'
  BY DEF S!Disconnect, Rows, Results, Entries, Resting, Busy, Unknown, May, S!Keys, S!Name,
     SType, SBelongs
<1>2. SBelongs'
  BY DEF S!Disconnect, Rows, Results, Entries, Resting, Busy, Unknown, May, S!Keys, S!Name,
     SType, SBelongs, SUntouched, SBegun, SRight, SDone, SStored
<1>3. SUntouched'
  BY DEF S!Disconnect, Results, Entries, Resting, Busy, Unknown, May, S!Keys, S!Name, SType,
     SBelongs, SUntouched, SBegun
<1>4. SBegun'
  BY DEF S!Disconnect, Results, Entries, Resting, Busy, Unknown, May, S!Keys, S!Name, SType,
     SBelongs, SUntouched, SBegun
<1>5. SRight'
  BY DEF S!Disconnect, Results, Entries, Resting, Busy, Unknown, May, S!Keys, S!Name, SType,
     SBelongs, SBegun, SRight
<1>6. SDone'
  BY DEF S!Disconnect, Rows, Results, Entries, Resting, Busy, Unknown, May, S!Keys, S!Name,
     SType, SBelongs, SUntouched, SBegun, SRight, SDone, SStored
<1>7. SStored'
  BY DEF S!Disconnect, Results, Entries, Resting, Busy, Unknown, May, S!Keys, S!Name, SType,
     SBelongs, SBegun, SStored
<1> QED BY <1>1, <1>2, <1>3, <1>4, <1>5, <1>6, <1>7

\* A deadline passes, by either clock.
LEMMA SExpireKeeps ==
  ASSUME SInv, NEW j \in Jobs, S!Expire(j) PROVE SInv'
<1> USE SAssumed DEF SInv, S!site, S!process
<1>1. SType'
  BY DEF S!Expire, Results, Entries, Resting, Busy, Unknown, May, S!Keys, S!Name, SType, SBelongs
<1>2. SBelongs'
  BY DEF S!Expire, Rows, Results, Entries, Resting, Busy, Unknown, May, S!Keys, S!Name, SType,
     SBelongs, SUntouched, SBegun, SRight, SDone, SStored
<1>3. SUntouched'
  BY DEF S!Expire, Results, Entries, Resting, Busy, Unknown, May, S!Keys, S!Name, SType,
     SBelongs, SUntouched, SBegun
<1>4. SBegun'
  BY DEF S!Expire, Results, Entries, Resting, Busy, Unknown, May, S!Keys, S!Name, SType,
     SBelongs, SUntouched, SBegun
<1>5. SRight'
  BY DEF S!Expire, Results, Entries, Resting, Busy, Unknown, May, S!Keys, S!Name, SType,
     SBelongs, SBegun, SRight
<1>6. SDone'
  BY DEF S!Expire, Rows, Results, Entries, Resting, Busy, Unknown, May, S!Keys, S!Name, SType,
     SBelongs, SUntouched, SBegun, SRight, SDone, SStored
<1>7. SStored'
  BY DEF S!Expire, Results, Entries, Resting, Busy, Unknown, May, S!Keys, S!Name, SType,
     SBelongs, SBegun, SStored
<1> QED BY <1>1, <1>2, <1>3, <1>4, <1>5, <1>6, <1>7

\* The connector starts.
LEMMA SBeginKeeps ==
  ASSUME SInv, NEW p \in Procs, S!Begin(p) PROVE SInv'
<1> USE SAssumed DEF SInv, S!site, S!process
<1>1. SType'
  BY DEF S!Begin, S!At, S!Goto, S!Hold, S!Rest, Rows, Results, Entries, Resting, Busy, Unknown,
     May, S!Keys, S!Name, SType, SBelongs
<1>2. SBelongs'
  BY DEF S!Begin, S!At, S!Goto, S!Hold, S!Rest, Rows, Results, Entries, Resting, Busy, Unknown,
     May, S!Keys, S!Name, SType, SBelongs, SUntouched, SBegun, SRight, SDone, SStored
<1>3. SUntouched'
  BY DEF S!Begin, S!At, S!Goto, S!Hold, S!Rest, Rows, Results, Entries, Resting, Busy, Unknown,
     May, S!Keys, S!Name, SType, SBelongs, SUntouched, SBegun
<1>4. SBegun'
  BY DEF S!Begin, S!At, S!Goto, S!Hold, S!Rest, Rows, Results, Entries, Resting, Busy, Unknown,
     May, S!Keys, S!Name, SType, SBelongs, SUntouched, SBegun
<1>5. SRight'
  BY DEF S!Begin, S!At, S!Goto, S!Hold, S!Rest, Rows, Results, Entries, Resting, Busy, Unknown,
     May, S!Keys, S!Name, SType, SBelongs, SBegun, SRight
<1>6. SDone'
  BY DEF S!Begin, S!At, S!Goto, S!Hold, S!Rest, Rows, Results, Entries, Resting, Busy, Unknown,
     May, S!Keys, S!Name, SType, SBelongs, SUntouched, SBegun, SRight, SDone, SStored
<1>7. SStored'
  BY DEF S!Begin, S!At, S!Goto, S!Hold, S!Rest, Rows, Results, Entries, Resting, Busy, Unknown,
     May, S!Keys, S!Name, SType, SBelongs, SBegun, SStored
<1> QED BY <1>1, <1>2, <1>3, <1>4, <1>5, <1>6, <1>7

\* It dies.
LEMMA SCrashKeeps ==
  ASSUME SInv, NEW p \in Procs, S!Crash(p) PROVE SInv'
<1> USE SAssumed DEF SInv, S!site, S!process
<1>1. SType'
  BY DEF S!Crash, S!Goto, S!Hold, Rows, Results, Entries, Resting, Busy, Unknown, May, S!Keys,
     S!Name, SType, SBelongs
<1>2. SBelongs'
  BY DEF S!Crash, S!At, S!Goto, S!Hold, Rows, Results, Entries, Resting, Busy, Unknown, May,
     S!Keys, S!Name, SType, SBelongs, SUntouched, SBegun, SRight, SDone, SStored
<1>3. SUntouched'
  BY DEF S!Crash, S!At, S!Goto, S!Hold, Rows, Results, Entries, Resting, Busy, Unknown, May,
     S!Keys, S!Name, SType, SBelongs, SUntouched, SBegun
<1>4. SBegun'
  BY DEF S!Crash, S!At, S!Goto, S!Hold, Rows, Results, Entries, Resting, Busy, Unknown, May,
     S!Keys, S!Name, SType, SBelongs, SUntouched, SBegun
<1>5. SRight'
  BY DEF S!Crash, S!At, S!Goto, S!Hold, Rows, Results, Entries, Resting, Busy, Unknown, May,
     S!Keys, S!Name, SType, SBelongs, SBegun, SRight
<1>6. SDone'
  BY DEF S!Crash, S!At, S!Goto, S!Hold, Rows, Results, Entries, Resting, Busy, Unknown, May,
     S!Keys, S!Name, SType, SBelongs, SUntouched, SBegun, SRight, SDone, SStored
<1>7. SStored'
  BY DEF S!Crash, S!At, S!Goto, S!Hold, Rows, Results, Entries, Resting, Busy, Unknown, May,
     S!Keys, S!Name, SType, SBelongs, SBegun, SStored
<1> QED BY <1>1, <1>2, <1>3, <1>4, <1>5, <1>6, <1>7

\* It lists what is left to upload.
LEMMA SListKeeps ==
  ASSUME SInv, NEW p \in Procs, S!List(p) PROVE SInv'
<1> USE SAssumed DEF SInv, S!site, S!process
<1>1. SType'
  BY DEF S!List, S!Goto, Rows, Results, Entries, Resting, Busy, Unknown, May, S!Keys, S!Name,
     SType, SBelongs
<1>2. SBelongs'
  BY DEF S!List, S!At, S!Goto, Rows, Results, Entries, Resting, Busy, Unknown, May, S!Keys,
     S!Name, SType, SBelongs, SUntouched, SBegun, SRight, SDone, SStored
<1>3. SUntouched'
  BY DEF S!List, S!At, S!Goto, Rows, Results, Entries, Resting, Busy, Unknown, May, S!Keys,
     S!Name, SType, SBelongs, SUntouched, SBegun
<1>4. SBegun'
  BY DEF S!List, S!At, S!Goto, Rows, Results, Entries, Resting, Busy, Unknown, May, S!Keys,
     S!Name, SType, SBelongs, SUntouched, SBegun
<1>5. SRight'
  BY DEF S!List, S!At, S!Goto, Rows, Results, Entries, Resting, Busy, Unknown, May, S!Keys,
     S!Name, SType, SBelongs, SBegun, SRight
<1>6. SDone'
  BY DEF S!List, S!At, S!Goto, Rows, Results, Entries, Resting, Busy, Unknown, May, S!Keys,
     S!Name, SType, SBelongs, SUntouched, SBegun, SRight, SDone, SStored
<1>7. SStored'
  BY DEF S!List, S!At, S!Goto, Rows, Results, Entries, Resting, Busy, Unknown, May, S!Keys,
     S!Name, SType, SBelongs, SBegun, SStored
<1> QED BY <1>1, <1>2, <1>3, <1>4, <1>5, <1>6, <1>7

\* An entry that was begun is given up; one that has its result is uploaded.
LEMMA SRecoverKeeps ==
  ASSUME SInv, NEW p \in Procs, S!Recover(p) PROVE SInv'
<1> USE SAssumed DEF SInv, S!site, S!process
<1>1. SType'
  BY DEF S!Recover, S!At, S!Goto, S!Hold, S!GivenUp, S!Finished, Rows, Results, Entries,
     Resting, Busy, Unknown, May, S!Keys, S!Name, SType, SBelongs
<1>2. SBelongs'
  BY DEF S!Recover, S!At, S!Goto, S!Hold, S!GivenUp, S!Finished, Rows, Results, Entries,
     Resting, Busy, Unknown, May, S!Keys, S!Name, SType, SBelongs, SUntouched, SBegun, SRight,
     SDone, SStored
<1>3. SUntouched'
  BY DEF S!Recover, S!At, S!Goto, S!Hold, S!GivenUp, S!Finished, Rows, Results, Entries,
     Resting, Busy, Unknown, May, S!Keys, S!Name, SType, SBelongs, SUntouched, SBegun
<1>4. SBegun'
  BY DEF S!Recover, S!At, S!Goto, S!Hold, S!GivenUp, S!Finished, Rows, Results, Entries,
     Resting, Busy, Unknown, May, S!Keys, S!Name, SType, SBelongs, SUntouched, SBegun
<1>5. SRight'
  BY DEF S!Recover, S!At, S!Goto, S!Hold, S!GivenUp, S!Finished, Rows, Results, Entries,
     Resting, Busy, Unknown, May, S!Keys, S!Name, SType, SBelongs, SBegun, SRight
<1>6. SDone'
  BY DEF S!Recover, S!At, S!Goto, S!Hold, S!GivenUp, S!Finished, Rows, Results, Entries,
     Resting, Busy, Unknown, May, S!Keys, S!Name, SType, SBelongs, SUntouched, SBegun, SRight,
     SDone, SStored
<1>7. SStored'
  BY DEF S!Recover, S!At, S!Goto, S!Hold, S!GivenUp, S!Finished, Rows, Results, Entries,
     Resting, Busy, Unknown, May, S!Keys, S!Name, SType, SBelongs, SBegun, SStored
<1> QED BY <1>1, <1>2, <1>3, <1>4, <1>5, <1>6, <1>7

\* The pairing is verified before an upload.
LEMMA SAliveKeeps ==
  ASSUME SInv, NEW p \in Procs, S!Alive(p) PROVE SInv'
<1> USE SAssumed DEF SInv, S!site, S!process
<1>1. SType'
  BY DEF S!Alive, S!At, S!Goto, S!Beat, S!Rest, S!Hold, Rows, Results, Entries, Resting, Busy,
     Unknown, May, S!Keys, S!Name, SType, SBelongs
<1>2. SBelongs'
  BY DEF S!Alive, S!At, S!Goto, S!Beat, S!Rest, S!Hold, Rows, Results, Entries, Resting, Busy,
     Unknown, May, S!Keys, S!Name, SType, SBelongs, SUntouched, SBegun, SRight, SDone, SStored
<1>3. SUntouched'
  BY DEF S!Alive, S!At, S!Goto, S!Beat, S!Rest, S!Hold, Rows, Results, Entries, Resting, Busy,
     Unknown, May, S!Keys, S!Name, SType, SBelongs, SUntouched, SBegun
<1>4. SBegun'
  BY DEF S!Alive, S!At, S!Goto, S!Beat, S!Rest, S!Hold, Rows, Results, Entries, Resting, Busy,
     Unknown, May, S!Keys, S!Name, SType, SBelongs, SUntouched, SBegun
<1>5. SRight'
  BY DEF S!Alive, S!At, S!Goto, S!Beat, S!Rest, S!Hold, Rows, Results, Entries, Resting, Busy,
     Unknown, May, S!Keys, S!Name, SType, SBelongs, SBegun, SRight
<1>6. SDone'
  BY DEF S!Alive, S!At, S!Goto, S!Beat, S!Rest, S!Hold, Rows, Results, Entries, Resting, Busy,
     Unknown, May, S!Keys, S!Name, SType, SBelongs, SUntouched, SBegun, SRight, SDone, SStored
<1>7. SStored'
  BY DEF S!Alive, S!At, S!Goto, S!Beat, S!Rest, S!Hold, Rows, Results, Entries, Resting, Busy,
     Unknown, May, S!Keys, S!Name, SType, SBelongs, SBegun, SStored
<1> QED BY <1>1, <1>2, <1>3, <1>4, <1>5, <1>6, <1>7

\* A job is claimed, whether the answer arrives or not.
LEMMA SPollKeeps ==
  ASSUME SInv, NEW p \in Procs, S!Poll(p) PROVE SInv'
<1> USE SAssumed DEF SInv, S!site, S!process
<1>1. SType'
  BY DEF S!Poll, S!At, S!Goto, S!Hold, S!Rest, S!Claims, Rows, Results, Entries, Resting, Busy,
     Unknown, May, S!Keys, S!Name, SType, SBelongs
<1>2. SBelongs'
  BY DEF S!Poll, S!At, S!Goto, S!Hold, S!Rest, S!Claims, Rows, Results, Entries, Resting, Busy,
     Unknown, May, S!Keys, S!Name, SType, SBelongs, SUntouched, SBegun, SRight, SDone, SStored
<1>3. SUntouched'
  BY DEF S!Poll, S!At, S!Goto, S!Hold, S!Rest, S!Claims, Rows, Results, Entries, Resting, Busy,
     Unknown, May, S!Keys, S!Name, SType, SBelongs, SUntouched, SBegun, SStored
<1>4. SBegun'
  BY DEF S!Poll, S!At, S!Goto, S!Hold, S!Rest, S!Claims, Rows, Results, Entries, Resting, Busy,
     Unknown, May, S!Keys, S!Name, SType, SBelongs, SUntouched, SBegun, SStored
<1>5. SRight'
  BY DEF S!Poll, S!At, S!Goto, S!Hold, S!Rest, S!Claims, Rows, Results, Entries, Resting, Busy,
     Unknown, May, S!Keys, S!Name, SType, SBelongs, SBegun, SRight
<1>6. SDone'
  BY DEF S!Poll, S!At, S!Goto, S!Hold, S!Rest, S!Claims, Rows, Results, Entries, Resting, Busy,
     Unknown, May, S!Keys, S!Name, SType, SBelongs, SUntouched, SBegun, SRight, SDone, SStored
<1>7. SStored'
  BY DEF S!Poll, S!At, S!Goto, S!Hold, S!Rest, S!Claims, Rows, Results, Entries, Resting, Busy,
     Unknown, May, S!Keys, S!Name, SType, SBelongs, SBegun, SStored
<1> QED BY <1>1, <1>2, <1>3, <1>4, <1>5, <1>6, <1>7

\* A job that is late, or whose name is taken, is refused.
LEMMA SRefuseKeeps ==
  ASSUME SInv, NEW p \in Procs, S!Refuse(p) PROVE SInv'
<1> USE SAssumed DEF SInv, S!site, S!process
<1>1. SType'
  BY DEF S!Refuse, S!At, S!Goto, S!Hold, S!Rest, S!Post, S!Takes, Rows, Results, Entries,
     Resting, Busy, Unknown, May, S!Keys, S!Name, SType, SBelongs
<1>2. SBelongs'
  BY DEF S!Refuse, S!At, S!Goto, S!Hold, S!Rest, S!Post, S!Takes, Rows, Results, Entries,
     Resting, Busy, Unknown, May, S!Keys, S!Name, SType, SBelongs, SUntouched, SBegun, SRight,
     SDone, SStored
<1>3. SUntouched'
  BY DEF S!Refuse, S!At, S!Goto, S!Hold, S!Rest, S!Post, S!Takes, Rows, Results, Entries,
     Resting, Busy, Unknown, May, S!Keys, S!Name, SType, SBelongs, SUntouched, SBegun
<1>4. SBegun'
  BY DEF S!Refuse, S!At, S!Goto, S!Hold, S!Rest, S!Post, S!Takes, Rows, Results, Entries,
     Resting, Busy, Unknown, May, S!Keys, S!Name, SType, SBelongs, SUntouched, SBegun
<1>5. SRight'
  BY DEF S!Refuse, S!At, S!Goto, S!Hold, S!Rest, S!Post, S!Takes, Rows, Results, Entries,
     Resting, Busy, Unknown, May, S!Keys, S!Name, SType, SBelongs, SBegun, SRight
<1>6. SDone'
  BY DEF S!Refuse, S!At, S!Goto, S!Hold, S!Rest, S!Post, S!Takes, Rows, Results, Entries,
     Resting, Busy, Unknown, May, S!Keys, S!Name, SType, SBelongs, SUntouched, SBegun, SRight,
     SDone, SStored
<1>7. SStored'
  BY DEF S!Refuse, S!At, S!Goto, S!Hold, S!Rest, S!Post, S!Takes, Rows, Results, Entries,
     Resting, Busy, Unknown, May, S!Keys, S!Name, SType, SBelongs, SBegun, SStored
<1> QED BY <1>1, <1>2, <1>3, <1>4, <1>5, <1>6, <1>7

\* The entry is made: its maker, and nobody else, may dispatch.
LEMMA SJournalKeeps ==
  ASSUME SInv, NEW p \in Procs, S!Journal(p) PROVE SInv'
<1> USE SAssumed DEF SInv, S!site, S!process
<1>1. SType'
  BY DEF S!Journal, S!At, S!Goto, S!Fresh, S!Started, Rows, Results, Entries, Resting, Busy,
     Unknown, May, S!Keys, S!Name, SType, SBelongs
<1>2. SBelongs'
  BY DEF S!Journal, S!At, S!Goto, S!Fresh, S!Started, Rows, Results, Entries, Resting, Busy,
     Unknown, May, S!Keys, S!Name, SType, SBelongs, SUntouched, SBegun, SRight, SDone, SStored
<1>3. SUntouched'
  BY DEF S!Journal, S!At, S!Goto, S!Fresh, S!Started, Rows, Results, Entries, Resting, Busy,
     Unknown, May, S!Keys, S!Name, SType, SBelongs, SUntouched, SBegun
<1>4. SBegun'
  BY DEF S!Journal, S!At, S!Goto, S!Fresh, S!Started, Rows, Results, Entries, Resting, Busy,
     Unknown, May, S!Keys, S!Name, SType, SBelongs, SUntouched, SBegun
<1>5. SRight'
  BY DEF S!Journal, S!At, S!Goto, S!Fresh, S!Started, Rows, Results, Entries, Resting, Busy,
     Unknown, May, S!Keys, S!Name, SType, SBelongs, SBegun, SRight
<1>6. SDone'
  BY DEF S!Journal, S!At, S!Goto, S!Fresh, S!Started, Rows, Results, Entries, Resting, Busy,
     Unknown, May, S!Keys, S!Name, SType, SBelongs, SUntouched, SBegun, SRight, SDone, SStored
<1>7. SStored'
  BY DEF S!Journal, S!At, S!Goto, S!Fresh, S!Started, Rows, Results, Entries, Resting, Busy,
     Unknown, May, S!Keys, S!Name, SType, SBelongs, SBegun, SStored
<1> QED BY <1>1, <1>2, <1>3, <1>4, <1>5, <1>6, <1>7

\* The process dies before the entry has its contents.
LEMMA STearKeeps ==
  ASSUME SInv, NEW p \in Procs, S!Tear(p) PROVE SInv'
<1> USE SAssumed DEF SInv, S!site, S!process
<1>1. SType'
  BY DEF S!Tear, S!At, S!Goto, S!Hold, S!Fresh, S!NoFile, Rows, Results, Entries, Resting, Busy,
     Unknown, May, S!Keys, S!Name, SType, SBelongs
<1>2. SBelongs'
  BY DEF S!Tear, S!At, S!Goto, S!Hold, S!Fresh, S!NoFile, Rows, Results, Entries, Resting, Busy,
     Unknown, May, S!Keys, S!Name, SType, SBelongs, SUntouched, SBegun, SRight, SDone, SStored
<1>3. SUntouched'
  BY DEF S!Tear, S!At, S!Goto, S!Hold, S!Fresh, S!NoFile, Rows, Results, Entries, Resting, Busy,
     Unknown, May, S!Keys, S!Name, SType, SBelongs, SUntouched, SBegun
<1>4. SBegun'
  BY DEF S!Tear, S!At, S!Goto, S!Hold, S!Fresh, S!NoFile, Rows, Results, Entries, Resting, Busy,
     Unknown, May, S!Keys, S!Name, SType, SBelongs, SUntouched, SBegun
<1>5. SRight'
  BY DEF S!Tear, S!At, S!Goto, S!Hold, S!Fresh, S!NoFile, Rows, Results, Entries, Resting, Busy,
     Unknown, May, S!Keys, S!Name, SType, SBelongs, SBegun, SRight
<1>6. SDone'
  BY DEF S!Tear, S!At, S!Goto, S!Hold, S!Fresh, S!NoFile, Rows, Results, Entries, Resting, Busy,
     Unknown, May, S!Keys, S!Name, SType, SBelongs, SUntouched, SBegun, SRight, SDone, SStored
<1>7. SStored'
  BY DEF S!Tear, S!At, S!Goto, S!Hold, S!Fresh, S!NoFile, Rows, Results, Entries, Resting, Busy,
     Unknown, May, S!Keys, S!Name, SType, SBelongs, SBegun, SStored
<1> QED BY <1>1, <1>2, <1>3, <1>4, <1>5, <1>6, <1>7

\* The pairing is verified; whoever made the entry goes on.
LEMMA SCheckKeeps ==
  ASSUME SInv, NEW p \in Procs, S!Check(p) PROVE SInv'
<1> USE SAssumed DEF SInv, S!site, S!process
<1>1. SType'
  BY DEF S!Check, S!At, S!Goto, S!Beat, S!Rest, S!Hold, Rows, Results, Entries, Resting, Busy,
     Unknown, May, S!Keys, S!Name, SType, SBelongs
<1>2. SBelongs'
  BY DEF S!Check, S!At, S!Goto, S!Beat, S!Rest, S!Hold, Rows, Results, Entries, Resting, Busy,
     Unknown, May, S!Keys, S!Name, SType, SBelongs, SUntouched, SBegun, SRight, SDone, SStored
<1>3. SUntouched'
  BY DEF S!Check, S!At, S!Goto, S!Beat, S!Rest, S!Hold, Rows, Results, Entries, Resting, Busy,
     Unknown, May, S!Keys, S!Name, SType, SBelongs, SUntouched, SBegun
<1>4. SBegun'
  BY DEF S!Check, S!At, S!Goto, S!Beat, S!Rest, S!Hold, Rows, Results, Entries, Resting, Busy,
     Unknown, May, S!Keys, S!Name, SType, SBelongs, SUntouched, SBegun
<1>5. SRight'
  BY DEF S!Check, S!At, S!Goto, S!Beat, S!Rest, S!Hold, Rows, Results, Entries, Resting, Busy,
     Unknown, May, S!Keys, S!Name, SType, SBelongs, SBegun, SRight
<1>6. SDone'
  BY DEF S!Check, S!At, S!Goto, S!Beat, S!Rest, S!Hold, Rows, Results, Entries, Resting, Busy,
     Unknown, May, S!Keys, S!Name, SType, SBelongs, SUntouched, SBegun, SRight, SDone, SStored
<1>7. SStored'
  BY DEF S!Check, S!At, S!Goto, S!Beat, S!Rest, S!Hold, Rows, Results, Entries, Resting, Busy,
     Unknown, May, S!Keys, S!Name, SType, SBelongs, SBegun, SStored
<1> QED BY <1>1, <1>2, <1>3, <1>4, <1>5, <1>6, <1>7

\* Something fails: the outcome is uncertain.
LEMMA SFailKeeps ==
  ASSUME SInv, NEW p \in Procs, S!Fail(p) PROVE SInv'
<1> USE SAssumed DEF SInv, S!site, S!process
<1>1. SType'
  BY DEF S!Fail, S!Goto, Rows, Results, Entries, Resting, Busy, Unknown, May, S!Keys, S!Name,
     SType, SBelongs
<1>2. SBelongs'
  BY DEF S!Fail, S!Goto, Rows, Results, Entries, Resting, Busy, Unknown, May, S!Keys, S!Name,
     SType, SBelongs, SUntouched, SBegun, SRight, SDone, SStored
<1>3. SUntouched'
  BY DEF S!Fail, Rows, Results, Entries, Resting, Busy, Unknown, May, S!Keys, S!Name, SType,
     SBelongs, SUntouched, SBegun
<1>4. SBegun'
  BY DEF S!Fail, S!Goto, Rows, Results, Entries, Resting, Busy, Unknown, May, S!Keys, S!Name,
     SType, SBelongs, SUntouched, SBegun
<1>5. SRight'
  BY DEF S!Fail, S!Goto, Rows, Results, Entries, Resting, Busy, Unknown, May, S!Keys, S!Name,
     SType, SBelongs, SBegun, SRight
<1>6. SDone'
  BY DEF S!Fail, S!Goto, Rows, Results, Entries, Resting, Busy, Unknown, May, S!Keys, S!Name,
     SType, SBelongs, SUntouched, SBegun, SRight, SDone, SStored
<1>7. SStored'
  BY DEF S!Fail, S!Goto, Rows, Results, Entries, Resting, Busy, Unknown, May, S!Keys, S!Name,
     SType, SBelongs, SBegun, SStored
<1> QED BY <1>1, <1>2, <1>3, <1>4, <1>5, <1>6, <1>7

\* The pairing is verified once more.
LEMMA SVerifyKeeps ==
  ASSUME SInv, NEW p \in Procs, S!Verify(p) PROVE SInv'
<1> USE SAssumed DEF SInv, S!site, S!process
<1>1. SType'
  BY DEF S!Verify, S!Goto, S!Beat, Rows, Results, Entries, Resting, Busy, Unknown, May, S!Keys,
     S!Name, SType, SBelongs
<1>2. SBelongs'
  BY DEF S!Verify, S!At, S!Goto, S!Beat, Rows, Results, Entries, Resting, Busy, Unknown, May,
     S!Keys, S!Name, SType, SBelongs, SUntouched, SBegun, SRight, SDone, SStored
<1>3. SUntouched'
  BY DEF S!Verify, S!At, S!Goto, S!Beat, Rows, Results, Entries, Resting, Busy, Unknown, May,
     S!Keys, S!Name, SType, SBelongs, SUntouched, SBegun
<1>4. SBegun'
  BY DEF S!Verify, S!At, S!Goto, S!Beat, Rows, Results, Entries, Resting, Busy, Unknown, May,
     S!Keys, S!Name, SType, SBelongs, SUntouched, SBegun
<1>5. SRight'
  BY DEF S!Verify, S!At, S!Goto, S!Beat, Rows, Results, Entries, Resting, Busy, Unknown, May,
     S!Keys, S!Name, SType, SBelongs, SBegun, SRight
<1>6. SDone'
  BY DEF S!Verify, S!At, S!Goto, S!Beat, Rows, Results, Entries, Resting, Busy, Unknown, May,
     S!Keys, S!Name, SType, SBelongs, SUntouched, SBegun, SRight, SDone, SStored
<1>7. SStored'
  BY DEF S!Verify, S!At, S!Goto, S!Beat, Rows, Results, Entries, Resting, Busy, Unknown, May,
     S!Keys, S!Name, SType, SBelongs, SBegun, SStored
<1> QED BY <1>1, <1>2, <1>3, <1>4, <1>5, <1>6, <1>7

\* Codex Desktop is asked: nobody else may, then or later.
LEMMA SDispatchKeeps ==
  ASSUME SInv, NEW p \in Procs, S!Dispatch(p) PROVE SInv'
<1> USE SAssumed DEF SInv, S!site, S!process
<1>1. SType'
  BY DEF S!Dispatch, S!At, S!Goto, Rows, Results, Entries, Resting, Busy, Unknown, May, S!Keys,
     S!Name, SType, SBelongs
<1>2. SBelongs'
  BY DEF S!Dispatch, S!At, S!Goto, Rows, Results, Entries, Resting, Busy, Unknown, May, S!Keys,
     S!Name, SType, SBelongs, SUntouched, SBegun, SRight, SDone, SStored
<1>3. SUntouched'
  BY DEF S!Dispatch, S!At, S!Goto, Rows, Results, Entries, Resting, Busy, Unknown, May, S!Keys,
     S!Name, SType, SBelongs, SUntouched, SBegun
<1>4. SBegun'
  BY DEF S!Dispatch, S!At, S!Goto, Rows, Results, Entries, Resting, Busy, Unknown, May, S!Keys,
     S!Name, SType, SBelongs, SUntouched, SBegun
<1>5. SRight'
  BY DEF S!Dispatch, S!At, S!Goto, Rows, Results, Entries, Resting, Busy, Unknown, May, S!Keys,
     S!Name, SType, SBelongs, SBegun, SRight
<1>6. SDone'
  BY DEF S!Dispatch, S!At, S!Goto, Rows, Results, Entries, Resting, Busy, Unknown, May, S!Keys,
     S!Name, SType, SBelongs, SUntouched, SBegun, SRight, SDone, SStored
<1>7. SStored'
  BY DEF S!Dispatch, S!At, S!Goto, Rows, Results, Entries, Resting, Busy, Unknown, May, S!Keys,
     S!Name, SType, SBelongs, SBegun, SStored
<1> QED BY <1>1, <1>2, <1>3, <1>4, <1>5, <1>6, <1>7

\* It has answered.
LEMMA SReturnKeeps ==
  ASSUME SInv, NEW p \in Procs, S!Return(p) PROVE SInv'
<1> USE SAssumed DEF SInv, S!site, S!process
<1>1. SType'
  BY DEF S!Return, S!Goto, Rows, Results, Entries, Resting, Busy, Unknown, May, S!Keys, S!Name,
     SType, SBelongs
<1>2. SBelongs'
  BY DEF S!Return, S!At, S!Goto, Rows, Results, Entries, Resting, Busy, Unknown, May, S!Keys,
     S!Name, SType, SBelongs, SUntouched, SBegun, SRight, SDone, SStored
<1>3. SUntouched'
  BY DEF S!Return, S!At, S!Goto, Rows, Results, Entries, Resting, Busy, Unknown, May, S!Keys,
     S!Name, SType, SBelongs, SUntouched, SBegun
<1>4. SBegun'
  BY DEF S!Return, S!At, S!Goto, Rows, Results, Entries, Resting, Busy, Unknown, May, S!Keys,
     S!Name, SType, SBelongs, SUntouched, SBegun
<1>5. SRight'
  BY DEF S!Return, S!At, S!Goto, Rows, Results, Entries, Resting, Busy, Unknown, May, S!Keys,
     S!Name, SType, SBelongs, SBegun, SRight
<1>6. SDone'
  BY DEF S!Return, S!At, S!Goto, Rows, Results, Entries, Resting, Busy, Unknown, May, S!Keys,
     S!Name, SType, SBelongs, SUntouched, SBegun, SRight, SDone, SStored
<1>7. SStored'
  BY DEF S!Return, S!At, S!Goto, Rows, Results, Entries, Resting, Busy, Unknown, May, S!Keys,
     S!Name, SType, SBelongs, SBegun, SStored
<1> QED BY <1>1, <1>2, <1>3, <1>4, <1>5, <1>6, <1>7

\* The outcome is journalled.
LEMMA SSaveKeeps ==
  ASSUME SInv, NEW p \in Procs, S!Save(p) PROVE SInv'
<1> USE SAssumed DEF SInv, S!site, S!process
<1>1. SType'
  BY DEF S!Save, S!At, S!Goto, S!Finished, Rows, Results, Entries, Resting, Busy, Unknown, May,
     S!Keys, S!Name, SType, SBelongs
<1>2. SBelongs'
  BY DEF S!Save, S!At, S!Goto, S!Finished, Rows, Results, Entries, Resting, Busy, Unknown, May,
     S!Keys, S!Name, SType, SBelongs, SUntouched, SBegun, SRight, SDone, SStored
<1>3. SUntouched'
  BY DEF S!Save, S!At, S!Goto, S!Finished, Rows, Results, Entries, Resting, Busy, Unknown, May,
     S!Keys, S!Name, SType, SBelongs, SUntouched, SBegun
<1>4. SBegun'
  BY DEF S!Save, S!At, S!Goto, S!Finished, Rows, Results, Entries, Resting, Busy, Unknown, May,
     S!Keys, S!Name, SType, SBelongs, SUntouched, SBegun
<1>5. SRight'
  BY DEF S!Save, S!At, S!Goto, S!Finished, Rows, Results, Entries, Resting, Busy, Unknown, May,
     S!Keys, S!Name, SType, SBelongs, SBegun, SRight
<1>6. SDone'
  BY DEF S!Save, S!At, S!Goto, S!Finished, Rows, Results, Entries, Resting, Busy, Unknown, May,
     S!Keys, S!Name, SType, SBelongs, SUntouched, SBegun, SRight, SDone, SStored
<1>7. SStored'
  BY DEF S!Save, S!At, S!Goto, S!Finished, Rows, Results, Entries, Resting, Busy, Unknown, May,
     S!Keys, S!Name, SType, SBelongs, SBegun, SStored
<1> QED BY <1>1, <1>2, <1>3, <1>4, <1>5, <1>6, <1>7

\* The site takes the result, or refuses it, or the answer is lost.
LEMMA SUploadKeeps ==
  ASSUME SInv, NEW p \in Procs, S!Upload(p) PROVE SInv'
<1> USE SAssumed DEF SInv, S!site, S!process
<1>1. SType'
  BY DEF S!Upload, S!At, S!Goto, S!Hold, S!Rest, S!Post, S!Takes, Rows, Results, Entries,
     Resting, Busy, Unknown, May, S!Keys, S!Name, SType, SBelongs
<1>2. SBelongs'
  BY DEF S!Upload, S!At, S!Goto, S!Hold, S!Rest, S!Post, S!Takes, Rows, Results, Entries,
     Resting, Busy, Unknown, May, S!Keys, S!Name, SType, SBelongs, SUntouched, SBegun, SRight,
     SDone, SStored
<1>3. SUntouched'
  BY DEF S!Upload, S!At, S!Goto, S!Hold, S!Rest, S!Post, S!Takes, Rows, Results, Entries,
     Resting, Busy, Unknown, May, S!Keys, S!Name, SType, SBelongs, SUntouched, SBegun, SRight,
     SDone, SStored
<1>4. SBegun'
  BY DEF S!Upload, S!At, S!Goto, S!Hold, S!Rest, S!Post, S!Takes, Rows, Results, Entries,
     Resting, Busy, Unknown, May, S!Keys, S!Name, SType, SBelongs, SUntouched, SBegun
<1>5. SRight'
  BY DEF S!Upload, S!At, S!Goto, S!Hold, S!Rest, S!Post, S!Takes, Rows, Results, Entries,
     Resting, Busy, Unknown, May, S!Keys, S!Name, SType, SBelongs, SBegun, SRight
<1>6. SDone'
  BY DEF S!Upload, S!At, S!Goto, S!Hold, S!Rest, S!Post, S!Takes, Rows, Results, Entries,
     Resting, Busy, Unknown, May, S!Keys, S!Name, SType, SBelongs, SUntouched, SBegun, SRight,
     SDone, SStored
<1>7. SStored'
  BY DEF S!Upload, S!At, S!Goto, S!Hold, S!Rest, S!Post, S!Takes, Rows, Results, Entries,
     Resting, Busy, Unknown, May, S!Keys, S!Name, SType, SBelongs, SBegun, SStored
<1> QED BY <1>1, <1>2, <1>3, <1>4, <1>5, <1>6, <1>7

\* The entry is marked: the site has the result.
LEMMA SMarkKeeps ==
  ASSUME SInv, NEW p \in Procs, S!Mark(p) PROVE SInv'
<1> USE SAssumed DEF SInv, S!site, S!process
<1>1. SType'
  BY DEF S!Mark, S!At, S!Goto, S!Hold, S!Finished, Rows, Results, Entries, Resting, Busy,
     Unknown, May, S!Keys, S!Name, SType, SBelongs
<1>2. SBelongs'
  BY DEF S!Mark, S!At, S!Goto, S!Hold, S!Finished, Rows, Results, Entries, Resting, Busy,
     Unknown, May, S!Keys, S!Name, SType, SBelongs, SUntouched, SBegun, SRight, SDone, SStored
<1>3. SUntouched'
  BY DEF S!Mark, S!At, S!Goto, S!Hold, S!Finished, Rows, Results, Entries, Resting, Busy,
     Unknown, May, S!Keys, S!Name, SType, SBelongs, SUntouched, SBegun
<1>4. SBegun'
  BY DEF S!Mark, S!At, S!Goto, S!Hold, S!Finished, Rows, Results, Entries, Resting, Busy,
     Unknown, May, S!Keys, S!Name, SType, SBelongs, SUntouched, SBegun
<1>5. SRight'
  BY DEF S!Mark, S!At, S!Goto, S!Hold, S!Finished, Rows, Results, Entries, Resting, Busy,
     Unknown, May, S!Keys, S!Name, SType, SBelongs, SBegun, SRight
<1>6. SDone'
  BY DEF S!Mark, S!At, S!Goto, S!Hold, S!Finished, Rows, Results, Entries, Resting, Busy,
     Unknown, May, S!Keys, S!Name, SType, SBelongs, SUntouched, SBegun, SRight, SDone, SStored
<1>7. SStored'
  BY DEF S!Mark, S!At, S!Goto, S!Hold, S!Finished, Rows, Results, Entries, Resting, Busy,
     Unknown, May, S!Keys, S!Name, SType, SBelongs, SBegun, SStored
<1> QED BY <1>1, <1>2, <1>3, <1>4, <1>5, <1>6, <1>7


\* Every step keeps it.
LEMMA SNext == SInv /\ [S!Next]_sVars => SInv'
<1> SUFFICES ASSUME SInv, [S!Next]_sVars PROVE SInv'
  OBVIOUS
<1>1. ASSUME S!Pair \/ S!Disconnect PROVE SInv'
  BY <1>1, SPairKeeps, SDisconnectKeeps
<1>2. ASSUME NEW j \in Jobs, S!Enqueue(j) \/ S!Expire(j) PROVE SInv'
  BY <1>2, SEnqueueKeeps, SExpireKeeps
<1>3. ASSUME NEW p \in Procs, S!Working(p) \/ S!Crash(p) \/ S!Tear(p) PROVE SInv'
  BY <1>3, SBeginKeeps, SListKeeps, SRecoverKeeps, SAliveKeeps, SPollKeeps, SRefuseKeeps,
     SJournalKeeps, SCheckKeeps, SVerifyKeeps, SDispatchKeeps, SReturnKeeps, SFailKeeps,
     SSaveKeeps, SUploadKeeps, SMarkKeeps, SCrashKeeps, STearKeeps DEF S!Working
<1>4. CASE UNCHANGED sVars
  BY <1>4 DEF sVars, SInv, SType, SBelongs, SUntouched, Unknown, SBegun, SRight, May, SDone,
     SStored, S!Keys, S!Name
<1> QED
  BY <1>1, <1>2, <1>3, <1>4 DEF S!Next

\* A job is handed over at most once, its row tells the truth, and what was marked as
\* uploaded is stored.
LEMMA SPromises == SInv => S!AtMostOnce /\ S!TellsTheTruth /\ S!UploadedIsStored
<1> SUFFICES ASSUME SInv PROVE S!AtMostOnce /\ S!TellsTheTruth /\ S!UploadedIsStored
  OBVIOUS
<1>1. S!AtMostOnce
  BY DEF SInv, SRight, S!AtMostOnce, S!Name
<1>2. S!TellsTheTruth
  BY DEF SInv, SType, SUntouched, Unknown, SDone, S!TellsTheTruth, S!Told, Rows, Results
<1>3. S!UploadedIsStored
  BY DEF SInv, SStored, S!UploadedIsStored
<1> QED BY <1>1, <1>2, <1>3

-----------------------------------------------------------------------------
(* The suite *)

SuiteInv == IInv /\ AInv /\ CInv /\ OInv /\ SInv

\* The initial states of the suite satisfy the invariant of every component.
LEMMA SuiteInitially == SuiteInit => SuiteInv
BY InitIInv, AInit, CInitial, OInitial, SInitial DEF SuiteInit, SuiteInv

\* A step of one component leaves the others alone.
LEMMA SuiteStep == SuiteInv /\ [SuiteNext]_<<part, vars, aVars, cVars, oVars, sVars>> => SuiteInv'
BY NextIInv, ANext, CNext, ONext, SNext DEF SuiteNext, SuiteInv

\* The invariants of all components hold in every behaviour of the suite.
THEOREM SuiteInvariance == SuiteSpec => []SuiteInv
BY SuiteInitially, SuiteStep, PTL DEF SuiteSpec

\* However often a request is repeated, and whatever dies in between, its prompt is
\* handed over at most once, to Antigravity and by the connector of a site.
THEOREM NothingTwice == SuiteSpec => []HandedOnce
<1>1. SuiteInv => HandedOnce
  BY APromises, SPromises DEF SuiteInv, HandedOnce
<1> QED BY <1>1, SuiteInvariance, PTL

\* What the receipts of the four ways say of a prompt is so.
THEOREM ReceiptsTellTheTruth == SuiteSpec => []ReceiptsAreTrue
<1>1. SuiteInv => ReceiptsAreTrue
  BY APromises, CPromises, OPromises, SPromises DEF SuiteInv, ReceiptsAreTrue
<1> QED BY <1>1, SuiteInvariance, PTL

\* No place for a session of the command line is leaked or given twice, and a result
\* goes to the prompt it answers.
THEOREM PlacesAreKept == SuiteSpec => []PlacesHold
<1>1. SuiteInv => PlacesHold
  BY CPromises DEF SuiteInv, PlacesHold
<1> QED BY <1>1, SuiteInvariance, PTL

\* Work of Antigravity is accepted only under the account, permissions and session it
\* was checked under, its receipt is its owner's, and an idle worker can be reloaded.
THEOREM AcceptedAsItWas == SuiteSpec => []AcceptedAsChecked
<1>1. SuiteInv => AcceptedAsChecked
  BY OPromises DEF SuiteInv, AcceptedAsChecked
<1> QED BY <1>1, SuiteInvariance, PTL

=============================================================================
