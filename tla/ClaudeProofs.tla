------------------------------ MODULE ClaudeProofs -----------------------------
(***************************************************************************)
(* Theorems about the way to Claude.  PeerDelivery implements Delivery for *)
(* any number of messages, reloads and attempts, and keeps the replies;    *)
(* ReplyForwarder forwards once and in order for every set of replies; and *)
(* in the suite of all its components (Claude) the queue keeps what        *)
(* QueuedDeliveryProofs proves of it alone.                                *)
(***************************************************************************)
EXTENDS Claude, QueuedDeliveryProofs, WellFoundedInduction

-----------------------------------------------------------------------------
(* PeerDelivery. *)

Unwritten == {"idle", "queued", "connect", "verify"}

\* The session has not got the message, and will not get it.
Away(m) == m \notin p_flight /\ p_at[m] = "none"

PeerInv ==
    /\ p_pc \in [Messages -> Unwritten \cup {"write", "wait", "done"}]
    /\ p_result \in [Messages -> {"none", "not_sent", "unknown", "reply", "hidden"}]
    /\ p_at \in [Messages -> {"none", "got", "declined", "answered", "interrupted"}]
    /\ \A m \in Messages : p_pc[m] \in Unwritten \/ p_result[m] = "not_sent" => Away(m)
    /\ \A m \in Messages : p_pc[m] # "done" => p_result[m] = "none"

\* What the sender of a message is told, in the words of Delivery.
Reached == [m \in Messages |-> IF p_at[m] = "none" THEN 0 ELSE 1]
PeerSaid == [m \in Messages |->
    IF p_result[m] \in {"reply", "hidden"} THEN "unknown" ELSE p_result[m]]

-----------------------------------------------------------------------------

\* What the steps of a call do to what the session has and to the caller's answer: a
\* call answers "not sent" before it has written, and otherwise something else.
LEMMA CallIs ==
    ASSUME PeerInv, NEW m \in Messages, P!Call(m) \/ P!Sending(m) \/ P!Verified(m)
    PROVE  /\ p_at' = p_at
           /\ \/ /\ p_pc' = p_pc /\ p_result' = p_result
                 /\ p_flight' = p_flight
              \/ /\ p_pc[m] \in Unwritten /\ p_result' = p_result
                 /\ p_flight' = p_flight
                 /\ \E v \in Unwritten : p_pc' = [p_pc EXCEPT ![m] = v]
              \/ /\ p_pc[m] \in Unwritten /\ p_result' = [p_result EXCEPT ![m] = "not_sent"]
                 /\ p_flight' = p_flight
                 /\ p_pc' = [p_pc EXCEPT ![m] = "done"]
              \/ /\ p_pc[m] = "verify" /\ p_result' = p_result
                 /\ p_flight' = p_flight \cup {m}
                 /\ p_pc' = [p_pc EXCEPT ![m] = "write"]
              \/ /\ p_pc[m] = "write" /\ p_result' = p_result
                 /\ p_flight' = p_flight
                 /\ p_pc' = [p_pc EXCEPT ![m] = "wait"]
              \/ /\ p_pc[m] \in {"write", "wait"}
                 /\ \E told \in {"unknown", "reply", "hidden"} :
                      p_result' = [p_result EXCEPT ![m] = told]
                 /\ p_flight' \in {p_flight, p_flight \ {m}}
                 /\ p_pc' = [p_pc EXCEPT ![m] = "done"]
<1> USE DEF P!side, P!calls, P!reload, P!frames, Unwritten
<1>1. CASE P!Call(m)
  BY <1>1 DEF P!Call
<1>2. CASE P!Blocked(m)
  BY <1>2 DEF P!Blocked, P!Return
<1>3. CASE P!Begin(m)
  BY <1>3 DEF P!Begin, P!Return
<1>4. CASE P!Unreachable(m)
  BY <1>4 DEF P!Unreachable, P!Return
<1>5. CASE P!Connect(m)
  BY <1>5 DEF P!Connect
<1>6. CASE P!VerifyEnds(m)
  BY <1>6 DEF P!VerifyEnds, P!Return
<1>7. CASE P!Uncertain(m)
  BY <1>7 DEF P!Uncertain, P!Return
<1>8. CASE P!Wrote(m)
  BY <1>8 DEF P!Wrote, P!Return
<1>9. CASE P!Waited(m)
  BY <1>9 DEF P!Waited, P!Return
<1>10. CASE P!Verified(m)
  BY <1>10 DEF P!Verified, P!Return, P!Settled
<1> QED BY <1>1, <1>2, <1>3, <1>4, <1>5, <1>6, <1>7, <1>8, <1>9, <1>10 DEF P!Sending

\* What the steps of a session do to them.
LEMMA SessionIs ==
    ASSUME PeerInv, NEW m \in Messages, P!Session(m)
    PROVE  /\ p_pc' = p_pc /\ p_result' = p_result
           /\ \/ /\ m \in p_flight /\ p_flight' = p_flight \ {m}
                 /\ p_at' = [p_at EXCEPT ![m] = "got"]
              \/ /\ p_at[m] = "got" /\ p_flight' = p_flight
                 /\ \E v \in {"declined", "answered", "interrupted"} :
                      p_at' = [p_at EXCEPT ![m] = v]
BY DEF P!Session, P!Took, P!Declines, P!Answers, P!Interrupted, P!calls

\* What all other steps leave alone.
LEMMA RestIs ==
    ASSUME \/ P!Observe \/ P!ReadDelivery \/ P!Drain \/ P!Unasked \/ P!SwitchAccount
           \/ \E f \in P!Frames : P!Accept(f) \/ P!Data(f)
           \/ P!Withdraw \/ P!Reloading \/ UNCHANGED P!vars
    PROVE  UNCHANGED <<p_pc, p_result, p_flight, p_at>>
BY DEF P!Observe, P!ReadDelivery, P!Drain, P!Unasked, P!SwitchAccount, P!Accept, P!Data,
   P!Withdraw, P!Reloading, P!Pause, P!Close, P!Restore, P!Activate, P!vars, P!calls, P!side

\* What every step keeps.
LEMMA PeerStepKeeps == ASSUME PeerInv, [P!Next]_P!vars PROVE PeerInv'
<1>1. ASSUME NEW m \in Messages, P!Call(m) \/ P!Sending(m) \/ P!Verified(m)
      PROVE  PeerInv'
  BY <1>1, CallIs DEF PeerInv, Away, Unwritten
<1>2. ASSUME NEW m \in Messages, P!Session(m)
      PROVE  PeerInv'
  BY <1>2, SessionIs DEF PeerInv, Away
<1>3. CASE UNCHANGED <<p_pc, p_result, p_flight, p_at>>
  BY <1>3 DEF PeerInv, Away
<1> QED BY <1>1, <1>2, <1>3, RestIs DEF P!Next

\* A message that is not written yet, or was reported as not sent, is not with the
\* session nor on its way, and a call is answered when it returns.
THEOREM PeerInvariance == P!Spec => []PeerInv
<1>1. P!Init => PeerInv
  BY DEF P!Init, PeerInv, Away, Unwritten
<1> QED BY <1>1, PeerStepKeeps, PTL DEF P!Spec

\* A step that gives one message to the session, or answers its sender.
LEMMA OneWrites ==
    ASSUME NEW m \in Messages, PeerInv,
           Reached' = Reached \/ /\ Reached[m] = 0 /\ PeerSaid[m] # "not_sent"
                                 /\ Reached' = [Reached EXCEPT ![m] = 1],
           PeerSaid' = PeerSaid \/ \E what \in {"not_sent", "unknown"} :
               /\ PeerSaid[m] = "none" /\ PeerSaid' = [PeerSaid EXCEPT ![m] = what]
               /\ what = "not_sent" => Reached'[m] = 0
    PROVE  P!Promise!Next \/ UNCHANGED <<Reached, PeerSaid>>
<1>1. CASE UNCHANGED <<Reached, PeerSaid>>
  BY <1>1
<1>2. CASE ~UNCHANGED <<Reached, PeerSaid>>
  <2>1. Reached' = Reached \/ P!Promise!Deliver(m)
    BY DEF P!Promise!Deliver, Reached, PeerSaid
  <2>2. PeerSaid' = PeerSaid \/ \E what \in P!Promise!Answers : P!Promise!Tell(m, what)
    <3>1. CASE PeerSaid' = PeerSaid
      BY <3>1
    <3>2. CASE PeerSaid' # PeerSaid
      <4>1. PICK what \in {"not_sent", "unknown"} :
                /\ PeerSaid[m] = "none" /\ PeerSaid' = [PeerSaid EXCEPT ![m] = what]
                /\ what = "not_sent" => Reached'[m] = 0
        BY <3>2
      <4>2. P!Promise!Tell(m, what) /\ what \in P!Promise!Answers
        BY <4>1 DEF P!Promise!Tell, P!Promise!Answers, Reached, PeerSaid
      <4> QED BY <4>2
    <3> QED BY <3>1, <3>2
  <2>3. Reached'[m] # Reached[m] \/ PeerSaid'[m] # PeerSaid[m]
    BY <1>2 DEF Reached, PeerSaid
  <2> QED BY <2>1, <2>2, <2>3 DEF P!Promise!Next, Reached, PeerSaid
<1> QED BY <1>1, <1>2

\* A step about a message, by what it changes.
LEMMA PeerStepPromises ==
    ASSUME PeerInv, PeerInv', [P!Next]_P!vars
    PROVE  P!Promise!Next \/ UNCHANGED <<Reached, PeerSaid>>
<1>1. ASSUME NEW m \in Messages, P!Call(m) \/ P!Sending(m) \/ P!Verified(m)
      PROVE  P!Promise!Next \/ UNCHANGED <<Reached, PeerSaid>>
  <2>1. Reached' = Reached
    BY <1>1, CallIs DEF Reached
  <2>2. p_result' = p_result \/ /\ p_result[m] = "none"
                                /\ \E told \in {"not_sent", "unknown", "reply", "hidden"} :
                                     p_result' = [p_result EXCEPT ![m] = told]
    BY <1>1, CallIs DEF PeerInv, Unwritten
  <2>3. p_result'[m] = "not_sent" => Reached'[m] = 0
    BY DEF PeerInv, Away, Reached
  <2>4. PeerSaid' = PeerSaid \/ \E what \in {"not_sent", "unknown"} :
               /\ PeerSaid[m] = "none" /\ PeerSaid' = [PeerSaid EXCEPT ![m] = what]
               /\ what = "not_sent" => Reached'[m] = 0
    <3>1. CASE p_result' = p_result
      BY <3>1 DEF PeerSaid
    <3>2. CASE p_result' # p_result
      <4>1. PICK told \in {"not_sent", "unknown", "reply", "hidden"} :
                p_result[m] = "none" /\ p_result' = [p_result EXCEPT ![m] = told]
        BY <2>2, <3>2
      <4> DEFINE what == IF told \in {"reply", "hidden"} THEN "unknown" ELSE told
      <4>2. PeerSaid[m] = "none" /\ PeerSaid' = [PeerSaid EXCEPT ![m] = what]
        BY <4>1 DEF PeerSaid, PeerInv
      <4>3. what \in {"not_sent", "unknown"} /\ (what = "not_sent" => Reached'[m] = 0)
        BY <2>3, <4>1 DEF PeerInv
      <4> HIDE DEF what
      <4> QED BY <4>2, <4>3
    <3> QED BY <3>1, <3>2
  <2> QED BY <2>1, <2>4, OneWrites
<1>2. ASSUME NEW m \in Messages, P!Session(m)
      PROVE  P!Promise!Next \/ UNCHANGED <<Reached, PeerSaid>>
  <2>1. PeerSaid' = PeerSaid
    BY <1>2, SessionIs DEF PeerSaid
  <2>2. m \in p_flight => PeerSaid[m] # "not_sent"
    BY DEF PeerInv, Away, PeerSaid
  <2>3. Reached' = Reached \/ /\ Reached[m] = 0 /\ PeerSaid[m] # "not_sent"
                              /\ Reached' = [Reached EXCEPT ![m] = 1]
    <3>1. CASE Reached[m] = 0 /\ m \in p_flight /\ p_at' = [p_at EXCEPT ![m] = "got"]
      BY <2>2, <3>1 DEF Reached, PeerInv
    <3>2. CASE p_at[m] # "none"
      BY <1>2, <3>2, SessionIs DEF Reached, PeerInv
    <3>3. p_at[m] = "none" => Reached[m] = 0
      BY DEF Reached
    <3> QED BY <1>2, <3>1, <3>2, <3>3, SessionIs
  <2> QED BY <2>1, <2>3, OneWrites
<1>3. CASE UNCHANGED <<p_pc, p_result, p_flight, p_at>>
  BY <1>3 DEF Reached, PeerSaid
<1> QED BY <1>1, <1>2, <1>3, RestIs DEF P!Next

\* A message for a Claude session keeps the promise of Delivery, although its sender is
\* verified on an open connection, its write may be uncertain and the worker is reloaded.
THEOREM MessagesKeepPromise == P!Spec => P!KeepsPromise
<1>1. P!Init => P!Promise!Init
  BY DEF P!Init, P!Promise!Init
<1>2. PeerInv /\ PeerInv' /\ [P!Next]_P!vars => [P!Promise!Next]_<<Reached, PeerSaid>>
  BY PeerStepPromises
<1> QED BY <1>1, <1>2, PeerInvariance, PTL DEF P!Spec, P!KeepsPromise, P!Promise!Spec, Reached,
        PeerSaid

-----------------------------------------------------------------------------
(* What a PeerEndpoint keeps. *)

Fields == {"started", "paused", "polling", "pollOff", "pending", "unconfirmed", "seen", "inbox",
           "sequence", "sent", "by", "receipts", "after", "heard"}

\* Of a Desktop session: the record came from the message m.
Own(m, of) == Transcript => of = m
Records == {r \in [kind : {"reply", "status"}, source : {"peer", "transcript", "bridge"},
                   to : Messages \cup {None}, of : Messages \cup {None}, seq : Nat] :
              r.kind = "reply" /\ r.source = "transcript" => Own(r.to, r.of)}

\* An endpoint whose records, waits and replies belong to the messages they are kept for.
Sound(x) ==
    /\ DOMAIN x = Fields
    /\ x.inbox \in Seq(Records) /\ x.sequence \in Nat
    /\ x.pending \subseteq Messages /\ IsFiniteSet(x.pending)
    /\ DOMAIN x.heard = Messages /\ DOMAIN x.sent = Messages /\ DOMAIN x.by = Messages
    /\ \A m \in Messages : x.heard[m] # None => Own(m, x.heard[m].of)
    /\ \A m \in Messages : x.sent[m] = "reply" => Own(m, x.by[m])

\* What becomes of x in a method that takes no record out, and fails no message.
Keeps(x, y) ==
    /\ Sound(y) /\ y.paused = x.paused
    /\ \A n \in Nat : x.sequence = Len(x.inbox) + n => y.sequence = Len(y.inbox) + n
Goes(x, y) == Keeps(x, y) /\ \A m \in Messages : y.sent[m] = "failed" => x.sent[m] = "failed"

\* A set of positions that is not empty has a first.
LEMMA LeastOf ==
    ASSUME NEW n \in Nat, NEW Z \in SUBSET (1 .. n), Z # {}
    PROVE  \E i \in Z : \A j \in Z : i <= j
<1> DEFINE below == {1 .. i : i \in Z}
<1>1. IsWellFoundedOn(StrictSubsetOrdering(1 .. n), SUBSET (1 .. n))
  <2>1. IsFiniteSet(1 .. n)
    <3>1. 1 \in Int /\ n \in Int
      OBVIOUS
    <3> QED BY <3>1, FS_Interval
  <2> QED BY <2>1, FS_FiniteSubsetsOfFinite, FS_StrictSubsetOrderingWellFounded
<1>2. below \in SUBSET SUBSET (1 .. n) /\ below # {}
  <2>1. \A i \in Z : 1 .. i \in SUBSET (1 .. n)
    OBVIOUS
  <2> QED BY <2>1
<1>3. PICK A \in below : \A B \in below : ~ (<<B, A>> \in StrictSubsetOrdering(1 .. n))
  <2> HIDE DEF below
  <2> QED BY <1>1, <1>2, WFMin
<1>4. \A B \in below : B \subseteq A => B = A
  BY <1>2, <1>3 DEF StrictSubsetOrdering
<1>5. PICK i \in Z : A = 1 .. i
  OBVIOUS
<1>6. ASSUME NEW j \in Z, j < i PROVE FALSE
  <2>1. 1 .. j \in below /\ 1 .. j \subseteq 1 .. i /\ i \in 1 .. i /\ i \notin 1 .. j
    BY <1>6
  <2> QED BY <1>4, <1>5, <2>1
<1> QED BY <1>6

\* SetToSeq() makes a sequence of the members of a finite set.
LEMMA OrderOf ==
    ASSUME NEW Z, IsFiniteSet(Z)
    PROVE  P!SetToSeq(Z) \in Seq(Z)
<1>1. Cardinality(Z) \in Nat /\ \E f \in [1 .. Cardinality(Z) -> Z] : P!IsInjective(f)
  <2>1. Cardinality(Z) \in Nat /\ ExistsBijection(1 .. Cardinality(Z), Z)
    BY FS_CardinalityType
  <2> QED BY <2>1 DEF ExistsBijection, Bijection, Injection, Surjection, IsInjective, P!IsInjective
<1>2. P!Cardinality(Z) = Cardinality(Z)
  BY DEF P!Cardinality, Cardinality, P!IsFiniteSet, IsFiniteSet
<1>3. P!SetToSeq(Z) \in [1 .. Cardinality(Z) -> Z]
  BY <1>1, <1>2 DEF P!SetToSeq
<1> QED BY <1>1, <1>3

LEMMA ReleaseGoes ==
    ASSUME NEW x, Sound(x), NEW ms
    PROVE  Goes(x, P!Release(x, ms)) /\ P!Release(x, ms).pending = x.pending \ ms
<1> DEFINE y == P!Release(x, ms)
<1>1. /\ DOMAIN y = Fields /\ y.pending = x.pending \ ms /\ y.inbox = x.inbox
      /\ y.sequence = x.sequence /\ y.heard = x.heard /\ y.sent = x.sent /\ y.by = x.by
      /\ y.paused = x.paused
  BY DEF P!Release, Sound, Fields
<1>2. IsFiniteSet(y.pending)
  BY <1>1, FS_Subset DEF Sound
<1> HIDE DEF y
<1>3. Goes(x, y)
  BY <1>1, <1>2 DEF Sound, Goes, Keeps
<1> QED BY <1>1, <1>3 DEF y

\* What a wait takes is the answer to its message.
LEMMA TakenIsOwn ==
    ASSUME NEW m \in Messages, NEW records \in Seq(Records), NEW after,
           P!Taken(m, records, after) # None
    PROVE  Own(m, P!Taken(m, records, after).of)
<1> DEFINE found == {i \in DOMAIN records : P!Matches(m, records[i], after)}
<1>1. found # {} /\ found \in SUBSET (1 .. Len(records)) /\ Len(records) \in Nat
  BY DEF P!Taken
<1>2. PICK i \in found : \A j \in found : i <= j
  <2>1. \E i \in found : \A j \in found : i <= j
    <3> HIDE DEF found
    <3> QED BY <1>1, LeastOf
  <2> QED BY <2>1
<1>3. P!Taken(m, records, after) = records[CHOOSE k \in found : \A j \in found : k <= j]
  BY <1>1 DEF P!Taken
<1>4. (CHOOSE k \in found : \A j \in found : k <= j) \in found
  BY <1>2
<1>5. PICK k \in found : P!Taken(m, records, after) = records[k]
  BY <1>3, <1>4
<1>6. records[k] \in Records /\ P!Matches(m, records[k], after)
  BY <1>5
<1> QED BY <1>5, <1>6 DEF Records, P!Matches, Own

LEMMA PublishGoes ==
    ASSUME NEW x, Sound(x), NEW records \in Seq(Records), NEW waiting
    PROVE  Goes(x, P!Publish(x, records, waiting))
<1> DEFINE new == [i \in DOMAIN records |-> [records[i] EXCEPT !.seq = x.sequence + i]]
           y == P!Publish(x, records, waiting)
<1>1. new \in Seq(Records) /\ Len(new) = Len(records)
  <2>1. \A i \in DOMAIN records : [records[i] EXCEPT !.seq = x.sequence + i] \in Records
    <3> TAKE i \in DOMAIN records
    <3>1. records[i] \in Records /\ x.sequence + i \in Nat
      BY DEF Sound
    <3> QED BY <3>1 DEF Records, Own
  <2>2. new \in [1 .. Len(records) -> Records] /\ Len(records) \in Nat
    BY <2>1
  <2> HIDE DEF new
  <2> QED BY <2>2
<1>2. y = [x EXCEPT !.sequence = @ + Len(records), !.inbox = @ \o new,
             !.heard = [m \in Messages |-> IF m \in waiting /\ @[m] = None
                                           THEN P!Taken(m, new, x.after[m]) ELSE @[m]]]
  BY DEF P!Publish
<1> HIDE DEF new, y
<1>3. /\ DOMAIN y = Fields /\ y.sequence = x.sequence + Len(records) /\ y.inbox = x.inbox \o new
      /\ y.heard = [m \in Messages |-> IF m \in waiting /\ x.heard[m] = None
                                       THEN P!Taken(m, new, x.after[m]) ELSE x.heard[m]]
      /\ y.pending = x.pending /\ y.sent = x.sent /\ y.by = x.by /\ y.paused = x.paused
  BY <1>2 DEF Sound, Fields
<1>4. y.inbox \in Seq(Records) /\ Len(y.inbox) = Len(x.inbox) + Len(records) /\ y.sequence \in Nat
  <2>1. x.inbox \in Seq(Records) /\ x.sequence \in Nat /\ Len(records) \in Nat
    BY DEF Sound
  <2>2. x.inbox \o new \in Seq(Records) /\ Len(x.inbox \o new) = Len(x.inbox) + Len(new)
    BY ONLY <1>1, <2>1, ConcatProperties
  <2> QED BY <1>1, <1>3, <2>1, <2>2
<1>5. \A m \in Messages : y.heard[m] # None => Own(m, y.heard[m].of)
  <2> SUFFICES ASSUME NEW m \in Messages, y.heard[m] # None PROVE Own(m, y.heard[m].of)
    OBVIOUS
  <2>1. CASE m \in waiting /\ x.heard[m] = None
    <3>1. y.heard[m] = P!Taken(m, new, x.after[m])
      BY <1>3, <2>1
    <3> QED BY <1>1, <3>1, TakenIsOwn
  <2>2. CASE ~(m \in waiting /\ x.heard[m] = None)
    BY <1>3, <2>2 DEF Sound
  <2> QED BY <2>1, <2>2
<1>6. Sound(y)
  BY <1>3, <1>4, <1>5 DEF Sound
<1>7. \A n \in Nat : x.sequence = Len(x.inbox) + n => y.sequence = Len(y.inbox) + n
  BY <1>3, <1>4 DEF Sound
<1> QED BY <1>3, <1>6, <1>7 DEF Goes, Keeps, y

LEMMA GoesOn ==
    ASSUME NEW x, NEW y, NEW z, Goes(x, y), Goes(y, z)
    PROVE  Goes(x, z)
BY DEF Goes, Keeps

LEMMA ReceiveGoes ==
    ASSUME NEW x, Sound(x), NEW of \in Messages \cup {None}, NEW waiting
    PROVE  Goes(x, P!Receive(x, of, waiting))
<1> DEFINE rec == [kind |-> "reply", source |-> "peer", to |-> None, of |-> of, seq |-> 0]
           own == {m \in x.pending : P!Correlated(rec, m)}
           m == CHOOSE n \in own : TRUE
           y == [x EXCEPT !.sent[m] = "reply", !.by[m] = of]
           to == [rec EXCEPT !.to = m]
<1>1. CASE own = {}
  <2>1. <<rec>> \in Seq(Records)
    BY DEF Records
  <2> QED BY <1>1, <2>1, PublishGoes DEF P!Receive
<1>2. CASE own # {}
  <2>1. m \in own /\ m \in Messages
    BY <1>2 DEF Sound
  <2>2. ~Transcript
    BY <2>1 DEF P!Correlated
  <2>3. <<to>> \in Seq(Records)
    <3> HIDE DEF m
    <3>1. to \in Records
      BY <2>1 DEF Records
    <3> HIDE DEF to
    <3> QED BY <3>1
  <2>4. P!Receive(x, of, waiting) = P!Publish(P!Release(y, {m}), <<to>>, waiting)
    BY <1>2 DEF P!Receive
  <2> HIDE DEF m, to
  <2>5. Goes(x, y)
    BY <2>1, <2>2 DEF Sound, Goes, Keeps, Fields, Own
  <2> HIDE DEF y
  <2>6. Sound(y)
    BY <2>5 DEF Goes, Keeps
  <2> DEFINE z == P!Release(y, {m})
  <2>7. Goes(y, z)
    BY <2>6, ReleaseGoes
  <2>8. Sound(z)
    BY <2>7 DEF Goes, Keeps
  <2>9. Goes(z, P!Publish(z, <<to>>, waiting))
    <3> HIDE DEF z
    <3> QED BY <2>3, <2>8, PublishGoes
  <2> QED BY <2>4, <2>5, <2>7, <2>9, GoesOn
<1> QED BY <1>1, <1>2

LEMMA RefreshGoes ==
    ASSUME NEW x, Sound(x), NEW waiting
    PROVE  Goes(x, P!Refresh(x, waiting))
<1> DEFINE look     == IF Transcript THEN x.pending \ x.seen ELSE {}
           replied == {m \in look : p_at[m] = "answered"}
           ended    == {m \in look : p_at[m] \in {"answered", "interrupted"}}
           order    == P!SetToSeq(ended)
           records  == [i \in DOMAIN order |-> P!Outcome(order[i])]
           w == [x EXCEPT
                    !.seen = @ \cup look,
                    !.sent = [m \in Messages |-> IF m \in replied THEN "reply" ELSE @[m]],
                    !.by   = [m \in Messages |-> IF m \in replied THEN m ELSE @[m]],
                    !.receipts = [m \in Messages |->
                                    IF m \in ended \ replied THEN "interrupted" ELSE @[m]]]
           y == P!Release(w, ended)
           z == P!Publish(y, records, waiting)
<1>1. CASE x.paused \/ x.pollOff
  BY <1>1 DEF P!Refresh, Goes, Keeps
<1>2. CASE ~(x.paused \/ x.pollOff)
  <2>1. P!Refresh(x, waiting) = [z EXCEPT !.polling = @ /\ y.pending # {}]
    BY <1>2 DEF P!Refresh
  <2>2. ended \in SUBSET Messages /\ IsFiniteSet(ended)
    <3>1. ended \in SUBSET x.pending
      OBVIOUS
    <3> HIDE DEF ended
    <3> QED BY <3>1, FS_Subset DEF Sound
  <2>3. records \in Seq(Records)
    <3> HIDE DEF ended
    <3>1. order \in Seq(ended)
      BY <2>2, OrderOf
    <3>2. \A i \in DOMAIN order : order[i] \in Messages
      BY <2>2, <3>1
    <3>3. \A i \in DOMAIN order : P!Outcome(order[i]) \in Records
      <4> TAKE i \in DOMAIN order
      <4>1. order[i] \in Messages
        BY <3>2
      <4> HIDE DEF order
      <4> QED BY <4>1 DEF P!Outcome, Records, Own
    <3>4. DOMAIN order = 1 .. Len(order) /\ Len(order) \in Nat
      BY <3>1
    <3> HIDE DEF order
    <3> QED BY <3>3, <3>4
  <2> HIDE DEF records, ended, replied, look
  <2>4. Goes(x, w)
    <3>1. /\ DOMAIN w = Fields /\ w.inbox = x.inbox /\ w.sequence = x.sequence
          /\ w.pending = x.pending /\ w.heard = x.heard /\ w.paused = x.paused
          /\ w.sent = [m \in Messages |-> IF m \in replied THEN "reply" ELSE x.sent[m]]
          /\ w.by = [m \in Messages |-> IF m \in replied THEN m ELSE x.by[m]]
      BY DEF Sound, Fields
    <3> HIDE DEF w
    <3> QED BY <3>1 DEF Goes, Keeps, Sound, Own
  <2> HIDE DEF w
  <2>5. Goes(w, y)
    <3>1. Sound(w)
      BY <2>4 DEF Goes, Keeps
    <3> QED BY <3>1, ReleaseGoes
  <2> HIDE DEF y
  <2>6. Goes(y, z)
    <3>1. Sound(y)
      BY <2>5 DEF Goes, Keeps
    <3> QED BY <2>3, <3>1, PublishGoes
  <2> HIDE DEF z
  <2>7. Goes(x, z)
    BY <2>4, <2>5, <2>6, GoesOn
  <2>8. Goes(z, P!Refresh(x, waiting))
    BY <2>1, <2>7 DEF Goes, Keeps, Sound, Fields
  <2> QED BY <2>7, <2>8, GoesOn
<1> QED BY <1>1, <1>2

\* A message that failed before it was written is no longer waited for.
LEMMA FailedGoes ==
    ASSUME Sound(p_e), NEW m \in Messages, NEW uncertain \in BOOLEAN
    PROVE  /\ Keeps(p_e, P!Failed(m, uncertain))
           /\ \A n \in Messages : P!Failed(m, uncertain).sent[n] = "failed"
                => p_e.sent[n] = "failed" \/ (n = m /\ ~uncertain)
<1> DEFINE x == [p_e EXCEPT !.sent[m] = IF @ = "reply" THEN @ ELSE "unsure"]
           y == [p_e EXCEPT !.sent[m] = "failed"]
<1>1. CASE uncertain
  <2>1. Goes(p_e, x)
    <3>1. /\ DOMAIN x = Fields /\ x.pending = p_e.pending /\ x.inbox = p_e.inbox
          /\ x.sequence = p_e.sequence /\ x.heard = p_e.heard /\ x.by = p_e.by
          /\ x.paused = p_e.paused
          /\ x.sent = [p_e.sent EXCEPT ![m] = IF @ = "reply" THEN @ ELSE "unsure"]
      BY DEF Sound, Fields
    <3> HIDE DEF x
    <3> QED BY <3>1 DEF Sound, Goes, Keeps
  <2>2. P!Failed(m, uncertain) = x
    BY <1>1 DEF P!Failed
  <2> HIDE DEF x
  <2> QED BY <2>1, <2>2 DEF Goes
<1>2. CASE ~uncertain
  <2>1. Keeps(p_e, y) /\ \A n \in Messages : y.sent[n] = "failed" => p_e.sent[n] = "failed" \/ n = m
    <3>1. /\ DOMAIN y = Fields /\ y.pending = p_e.pending /\ y.inbox = p_e.inbox
          /\ y.sequence = p_e.sequence /\ y.heard = p_e.heard /\ y.by = p_e.by
          /\ y.paused = p_e.paused /\ y.sent = [p_e.sent EXCEPT ![m] = "failed"]
      BY DEF Sound, Fields
    <3> HIDE DEF y
    <3> QED BY <3>1 DEF Sound, Keeps
  <2>2. P!Failed(m, uncertain) = P!Release(y, {m})
    BY <1>2 DEF P!Failed
  <2>3. Goes(y, P!Release(y, {m}))
    <3>1. Sound(y)
      BY <2>1 DEF Keeps
    <3> QED BY <3>1, ReleaseGoes
  <2> HIDE DEF y
  <2> QED BY <1>2, <2>1, <2>2, <2>3 DEF Goes, Keeps
<1> QED BY <1>1, <1>2

LEMMA PollGoes ==
    ASSUME NEW x, Sound(x)
    PROVE  Goes(x, P!Poll(x))
<1> DEFINE y == P!Poll(x)
<1>1. /\ DOMAIN y = Fields /\ y.pending = x.pending /\ y.inbox = x.inbox
      /\ y.sequence = x.sequence /\ y.heard = x.heard /\ y.sent = x.sent /\ y.by = x.by
      /\ y.paused = x.paused
  BY DEF P!Poll, Sound, Fields
<1> HIDE DEF y
<1>2. Goes(x, y)
  BY <1>1 DEF Sound, Goes, Keeps
<1> QED BY <1>2 DEF y

LEMMA BeginGoes ==
    ASSUME Sound(p_e), NEW m \in Messages, P!Begin(m)
    PROVE  Goes(p_e, p_e')
<1> DEFINE x == P!Refresh(p_e, P!Waiting)
           y == [x EXCEPT !.pending = @ \cup {m}, !.unconfirmed = @ + 1,
                          !.sent[m] = "open", !.after[m] = x.sequence]
<1>1. Goes(p_e, x)
  BY RefreshGoes
<1>2. p_e' = x \/ p_e' = P!Poll(y)
  BY DEF P!Begin
<1> HIDE DEF x
<1>3. Sound(x)
  BY <1>1 DEF Goes, Keeps
<1>4. Goes(x, y)
  <2>1. /\ DOMAIN y = Fields /\ y.pending = x.pending \cup {m} /\ y.inbox = x.inbox
        /\ y.sequence = x.sequence /\ y.heard = x.heard /\ y.by = x.by
        /\ y.sent = [x.sent EXCEPT ![m] = "open"] /\ y.paused = x.paused
    BY <1>3 DEF Sound, Fields
  <2> HIDE DEF y
  <2>2. IsFiniteSet(y.pending)
    <3>1. IsFiniteSet(x.pending)
      BY <1>3 DEF Sound
    <3> QED BY <2>1, <3>1, FS_AddElement
  <2> QED BY <1>3, <2>1, <2>2 DEF Sound, Goes, Keeps
<1> HIDE DEF y
<1>5. Goes(y, P!Poll(y))
  <2>1. Sound(y)
    BY <1>4 DEF Goes, Keeps
  <2> QED BY <2>1, PollGoes
<1> QED BY <1>1, <1>2, <1>4, <1>5, GoesOn

\* The fields that say nothing of messages may change.
LEMMA RestGoes ==
    ASSUME NEW x, Sound(x), NEW y, DOMAIN y = Fields,
           y.pending = x.pending, y.inbox = x.inbox, y.sequence = x.sequence,
           y.heard = x.heard, y.sent = x.sent, y.by = x.by, y.paused = x.paused
    PROVE  Goes(x, y)
BY DEF Sound, Goes, Keeps

\* A wait may be given what is its own, or nothing.
LEMMA HeardGoes ==
    ASSUME Sound(p_e), NEW m \in Messages, NEW v, v # None => Own(m, v.of),
           p_e' = [p_e EXCEPT !.heard[m] = v]
    PROVE  Goes(p_e, p_e')
<1>1. /\ DOMAIN p_e' = Fields /\ p_e'.pending = p_e.pending /\ p_e'.inbox = p_e.inbox
      /\ p_e'.sequence = p_e.sequence /\ p_e'.heard = [p_e.heard EXCEPT ![m] = v]
      /\ p_e'.sent = p_e.sent /\ p_e'.by = p_e.by /\ p_e'.paused = p_e.paused
  BY DEF Sound, Fields
<1> QED BY <1>1 DEF Sound, Goes, Keeps

\* What a step of a call makes of the endpoint.  A message that it fails is reported as
\* not sent, and a reply that it returns is the message's own.
LEMMA CallGoes ==
    ASSUME Sound(p_e), PeerInv, NEW m \in Messages, P!Call(m) \/ P!Sending(m) \/ P!Verified(m)
    PROVE  /\ Keeps(p_e, p_e')
           /\ \A n \in Messages : p_e'.sent[n] = "failed"
                => p_e.sent[n] = "failed" \/ p_result'[n] = "not_sent"
           /\ p_gave' = p_gave \/ p_gave' = [p_gave EXCEPT ![m] = p_e.heard[m]]
<1> USE DEF P!side, P!calls, P!reload, P!frames
<1>1. CASE p_e' = p_e /\ p_gave' = p_gave
  BY <1>1 DEF Keeps
<1>2. CASE P!Begin(m)
  <2>1. p_gave' = p_gave
    BY <1>2 DEF P!Begin
  <2> QED BY <1>2, <2>1, BeginGoes DEF Goes
<1>3. CASE p_e' = P!Failed(m, FALSE) /\ P!Return(m, "not_sent") /\ p_gave' = p_gave
  <2>1. p_result'[m] = "not_sent"
    BY <1>3 DEF P!Return, PeerInv
  <2> QED BY <1>3, <2>1, FailedGoes
<1>4. CASE P!Uncertain(m)
  <2>1. p_gave' = p_gave /\ p_e' = P!Failed(m, TRUE)
    BY <1>4 DEF P!Uncertain
  <2> QED BY <2>1, FailedGoes
<1>5. CASE P!Wrote(m) /\ p_e' # p_e
  <2>1. p_gave' = p_gave /\ p_e' = [p_e EXCEPT !.heard[m] = P!Taken(m, p_e.inbox, p_e.after[m])]
    BY <1>5 DEF P!Wrote
  <2>2. P!Taken(m, p_e.inbox, p_e.after[m]) # None
          => Own(m, P!Taken(m, p_e.inbox, p_e.after[m]).of)
    BY TakenIsOwn DEF Sound
  <2>3. PICK v : p_e' = [p_e EXCEPT !.heard[m] = v] /\ (v # None => Own(m, v.of))
    BY <2>1, <2>2
  <2>4. Goes(p_e, p_e')
    BY <2>3, HeardGoes
  <2> QED BY <2>1, <2>4 DEF Goes
<1>6. CASE P!Waited(m)
  <2>1. p_gave' = [p_gave EXCEPT ![m] = p_e.heard[m]] /\ p_e' = [p_e EXCEPT !.heard[m] = None]
    BY <1>6 DEF P!Waited
  <2>2. Goes(p_e, p_e')
    BY <2>1, HeardGoes
  <2> QED BY <2>1, <2>2 DEF Goes
<1>7. CASE P!Call(m) \/ P!Blocked(m) \/ P!Connect(m) \/ (P!Wrote(m) /\ p_e' = p_e)
  BY <1>1, <1>7 DEF P!Call, P!Blocked, P!Connect, P!Wrote
<1>8. CASE P!Unreachable(m) \/ P!VerifyEnds(m) \/ P!Verified(m)
  BY <1>1, <1>3, <1>8 DEF P!Unreachable, P!VerifyEnds, P!Verified
<1> QED BY <1>2, <1>4, <1>5, <1>6, <1>7, <1>8 DEF P!Sending

\* What the session, a frame and the poll make of it.
LEMMA OtherGoes ==
    ASSUME Sound(p_e),
           \/ \E m \in Messages : P!Session(m)
           \/ P!Observe \/ P!ReadDelivery \/ P!Unasked \/ P!SwitchAccount
           \/ \E f \in P!Frames : P!Accept(f) \/ P!Data(f)
           \/ P!Withdraw
    PROVE  Goes(p_e, p_e')
<1>1. CASE p_e' = p_e
  BY <1>1 DEF Goes, Keeps
<1>2. CASE p_e' = [p_e EXCEPT !.seen = {}]
  <2>1. /\ DOMAIN p_e' = Fields /\ p_e'.pending = p_e.pending /\ p_e'.inbox = p_e.inbox
        /\ p_e'.sequence = p_e.sequence /\ p_e'.heard = p_e.heard /\ p_e'.sent = p_e.sent
        /\ p_e'.by = p_e.by /\ p_e'.paused = p_e.paused
    BY <1>2 DEF Sound, Fields
  <2> QED BY <2>1, RestGoes
<1>3. CASE p_e' = P!Refresh(p_e, P!Waiting)
  BY <1>3, RefreshGoes
<1>4. ASSUME NEW f \in P!Frames, P!Data(f) PROVE Goes(p_e, p_e')
  <2>1. CASE f.kind = "reply" /\ ~p_e.paused
    <3>1. p_e' = P!Receive(p_e, f.of, P!Waiting) /\ f.of \in Messages \cup {None}
      BY <1>4, <2>1 DEF P!Data, P!Frames
    <3> QED BY <3>1, ReceiveGoes
  <2>2. CASE f.kind # "reply" /\ ~p_e.paused /\ f.of \in p_e.pending
    <3> DEFINE x == [p_e EXCEPT !.receipts[f.of] = f.says]
    <3>1. p_e' = x \/ p_e' = P!Release(x, {f.of})
      BY <1>4, <2>2 DEF P!Data
    <3>2. Goes(p_e, x)
      <4>1. /\ DOMAIN x = Fields /\ x.pending = p_e.pending /\ x.inbox = p_e.inbox
            /\ x.sequence = p_e.sequence /\ x.heard = p_e.heard /\ x.sent = p_e.sent
            /\ x.by = p_e.by /\ x.paused = p_e.paused
        BY DEF Sound, Fields
      <4> HIDE DEF x
      <4> QED BY <4>1, RestGoes
    <3> HIDE DEF x
    <3>3. Goes(x, P!Release(x, {f.of}))
      <4>1. Sound(x)
        BY <3>2 DEF Goes, Keeps
      <4> QED BY <4>1, ReleaseGoes
    <3> QED BY <3>1, <3>2, <3>3, GoesOn
  <2>3. CASE p_e' = p_e
    BY <1>1, <2>3
  <2> QED BY <1>4, <2>1, <2>2, <2>3 DEF P!Data
<1>5. ASSUME NEW m \in Messages, P!Session(m) PROVE Goes(p_e, p_e')
  BY <1>1, <1>2, <1>5 DEF P!Session, P!Took, P!Declines, P!Answers, P!Interrupted
<1> QED BY <1>1, <1>3, <1>4, <1>5 DEF P!Observe, P!ReadDelivery, P!Unasked, P!SwitchAccount,
        P!Accept, P!Withdraw

\* What is published is in the inbox or was read from it, what calls returned is their
\* own, and a message that failed was reported as not sent.
EndpointInv ==
    /\ Sound(p_e)
    /\ p_drained \in Nat /\ p_e.sequence = Len(p_e.inbox) + p_drained
    /\ DOMAIN p_gave = Messages
    /\ \A m \in Messages : p_gave[m] # None => Own(m, p_gave[m].of)
    /\ \A m \in Messages : p_e.sent[m] = "failed" => p_result[m] = "not_sent"

\* A worker that is about to be replaced has nothing left to receive.
HandoverInv ==
    /\ p_phase \in {"active", "withdrawn"} => ~p_e.paused
    /\ p_phase = "withdrawn" => ~p_dropped
    /\ p_phase \in {"closing", "quiesced", "restored"} =>
         p_backlog = {} /\ p_open = {} /\ ~p_dropped

KeptInv == PeerInv /\ EndpointInv /\ HandoverInv

\* A call that is answered stays answered.
LEMMA NotSentStays ==
    ASSUME PeerInv, [P!Next]_P!vars, NEW m \in Messages, p_result[m] = "not_sent"
    PROVE  p_result'[m] = "not_sent"
<1>1. ASSUME NEW n \in Messages, P!Call(n) \/ P!Sending(n) \/ P!Verified(n)
      PROVE  p_result'[m] = "not_sent"
  BY <1>1, CallIs DEF PeerInv, Unwritten
<1>2. ASSUME NEW n \in Messages, P!Session(n)
      PROVE  p_result'[m] = "not_sent"
  BY <1>2, SessionIs
<1> QED BY <1>1, <1>2, RestIs DEF P!Next

\* Every step goes on from the endpoint it finds, or takes a record out of it, or is a
\* step of a reload.
LEMMA EndpointKeeps ==
    ASSUME KeptInv, [P!Next]_P!vars
    PROVE  EndpointInv'
<1> USE DEF P!side, P!calls, P!reload, P!frames
<1>1. ASSUME Keeps(p_e, p_e'), p_drained' = p_drained, DOMAIN p_gave' = Messages,
             \A m \in Messages : p_gave'[m] # None => Own(m, p_gave'[m].of),
             \A m \in Messages : p_e'.sent[m] = "failed"
               => p_e.sent[m] = "failed" \/ p_result'[m] = "not_sent"
      PROVE  EndpointInv'
  BY <1>1, NotSentStays DEF KeptInv, EndpointInv, Keeps
<1>2. ASSUME Goes(p_e, p_e'), p_drained' = p_drained, p_gave' = p_gave
      PROVE  EndpointInv'
  BY <1>1, <1>2 DEF KeptInv, EndpointInv, Goes
<1>3. ASSUME NEW m \in Messages, P!Call(m) \/ P!Sending(m) \/ P!Verified(m)
      PROVE  EndpointInv'
  <2>1. p_drained' = p_drained
    BY <1>3 DEF P!Call, P!Sending, P!Verified, P!Blocked, P!Begin, P!Unreachable, P!Connect,
       P!VerifyEnds, P!Uncertain, P!Wrote, P!Waited
  <2>2. /\ Keeps(p_e, p_e')
        /\ \A n \in Messages : p_e'.sent[n] = "failed"
             => p_e.sent[n] = "failed" \/ p_result'[n] = "not_sent"
        /\ p_gave' = p_gave \/ p_gave' = [p_gave EXCEPT ![m] = p_e.heard[m]]
    BY <1>3, CallGoes DEF KeptInv, EndpointInv
  <2>3. /\ DOMAIN p_gave' = Messages
        /\ \A n \in Messages : p_gave'[n] # None => Own(n, p_gave'[n].of)
    BY <2>2 DEF KeptInv, EndpointInv, Sound
  <2> QED BY <1>1, <2>1, <2>2, <2>3
<1>4. CASE \/ \E m \in Messages : P!Session(m)
           \/ P!Observe \/ P!ReadDelivery \/ P!Unasked \/ P!SwitchAccount
           \/ \E f \in P!Frames : P!Accept(f) \/ P!Data(f)
           \/ P!Withdraw
  <2>1. p_drained' = p_drained /\ p_gave' = p_gave
    BY <1>4 DEF P!Session, P!Took, P!Declines, P!Answers, P!Interrupted, P!Observe, P!ReadDelivery,
       P!Unasked, P!SwitchAccount, P!Accept, P!Data, P!Withdraw
  <2> QED BY <1>2, <1>4, <2>1, OtherGoes DEF KeptInv, EndpointInv
<1>5. CASE P!Drain
  <2>1. /\ p_e' = [p_e EXCEPT !.inbox = Tail(@)] /\ p_drained' = p_drained + 1
        /\ p_gave' = p_gave /\ p_result' = p_result /\ p_e.inbox # <<>>
    BY <1>5 DEF P!Drain
  <2>2. /\ DOMAIN p_e' = Fields /\ p_e'.pending = p_e.pending /\ p_e'.inbox = Tail(p_e.inbox)
        /\ p_e'.sequence = p_e.sequence /\ p_e'.heard = p_e.heard /\ p_e'.sent = p_e.sent
        /\ p_e'.by = p_e.by
    BY <2>1 DEF KeptInv, EndpointInv, Sound, Fields
  <2>3. /\ Tail(p_e.inbox) \in Seq(Records) /\ Len(Tail(p_e.inbox)) = Len(p_e.inbox) - 1
        /\ Len(p_e.inbox) \in Nat
    BY <2>1 DEF KeptInv, EndpointInv, Sound
  <2>4. Sound(p_e')
    BY <2>2, <2>3 DEF KeptInv, EndpointInv, Sound
  <2> QED BY <2>1, <2>2, <2>3, <2>4 DEF KeptInv, EndpointInv
<1>6. ASSUME P!Reloading PROVE EndpointInv'
  <2>1. p_drained' = p_drained /\ p_gave' = p_gave /\ p_result' = p_result
    BY <1>6 DEF P!Reloading, P!Pause, P!Close, P!Restore, P!Activate
  <2>2. PICK x : /\ x = p_e \/ x = P!Refresh(p_e, P!Waiting) \/ x = [p_e EXCEPT !.paused = FALSE]
                 /\ \/ p_e' = [x EXCEPT !.paused = TRUE, !.polling = FALSE]
                    \/ p_e' = [x EXCEPT !.started = FALSE]
                    \/ p_e' = P!Restored(x)
                    \/ p_e' = x
                    \/ p_e' = P!Poll([x EXCEPT !.started = TRUE, !.pollOff = FALSE])
    BY <1>6 DEF P!Reloading, P!Pause, P!Close, P!Restore, P!Activate, P!Start
  <2> DEFINE Alike(y, z) ==
        /\ DOMAIN z = Fields /\ z.pending = y.pending /\ z.inbox = y.inbox
        /\ z.sequence = y.sequence /\ z.heard = y.heard /\ z.sent = y.sent /\ z.by = y.by
      Follows(z) ==
        /\ Sound(z) /\ z.sequence = Len(z.inbox) + p_drained
        /\ \A m \in Messages : z.sent[m] = "failed" => p_result[m] = "not_sent"
  <2>3. \A y, z : Follows(y) /\ Alike(y, z) => Follows(z)
    BY DEF Sound
  <2>4. Follows(x)
    <3>1. Follows(p_e)
      BY DEF KeptInv, EndpointInv
    <3>2. Follows(P!Refresh(p_e, P!Waiting))
      BY <3>1, RefreshGoes DEF Goes, Keeps, KeptInv, EndpointInv
    <3>3. Alike(p_e, [p_e EXCEPT !.paused = FALSE])
      BY <3>1 DEF Sound, Fields
    <3> HIDE DEF Follows, Alike
    <3> QED BY <2>2, <2>3, <3>1, <3>2, <3>3
  <2>5. Alike(x, p_e')
    <3>1. DOMAIN x = Fields
      BY <2>4 DEF Sound
    <3>2. CASE p_e' = [x EXCEPT !.paused = TRUE, !.polling = FALSE]
      BY <3>1, <3>2 DEF Fields
    <3>3. CASE p_e' = [x EXCEPT !.started = FALSE]
      BY <3>1, <3>3 DEF Fields
    <3>4. CASE p_e' = P!Restored(x)
      BY <3>1, <3>4 DEF Fields, P!Restored
    <3>5. CASE p_e' = P!Poll([x EXCEPT !.started = TRUE, !.pollOff = FALSE])
      BY <3>1, <3>5 DEF Fields, P!Poll
    <3>6. CASE p_e' = x
      BY <3>1, <3>6
    <3> QED BY <2>2, <3>2, <3>3, <3>4, <3>5, <3>6
  <2>6. Follows(p_e')
    <3> HIDE DEF Follows, Alike
    <3> QED BY <2>3, <2>4, <2>5
  <2> QED BY <2>1, <2>6 DEF KeptInv, EndpointInv
<1>7. CASE UNCHANGED P!vars
  BY <1>7 DEF P!vars, KeptInv, EndpointInv
<1> QED BY <1>3, <1>4, <1>5, <1>6, <1>7 DEF P!Next

\* A worker is replaced only after it was paused with nothing on the way to it.
LEMMA HandoverKeeps ==
    ASSUME KeptInv, [P!Next]_P!vars
    PROVE  HandoverInv'
<1> USE DEF P!side, P!calls, P!reload, P!frames, KeptInv, HandoverInv
<1>1. ASSUME NEW m \in Messages, P!Call(m) \/ P!Sending(m) \/ P!Verified(m)
      PROVE  HandoverInv'
  <2>1. p_e'.paused = p_e.paused
    BY <1>1, CallGoes DEF EndpointInv, Keeps
  <2>2. UNCHANGED <<p_phase, p_dropped, p_backlog, p_open>>
    BY <1>1 DEF P!Call, P!Sending, P!Verified, P!Blocked, P!Begin, P!Unreachable, P!Connect,
       P!VerifyEnds, P!Uncertain, P!Wrote, P!Waited
  <2> QED BY <2>1, <2>2
<1>2. CASE \/ \E m \in Messages : P!Session(m)
           \/ P!Observe \/ P!ReadDelivery \/ P!Unasked \/ P!SwitchAccount
           \/ \E f \in P!Frames : P!Accept(f) \/ P!Data(f)
           \/ P!Withdraw
  <2>1. p_e'.paused = p_e.paused
    BY <1>2, OtherGoes DEF EndpointInv, Goes, Keeps
  <2>2. CASE P!Withdraw
    BY <2>1, <2>2 DEF P!Withdraw
  <2>3. CASE \E f \in P!Frames : P!Accept(f) \/ P!Data(f)
    BY <2>1, <2>3 DEF P!Accept, P!Data
  <2>4. CASE P!Unasked \/ \E m \in Messages : P!Session(m)
    <3>1. UNCHANGED <<p_phase, p_dropped, p_open>> /\ (p_backlog' = p_backlog \/ p_phase = "active")
      BY <2>4 DEF P!Unasked, P!Session, P!Took, P!Declines, P!Answers, P!Interrupted, P!Say,
         P!Listening
    <3> QED BY <2>1, <3>1
  <2>5. CASE P!Observe \/ P!ReadDelivery \/ P!SwitchAccount
    BY <2>1, <2>5 DEF P!Observe, P!ReadDelivery, P!SwitchAccount
  <2> QED BY <1>2, <2>2, <2>3, <2>4, <2>5
<1>3. CASE P!Drain
  <2>1. p_e'.paused = p_e.paused
    BY <1>3 DEF P!Drain, EndpointInv, Sound, Fields
  <2> QED BY <1>3, <2>1 DEF P!Drain
<1>4. CASE P!Pause
  BY <1>4 DEF P!Pause, P!Drained, P!MayReload
<1>5. CASE P!Close
  BY <1>5 DEF P!Close
<1>6. CASE P!Restore
  BY <1>6 DEF P!Restore
<1>7. CASE P!Activate
  <2>1. p_e'.paused = FALSE
    BY <1>7 DEF P!Activate, P!Start, P!Poll, EndpointInv, Sound, Fields
  <2>2. p_phase' = "active"
    BY <1>7 DEF P!Activate
  <2> QED BY <2>1, <2>2
<1>8. CASE UNCHANGED P!vars
  BY <1>8 DEF P!vars
<1> QED BY <1>1, <1>2, <1>3, <1>4, <1>5, <1>6, <1>7, <1>8 DEF P!Next, P!Reloading

\* The endpoint keeps what it publishes, cuts nothing off when it is replaced, reports as
\* not sent only what was not sent, and gives messages their own replies.
THEOREM EndpointInvariance == P!Spec => []KeptInv
<1>1. P!Init => KeptInv
  <2> SUFFICES ASSUME P!Init PROVE KeptInv
    OBVIOUS
  <2>1. PeerInv
    BY DEF P!Init, PeerInv, Away, Unwritten
  <2>2. Sound(p_e)
    <3>1. /\ DOMAIN p_e = Fields /\ p_e.inbox = <<>> /\ p_e.sequence = 0 /\ p_e.pending = {}
          /\ p_e.heard = [m \in Messages |-> None] /\ p_e.sent = [m \in Messages |-> "no"]
          /\ p_e.by = [m \in Messages |-> None]
      BY DEF P!Init, Fields
    <3> QED BY <3>1, FS_EmptySet DEF Sound
  <2>3. EndpointInv
    BY <2>2 DEF P!Init, EndpointInv
  <2> QED BY <2>1, <2>3 DEF P!Init, KeptInv, HandoverInv
<1>2. KeptInv /\ [P!Next]_P!vars => KeptInv'
  BY PeerStepKeeps, EndpointKeeps, HandoverKeeps DEF KeptInv
<1> QED BY <1>1, <1>2, PTL DEF P!Spec

\* What is published stays whole, no reload cuts a frame off, and what failed or was
\* reported as not sent is not with the session, for every kind of session.
THEOREM NothingIsLost == P!Spec => [](P!ReloadCutsNothing /\ P!InboxIsWhole /\ P!NotSentIsTrue)
<1>1. KeptInv => P!ReloadCutsNothing /\ P!InboxIsWhole /\ P!NotSentIsTrue
  BY DEF KeptInv, PeerInv, EndpointInv, HandoverInv, Away, P!ReloadCutsNothing, P!InboxIsWhole,
     P!NotSentIsTrue
<1> QED BY <1>1, EndpointInvariance, PTL

\* A message to a Desktop session is given no reply but its own.
THEOREM RepliesAreOwn == ASSUME Transcript PROVE P!Spec => []P!OwnReply
<1>1. KeptInv => P!OwnReply
  BY DEF KeptInv, EndpointInv, Sound, Own, P!OwnReply
<1> QED BY <1>1, EndpointInvariance, PTL

-----------------------------------------------------------------------------
(* ReplyForwarder. *)

\* In the order c: r is there, and before s.
Known(c, r)     == \E k \in DOMAIN c : c[k] = r
Before(c, r, s) == \E k, l \in DOMAIN c : k < l /\ c[k] = r /\ c[l] = s
Sorted(c, q)    == /\ \A i \in DOMAIN q : Known(c, q[i])
                   /\ \A i, j \in DOMAIN q : i < j => Before(c, q[i], q[j])

Statuses == {"none", "queued", "sending"} \cup F!Terminal

ForwarderTypes ==
    /\ f_status \in [Replies -> Statuses]
    /\ f_came \in Seq(Replies) /\ f_queue \in Seq(Replies) /\ f_sent \in Seq(Replies)
    /\ f_active \in Replies \cup {None} /\ f_step \in {"idle", "before", "deliver"}
    /\ f_step # "idle" => f_active \in Replies

\* A reply is queued once.
CameOnce ==
    /\ \A k, l \in DOMAIN f_came : f_came[k] = f_came[l] => k = l
    /\ \A k \in DOMAIN f_came : f_status[f_came[k]] # "none"

\* What waits was queued in the order of the queue and after what was attempted, and
\* what the forwarder is about to attempt is between them.
InLine ==
    /\ Sorted(f_came, f_queue) /\ Sorted(f_came, f_sent)
    /\ \A i \in DOMAIN f_sent, j \in DOMAIN f_queue : Before(f_came, f_sent[i], f_queue[j])
    /\ f_step = "before" =>
         /\ Known(f_came, f_active)
         /\ \A j \in DOMAIN f_queue : Before(f_came, f_active, f_queue[j])
         /\ \A i \in DOMAIN f_sent : Before(f_came, f_sent[i], f_active)

ForwarderInv == ForwarderTypes /\ CameOnce /\ InLine

-----------------------------------------------------------------------------

\* Statuses go on from "none" only, and nothing is queued, taken or attempted: all that
\* may happen is that the queue is emptied and that the forwarder is done with a reply.
Calm ==
    /\ f_status' \in [Replies -> Statuses]
    /\ \A r \in Replies : f_status[r] # "none" => f_status'[r] # "none"
    /\ f_came' = f_came /\ f_sent' = f_sent /\ (f_queue' = f_queue \/ f_queue' = <<>>)
    /\ \/ f_step' = f_step /\ f_active' = f_active
       \/ f_step' = "idle" /\ f_active' = None

LEMMA CalmKeeps == ASSUME ForwarderInv, Calm PROVE ForwarderInv'
<1>1. f_queue' = f_queue \/ (DOMAIN f_queue' = {} /\ f_queue' \in Seq(Replies))
  <2>1. CASE f_queue' = <<>>
    <3>1. DOMAIN f_queue' = {} /\ f_queue' \in Seq(Replies)
      BY <2>1
    <3> QED BY <3>1
  <2>2. CASE f_queue' = f_queue
    BY <2>2
  <2> QED BY <2>1, <2>2 DEF Calm
<1>2. ForwarderTypes'
  BY <1>1 DEF ForwarderInv, ForwarderTypes, Calm
<1>3. CameOnce'
  BY DEF ForwarderInv, ForwarderTypes, CameOnce, Calm
<1>4. InLine'
  BY <1>1 DEF ForwarderInv, InLine, Sorted, Calm
<1> QED BY <1>2, <1>3, <1>4 DEF ForwarderInv

\* What ScheduleNext() does to the queue and the statuses.
LEMMA Schedules ==
    ASSUME NEW q \in Seq(Replies), NEW a, NEW n,
           NEW st \in [Replies -> Statuses],
           F!ScheduleNext(q, a, n, st)
    PROVE  /\ f_queue' = q \/ f_queue' = <<>>
           /\ f_status' \in [Replies -> Statuses]
           /\ \A r \in Replies : st[r] # "none" => f_status'[r] # "none"
BY DEF F!ScheduleNext, F!Mark, F!Terminal, Statuses

LEMMA EnqueueKeepsOrder == ASSUME ForwarderInv, NEW r \in Replies, F!Enqueue(r) PROVE ForwarderInv'
<1>1. CASE f_closed \/ f_attempts >= f_max
  <2>1. f_status' = [f_status EXCEPT ![r] = "blocked"] /\ UNCHANGED <<f_queue, f_came, f_sent, f_step, f_active>>
    BY <1>1 DEF F!Enqueue
  <2>2. Calm
    BY <2>1 DEF Calm, ForwarderInv, ForwarderTypes, Statuses, F!Terminal
  <2> QED BY <2>2, CalmKeeps
<1>2. CASE ~(f_closed \/ f_attempts >= f_max)
  <2> DEFINE st == [f_status EXCEPT ![r] = "queued"]
             q == Append(f_queue, r)
  <2>1. /\ F!ScheduleNext(q, f_active, f_attempts, st) /\ f_came' = Append(f_came, r)
        /\ UNCHANGED <<f_sent, f_step, f_active>> /\ f_status[r] = "none"
    BY <1>2 DEF F!Enqueue, F!Seen
  <2>2. /\ st \in [Replies -> Statuses] /\ q \in Seq(Replies) /\ st[r] # "none"
        /\ \A s \in Replies : f_status[s] # "none" => st[s] # "none"
    BY DEF ForwarderInv, ForwarderTypes, Statuses
  <2>3. /\ f_queue' = q \/ f_queue' = <<>>
        /\ f_status' \in [Replies -> Statuses]
        /\ f_status'[r] # "none" /\ \A s \in Replies : f_status[s] # "none" => f_status'[s] # "none"
    <3> HIDE DEF st, q
    <3> QED BY <2>1, <2>2, Schedules
  <2>4. /\ f_came' \in Seq(Replies) /\ Len(f_came') = Len(f_came) + 1 /\ Len(f_came) \in Nat
        /\ DOMAIN f_came = 1 .. Len(f_came) /\ DOMAIN f_came' = 1 .. Len(f_came')
        /\ f_came'[Len(f_came) + 1] = r
        /\ \A k \in DOMAIN f_came : f_came'[k] = f_came[k]
    BY <2>1 DEF ForwarderInv, ForwarderTypes
  <2>5. \A k \in DOMAIN f_came : f_came[k] # r /\ f_came[k] \in Replies
    BY <2>1 DEF ForwarderInv, ForwarderTypes, CameOnce
  <2>6. /\ \A k \in DOMAIN f_came : k \in DOMAIN f_came' /\ k < Len(f_came) + 1
        /\ \A k \in DOMAIN f_came' : k \in DOMAIN f_came \/ k = Len(f_came) + 1
        /\ Len(f_came) + 1 \in DOMAIN f_came'
    BY <2>4
  <2>7. CameOnce'
    <3>1. \A k, l \in DOMAIN f_came' : f_came'[k] = f_came'[l] => k = l
      BY <2>4, <2>5, <2>6 DEF ForwarderInv, CameOnce
    <3>2. \A k \in DOMAIN f_came' : f_status'[f_came'[k]] # "none"
      BY <2>3, <2>4, <2>5, <2>6 DEF ForwarderInv, CameOnce
    <3> QED BY <3>1, <3>2 DEF CameOnce
  <2>8. /\ \A s, u : Before(f_came, s, u) => Before(f_came', s, u)
        /\ \A s : Known(f_came, s) => Known(f_came', s) /\ Before(f_came', s, r)
        /\ Known(f_came', r)
    BY <2>4, <2>6 DEF Before, Known
  <2>9. CASE f_queue' = <<>>
    <3>1. DOMAIN f_queue' = {} /\ f_queue' \in Seq(Replies)
      BY <2>9
    <3>2. ForwarderTypes'
      BY <2>1, <2>3, <2>4, <3>1 DEF ForwarderInv, ForwarderTypes
    <3>3. InLine'
      BY <2>1, <2>8, <3>1 DEF ForwarderInv, InLine, Sorted
    <3> QED BY <2>7, <3>2, <3>3 DEF ForwarderInv
  <2>10. CASE f_queue' = q
    <3>1. /\ f_queue' \in Seq(Replies) /\ Len(f_queue) \in Nat /\ DOMAIN f_queue = 1 .. Len(f_queue)
          /\ DOMAIN f_queue' = 1 .. Len(f_queue) + 1 /\ f_queue'[Len(f_queue) + 1] = r
          /\ \A i \in DOMAIN f_queue : f_queue'[i] = f_queue[i]
      BY <2>10 DEF ForwarderInv, ForwarderTypes
    <3>2. /\ \A i \in DOMAIN f_queue' : i \in DOMAIN f_queue \/ (i = Len(f_queue) + 1 /\ f_queue'[i] = r)
          /\ \A i, j \in DOMAIN f_queue' : i < j => i \in DOMAIN f_queue
      BY <3>1
    <3>3. ForwarderTypes'
      BY <2>1, <2>3, <2>4, <3>1 DEF ForwarderInv, ForwarderTypes
    <3>4. Sorted(f_came', f_queue')
      BY <2>8, <3>1, <3>2 DEF ForwarderInv, InLine, Sorted
    <3>5. Sorted(f_came', f_sent)
      BY <2>8 DEF ForwarderInv, InLine, Sorted
    <3>6. \A i \in DOMAIN f_sent, j \in DOMAIN f_queue' : Before(f_came', f_sent[i], f_queue'[j])
      BY <2>8, <3>1, <3>2 DEF ForwarderInv, InLine, Sorted
    <3>7. f_step = "before" =>
            /\ Known(f_came', f_active)
            /\ \A j \in DOMAIN f_queue' : Before(f_came', f_active, f_queue'[j])
            /\ \A i \in DOMAIN f_sent : Before(f_came', f_sent[i], f_active)
      BY <2>8, <3>1, <3>2 DEF ForwarderInv, InLine
    <3>8. InLine'
      BY <2>1, <3>4, <3>5, <3>6, <3>7 DEF InLine
    <3> QED BY <2>7, <3>3, <3>8 DEF ForwarderInv
  <2> QED BY <2>3, <2>9, <2>10
<1> QED BY <1>1, <1>2

LEMMA FireKeepsOrder == ASSUME ForwarderInv, F!Fire PROVE ForwarderInv'
<1>0. UNCHANGED <<f_status, f_came, f_sent>>
  BY DEF F!Fire
<1>1. CASE f_closed \/ f_active # None \/ f_queue = <<>>
  <2>1. UNCHANGED <<f_queue, f_active, f_step>>
    BY <1>1 DEF F!Fire
  <2> QED BY <1>0, <2>1, CalmKeeps DEF Calm, ForwarderInv, ForwarderTypes
<1>2. CASE ~(f_closed \/ f_active # None \/ f_queue = <<>>)
  <2>1. f_active' = Head(f_queue) /\ f_queue' = Tail(f_queue) /\ f_step' = "before"
    BY <1>2 DEF F!Fire
  <2>2. /\ f_queue \in Seq(Replies) /\ f_queue # <<>>
    BY <1>2 DEF ForwarderInv, ForwarderTypes
  <2>3. /\ Len(f_queue) \in Nat \ {0} /\ DOMAIN f_queue = 1 .. Len(f_queue)
        /\ f_queue' \in Seq(Replies) /\ DOMAIN f_queue' = 1 .. Len(f_queue) - 1
        /\ f_active' = f_queue[1] /\ f_active' \in Replies
        /\ \A i \in DOMAIN f_queue' : f_queue'[i] = f_queue[i + 1]
    BY <2>1, <2>2
  <2>4. /\ 1 \in DOMAIN f_queue /\ \A i \in DOMAIN f_queue' : i + 1 \in DOMAIN f_queue /\ 1 < i + 1
        /\ \A i, j \in DOMAIN f_queue' : i < j => i + 1 < j + 1
    BY <2>3
  <2>5. Sorted(f_came, f_queue')
    <3>1. \A i \in DOMAIN f_queue' : Known(f_came, f_queue'[i])
      BY <2>3, <2>4 DEF ForwarderInv, InLine, Sorted
    <3>2. \A i, j \in DOMAIN f_queue' : i < j => Before(f_came, f_queue'[i], f_queue'[j])
      BY <2>3, <2>4 DEF ForwarderInv, InLine, Sorted
    <3> QED BY <3>1, <3>2 DEF Sorted
  <2>6. \A i \in DOMAIN f_sent, j \in DOMAIN f_queue' : Before(f_came, f_sent[i], f_queue'[j])
    BY <2>3, <2>4 DEF ForwarderInv, InLine
  <2>7. /\ Known(f_came, f_active')
        /\ \A i \in DOMAIN f_sent : Before(f_came, f_sent[i], f_active')
    BY <2>3, <2>4 DEF ForwarderInv, InLine, Sorted
  <2>8. \A j \in DOMAIN f_queue' : Before(f_came, f_active', f_queue'[j])
    BY <2>3, <2>4 DEF ForwarderInv, InLine, Sorted
  <2>9. InLine'
    BY <1>0, <2>5, <2>6, <2>7, <2>8 DEF ForwarderInv, InLine
  <2>10. ForwarderTypes' /\ CameOnce'
    BY <1>0, <2>1, <2>3 DEF ForwarderInv, ForwarderTypes, CameOnce
  <2> QED BY <2>9, <2>10 DEF ForwarderInv
<1> QED BY <1>1, <1>2

LEMMA AttemptKeepsOrder == ASSUME ForwarderInv, F!Attempt PROVE ForwarderInv'
<1>1. /\ f_step = "before" /\ f_active \in Replies
      /\ f_status' = [f_status EXCEPT ![f_active] = "sending"] /\ f_sent' = Append(f_sent, f_active)
      /\ f_step' = "deliver" /\ UNCHANGED <<f_queue, f_came, f_active>>
  BY DEF F!Attempt, ForwarderInv, ForwarderTypes
<1>2. /\ f_sent' \in Seq(Replies) /\ Len(f_sent) \in Nat /\ DOMAIN f_sent = 1 .. Len(f_sent)
      /\ DOMAIN f_sent' = 1 .. Len(f_sent) + 1 /\ f_sent'[Len(f_sent) + 1] = f_active
      /\ \A i \in DOMAIN f_sent : f_sent'[i] = f_sent[i]
  BY <1>1 DEF ForwarderInv, ForwarderTypes
<1>3. /\ \A i \in DOMAIN f_sent' : i \in DOMAIN f_sent \/ (i = Len(f_sent) + 1 /\ f_sent'[i] = f_active)
      /\ \A i, j \in DOMAIN f_sent' : i < j => i \in DOMAIN f_sent
  BY <1>2
<1>4. ForwarderTypes'
  BY <1>1, <1>2 DEF ForwarderInv, ForwarderTypes, Statuses
<1>5. CameOnce'
  BY <1>1 DEF ForwarderInv, ForwarderTypes, CameOnce
<1>6. Sorted(f_came, f_sent')
  <2>1. \A i \in DOMAIN f_sent' : Known(f_came, f_sent'[i])
    BY <1>1, <1>2, <1>3 DEF ForwarderInv, InLine, Sorted
  <2>2. \A i, j \in DOMAIN f_sent' : i < j => Before(f_came, f_sent'[i], f_sent'[j])
    BY <1>1, <1>2, <1>3 DEF ForwarderInv, InLine, Sorted
  <2> QED BY <2>1, <2>2 DEF Sorted
<1>7. \A i \in DOMAIN f_sent', j \in DOMAIN f_queue : Before(f_came, f_sent'[i], f_queue[j])
  BY <1>1, <1>2, <1>3 DEF ForwarderInv, InLine
<1>8. InLine'
  BY <1>1, <1>6, <1>7 DEF ForwarderInv, InLine
<1> QED BY <1>4, <1>5, <1>8 DEF ForwarderInv

LEMMA DoneIsCalm ==
    ASSUME ForwarderInv, NEW st \in [Replies -> Statuses],
           \A r \in Replies : f_status[r] # "none" => st[r] # "none", F!Done(st)
    PROVE  Calm
<1>1. F!ScheduleNext(f_queue, None, f_attempts, st)
  BY DEF F!Done
<1>2. f_queue \in Seq(Replies)
  BY DEF ForwarderInv, ForwarderTypes
<1>3. /\ f_queue' = f_queue \/ f_queue' = <<>>
      /\ f_status' \in [Replies -> Statuses]
      /\ \A r \in Replies : st[r] # "none" => f_status'[r] # "none"
  BY <1>1, <1>2, Schedules
<1> QED BY <1>3 DEF F!Done, Calm

LEMMA OthersKeepOrder ==
    ASSUME ForwarderInv,
           F!Refused \/ F!Blocked \/ F!Delivered \/ F!Failed \/ F!Arrive \/ F!Rest \/ F!Close \/ F!Reload
    PROVE  ForwarderInv'
<1>1. CASE F!Refused \/ F!Blocked \/ F!Delivered \/ F!Failed
  <2>1. PICK st \in {f_status} \cup {[f_status EXCEPT ![f_active] = s] :
                      s \in {"failed", "blocked", "forwarded", "unknown"}} : F!Done(st)
    BY <1>1 DEF F!Refused, F!Blocked, F!Delivered, F!Failed, F!Errors
  <2>2. /\ st \in [Replies -> Statuses]
        /\ \A r \in Replies : f_status[r] # "none" => st[r] # "none"
    BY <1>1 DEF ForwarderInv, ForwarderTypes, Statuses, F!Terminal, F!Refused, F!Blocked, F!Delivered, F!Failed
  <2> QED BY <2>1, <2>2, DoneIsCalm, CalmKeeps
<1>2. CASE F!Arrive \/ F!Rest \/ F!Reload
  <2>1. Calm
    BY <1>2 DEF F!Arrive, F!Rest, F!Reload, F!fields, Calm, ForwarderInv, ForwarderTypes
  <2> QED BY <2>1, CalmKeeps
<1>3. CASE F!Close
  <2>1. Calm
    BY <1>3 DEF F!Close, F!Mark, F!Terminal, Calm, ForwarderInv, ForwarderTypes, Statuses
  <2> QED BY <2>1, CalmKeeps
<1> QED BY <1>1, <1>2, <1>3

LEMMA ForwarderNext == ForwarderInv /\ [F!Next]_(F!vars) => ForwarderInv'
<1> SUFFICES ASSUME ForwarderInv, [F!Next]_(F!vars) PROVE ForwarderInv'
  OBVIOUS
<1>1. CASE UNCHANGED (F!vars)
  BY <1>1, CalmKeeps DEF F!vars, F!fields, Calm, ForwarderInv, ForwarderTypes
<1> QED BY <1>1, EnqueueKeepsOrder, FireKeepsOrder, AttemptKeepsOrder, OthersKeepOrder
   DEF F!Next, F!Forward

LEMMA ForwarderInit == F!Init => ForwarderInv
<1> SUFFICES ASSUME F!Init PROVE ForwarderInv
  OBVIOUS
<1>1. /\ f_came = <<>> /\ f_queue = <<>> /\ f_sent = <<>> /\ f_active = None /\ f_step = "idle"
      /\ f_status = [r \in Replies |-> "none"]
  BY DEF F!Init
<1>2. DOMAIN f_came = {} /\ DOMAIN f_queue = {} /\ DOMAIN f_sent = {}
      /\ <<>> \in Seq(Replies)
  BY <1>1
<1> QED BY <1>1, <1>2 DEF ForwarderInv, ForwarderTypes, CameOnce, InLine, Sorted, Statuses

\* Replies are attempted once each and in the order they were queued, whatever is
\* blocked, closed or reloaded meanwhile.
LEMMA OrderFollows == ForwarderInv => F!OnceInOrder
<1> SUFFICES ASSUME ForwarderInv PROVE F!OnceInOrder
  OBVIOUS
<1>1. \A i, j \in DOMAIN f_sent : i < j =>
         \E k, l \in DOMAIN f_came : k < l /\ f_came[k] = f_sent[i] /\ f_came[l] = f_sent[j]
  BY DEF ForwarderInv, InLine, Sorted, Before
<1>2. DOMAIN f_sent \subseteq Nat /\ DOMAIN f_came \subseteq Nat
  BY DEF ForwarderInv, ForwarderTypes
<1>3. ASSUME NEW i \in DOMAIN f_sent, NEW j \in DOMAIN f_sent, f_sent[i] = f_sent[j], i < j
      PROVE  FALSE
  BY <1>1, <1>2, <1>3 DEF ForwarderInv, CameOnce
<1>4. \A i, j \in DOMAIN f_sent : f_sent[i] = f_sent[j] => i = j
  BY <1>2, <1>3
<1> QED BY <1>1, <1>4 DEF F!OnceInOrder

THEOREM RepliesOnceInOrder == F!Spec => []F!OnceInOrder
BY ForwarderInit, ForwarderNext, OrderFollows, PTL DEF F!Spec

-----------------------------------------------------------------------------
(* The suite. *)

QP == INSTANCE QueuedDeliveryProofs WITH
    Ids <- SoloIds, Texts <- SoloTexts, To <- SoloTo,
    Drains <- {Process}, Home <- [d \in {Process} |-> Task], Senders <- {Process},
    MaxActive <- SoloActive, MaxPerRecipient <- SoloPerRecipient,
    MaxFaults <- SoloFaults, MaxCrashes <- SoloCrashes,
    file <- q_file, claims <- q_claims, born <- q_born, passed <- q_passed,
    pc <- q_pc, todo <- q_todo, job <- q_job, next <- q_next, draft <- q_draft,
    answered <- q_answered, sends <- q_sends, robbed <- q_robbed,
    faults <- q_faults, crashes <- q_crashes

\* The queue of one process in the suite is the one QueuedDeliveryProofs is about: the
\* two instances under the same substitution agree in how they begin, step by step, and
\* in what is said.
LEMMA SameQueue ==
    /\ Q!QueueAssumption <=> QP!QueueAssumption
    /\ Q!Init <=> QP!Init
    /\ (Q!Next <=> QP!Next) /\ Q!vars = QP!vars
    /\ ReceiptsAreTrue <=> QP!ReceiptsAreTruthful /\ QP!NoDuplicates /\ QP!LimitsHold
<1>1. Q!QueueAssumption <=> QP!QueueAssumption
  BY
    DEF Q!Waiting, Q!Settled, Q!States, Q!Entries, Q!QueueAssumption, Q!IsFiniteSet, QP!Waiting,
     QP!Settled, QP!States, QP!Entries, QP!QueueAssumption, QP!IsFiniteSet
<1>2. Q!Init <=> QP!Init
  BY
    DEF Q!Init, QP!Init
<1>3. (Q!Next <=> QP!Next) /\ Q!vars = QP!vars
  BY
    DEF Q!Waiting, Q!NoResend, Q!Settled, Q!Limits, Q!drain, Q!vars, Q!Stored, Q!In, Q!Out,
     Q!Pending, Q!For, Q!Unused, Q!Oldest, Q!Awaiting, Q!Faulty, Q!Touched, Q!Repeats,
     Q!IsNew, Q!ActiveNow, Q!Room, Q!Enqueue, Q!WriteEntry, Q!Due, Q!StaleClaims, Q!Worn,
     Q!Sweep, Q!SweepRead, Q!Unclaim, Q!SweepWrite, Q!AwaitingReply, Q!MayLook, Q!Look, Q!Identify,
     Q!StillQueued, Q!Claimable, Q!Claim, Q!NoClaim, Q!WriteState, Q!StillDispatching,
     Q!Leave, Q!Send, Q!SaveSent, Q!UncertainState, Q!SendUncertain, Q!FailBeforeWrite,
     Q!SendFails, Q!SendEnds, Q!Crash, Q!Reply, Q!Runs, Q!TimePasses, Q!Settles, Q!Claims,
     Q!Tick, Q!Next, Q!Cardinality, Q!IsFiniteSet, QP!Waiting, QP!NoResend, QP!Settled,
     QP!Limits, QP!drain, QP!vars, QP!Stored, QP!In, QP!Out, QP!Pending, QP!For, QP!Unused,
     QP!Oldest, QP!Awaiting, QP!Faulty, QP!Touched, QP!Repeats, QP!IsNew, QP!ActiveNow,
     QP!Room, QP!Enqueue, QP!WriteEntry, QP!Due, QP!StaleClaims, QP!Worn, QP!Sweep,
     QP!SweepRead, QP!Unclaim, QP!SweepWrite, QP!AwaitingReply, QP!MayLook, QP!Look, QP!Identify,
     QP!StillQueued, QP!Claimable, QP!Claim, QP!NoClaim, QP!WriteState, QP!StillDispatching,
     QP!Leave, QP!Send, QP!SaveSent, QP!UncertainState, QP!SendUncertain, QP!FailBeforeWrite,
     QP!SendFails, QP!SendEnds, QP!Crash, QP!Reply, QP!Runs, QP!TimePasses, QP!Settles,
     QP!Claims, QP!Tick, QP!Next, QP!Cardinality, QP!IsFiniteSet
<1>4. ReceiptsAreTrue <=> QP!ReceiptsAreTruthful /\ QP!NoDuplicates /\ QP!LimitsHold
  BY
    DEF ReceiptsAreTrue, Q!Waiting, Q!NoResend, Q!Stored, Q!Out, Q!For, Q!ActiveNow, Q!ReceiptsAreTruthful,
     Q!NoDuplicates, Q!LimitsHold, Q!Cardinality, Q!IsFiniteSet, QP!Waiting, QP!NoResend,
     QP!Stored, QP!Out, QP!For, QP!ActiveNow, QP!ReceiptsAreTruthful, QP!NoDuplicates,
     QP!LimitsHold, QP!Cardinality, QP!IsFiniteSet
<1> QED BY <1>1, <1>2, <1>3, <1>4

suiteVars == <<part, vars, qVars, pVars, fVars>>

\* Each component of the suite is one of the behaviours its theorems are about.
LEMMA SuiteQueue == SuiteSpec => Spec
<1>1. SuiteInit => Init
  BY DEF SuiteInit
<1>2. [SuiteNext]_suiteVars => [Next]_vars
  BY DEF SuiteNext, suiteVars, vars
<1> QED BY <1>1, <1>2, PTL DEF SuiteSpec, Spec, suiteVars

LEMMA SuiteSolo == SuiteSpec => QP!Spec
<1>1. SuiteInit => QP!Init
  BY SameQueue DEF SuiteInit
<1>2. [SuiteNext]_suiteVars => [QP!Next]_(QP!vars)
  <2>1. UNCHANGED qVars => UNCHANGED (QP!vars)
    BY DEF qVars, QP!drain, QP!vars
  <2> QED BY <2>1, SameQueue DEF SuiteNext, suiteVars
<1> QED BY <1>1, <1>2, PTL DEF SuiteSpec, QP!Spec, suiteVars

LEMMA SuitePeer == SuiteSpec => P!Spec
<1>1. SuiteInit => P!Init
  BY DEF SuiteInit
<1>2. [SuiteNext]_suiteVars => [P!Next]_(P!vars)
  <2>1. UNCHANGED pVars => UNCHANGED (P!vars)
    BY DEF pVars, P!vars, P!calls, P!side, P!frames, P!reload
  <2> QED BY <2>1 DEF SuiteNext, suiteVars
<1> QED BY <1>1, <1>2, PTL DEF SuiteSpec, P!Spec, suiteVars

LEMMA SuiteForwarder == SuiteSpec => F!Spec
<1>1. SuiteInit => F!Init
  BY DEF SuiteInit
<1>2. [SuiteNext]_suiteVars => [F!Next]_(F!vars)
  <2>1. UNCHANGED fVars => UNCHANGED (F!vars)
    BY DEF fVars, F!vars, F!fields
  <2> QED BY <2>1 DEF SuiteNext, suiteVars
<1> QED BY <1>1, <1>2, PTL DEF SuiteSpec, F!Spec, suiteVars

-----------------------------------------------------------------------------

\* Beside the other components of the suite too, and for any number of processes, no
\* entry is sent twice, unless a sweep took its claim for a stale one.
THEOREM SuiteSentOnce == SuiteSpec => []AtMostOnce
BY SuiteQueue, SentAtMostOnce, ClaudeAssumption, PTL DEF ClaudeAssumption

\* With one process that drains and enqueues, what its senders are told of their texts
\* is true, and no text is queued twice or beyond the limits.
THEOREM SuiteReceipts == SuiteSpec => []ReceiptsAreTrue
<1>1. QP!QueueAssumption /\ QP!Alone
  BY ClaudeAssumption, SameQueue DEF ClaudeAssumption, QP!Alone
<1> QED BY <1>1, SuiteSolo, QP!ReceiptsTellTheTruth, QP!QueuedOnce, SameQueue, PTL

\* In the suite a message keeps the promise of Delivery on its way to the session.
THEOREM SuiteKeepsPromise == SuiteSpec => KeepsPromise
BY SuitePeer, MessagesKeepPromise, PTL DEF KeepsPromise

\* In the suite replies are forwarded once each and in the order they came.
THEOREM SuiteForwards == SuiteSpec => []F!OnceInOrder
BY SuiteForwarder, RepliesOnceInOrder, PTL

\* In the suite what a Desktop session answers is kept whole through any number of
\* reloads, given to the message it answers, and forwarded once and in order.
THEOREM SuiteKeepsReplies == ASSUME Transcript PROVE SuiteSpec => []RepliesAreKept
BY SuitePeer, NothingIsLost, RepliesAreOwn, SuiteForwards, PTL DEF RepliesAreKept

\* In the suite a message to a Desktop session is given no reply but its own.
THEOREM SuiteOwnReply == ASSUME Transcript PROVE SuiteSpec => []OwnReply
BY SuitePeer, RepliesAreOwn, PTL DEF OwnReply

=============================================================================
