------------------------- MODULE QueuedDeliveryProofs -------------------------
(***************************************************************************)
(* Theorems about QueuedDelivery, for every number of senders, drains and  *)
(* entries and any number of crashes and failed writes; and, for one       *)
(* process that drains and one that enqueues, about their receipts.        *)
(***************************************************************************)
EXTENDS QueuedDelivery, SequenceTheorems, FiniteSetTheorems, TLAPS

\* A drain between its claim and the end of its dispatch.
Busy(d) == pc[d] \in {"writing", "sending", "sent"}

\* What a drain has at hand at each step.
AtHand ==
    \A d \in Drains :
        /\ pc[d] = "picked" => job[d] \in Ids
        /\ Busy(d) \/ pc[d] = "settling" => job[d] \in Ids /\ next[d] \in Entries
        /\ pc[d] = "settling" => next[d].state \in {"expired", "unknown"}

\* No two drains dispatch one entry at a time, unless it lost a claim to a sweep ...
OneEach ==
    \A d, e \in Drains :
        Busy(d) /\ Busy(e) /\ job[d] = job[e] /\ job[d] \notin robbed => d = e

\* ... because while a drain works on an entry that is queued in its file, its claim
\* stands: no sweep finds the claim stale, and no other drain is there to release it.
ClaimHolds ==
    \A d \in Drains : Busy(d) /\ job[d] \in In("queued") /\ job[d] \notin robbed
        => pc[d] = "writing" /\ job[d] \in claims /\ <<job[d], "claim">> \notin passed

\* An identity that no entry has had yet is nobody's.
Fresh ==
    \A i \in Unused :
        /\ i \notin Stored /\ sends[i] = 0
        /\ \A d \in Drains : Busy(d) \/ pc[d] = "settling" => job[d] # i

\* Once an entry was sent it is not queued, and no drain will send it or put it back.
SentOnce ==
    \A i \in Ids \ robbed :
        /\ sends[i] \in {0, 1}
        /\ sends[i] = 1 =>
             /\ i \notin In("queued")
             /\ \A d \in Drains : Busy(d) /\ job[d] = i =>
                  /\ pc[d] # "sending"
                  /\ pc[d] = "writing" => next[d].state \notin {"queued", "dispatching"}

IInv == TypeOK /\ AtHand /\ OneEach /\ ClaimHolds /\ Fresh /\ SentOnce

-----------------------------------------------------------------------------

\* What transition() writes is an entry in the state that its patch says.
LEMMA Patched ==
    ASSUME NEW e \in Entries, NEW s \in States, NEW n \in 0..(MaxAttempts - 1)
    PROVE  /\ [e EXCEPT !.state = s] \in Entries /\ [e EXCEPT !.state = s].state = s
           /\ [e EXCEPT !.state = s, !.attempts = n] \in Entries
           /\ [e EXCEPT !.state = s, !.attempts = n].state = s
BY DEF Entries

\* What is in a state is an entry in that state.
LEMMA InState ==
    ASSUME TypeOK, NEW s, NEW i \in In(s)
    PROVE  i \in Ids /\ file[i] \in Entries /\ file[i].state = s
BY DEF TypeOK, In, Stored

\* An identity that was given is not unused, and others stay as they were.
LEMMA Given ==
    ASSUME born \in Seq(Ids), NEW i \in Ids, born' = Append(born, i)
    PROVE  born' \in Seq(Ids) /\ Unused' = Unused \ {i}
<1>1. /\ Len(born) \in Nat /\ Len(born') = Len(born) + 1
      /\ \A k \in 1..Len(born) : born'[k] = born[k]
      /\ born'[Len(born) + 1] = i
  BY AppendProperties
<1>2. born' \in Seq(Ids)
  BY AppendProperties
<1>3. ASSUME NEW j \in Ids
      PROVE  (\A k \in 1..Len(born') : born'[k] # j) <=> (\A k \in 1..Len(born) : born[k] # j) /\ j # i
  <2>1. ASSUME \A k \in 1..Len(born') : born'[k] # j PROVE (\A k \in 1..Len(born) : born[k] # j) /\ j # i
    <3>1. \A k \in 1..Len(born) : k \in 1..Len(born')
      BY <1>1
    <3>2. Len(born) + 1 \in 1..Len(born')
      BY <1>1
    <3> QED BY <1>1, <2>1, <3>1, <3>2
  <2>2. ASSUME \A k \in 1..Len(born) : born[k] # j, j # i, NEW k \in 1..Len(born') PROVE born'[k] # j
    <3>1. k \in 1..Len(born) \/ k = Len(born) + 1
      BY <1>1
    <3> QED BY <1>1, <2>2, <3>1
  <2> QED BY <2>1, <2>2
<1> QED BY <1>2, <1>3 DEF Unused

\* A dispatch ends: with the next state to be written over "dispatching", or at once.
Left(d, S) ==
    \/ /\ \E x \in Entries : x.state \in S /\ next' = [next EXCEPT ![d] = x]
       /\ pc' = [pc EXCEPT ![d] = "writing"]
       /\ job[d] \in In("dispatching") /\ UNCHANGED claims
    \/ pc' = [pc EXCEPT ![d] = "idle"] /\ claims' = claims \ {job[d]} /\ UNCHANGED next

LEMMA Leaves ==
    ASSUME TypeOK, NEW d \in Drains, NEW s \in States, NEW n \in 0..(MaxAttempts - 1), Leave(d, s, n)
    PROVE  Left(d, {s})
<1>1. CASE StillDispatching(job[d])
  <2>1. file[job[d]] \in Entries
    BY <1>1, InState DEF StillDispatching
  <2>2. [file[job[d]] EXCEPT !.state = s, !.attempts = n] \in Entries
        /\ [file[job[d]] EXCEPT !.state = s, !.attempts = n].state = s
    BY <2>1, Patched
  <2> QED BY <1>1, <2>2 DEF Leave, StillDispatching, Left
<1>2. CASE ~StillDispatching(job[d])
  BY <1>2 DEF Leave, Left
<1> QED BY <1>1, <1>2

\* transition() of a sweep goes on with a settled state, or it does not.
SweptOn(d) ==
    \/ \E i \in Ids, x \in Entries :
          /\ x.state \in {"expired", "unknown"} /\ i \in Stored
          /\ next' = [next EXCEPT ![d] = x] /\ job' = [job EXCEPT ![d] = i]
          /\ pc' = [pc EXCEPT ![d] = "settling"]
    \/ UNCHANGED <<next, job, pc>>

LEMMA SweepsOn == ASSUME TypeOK, NEW d \in Drains, SweepRead(d) PROVE SweptOn(d)
<1>1. PICK x \in todo[d] :
        IF x[1] \in In(x[2])
        THEN /\ next' = [next EXCEPT ![d] =
                   [file[x[1]] EXCEPT !.state = IF x[2] = "queued" THEN "expired" ELSE "unknown"]]
             /\ job' = [job EXCEPT ![d] = x[1]]
             /\ pc' = [pc EXCEPT ![d] = "settling"]
        ELSE UNCHANGED <<next, job, pc>>
  BY DEF SweepRead
<1>2. CASE x[1] \in In(x[2])
  <2> DEFINE e == [file[x[1]] EXCEPT !.state = IF x[2] = "queued" THEN "expired" ELSE "unknown"]
  <2>1. x[1] \in Ids /\ x[1] \in Stored /\ file[x[1]] \in Entries
    BY <1>2, InState DEF In
  <2>2. e \in Entries /\ e.state \in {"expired", "unknown"}
    BY <2>1 DEF Entries, States, Settled
  <2>3. /\ next' = [next EXCEPT ![d] = e] /\ job' = [job EXCEPT ![d] = x[1]]
        /\ pc' = [pc EXCEPT ![d] = "settling"]
    BY <1>1, <1>2
  <2> HIDE DEF e
  <2> QED BY <2>1, <2>2, <2>3 DEF SweptOn
<1>3. CASE x[1] \notin In(x[2])
  BY <1>1, <1>3 DEF SweptOn
<1> QED BY <1>2, <1>3

\* The initial states satisfy it.
LEMMA InitIInv == QueueAssumption /\ Init => IInv
BY DEF QueueAssumption, Init, IInv, TypeOK, AtHand, OneEach, ClaimHolds, Fresh, SentOnce, Busy, Stored, In, Unused

\* Every step keeps it.
LEMMA NextIInv == QueueAssumption /\ IInv /\ [Next]_vars => IInv'
<1> SUFFICES ASSUME QueueAssumption, IInv, [Next]_vars PROVE IInv'
  OBVIOUS
<1>0. /\ NoEntry \notin Entries /\ NoId \notin Ids
      /\ MaxAttempts \in Nat \ {0} /\ MaxFaults \in Nat /\ MaxCrashes \in Nat
  BY DEF QueueAssumption
<1> USE DEF IInv
<1>1. ASSUME NEW s \in Senders, NEW t \in Texts, Enqueue(s, t) PROVE IInv'
  <2>1. TypeOK'
    BY <1>1 DEF Enqueue, drain, TypeOK, Entries, States, Waiting, Settled, Limits, AtHand, Busy, Stored, In
  <2>2. AtHand'
    BY <1>1 DEF Enqueue, drain, TypeOK, AtHand, Entries, States, Waiting, Settled, Busy, Stored, In
  <2>3. OneEach'
    BY <1>1 DEF Enqueue, drain, TypeOK, AtHand, OneEach, ClaimHolds, Busy
  <2>4. ClaimHolds'
    BY <1>1 DEF Enqueue, drain, TypeOK, Entries, AtHand, OneEach, ClaimHolds, Fresh, Busy, Stored, In
  <2>5. Fresh'
    BY <1>1 DEF Enqueue, drain, TypeOK, AtHand, Fresh, Busy, Stored, In, Unused
  <2>6. SentOnce'
    BY <1>1 DEF Enqueue, drain, TypeOK, Entries, AtHand, OneEach, ClaimHolds, Fresh, SentOnce, Busy, Stored, In
  <2> QED BY <2>1, <2>2, <2>3, <2>4, <2>5, <2>6
<1>2. ASSUME NEW s \in Senders, WriteEntry(s) PROVE IInv'
  <2>1. TypeOK'
    <3>1. (file \in [Ids -> Entries \cup {NoEntry}])'
      BY <1>2, <1>0 DEF WriteEntry, Faulty, TypeOK, Entries, States, Waiting, Unused
    <3>2. (claims \subseteq Ids)'
      BY <1>2 DEF WriteEntry, Faulty, drain, TypeOK
    <3>3. (born \in Seq(Ids))'
      BY <1>2, Given DEF WriteEntry, Faulty, drain, TypeOK, Unused
    <3>4. (passed \subseteq Ids \X Limits)'
      BY <1>2 DEF WriteEntry, Faulty, drain, TypeOK
    <3>5. (pc \in [Drains -> {"idle", "sweeping", "settling", "identifying", "picked",
                           "writing", "sending", "sent"}])'
      BY <1>2 DEF WriteEntry, Faulty, drain, TypeOK
    <3>6. (todo \in [Drains -> SUBSET (Ids \X (Waiting \cup {"claim"}))])'
      BY <1>2 DEF WriteEntry, Faulty, drain, TypeOK
    <3>7. (job \in [Drains -> Ids \cup {NoId}])'
      BY <1>2 DEF WriteEntry, Faulty, drain, TypeOK
    <3>8. (next \in [Drains -> Entries \cup {NoEntry}])'
      BY <1>2 DEF WriteEntry, Faulty, drain, TypeOK
    <3>9. (draft \in [Senders -> Texts \cup {NoEntry}])'
      BY <1>2 DEF WriteEntry, Faulty, drain, TypeOK
    <3>10. (answered \subseteq Ids /\ sends \in [Ids -> Nat] /\ robbed \subseteq Ids /\ faults \in 0..MaxFaults /\ crashes \in 0..MaxCrashes)'
      BY <1>2 DEF WriteEntry, Faulty, drain, TypeOK
    <3> QED BY <3>1, <3>2, <3>3, <3>4, <3>5, <3>6, <3>7, <3>8, <3>9, <3>10 DEF TypeOK
  <2>2. AtHand'
    BY <1>2 DEF WriteEntry, Faulty, drain, TypeOK, AtHand, Entries, States, Waiting, Settled, Busy, Stored, In
  <2>3. OneEach'
    BY <1>2 DEF WriteEntry, Faulty, drain, TypeOK, AtHand, OneEach, ClaimHolds, Busy
  <2>4. ClaimHolds'
    BY <1>2 DEF WriteEntry, Faulty, drain, TypeOK, Entries, AtHand, OneEach, ClaimHolds, Fresh, Busy, Stored, In
  <2>5. Fresh'
    <3>1. CASE UNCHANGED <<file, born>>
      BY <1>2, <3>1 DEF WriteEntry, drain, TypeOK, AtHand, Fresh, Busy, Stored, Unused
    <3>2. CASE \E i \in Unused : /\ file' = [file EXCEPT ![i] = [text |-> draft[s], state |-> "queued", attempts |-> 0]]
                                /\ born' = Append(born, i)
      <4> PICK i \in Unused : /\ file' = [file EXCEPT ![i] = [text |-> draft[s], state |-> "queued", attempts |-> 0]]
                              /\ born' = Append(born, i)
        BY <3>2
      <4>1. Unused' = Unused \ {i}
        BY Given DEF TypeOK, Unused
      <4>2. \A j \in Unused' : file'[j] = file[j] /\ j \in Unused
        BY <4>1 DEF TypeOK, Unused
      <4> QED BY <1>2, <4>2 DEF WriteEntry, drain, Fresh, Busy, Stored
    <3> QED BY <1>2, <3>1, <3>2 DEF WriteEntry
  <2>6. SentOnce'
    <3>1. CASE UNCHANGED <<file, born>>
      BY <1>2, <3>1 DEF WriteEntry, drain, SentOnce, Busy, Stored, In
    <3>2. CASE \E i \in Unused : file' = [file EXCEPT ![i] = [text |-> draft[s], state |-> "queued", attempts |-> 0]]
      <4> PICK i \in Unused : file' = [file EXCEPT ![i] = [text |-> draft[s], state |-> "queued", attempts |-> 0]]
        BY <3>2
      <4>1. UNCHANGED <<pc, job, next, sends, robbed>> /\ sends[i] = 0
        BY <1>2 DEF WriteEntry, drain, Fresh
      <4>2. \A j \in Ids : sends[j] = 1 => file'[j] = file[j]
        BY <4>1 DEF TypeOK
      <4> QED BY <4>1, <4>2 DEF SentOnce, Busy, Stored, In
    <3> QED BY <1>2, <3>1, <3>2 DEF WriteEntry
  <2> QED BY <2>1, <2>2, <2>3, <2>4, <2>5, <2>6
<1>3. ASSUME NEW d \in Drains, Sweep(d) PROVE IInv'
  <2>0. UNCHANGED <<born, passed, job, next, draft, answered, sends, robbed, faults, crashes>>
    BY <1>3 DEF Sweep
  <2>1. TypeOK'
    <3>1. Due \cup (StaleClaims \X {"claim"}) \subseteq Ids \X (Waiting \cup {"claim"})
      BY DEF Due, StaleClaims, Pending, Stored, In
    <3>2. todo' \in [Drains -> SUBSET (Ids \X (Waiting \cup {"claim"}))]
      BY <1>3, <3>1 DEF Sweep, TypeOK
    <3>3. file' \in [Ids -> Entries \cup {NoEntry}] /\ claims' \subseteq Ids
      BY <1>3 DEF Sweep, TypeOK
    <3>4. pc' \in [Drains -> {"idle", "sweeping", "settling", "identifying", "picked",
                             "writing", "sending", "sent"}]
      BY <1>3 DEF Sweep, TypeOK
    <3> QED BY <2>0, <3>2, <3>3, <3>4 DEF TypeOK
  <2>2. AtHand'
    BY <1>3 DEF Sweep, Due, StaleClaims, Worn, Pending, TypeOK, AtHand, Entries, States, Waiting, Settled, Busy, Stored, In
  <2>3. OneEach'
    BY <1>3 DEF Sweep, Due, StaleClaims, Worn, Pending, TypeOK, AtHand, OneEach, ClaimHolds, Busy
  <2>4. ClaimHolds'
    BY <1>3 DEF Sweep, Due, StaleClaims, Worn, Pending, TypeOK, Entries, AtHand, OneEach, ClaimHolds, Fresh, Busy, Stored, In
  <2>5. Fresh'
    BY <1>3 DEF Sweep, Due, StaleClaims, Worn, Pending, TypeOK, AtHand, Fresh, Busy, Stored, In, Unused
  <2>6. SentOnce'
    BY <1>3 DEF Sweep, Due, StaleClaims, Worn, Pending, TypeOK, Entries, AtHand, OneEach, ClaimHolds, Fresh, SentOnce, Busy, Stored, In
  <2> QED BY <2>1, <2>2, <2>3, <2>4, <2>5, <2>6
<1>4. ASSUME NEW d \in Drains, SweepRead(d) PROVE IInv'
  <2>0. SweptOn(d)
    BY <1>4, SweepsOn
  <2>1. TypeOK'
    <3>1. (file \in [Ids -> Entries \cup {NoEntry}])'
      BY <1>4, <2>0 DEF SweepRead, SweptOn, TypeOK
    <3>2. (claims \subseteq Ids)'
      BY <1>4, <2>0 DEF SweepRead, SweptOn, TypeOK
    <3>3. (born \in Seq(Ids))'
      BY <1>4, <2>0 DEF SweepRead, SweptOn, TypeOK
    <3>4. (passed \subseteq Ids \X Limits)'
      BY <1>4, <2>0 DEF SweepRead, SweptOn, TypeOK
    <3>5. (pc \in [Drains -> {"idle", "sweeping", "settling", "identifying", "picked",
                           "writing", "sending", "sent"}])'
      BY <1>4, <2>0 DEF SweepRead, SweptOn, TypeOK
    <3>6. (todo \in [Drains -> SUBSET (Ids \X (Waiting \cup {"claim"}))])'
      BY <1>4, <2>0 DEF SweepRead, SweptOn, TypeOK
    <3>7. (job \in [Drains -> Ids \cup {NoId}])'
      BY <1>4, <2>0 DEF SweepRead, SweptOn, TypeOK
    <3>8. (next \in [Drains -> Entries \cup {NoEntry}])'
      BY <1>4, <2>0 DEF SweepRead, SweptOn, TypeOK
    <3>9. (draft \in [Senders -> Texts \cup {NoEntry}])'
      BY <1>4, <2>0 DEF SweepRead, SweptOn, TypeOK
    <3>10. (answered \subseteq Ids /\ sends \in [Ids -> Nat] /\ robbed \subseteq Ids /\ faults \in 0..MaxFaults /\ crashes \in 0..MaxCrashes)'
      BY <1>4, <2>0 DEF SweepRead, SweptOn, TypeOK
    <3> QED BY <3>1, <3>2, <3>3, <3>4, <3>5, <3>6, <3>7, <3>8, <3>9, <3>10 DEF TypeOK
  <2>2. AtHand'
    BY <1>4, <2>0 DEF SweepRead, SweptOn, TypeOK, AtHand, Entries, States, Waiting, Settled, Busy, Stored, In
  <2>3. OneEach'
    BY <1>4, <2>0 DEF SweepRead, SweptOn, TypeOK, AtHand, OneEach, ClaimHolds, Busy
  <2>4. ClaimHolds'
    BY <1>4, <2>0 DEF SweepRead, SweptOn, TypeOK, Entries, AtHand, OneEach, ClaimHolds, Fresh, Busy, Stored, In
  <2>5. Fresh'
    BY <1>4, <2>0 DEF SweepRead, SweptOn, TypeOK, AtHand, Fresh, Busy, Stored, In, Unused
  <2>6. SentOnce'
    BY <1>4, <2>0, <1>0 DEF SweepRead, SweptOn, TypeOK, Entries, AtHand, ClaimHolds, Fresh, SentOnce, Busy, Stored, In
  <2> QED BY <2>1, <2>2, <2>3, <2>4, <2>5, <2>6
<1>5. ASSUME NEW d \in Drains, SweepWrite(d) PROVE IInv'
  <2>1. TypeOK'
    <3>1. (file \in [Ids -> Entries \cup {NoEntry}])'
      BY <1>5 DEF SweepWrite, Touched, Faulty, TypeOK, AtHand
    <3>2. (claims \subseteq Ids)'
      BY <1>5 DEF SweepWrite, Touched, Faulty, TypeOK
    <3>3. (born \in Seq(Ids))'
      BY <1>5 DEF SweepWrite, Touched, Faulty, TypeOK
    <3>4. (passed \subseteq Ids \X Limits)'
      BY <1>5 DEF SweepWrite, Touched, Faulty, TypeOK
    <3>5. (pc \in [Drains -> {"idle", "sweeping", "settling", "identifying", "picked",
                           "writing", "sending", "sent"}])'
      BY <1>5 DEF SweepWrite, Touched, Faulty, TypeOK
    <3>6. (todo \in [Drains -> SUBSET (Ids \X (Waiting \cup {"claim"}))])'
      BY <1>5 DEF SweepWrite, Touched, Faulty, TypeOK
    <3>7. (job \in [Drains -> Ids \cup {NoId}])'
      BY <1>5 DEF SweepWrite, Touched, Faulty, TypeOK
    <3>8. (next \in [Drains -> Entries \cup {NoEntry}])'
      BY <1>5 DEF SweepWrite, Touched, Faulty, TypeOK
    <3>9. (draft \in [Senders -> Texts \cup {NoEntry}])'
      BY <1>5 DEF SweepWrite, Touched, Faulty, TypeOK
    <3>10. (answered \subseteq Ids /\ sends \in [Ids -> Nat] /\ robbed \subseteq Ids /\ faults \in 0..MaxFaults /\ crashes \in 0..MaxCrashes)'
      BY <1>5 DEF SweepWrite, Touched, Faulty, TypeOK
    <3> QED BY <3>1, <3>2, <3>3, <3>4, <3>5, <3>6, <3>7, <3>8, <3>9, <3>10 DEF TypeOK
  <2>2. AtHand'
    BY <1>5 DEF SweepWrite, Touched, Faulty, TypeOK, AtHand, Entries, States, Waiting, Settled, Busy, Stored, In
  <2>3. OneEach'
    BY <1>5 DEF SweepWrite, Touched, Faulty, TypeOK, AtHand, OneEach, ClaimHolds, Busy
  <2>4. ClaimHolds'
    BY <1>5, <1>0 DEF SweepWrite, Touched, Faulty, TypeOK, Entries, AtHand, OneEach, ClaimHolds, Busy, Stored, In
  <2>5. Fresh'
    BY <1>5 DEF SweepWrite, Touched, Faulty, TypeOK, AtHand, Fresh, Busy, Stored, In, Unused
  <2>6. SentOnce'
    BY <1>5, <1>0 DEF SweepWrite, Faulty, TypeOK, Entries, AtHand, OneEach, ClaimHolds, Fresh, SentOnce, Busy, Stored, In
  <2> QED BY <2>1, <2>2, <2>3, <2>4, <2>5, <2>6
<1>6. ASSUME NEW d \in Drains, Look(d) PROVE IInv'
  <2>1. TypeOK'
    BY <1>6 DEF Look, TypeOK, Entries, States, Waiting, Settled, Limits, AtHand, Busy, Stored, In
  <2>2. AtHand'
    BY <1>6 DEF Look, TypeOK, AtHand, Entries, States, Waiting, Settled, Busy, Stored, In
  <2>3. OneEach'
    BY <1>6 DEF Look, TypeOK, AtHand, OneEach, ClaimHolds, Busy
  <2>4. ClaimHolds'
    BY <1>6 DEF Look, TypeOK, Entries, AtHand, OneEach, ClaimHolds, Fresh, Busy, Stored, In
  <2>5. Fresh'
    BY <1>6 DEF Look, TypeOK, AtHand, Fresh, Busy, Stored, In, Unused
  <2>6. SentOnce'
    BY <1>6 DEF Look, TypeOK, Entries, AtHand, OneEach, ClaimHolds, Fresh, SentOnce, Busy, Stored, In
  <2> QED BY <2>1, <2>2, <2>3, <2>4, <2>5, <2>6
<1>7. ASSUME NEW d \in Drains, Identify(d) PROVE IInv'
  <2>1. TypeOK'
    <3>1. (file \in [Ids -> Entries \cup {NoEntry}])'
      BY <1>7 DEF Identify, Oldest, Pending, TypeOK
    <3>2. (claims \subseteq Ids)'
      BY <1>7 DEF Identify, Oldest, Pending, TypeOK
    <3>3. (born \in Seq(Ids))'
      BY <1>7 DEF Identify, Oldest, Pending, TypeOK
    <3>4. (passed \subseteq Ids \X Limits)'
      BY <1>7 DEF Identify, Oldest, Pending, TypeOK
    <3>5. (pc \in [Drains -> {"idle", "sweeping", "settling", "identifying", "picked",
                           "writing", "sending", "sent"}])'
      BY <1>7 DEF Identify, Oldest, Pending, TypeOK
    <3>6. (todo \in [Drains -> SUBSET (Ids \X (Waiting \cup {"claim"}))])'
      BY <1>7 DEF Identify, Oldest, Pending, TypeOK
    <3>7. (job \in [Drains -> Ids \cup {NoId}])'
      BY <1>7 DEF Identify, Oldest, Pending, TypeOK, Stored, In
    <3>8. (next \in [Drains -> Entries \cup {NoEntry}])'
      BY <1>7 DEF Identify, Oldest, Pending, TypeOK
    <3>9. (draft \in [Senders -> Texts \cup {NoEntry}])'
      BY <1>7 DEF Identify, Oldest, Pending, TypeOK
    <3>10. (answered \subseteq Ids /\ sends \in [Ids -> Nat] /\ robbed \subseteq Ids /\ faults \in 0..MaxFaults /\ crashes \in 0..MaxCrashes)'
      BY <1>7 DEF Identify, Oldest, Pending, TypeOK
    <3> QED BY <3>1, <3>2, <3>3, <3>4, <3>5, <3>6, <3>7, <3>8, <3>9, <3>10 DEF TypeOK
  <2>2. AtHand'
    BY <1>7 DEF Identify, Oldest, Pending, TypeOK, AtHand, Entries, States, Waiting, Settled, Busy, Stored, In
  <2>3. OneEach'
    BY <1>7 DEF Identify, Oldest, Pending, TypeOK, AtHand, OneEach, ClaimHolds, Busy
  <2>4. ClaimHolds'
    BY <1>7 DEF Identify, Oldest, Pending, TypeOK, Entries, AtHand, OneEach, ClaimHolds, Fresh, Busy, Stored, In
  <2>5. Fresh'
    BY <1>7 DEF Identify, Oldest, Pending, TypeOK, AtHand, Fresh, Busy, Stored, In, Unused
  <2>6. SentOnce'
    BY <1>7, <1>0 DEF Identify, Oldest, Pending, TypeOK, Entries, AtHand, OneEach, ClaimHolds, SentOnce, Busy, Stored, In
  <2> QED BY <2>1, <2>2, <2>3, <2>4, <2>5, <2>6
<1>8. ASSUME NEW d \in Drains, Claim(d) PROVE IInv'
  <2>0. \E s \in {"dispatching", "refused"}, x \in Entries : x.state = s /\ next' = [next EXCEPT ![d] = x]
    <3>1. file[job[d]] \in Entries
      BY <1>8, InState DEF Claim, StillQueued
    <3>2. PICK s \in {"dispatching", "refused"} : next' = [next EXCEPT ![d] = [file[job[d]] EXCEPT !.state = s]]
      BY <1>8 DEF Claim
    <3>3. [file[job[d]] EXCEPT !.state = s] \in Entries /\ [file[job[d]] EXCEPT !.state = s].state = s
      BY <3>1 DEF States, Settled, Waiting, Entries
    <3> QED BY <3>2, <3>3
  <2>1. TypeOK'
    <3>1. (file \in [Ids -> Entries \cup {NoEntry}])'
      BY <1>8, <2>0 DEF Claim, StillQueued, Claimable, TypeOK
    <3>2. (claims \subseteq Ids)'
      BY <1>8 DEF Claim, StillQueued, Claimable, TypeOK, AtHand
    <3>3. (born \in Seq(Ids))'
      BY <1>8, <2>0 DEF Claim, StillQueued, Claimable, TypeOK
    <3>4. (passed \subseteq Ids \X Limits)'
      BY <1>8, <2>0 DEF Claim, StillQueued, Claimable, TypeOK
    <3>5. (pc \in [Drains -> {"idle", "sweeping", "settling", "identifying", "picked",
                           "writing", "sending", "sent"}])'
      BY <1>8, <2>0 DEF Claim, StillQueued, Claimable, TypeOK
    <3>6. (todo \in [Drains -> SUBSET (Ids \X (Waiting \cup {"claim"}))])'
      BY <1>8, <2>0 DEF Claim, StillQueued, Claimable, TypeOK
    <3>7. (job \in [Drains -> Ids \cup {NoId}])'
      BY <1>8, <2>0 DEF Claim, StillQueued, Claimable, TypeOK
    <3>8. (next \in [Drains -> Entries \cup {NoEntry}])'
      BY <2>0 DEF TypeOK
    <3>9. (draft \in [Senders -> Texts \cup {NoEntry}])'
      BY <1>8, <2>0 DEF Claim, StillQueued, Claimable, TypeOK
    <3>10. (answered \subseteq Ids /\ sends \in [Ids -> Nat] /\ robbed \subseteq Ids /\ faults \in 0..MaxFaults /\ crashes \in 0..MaxCrashes)'
      BY <1>8, <2>0 DEF Claim, StillQueued, Claimable, TypeOK
    <3> QED BY <3>1, <3>2, <3>3, <3>4, <3>5, <3>6, <3>7, <3>8, <3>9, <3>10 DEF TypeOK
  <2>2. AtHand'
    BY <1>8, <2>0 DEF Claim, StillQueued, Claimable, TypeOK, AtHand, Entries, States, Waiting, Settled, Busy, Stored, In
  <2>3. OneEach'
    BY <1>8, <2>0 DEF Claim, StillQueued, Claimable, TypeOK, AtHand, OneEach, ClaimHolds, Busy
  <2>4. ClaimHolds'
    BY <1>8, <2>0 DEF Claim, StillQueued, Claimable, TypeOK, Entries, AtHand, OneEach, ClaimHolds, Fresh, Busy, Stored, In
  <2>5. Fresh'
    BY <1>8, <2>0 DEF Claim, StillQueued, Claimable, TypeOK, AtHand, Fresh, Busy, Stored, In, Unused
  <2>6. SentOnce'
    BY <1>8, <2>0 DEF Claim, StillQueued, Claimable, TypeOK, Entries, AtHand, OneEach, ClaimHolds, Fresh, SentOnce, Busy, Stored, In
  <2> QED BY <2>1, <2>2, <2>3, <2>4, <2>5, <2>6
<1>9. ASSUME NEW d \in Drains, NoClaim(d) PROVE IInv'
  <2>1. TypeOK'
    BY <1>9 DEF NoClaim, TypeOK, Entries, States, Waiting, Settled, Limits, AtHand, Busy, Stored, In
  <2>2. AtHand'
    BY <1>9 DEF NoClaim, TypeOK, AtHand, Entries, States, Waiting, Settled, Busy, Stored, In
  <2>3. OneEach'
    BY <1>9 DEF NoClaim, TypeOK, AtHand, OneEach, ClaimHolds, Busy
  <2>4. ClaimHolds'
    BY <1>9 DEF NoClaim, TypeOK, Entries, AtHand, OneEach, ClaimHolds, Fresh, Busy, Stored, In
  <2>5. Fresh'
    BY <1>9 DEF NoClaim, TypeOK, AtHand, Fresh, Busy, Stored, In, Unused
  <2>6. SentOnce'
    BY <1>9 DEF NoClaim, TypeOK, Entries, AtHand, OneEach, ClaimHolds, Fresh, SentOnce, Busy, Stored, In
  <2> QED BY <2>1, <2>2, <2>3, <2>4, <2>5, <2>6
<1>10. ASSUME NEW d \in Drains, WriteState(d) PROVE IInv'
  <2>1. TypeOK'
    <3>1. (file \in [Ids -> Entries \cup {NoEntry}])'
      BY <1>10 DEF WriteState, Touched, Faulty, TypeOK, AtHand, Busy
    <3>2. (claims \subseteq Ids)'
      BY <1>10 DEF WriteState, Touched, Faulty, TypeOK
    <3>3. (born \in Seq(Ids))'
      BY <1>10 DEF WriteState, Touched, Faulty, TypeOK
    <3>4. (passed \subseteq Ids \X Limits)'
      BY <1>10 DEF WriteState, Touched, Faulty, TypeOK
    <3>5. (pc \in [Drains -> {"idle", "sweeping", "settling", "identifying", "picked",
                           "writing", "sending", "sent"}])'
      <4>1. pc' = [pc EXCEPT ![d] = "sending"] \/ pc' = [pc EXCEPT ![d] = "idle"]
        BY <1>10 DEF WriteState
      <4> QED BY <4>1 DEF TypeOK
    <3>6. (todo \in [Drains -> SUBSET (Ids \X (Waiting \cup {"claim"}))])'
      BY <1>10 DEF WriteState, Touched, Faulty, TypeOK
    <3>7. (job \in [Drains -> Ids \cup {NoId}])'
      BY <1>10 DEF WriteState, Touched, Faulty, TypeOK
    <3>8. (next \in [Drains -> Entries \cup {NoEntry}])'
      BY <1>10 DEF WriteState, Touched, Faulty, TypeOK
    <3>9. (draft \in [Senders -> Texts \cup {NoEntry}])'
      BY <1>10 DEF WriteState, Touched, Faulty, TypeOK
    <3>10. (answered \subseteq Ids /\ sends \in [Ids -> Nat] /\ robbed \subseteq Ids /\ faults \in 0..MaxFaults /\ crashes \in 0..MaxCrashes)'
      BY <1>10 DEF WriteState, Touched, Faulty, TypeOK
    <3> QED BY <3>1, <3>2, <3>3, <3>4, <3>5, <3>6, <3>7, <3>8, <3>9, <3>10 DEF TypeOK
  <2>2. AtHand'
    BY <1>10 DEF WriteState, Touched, Faulty, TypeOK, AtHand, Entries, States, Waiting, Settled, Busy, Stored, In
  <2>3. OneEach'
    BY <1>10 DEF WriteState, Touched, Faulty, TypeOK, AtHand, OneEach, ClaimHolds, Busy
  <2>4. ClaimHolds'
    BY <1>10, <1>0 DEF WriteState, Touched, Faulty, TypeOK, Entries, AtHand, OneEach, ClaimHolds, Busy, Stored, In
  <2>5. Fresh'
    BY <1>10 DEF WriteState, Touched, Faulty, TypeOK, AtHand, Fresh, Busy, Stored, In, Unused
  <2>6. SentOnce'
    <3>1. CASE UNCHANGED file /\ pc' = [pc EXCEPT ![d] = "idle"]
      BY <1>10, <3>1 DEF WriteState, TypeOK, SentOnce, Busy, Stored, In
    <3>2. CASE /\ file' = [file EXCEPT ![job[d]] = next[d]]
               /\ IF next[d].state = "dispatching" THEN pc' = [pc EXCEPT ![d] = "sending"]
                  ELSE pc' = [pc EXCEPT ![d] = "idle"]
      <4>1. job[d] \in Ids /\ next[d] \in Entries
        BY <1>10 DEF WriteState, AtHand, Busy
      <4>2. job[d] \notin robbed /\ sends[job[d]] = 1 => next[d].state \notin {"queued", "dispatching"}
        BY <1>10, <4>1 DEF WriteState, SentOnce, Busy
      <4>3. \A i \in Ids \ robbed : sends[i] = 1 => i \notin In("queued")'
        BY <3>2, <4>1, <4>2 DEF TypeOK, SentOnce, Stored, In
      <4>4. /\ UNCHANGED <<job, next, sends, robbed>> /\ pc[d] = "writing"
            /\ \A e \in Drains : e # d => pc'[e] = pc[e]
            /\ pc'[d] \in {"idle", "sending"}
            /\ pc'[d] = "sending" => next[d].state = "dispatching"
        BY <1>10, <3>2 DEF WriteState, TypeOK
      <4> QED BY <4>2, <4>3, <4>4 DEF SentOnce, Busy
    <3> QED BY <1>10, <3>1, <3>2 DEF WriteState
  <2> QED BY <2>1, <2>2, <2>3, <2>4, <2>5, <2>6
<1>11. ASSUME NEW d \in Drains, Send(d) PROVE IInv'
  <2>1. TypeOK'
    BY <1>11 DEF Send, TypeOK, Entries, States, Waiting, Settled, Limits, AtHand, Busy, Stored, In
  <2>2. AtHand'
    BY <1>11 DEF Send, TypeOK, AtHand, Entries, States, Waiting, Settled, Busy, Stored, In
  <2>3. OneEach'
    BY <1>11 DEF Send, TypeOK, AtHand, OneEach, ClaimHolds, Busy
  <2>4. ClaimHolds'
    BY <1>11 DEF Send, TypeOK, Entries, AtHand, OneEach, ClaimHolds, Fresh, Busy, Stored, In
  <2>5. Fresh'
    BY <1>11 DEF Send, TypeOK, AtHand, Fresh, Busy, Stored, In, Unused
  <2>6. SentOnce'
    <3>1. job[d] \notin robbed => job[d] \in Ids /\ sends[job[d]] = 0 /\ job[d] \notin In("queued")
      BY <1>11 DEF Send, AtHand, ClaimHolds, SentOnce, Busy
    <3>2. \A i \in Ids \ robbed : sends'[i] = IF i = job[d] THEN 1 ELSE sends[i]
      BY <1>11, <3>1 DEF Send, TypeOK
    <3> QED BY <1>11, <3>1, <3>2 DEF Send, TypeOK, OneEach, SentOnce, Busy, Stored, In
  <2> QED BY <2>1, <2>2, <2>3, <2>4, <2>5, <2>6
<1>12. ASSUME NEW d \in Drains, SendUncertain(d) PROVE IInv'
  <2>0. Left(d, {"unknown"})
    BY <1>12, Leaves DEF SendUncertain, UncertainState, AtHand, Busy, Entries, States, Settled
  <2>1. TypeOK'
    <3>1. (file \in [Ids -> Entries \cup {NoEntry}])'
      BY <1>12, <2>0 DEF SendUncertain, Left, TypeOK
    <3>2. (claims \subseteq Ids)'
      BY <1>12, <2>0 DEF SendUncertain, Left, TypeOK
    <3>3. (born \in Seq(Ids))'
      BY <1>12, <2>0 DEF SendUncertain, Left, TypeOK
    <3>4. (passed \subseteq Ids \X Limits)'
      BY <1>12, <2>0 DEF SendUncertain, Left, TypeOK
    <3>5. (pc \in [Drains -> {"idle", "sweeping", "settling", "identifying", "picked",
                           "writing", "sending", "sent"}])'
      BY <1>12, <2>0 DEF SendUncertain, Left, TypeOK
    <3>6. (todo \in [Drains -> SUBSET (Ids \X (Waiting \cup {"claim"}))])'
      BY <1>12, <2>0 DEF SendUncertain, Left, TypeOK
    <3>7. (job \in [Drains -> Ids \cup {NoId}])'
      BY <1>12, <2>0 DEF SendUncertain, Left, TypeOK
    <3>8. (next \in [Drains -> Entries \cup {NoEntry}])'
      BY <1>12, <2>0 DEF SendUncertain, Left, TypeOK
    <3>9. (draft \in [Senders -> Texts \cup {NoEntry}])'
      BY <1>12, <2>0 DEF SendUncertain, Left, TypeOK
    <3>10. (answered \subseteq Ids /\ sends \in [Ids -> Nat] /\ robbed \subseteq Ids /\ faults \in 0..MaxFaults /\ crashes \in 0..MaxCrashes)'
      <4>1. sends' \in [Ids -> Nat]
        <5>1. sends[job[d]] + 1 \in Nat
          BY <1>12 DEF SendUncertain, TypeOK, AtHand, Busy
        <5> QED BY <1>12, <5>1 DEF SendUncertain, TypeOK
      <4> QED BY <1>12, <4>1 DEF SendUncertain, TypeOK
    <3> QED BY <3>1, <3>2, <3>3, <3>4, <3>5, <3>6, <3>7, <3>8, <3>9, <3>10 DEF TypeOK
  <2>2. AtHand'
    BY <1>12, <2>0 DEF SendUncertain, Left, TypeOK, AtHand, Entries, States, Waiting, Settled, Busy, Stored, In
  <2>3. OneEach'
    BY <1>12, <2>0 DEF SendUncertain, Left, TypeOK, AtHand, OneEach, ClaimHolds, Busy
  <2>4. ClaimHolds'
    BY <1>12, <2>0 DEF SendUncertain, Left, TypeOK, Entries, AtHand, OneEach, ClaimHolds, Fresh, Busy, Stored, In
  <2>5. Fresh'
    BY <1>12, <2>0 DEF SendUncertain, Left, TypeOK, AtHand, Fresh, Busy, Stored, In, Unused
  <2>6. SentOnce'
    <3>1. job[d] \notin robbed => job[d] \in Ids /\ sends[job[d]] = 0 /\ job[d] \notin In("queued")
      BY <1>12 DEF SendUncertain, AtHand, ClaimHolds, SentOnce, Busy
    <3>2. \/ UNCHANGED sends
          \/ \A i \in Ids \ robbed : sends'[i] = IF i = job[d] THEN 1 ELSE sends[i]
      BY <1>12, <3>1 DEF SendUncertain, TypeOK
    <3>3. UNCHANGED <<file, job, robbed>> /\ pc[d] = "sending"
      BY <1>12 DEF SendUncertain
    <3>4. \A i \in Ids : i \notin In("queued")' <=> i \notin In("queued")
      BY <3>3 DEF Stored, In
    <3>5. \A e \in Drains : e # d => pc'[e] = pc[e] /\ next'[e] = next[e]
      BY <2>0 DEF Left, TypeOK
    <3>6. pc'[d] = "idle" \/ (pc'[d] = "writing" /\ next'[d].state = "unknown")
      BY <2>0 DEF Left, TypeOK
    <3> QED BY <3>1, <3>2, <3>3, <3>4, <3>5, <3>6 DEF OneEach, SentOnce, Busy
  <2> QED BY <2>1, <2>2, <2>3, <2>4, <2>5, <2>6
<1>13. ASSUME NEW d \in Drains, SendFails(d) PROVE IInv'
  <2>0. Left(d, {"refused", "queued"})
    <3>1. next[d].attempts \in 0..(MaxAttempts - 1)
      BY <1>13 DEF SendFails, AtHand, Busy, Entries
    <3>2. Left(d, {"refused"}) \/ Left(d, {"queued"})
      BY <1>13, <3>1, Leaves, <1>0, SMTT(40) DEF SendFails, FailBeforeWrite, States, Settled, Waiting
    <3> QED BY <3>2 DEF Left
  <2>1. TypeOK'
    <3>1. (file \in [Ids -> Entries \cup {NoEntry}])'
      BY <1>13, <2>0 DEF SendFails, Left, TypeOK
    <3>2. (claims \subseteq Ids)'
      BY <1>13, <2>0 DEF SendFails, Left, TypeOK
    <3>3. (born \in Seq(Ids))'
      BY <1>13, <2>0 DEF SendFails, Left, TypeOK
    <3>4. (passed \subseteq Ids \X Limits)'
      BY <1>13, <2>0 DEF SendFails, Left, TypeOK
    <3>5. (pc \in [Drains -> {"idle", "sweeping", "settling", "identifying", "picked",
                           "writing", "sending", "sent"}])'
      BY <1>13, <2>0 DEF SendFails, Left, TypeOK
    <3>6. (todo \in [Drains -> SUBSET (Ids \X (Waiting \cup {"claim"}))])'
      BY <1>13, <2>0 DEF SendFails, Left, TypeOK
    <3>7. (job \in [Drains -> Ids \cup {NoId}])'
      BY <1>13, <2>0 DEF SendFails, Left, TypeOK
    <3>8. (next \in [Drains -> Entries \cup {NoEntry}])'
      BY <1>13, <2>0 DEF SendFails, Left, TypeOK
    <3>9. (draft \in [Senders -> Texts \cup {NoEntry}])'
      BY <1>13, <2>0 DEF SendFails, Left, TypeOK
    <3>10. (answered \subseteq Ids /\ sends \in [Ids -> Nat] /\ robbed \subseteq Ids /\ faults \in 0..MaxFaults /\ crashes \in 0..MaxCrashes)'
      BY <1>13, <2>0 DEF SendFails, Left, TypeOK, AtHand, Busy
    <3> QED BY <3>1, <3>2, <3>3, <3>4, <3>5, <3>6, <3>7, <3>8, <3>9, <3>10 DEF TypeOK
  <2>2. AtHand'
    BY <1>13, <2>0 DEF SendFails, Left, TypeOK, AtHand, Entries, States, Waiting, Settled, Busy, Stored, In
  <2>3. OneEach'
    BY <1>13, <2>0 DEF SendFails, Left, TypeOK, AtHand, OneEach, ClaimHolds, Busy
  <2>4. ClaimHolds'
    BY <1>13, <2>0 DEF SendFails, Left, TypeOK, Entries, AtHand, OneEach, ClaimHolds, Fresh, Busy, Stored, In
  <2>5. Fresh'
    BY <1>13, <2>0 DEF SendFails, Left, TypeOK, AtHand, Fresh, Busy, Stored, In, Unused
  <2>6. SentOnce'
    <3>1. job[d] \in Ids \ robbed => sends[job[d]] # 1
      BY <1>13 DEF SendFails, SentOnce, Busy
    <3>3. UNCHANGED <<file, job, sends, robbed>>
      BY <1>13 DEF SendFails
    <3>4. \A i \in Ids : i \notin In("queued")' <=> i \notin In("queued")
      BY <3>3 DEF Stored, In
    <3>5. \A e \in Drains : e # d => pc'[e] = pc[e] /\ next'[e] = next[e]
      BY <2>0 DEF Left, TypeOK
    <3> QED BY <3>1, <3>3, <3>4, <3>5 DEF SentOnce, Busy
  <2> QED BY <2>1, <2>2, <2>3, <2>4, <2>5, <2>6
<1>14. ASSUME NEW d \in Drains, SaveSent(d) PROVE IInv'
  <2>0. Left(d, {"sent_unconfirmed"})
    BY <1>14, Leaves DEF SaveSent, AtHand, Busy, Entries, States, Settled
  <2>1. TypeOK'
    <3>1. (file \in [Ids -> Entries \cup {NoEntry}])'
      BY <1>14, <2>0 DEF SaveSent, Left, TypeOK
    <3>2. (claims \subseteq Ids)'
      BY <1>14, <2>0 DEF SaveSent, Left, TypeOK
    <3>3. (born \in Seq(Ids))'
      BY <1>14, <2>0 DEF SaveSent, Left, TypeOK
    <3>4. (passed \subseteq Ids \X Limits)'
      BY <1>14, <2>0 DEF SaveSent, Left, TypeOK
    <3>5. (pc \in [Drains -> {"idle", "sweeping", "settling", "identifying", "picked",
                           "writing", "sending", "sent"}])'
      BY <1>14, <2>0 DEF SaveSent, Left, TypeOK
    <3>6. (todo \in [Drains -> SUBSET (Ids \X (Waiting \cup {"claim"}))])'
      BY <1>14, <2>0 DEF SaveSent, Left, TypeOK
    <3>7. (job \in [Drains -> Ids \cup {NoId}])'
      BY <1>14, <2>0 DEF SaveSent, Left, TypeOK
    <3>8. (next \in [Drains -> Entries \cup {NoEntry}])'
      BY <1>14, <2>0 DEF SaveSent, Left, TypeOK
    <3>9. (draft \in [Senders -> Texts \cup {NoEntry}])'
      BY <1>14, <2>0 DEF SaveSent, Left, TypeOK
    <3>10. (answered \subseteq Ids /\ sends \in [Ids -> Nat] /\ robbed \subseteq Ids /\ faults \in 0..MaxFaults /\ crashes \in 0..MaxCrashes)'
      BY <1>14, <2>0 DEF SaveSent, Left, TypeOK, AtHand, Busy
    <3> QED BY <3>1, <3>2, <3>3, <3>4, <3>5, <3>6, <3>7, <3>8, <3>9, <3>10 DEF TypeOK
  <2>2. AtHand'
    BY <1>14, <2>0 DEF SaveSent, Left, TypeOK, AtHand, Entries, States, Waiting, Settled, Busy, Stored, In
  <2>3. OneEach'
    BY <1>14, <2>0 DEF SaveSent, Left, TypeOK, AtHand, OneEach, ClaimHolds, Busy
  <2>4. ClaimHolds'
    BY <1>14, <2>0 DEF SaveSent, Left, TypeOK, Entries, AtHand, OneEach, ClaimHolds, Fresh, Busy, Stored, In
  <2>5. Fresh'
    BY <1>14, <2>0 DEF SaveSent, Left, TypeOK, AtHand, Fresh, Busy, Stored, In, Unused
  <2>6. SentOnce'
    <3>1. UNCHANGED <<file, sends, job, robbed>>
      BY <1>14 DEF SaveSent
    <3>2. \A i \in Ids : i \notin In("queued")' <=> i \notin In("queued")
      BY <3>1 DEF Stored, In
    <3>3. \A e \in Drains : e # d => pc'[e] = pc[e] /\ next'[e] = next[e]
      BY <2>0 DEF Left, TypeOK
    <3>4. \/ pc'[d] = "idle"
          \/ pc'[d] = "writing" /\ next'[d].state = "sent_unconfirmed"
      BY <2>0 DEF Left, TypeOK
    <3> QED BY <3>1, <3>2, <3>3, <3>4 DEF SentOnce, Busy
  <2> QED BY <2>1, <2>2, <2>3, <2>4, <2>5, <2>6
<1>15. ASSUME NEW d \in Drains, Crash(d) PROVE IInv'
  <2>1. TypeOK'
    BY <1>15, <1>0 DEF Crash, TypeOK, Entries, States, Waiting, Settled, Limits, AtHand, Busy, Stored
  <2>2. AtHand'
    BY <1>15 DEF Crash, TypeOK, AtHand, Entries, States, Waiting, Settled, Busy, Stored, In
  <2>3. OneEach'
    BY <1>15 DEF Crash, TypeOK, AtHand, OneEach, ClaimHolds, Busy
  <2>4. ClaimHolds'
    BY <1>15 DEF Crash, TypeOK, Entries, AtHand, OneEach, ClaimHolds, Fresh, Busy, Stored, In
  <2>5. Fresh'
    BY <1>15 DEF Crash, TypeOK, AtHand, Fresh, Busy, Stored, In, Unused
  <2>6. SentOnce'
    BY <1>15 DEF Crash, TypeOK, Entries, AtHand, OneEach, ClaimHolds, Fresh, SentOnce, Busy, Stored, In
  <2> QED BY <2>1, <2>2, <2>3, <2>4, <2>5, <2>6
<1>16. ASSUME NEW i \in Ids, Reply(i) PROVE IInv'
  <2>1. TypeOK'
    BY <1>16 DEF Reply, drain, TypeOK, Entries, States, Waiting, Settled, Limits, AtHand, Busy, Stored, In
  <2>2. AtHand'
    BY <1>16 DEF Reply, drain, TypeOK, AtHand, Entries, States, Waiting, Settled, Busy, Stored, In
  <2>3. OneEach'
    BY <1>16 DEF Reply, drain, TypeOK, AtHand, OneEach, ClaimHolds, Busy
  <2>4. ClaimHolds'
    BY <1>16 DEF Reply, drain, TypeOK, Entries, AtHand, OneEach, ClaimHolds, Fresh, Busy, Stored, In
  <2>5. Fresh'
    BY <1>16 DEF Reply, drain, TypeOK, AtHand, Fresh, Busy, Stored, In, Unused
  <2>6. SentOnce'
    BY <1>16 DEF Reply, drain, TypeOK, Entries, AtHand, OneEach, ClaimHolds, Fresh, SentOnce, Busy, Stored, In
  <2> QED BY <2>1, <2>2, <2>3, <2>4, <2>5, <2>6
<1>17. ASSUME NEW i \in Ids, NEW t \in Limits, TimePasses(i, t) PROVE IInv'
  <2>1. TypeOK'
    BY <1>17 DEF TimePasses, drain, Awaiting, TypeOK, Entries, States, Waiting, Settled, Limits, AtHand, Busy, Stored, In
  <2>2. AtHand'
    BY <1>17 DEF TimePasses, drain, Awaiting, TypeOK, AtHand, Entries, States, Waiting, Settled, Busy, Stored, In
  <2>3. OneEach'
    BY <1>17 DEF TimePasses, drain, Awaiting, TypeOK, AtHand, OneEach, ClaimHolds, Busy
  <2>4. ClaimHolds'
    BY <1>17 DEF TimePasses, drain, Awaiting, TypeOK, Entries, AtHand, OneEach, ClaimHolds, Fresh, Busy, Stored, In
  <2>5. Fresh'
    BY <1>17 DEF TimePasses, drain, Awaiting, TypeOK, AtHand, Fresh, Busy, Stored, In, Unused
  <2>6. SentOnce'
    BY <1>17 DEF TimePasses, drain, Awaiting, TypeOK, Entries, AtHand, OneEach, ClaimHolds, Fresh, SentOnce, Busy, Stored, In
  <2> QED BY <2>1, <2>2, <2>3, <2>4, <2>5, <2>6
<1>18. CASE UNCHANGED vars
  BY <1>18 DEF vars, drain, TypeOK, AtHand, OneEach, ClaimHolds, Fresh, SentOnce, Busy, Stored, In, Unused
<1>19. ASSUME NEW d \in Drains, Unclaim(d) PROVE IInv'
  <2>0. UNCHANGED <<file, born, passed, pc, job, next, draft, answered, sends, faults, crashes>>
    BY <1>19 DEF Unclaim
  <2> PICK i \in Ids :
        /\ todo' = [todo EXCEPT ![d] = @ \ {<<i, "claim">>}]
        /\ claims' = claims \ {i}
        /\ robbed' = IF i \in claims /\ <<i, "claim">> \notin passed
                     THEN robbed \cup {i} ELSE robbed
    BY <1>19 DEF Unclaim
  <2>1. TypeOK'
    BY <2>0 DEF TypeOK
  <2>2. AtHand'
    BY <2>0 DEF AtHand, Busy
  <2>3. OneEach'
    BY <2>0 DEF OneEach, Busy
  <2>4. ClaimHolds'
    BY <2>0 DEF ClaimHolds, Busy, Stored, In
  <2>5. Fresh'
    BY <2>0 DEF Fresh, Busy, Stored, Unused
  <2>6. SentOnce'
    BY <2>0 DEF SentOnce, Busy, Stored, In
  <2> QED BY <2>1, <2>2, <2>3, <2>4, <2>5, <2>6
<1> QED BY <1>1, <1>2, <1>3, <1>4, <1>5, <1>6, <1>7, <1>8, <1>9, <1>10, <1>11, <1>12, <1>13, <1>14, <1>15, <1>16, <1>17, <1>18, <1>19
   DEF Next, Tick, Settles, Claims, SendEnds

-----------------------------------------------------------------------------

\* The inductive invariant holds in every reachable state.
THEOREM Invariance == QueueAssumption /\ Spec => []IInv
<1> SUFFICES ASSUME QueueAssumption PROVE Spec => []IInv
  OBVIOUS
<1>1. Init => IInv
  BY InitIInv
<1>2. IInv /\ [Next]_vars => IInv'
  BY NextIInv
<1> QED BY <1>1, <1>2, PTL DEF Spec

\* Every variable keeps its type, whatever the entries, drains and bounds are.
THEOREM TypeCorrect == QueueAssumption /\ Spec => []TypeOK
BY Invariance, PTL DEF IInv

\* However many drains, sweeps and sessions race for an entry, and whatever crashes,
\* fails or is given up, the entry is written to a socket at most once, unless a sweep
\* removed its claim in the place of the stale one that it had found.
THEOREM SentAtMostOnce == QueueAssumption /\ Spec => []AtMostOnce
<1>1. IInv => AtMostOnce
  BY DEF IInv, SentOnce, AtMostOnce
<1> QED BY <1>1, Invariance, PTL

-----------------------------------------------------------------------------
(* One process that drains and one that enqueues. *)

Alone == (\A d, e \in Drains : d = e) /\ (\A s, r \in Senders : s = r)

\* What a drain writes over is what it has read, and it knows whether it was sent.
Sure == \A d \in Drains :
    /\ Busy(d) \/ pc[d] = "settling" =>
         /\ job[d] \in Stored /\ file[job[d]].state \in Waiting
         /\ next[d].text = file[job[d]].text
    /\ pc[d] = "settling" /\ next[d].state = "expired" => file[job[d]].state = "queued"
    /\ pc[d] = "sent" => sends[job[d]] = 1
    /\ pc[d] = "writing" /\ next[d].state = "refused" => sends[job[d]] = 0
    /\ pc[d] = "writing" /\ next[d].state = "sent_unconfirmed" => sends[job[d]] = 1
    /\ pc[d] = "writing" => next[d].state # "expired"

\* The text a sender has read the directory for is not in it, and there is room for it.
Drafted == \A s \in Senders : draft[s] # NoEntry =>
    /\ \A i \in Stored : file[i].text = draft[s] /\ file[i].state \in NoResend => Out(i)
    /\ Cardinality(ActiveNow) < MaxActive
    /\ Cardinality(ActiveNow \cap For(To[draft[s]])) < MaxPerRecipient

\* The claim that a sweep removes is the stale one that it found.
Unrobbed ==
    /\ robbed = {}
    /\ \A d \in Drains :
          /\ todo[d] # {} => pc[d] \in {"sweeping", "settling"}
          /\ \A i \in Ids : <<i, "claim">> \in todo[d] => <<i, "claim">> \in passed

SoloInv == IInv /\ Unrobbed /\ Sure /\ ReceiptsAreTruthful /\ Drafted /\ NoDuplicates /\ LimitsHold

-----------------------------------------------------------------------------

\* No entry comes to a state that it would not be repeated in, or that counts, from one
\* that it would be, and none comes back before its expiry.
Settling ==
    /\ \A i \in Stored' : i \in Stored /\ file'[i].text = file[i].text
         /\ (file'[i].state \in Waiting => file[i].state \in Waiting)
         /\ (file'[i].state \in NoResend => file[i].state \in NoResend)
    /\ \A i \in Ids : Out(i) => Out(i)'

\* Then fewer entries count than before, for each recipient too.
LEMMA FewerCount ==
    ASSUME QueueAssumption, TypeOK, TypeOK', Settling
    PROVE  /\ IsFiniteSet(ActiveNow) /\ Cardinality(ActiveNow') <= Cardinality(ActiveNow)
           /\ \A t : Cardinality(ActiveNow' \cap For(t)') <= Cardinality(ActiveNow \cap For(t))
           /\ \A S : Cardinality(ActiveNow \cap S) \in Nat /\ Cardinality(ActiveNow' \cap S) \in Nat
           /\ Cardinality(ActiveNow) \in Nat /\ Cardinality(ActiveNow') \in Nat
<1>1. ActiveNow \subseteq Ids /\ ActiveNow' \subseteq Ids /\ IsFiniteSet(Ids)
  BY DEF QueueAssumption, ActiveNow, Stored
<1>2. ActiveNow' \subseteq ActiveNow
  BY DEF Settling, ActiveNow, Stored
<1>3. \A t : ActiveNow' \cap For(t)' \subseteq ActiveNow \cap For(t)
  BY <1>2 DEF Settling, ActiveNow, For, Stored
<1>4. IsFiniteSet(ActiveNow) /\ IsFiniteSet(ActiveNow')
  BY <1>1, FS_Subset
<1>5. \A S : IsFiniteSet(ActiveNow \cap S) /\ IsFiniteSet(ActiveNow' \cap S)
  BY <1>4, FS_Subset
<1>6. Cardinality(ActiveNow') <= Cardinality(ActiveNow)
  BY <1>2, <1>4, FS_Subset
<1>7. \A t : Cardinality(ActiveNow' \cap For(t)') <= Cardinality(ActiveNow \cap For(t))
  BY <1>3, <1>5, FS_Subset
<1> QED BY <1>4, <1>5, <1>6, <1>7, FS_CardinalityType

\* So what is said of drafts, duplicates and limits stays true.
LEMMA SettlingKeeps ==
    ASSUME QueueAssumption, TypeOK, TypeOK', Settling, UNCHANGED draft,
           Drafted, NoDuplicates, LimitsHold
    PROVE  Drafted' /\ NoDuplicates' /\ LimitsHold'
<1>1. Drafted'
  <2> SUFFICES ASSUME NEW s \in Senders, draft[s] # NoEntry
               PROVE  /\ \A i \in Stored' : file'[i].text = draft[s] /\ file'[i].state \in NoResend => Out(i)'
                      /\ Cardinality(ActiveNow') < MaxActive
                      /\ Cardinality(ActiveNow' \cap For(To[draft[s]])') < MaxPerRecipient
    BY DEF Drafted
  <2>1. \A i \in Stored' : file'[i].text = draft[s] /\ file'[i].state \in NoResend => Out(i)'
    BY DEF Drafted, Settling, Stored
  <2>2. Cardinality(ActiveNow') < MaxActive
    <3>1. Cardinality(ActiveNow) < MaxActive
      BY DEF Drafted
    <3>2. /\ Cardinality(ActiveNow') <= Cardinality(ActiveNow)
          /\ Cardinality(ActiveNow) \in Nat /\ Cardinality(ActiveNow') \in Nat
      BY FewerCount
    <3> QED BY <3>1, <3>2 DEF QueueAssumption
  <2>3. Cardinality(ActiveNow' \cap For(To[draft[s]])') < MaxPerRecipient
    <3> DEFINE t == To[draft[s]]
    <3>1. Cardinality(ActiveNow \cap For(t)) < MaxPerRecipient
      BY DEF Drafted
    <3>2. /\ Cardinality(ActiveNow' \cap For(t)') <= Cardinality(ActiveNow \cap For(t))
          /\ Cardinality(ActiveNow \cap For(t)) \in Nat /\ Cardinality(ActiveNow' \cap For(t)') \in Nat
      BY FewerCount
    <3> QED BY <3>1, <3>2 DEF QueueAssumption
  <2> QED BY <2>1, <2>2, <2>3
<1>2. NoDuplicates'
  BY DEF NoDuplicates, Settling, Stored
<1>3. LimitsHold'
  <2>1. Cardinality(ActiveNow') <= MaxActive
    BY FewerCount DEF LimitsHold, QueueAssumption
  <2>2. ASSUME NEW t \in Tasks PROVE Cardinality(ActiveNow' \cap For(t)') <= MaxPerRecipient
    <3>1. Cardinality(ActiveNow \cap For(t)) <= MaxPerRecipient
      BY DEF LimitsHold
    <3>2. /\ Cardinality(ActiveNow' \cap For(t)') <= Cardinality(ActiveNow \cap For(t))
          /\ Cardinality(ActiveNow \cap For(t)) \in Nat /\ Cardinality(ActiveNow' \cap For(t)') \in Nat
      BY FewerCount
    <3> QED BY <3>1, <3>2 DEF QueueAssumption
  <2> QED BY <2>1, <2>2 DEF LimitsHold
<1> QED BY <1>1, <1>2, <1>3


\* What transition() writes has the text of what it read.
LEMMA SameText ==
    ASSUME NEW e \in Entries, NEW s \in States, NEW n \in 0..(MaxAttempts - 1)
    PROVE  /\ [e EXCEPT !.state = s].text = e.text
           /\ [e EXCEPT !.state = s, !.attempts = n].text = e.text
BY DEF Entries

\* A tick that reads, and a crash, leave the files and the expiries alone.
LEMMA LeaveAlone ==
    ASSUME TypeOK, UNCHANGED file, \A i \in Ids : Out(i) => Out(i)'
    PROVE  Settling
BY DEF Settling, Stored

LEMMA SweepSettles ==
    ASSUME QueueAssumption, Alone, SoloInv, NEW d \in Drains, Sweep(d)
    PROVE  Sure' /\ ReceiptsAreTruthful' /\ Settling /\ UNCHANGED draft
<1>1. Sure'
  <2>1. pc'[d] = "sweeping" /\ \A e \in Drains : e = d
    BY DEF Sweep, Alone, SoloInv, IInv, TypeOK
  <2> QED BY <2>1 DEF Sure, Busy
<1>2. ReceiptsAreTruthful'
  BY DEF Sweep, ReceiptsAreTruthful, SoloInv, IInv, TypeOK, Stored
<1>3. Settling
  BY DEF Sweep, Settling, Stored, Out, SoloInv, IInv, TypeOK
<1> QED BY <1>1, <1>2, <1>3 DEF Sweep

LEMMA UnclaimSettles ==
    ASSUME SoloInv, NEW d \in Drains, Unclaim(d)
    PROVE  Sure' /\ ReceiptsAreTruthful' /\ Settling /\ UNCHANGED draft
<1>1. UNCHANGED <<file, passed, pc, job, next, sends, draft>>
  BY DEF Unclaim
<1>2. Sure' /\ ReceiptsAreTruthful'
  BY <1>1 DEF SoloInv, Sure, ReceiptsAreTruthful, Busy, Stored
<1> QED BY <1>1, <1>2, LeaveAlone DEF SoloInv, IInv, Out

LEMMA SweepReadSettles ==
    ASSUME QueueAssumption, Alone, SoloInv, NEW d \in Drains, SweepRead(d)
    PROVE  Sure' /\ ReceiptsAreTruthful' /\ Settling /\ UNCHANGED draft
<1>1. PICK x \in todo[d] :
        /\ x[2] \in Waiting
        /\ IF x[1] \in In(x[2])
           THEN /\ next' = [next EXCEPT ![d] =
                      [file[x[1]] EXCEPT !.state = IF x[2] = "queued" THEN "expired" ELSE "unknown"]]
                /\ job' = [job EXCEPT ![d] = x[1]]
                /\ pc' = [pc EXCEPT ![d] = "settling"]
           ELSE UNCHANGED <<next, job, pc>>
  BY DEF SweepRead
<1>2. Sure'
  <2>1. CASE x[1] \in In(x[2])
    <3> DEFINE n == [file[x[1]] EXCEPT !.state = IF x[2] = "queued" THEN "expired" ELSE "unknown"]
    <3>1. /\ x[1] \in Stored /\ x[1] \in Ids /\ file[x[1]] \in Entries /\ file[x[1]].state = x[2]
          /\ x[2] \in Waiting
      BY <1>1, <2>1, InState DEF In, SoloInv, IInv
    <3>2. n.text = file[x[1]].text /\ (n.state = "expired" => x[2] = "queued")
      <4>1. \A s \in States : [file[x[1]] EXCEPT !.state = s].text = file[x[1]].text
                              /\ [file[x[1]] EXCEPT !.state = s].state = s
        BY <3>1 DEF Entries
      <4> QED BY <4>1 DEF States, Settled
    <3>3. /\ pc'[d] = "settling" /\ job'[d] = x[1] /\ next'[d] = n
          /\ UNCHANGED <<file, sends>> /\ \A e \in Drains : e = d
      BY <1>1, <2>1 DEF SweepRead, Alone, SoloInv, IInv, TypeOK
    <3> HIDE DEF n
    <3> QED BY <3>1, <3>2, <3>3 DEF Sure, Busy, Stored
  <2>2. CASE x[1] \notin In(x[2])
    BY <1>1, <2>2 DEF SweepRead, SoloInv, Sure, Busy, Stored
  <2> QED BY <2>1, <2>2
<1>3. ReceiptsAreTruthful' /\ Settling
  BY LeaveAlone DEF SweepRead, SoloInv, IInv, ReceiptsAreTruthful, Stored, Out
<1> QED BY <1>2, <1>3 DEF SweepRead

\* An entry that is written over one that waits, with the same text.
LEMMA OverSettles ==
    ASSUME TypeOK, NEW d \in Drains, job[d] \in Stored, file[job[d]].state \in Waiting,
           next[d].text = file[job[d]].text, file' = [file EXCEPT ![job[d]] = next[d]],
           \A i \in Ids : Out(i) => Out(i)'
    PROVE  Settling
BY DEF Settling, Stored, NoResend, TypeOK

LEMMA SweepWriteSettles ==
    ASSUME QueueAssumption, Alone, SoloInv, NEW d \in Drains, SweepWrite(d)
    PROVE  Sure' /\ ReceiptsAreTruthful' /\ Settling /\ UNCHANGED draft
<1>1. \A i \in Ids : Out(i) => Out(i)'
  BY DEF SweepWrite, Out, Touched
<1>2. Sure'
  <2>1. pc'[d] \in {"sweeping", "idle"} /\ \A e \in Drains : e = d
    BY DEF SweepWrite, Alone, SoloInv, IInv, TypeOK
  <2> QED BY <2>1 DEF Sure, Busy
<1>3. CASE UNCHANGED file
  BY <1>1, <1>2, <1>3, LeaveAlone
  DEF SweepWrite, SoloInv, IInv, ReceiptsAreTruthful, Stored
<1>4. CASE file' = [file EXCEPT ![job[d]] = next[d]]
  <2>1. /\ job[d] \in Stored /\ file[job[d]].state \in Waiting /\ next[d].text = file[job[d]].text
        /\ next[d].state \in {"expired", "unknown"}
        /\ next[d].state = "expired" => file[job[d]].state = "queued"
    BY DEF SweepWrite, SoloInv, IInv, AtHand, Sure
  <2>2. Settling
    BY <1>1, <1>4, <2>1, OverSettles DEF SoloInv, IInv
  <2>3. next[d].state = "expired" => sends[job[d]] = 0
    BY <2>1 DEF SoloInv, ReceiptsAreTruthful
  <2>4. ReceiptsAreTruthful'
    <3>1. UNCHANGED sends
      BY DEF SweepWrite
    <3>2. file \in [Ids -> Entries \cup {NoEntry}]
      BY DEF SoloInv, IInv, TypeOK
    <3> QED BY <1>4, <2>1, <2>3, <3>1, <3>2 DEF SoloInv, ReceiptsAreTruthful, Stored
  <2> QED BY <1>2, <2>2, <2>4 DEF SweepWrite
<1> QED BY <1>3, <1>4 DEF SweepWrite

LEMMA LookSettles ==
    ASSUME QueueAssumption, Alone, SoloInv, NEW d \in Drains,
           Look(d) \/ Identify(d) \/ NoClaim(d) \/ Crash(d)
    PROVE  Sure' /\ ReceiptsAreTruthful' /\ Settling /\ UNCHANGED draft
<1>1. UNCHANGED <<file, passed, sends, draft>>
  BY DEF Look, Identify, NoClaim, Crash
<1>2. pc'[d] \in {"identifying", "idle", "picked"} /\ \A e \in Drains : e = d
  BY DEF Look, Identify, NoClaim, Crash, Alone, SoloInv, IInv, TypeOK
<1>3. Sure'
  BY <1>2 DEF Sure, Busy
<1> QED BY <1>1, <1>3, LeaveAlone DEF SoloInv, IInv, ReceiptsAreTruthful, Stored, Out

LEMMA ClaimSettles ==
    ASSUME QueueAssumption, Alone, SoloInv, NEW d \in Drains, Claim(d)
    PROVE  Sure' /\ ReceiptsAreTruthful' /\ Settling /\ UNCHANGED draft
<1>1. UNCHANGED <<file, sends, draft, job>> /\ \A i \in Ids : Out(i) => Out(i)'
  BY DEF Claim, Out
<1>2. /\ job[d] \in Stored /\ job[d] \in Ids /\ file[job[d]] \in Entries
      /\ file[job[d]].state = "queued" /\ sends[job[d]] = 0
  BY InState DEF Claim, StillQueued, In, SoloInv, IInv, ReceiptsAreTruthful
<1>3. PICK s \in {"dispatching", "refused"} :
        next' = [next EXCEPT ![d] = [file[job[d]] EXCEPT !.state = s]]
  BY DEF Claim
<1>4. /\ [file[job[d]] EXCEPT !.state = s].text = file[job[d]].text
      /\ [file[job[d]] EXCEPT !.state = s].state = s
  BY <1>2 DEF Entries
<1>5. /\ next'[d] = [file[job[d]] EXCEPT !.state = s] /\ pc'[d] = "writing"
      /\ \A e \in Drains : e = d
  BY <1>3 DEF Claim, Alone, SoloInv, IInv, TypeOK
<1>6. Sure'
  BY <1>1, <1>2, <1>4, <1>5 DEF Sure, Busy, Stored, Waiting
<1> QED BY <1>1, <1>6, LeaveAlone DEF SoloInv, IInv, ReceiptsAreTruthful, Stored

LEMMA WriteStateSettles ==
    ASSUME QueueAssumption, Alone, SoloInv, NEW d \in Drains, WriteState(d)
    PROVE  Sure' /\ ReceiptsAreTruthful' /\ Settling /\ UNCHANGED draft
<1>1. \A i \in Ids : Out(i) => Out(i)'
  BY DEF WriteState, Out, Touched
<1>2. /\ job[d] \in Stored /\ job[d] \in Ids /\ file[job[d]].state \in Waiting
      /\ next[d].text = file[job[d]].text /\ next[d] \in Entries
      /\ UNCHANGED <<job, next, sends, draft>> /\ \A e \in Drains : e = d
  BY DEF WriteState, SoloInv, IInv, AtHand, Sure, Busy, Alone
<1>3. CASE UNCHANGED file /\ pc' = [pc EXCEPT ![d] = "idle"]
  <2>1. pc'[d] = "idle"
    BY <1>3 DEF SoloInv, IInv, TypeOK
  <2>2. Sure'
    BY <1>2, <2>1 DEF Sure, Busy
  <2> QED BY <1>1, <1>2, <1>3, <2>2, LeaveAlone DEF SoloInv, IInv, ReceiptsAreTruthful, Stored
<1>4. CASE /\ file' = [file EXCEPT ![job[d]] = next[d]]
           /\ IF next[d].state = "dispatching" THEN pc' = [pc EXCEPT ![d] = "sending"]
              ELSE pc' = [pc EXCEPT ![d] = "idle"]
  <2>1. Settling
    BY <1>1, <1>2, <1>4, OverSettles DEF SoloInv, IInv
  <2>2. file'[job[d]] = next[d] /\ job[d] \in Stored'
    BY <1>2, <1>4 DEF SoloInv, IInv, TypeOK, QueueAssumption, Stored
  <2>3. Sure'
    <3>1. CASE next[d].state = "dispatching"
      <4>1. pc'[d] = "sending"
        BY <1>4, <3>1 DEF SoloInv, IInv, TypeOK
      <4> QED BY <1>2, <2>2, <3>1, <4>1 DEF Sure, Busy, Waiting
    <3>2. CASE next[d].state # "dispatching"
      <4>1. pc'[d] = "idle"
        BY <1>4, <3>2 DEF SoloInv, IInv, TypeOK
      <4> QED BY <1>2, <4>1 DEF Sure, Busy
    <3> QED BY <3>1, <3>2
  <2>4. ReceiptsAreTruthful'
    <3>1. /\ next[d].state \in {"queued", "refused", "expired"} => sends[job[d]] = 0
          /\ next[d].state = "sent_unconfirmed" => sends[job[d]] = 1
      BY <1>2 DEF WriteState, SoloInv, Unrobbed, Sure, IInv, SentOnce, Busy
    <3>2. file \in [Ids -> Entries \cup {NoEntry}]
      BY DEF SoloInv, IInv, TypeOK
    <3> QED BY <1>2, <1>4, <3>1, <3>2 DEF SoloInv, ReceiptsAreTruthful, Stored
  <2> QED BY <1>2, <2>1, <2>3, <2>4
<1> QED BY <1>3, <1>4 DEF WriteState

\* The end of a dispatch: the next state is written over "dispatching", or the tick ends.
LEMMA LeaveSettles ==
    ASSUME QueueAssumption, Alone, SoloInv, NEW d \in Drains, NEW s \in States,
           NEW n \in 0..(MaxAttempts - 1), Leave(d, s, n), s # "expired",
           s = "refused" => sends'[job[d]] = 0, s = "sent_unconfirmed" => sends'[job[d]] = 1,
           UNCHANGED <<file, job>>
    PROVE  Sure'
<1>1. CASE StillDispatching(job[d])
  <2> DEFINE x == [file[job[d]] EXCEPT !.state = s, !.attempts = n]
  <2>1. file[job[d]] \in Entries /\ file[job[d]].state = "dispatching" /\ job[d] \in Stored
    BY <1>1, InState DEF StillDispatching, In, SoloInv, IInv
  <2>2. x.text = file[job[d]].text /\ x.state = s
    BY <2>1 DEF Entries
  <2>3. next'[d] = x /\ pc'[d] = "writing" /\ \A e \in Drains : e = d
    BY <1>1 DEF Leave, Alone, SoloInv, IInv, TypeOK
  <2> HIDE DEF x
  <2> QED BY <2>1, <2>2, <2>3 DEF Sure, Busy, Stored, Waiting
<1>2. CASE ~StillDispatching(job[d])
  <2>1. pc'[d] = "idle" /\ \A e \in Drains : e = d
    BY <1>2 DEF Leave, Alone, SoloInv, IInv, TypeOK
  <2> QED BY <2>1 DEF Sure, Busy
<1> QED BY <1>1, <1>2

LEMMA DispatchSettles ==
    ASSUME QueueAssumption, Alone, SoloInv, NEW d \in Drains, SendEnds(d) \/ SaveSent(d)
    PROVE  Sure' /\ ReceiptsAreTruthful' /\ Settling /\ UNCHANGED draft
<1>1. UNCHANGED <<file, job, passed, draft>>
  BY DEF SendEnds, Send, SendUncertain, SendFails, SaveSent
<1>2. pc[d] \in {"sending", "sent"} /\ job[d] \in Stored /\ job[d] \in Ids
      /\ file[job[d]].state \in Waiting /\ next[d].attempts \in 0..(MaxAttempts - 1)
  BY DEF SendEnds, Send, SendUncertain, SendFails, SaveSent, SoloInv, Sure, IInv, AtHand, Busy, Entries
<1>3. sends[job[d]] = IF pc[d] = "sent" THEN 1 ELSE 0
  BY <1>2 DEF SoloInv, Unrobbed, Sure, IInv, SentOnce, Busy
<1>4. \A i \in Ids : i # job[d] => sends'[i] = sends[i]
  BY DEF SendEnds, Send, SendUncertain, SendFails, SaveSent, SoloInv, IInv, TypeOK
<1>5. job[d] \notin In("queued")
  <2>1. pc[d] # "writing"
    BY <1>2
  <2> QED BY <1>2, <2>1 DEF SoloInv, Unrobbed, IInv, ClaimHolds, Busy
<1>6. ReceiptsAreTruthful'
  <2>1. file[job[d]].state = "dispatching"
    BY <1>2, <1>5 DEF In, Waiting
  <2> QED BY <1>1, <1>4, <2>1 DEF SoloInv, ReceiptsAreTruthful, Stored
<1>7. Sure'
  <2>1. CASE Send(d)
    <3>1. pc'[d] = "sent" /\ sends'[job[d]] = 1 /\ UNCHANGED next /\ \A e \in Drains : e = d
      BY <1>2, <1>3, <2>1 DEF Send, Alone, SoloInv, IInv, TypeOK
    <3>2. next[d].text = file[job[d]].text
      BY <1>2 DEF SoloInv, Sure, Busy
    <3> QED BY <1>1, <1>2, <3>1, <3>2 DEF Sure, Busy, Stored
  <2>2. CASE SendUncertain(d)
    <3>1. Leave(d, "unknown", next[d].attempts)
      BY <2>2 DEF SendUncertain, UncertainState
    <3> QED BY <1>1, <1>2, <3>1, LeaveSettles DEF States, Settled
  <2>3. CASE SendFails(d)
    <3>1. sends'[job[d]] = 0
      BY <1>3, <2>3 DEF SendFails
    <3>2. PICK s \in {"refused", "queued"}, n \in 0..(MaxAttempts - 1) : Leave(d, s, n)
      BY <1>2, <2>3 DEF SendFails, FailBeforeWrite, QueueAssumption
    <3> QED BY <1>1, <3>1, <3>2, LeaveSettles DEF States, Settled, Waiting
  <2>4. CASE SaveSent(d)
    <3>1. Leave(d, "sent_unconfirmed", next[d].attempts) /\ sends'[job[d]] = 1
      BY <1>3, <2>4 DEF SaveSent
    <3> QED BY <1>1, <1>2, <3>1, LeaveSettles DEF States, Settled
  <2> QED BY <2>1, <2>2, <2>3, <2>4 DEF SendEnds
<1> QED BY <1>1, <1>6, <1>7, LeaveAlone DEF SoloInv, IInv, Out

LEMMA OthersSettle ==
    ASSUME SoloInv, (\E i \in Ids : Reply(i)) \/ (\E i \in Ids, t \in Limits : TimePasses(i, t))
    PROVE  Sure' /\ ReceiptsAreTruthful' /\ Settling /\ UNCHANGED draft
<1>1. UNCHANGED <<file, pc, job, next, sends, draft>> /\ passed \subseteq passed'
  BY DEF Reply, TimePasses, drain
<1>2. Sure' /\ ReceiptsAreTruthful'
  BY <1>1 DEF SoloInv, Sure, ReceiptsAreTruthful, Busy, Stored
<1> QED BY <1>1, <1>2, LeaveAlone DEF SoloInv, IInv, Out

-----------------------------------------------------------------------------

\* A sender has found neither a duplicate of its text nor a limit.
LEMMA EnqueueKeeps ==
    ASSUME QueueAssumption, Alone, SoloInv, IInv', Unrobbed', NEW s \in Senders, NEW t \in Texts, Enqueue(s, t)
    PROVE  SoloInv'
<1>1. UNCHANGED <<file, passed, pc, job, next, sends>>
  BY DEF Enqueue, drain
<1>2. Sure' /\ ReceiptsAreTruthful'
  BY <1>1 DEF SoloInv, Sure, ReceiptsAreTruthful, Busy, Stored
<1>3. /\ ActiveNow' = ActiveNow /\ \A u : For(u)' = For(u)
      /\ \A i : Out(i)' = Out(i)
  BY <1>1 DEF ActiveNow, For, Stored, Out
<1>4. NoDuplicates' /\ LimitsHold'
  <2>1. NoDuplicates'
    BY <1>1, <1>3 DEF SoloInv, NoDuplicates, Stored
  <2> QED BY <1>3, <2>1 DEF SoloInv, LimitsHold
<1>5. draft'[s] = t /\ \A r \in Senders : r = s
  BY DEF Enqueue, Alone, SoloInv, IInv, TypeOK
<1>6. \A i \in Stored : file[i].text = t /\ file[i].state \in NoResend => Out(i)
  BY DEF Enqueue, IsNew, Repeats
<1>7. /\ Cardinality(ActiveNow) < MaxActive
      /\ Cardinality(ActiveNow \cap For(To[t])) < MaxPerRecipient
  BY DEF Enqueue, Room
<1>8. Drafted'
  BY <1>1, <1>3, <1>5, <1>6, <1>7 DEF Drafted, Stored
<1> QED BY <1>2, <1>4, <1>8 DEF SoloInv

\* One more element makes a set larger by one at most.
LEMMA OneMore ==
    ASSUME NEW S, IsFiniteSet(S), NEW x
    PROVE  /\ IsFiniteSet(S \cup {x}) /\ Cardinality(S \cup {x}) <= Cardinality(S) + 1
           /\ Cardinality(S) \in Nat /\ Cardinality(S \cup {x}) \in Nat
<1>1. /\ IsFiniteSet(S \cup {x})
      /\ Cardinality(S \cup {x}) = IF x \in S THEN Cardinality(S) ELSE Cardinality(S) + 1
  BY FS_AddElement
<1>2. Cardinality(S) \in Nat /\ Cardinality(S \cup {x}) \in Nat
  BY <1>1, FS_CardinalityType
<1> QED BY <1>1, <1>2

\* The entry it writes is the only one of its text, and within the limits.
LEMMA WriteEntryKeeps ==
    ASSUME QueueAssumption, Alone, SoloInv, IInv', Unrobbed', NEW s \in Senders, WriteEntry(s)
    PROVE  SoloInv'
<1>1. UNCHANGED <<passed, pc, job, next, sends>> /\ draft'[s] = NoEntry /\ \A r \in Senders : r = s
  BY DEF WriteEntry, drain, Alone, SoloInv, IInv, TypeOK
<1>2. Drafted'
  BY <1>1 DEF Drafted
<1>3. CASE UNCHANGED file
  <2>1. /\ ActiveNow' = ActiveNow /\ \A u : For(u)' = For(u)
        /\ \A i : Out(i)' = Out(i)
    BY <1>1, <1>3 DEF ActiveNow, For, Stored, Out
  <2>2. Sure' /\ ReceiptsAreTruthful'
    BY <1>1, <1>3 DEF SoloInv, Sure, ReceiptsAreTruthful, Busy, Stored
  <2>3. NoDuplicates'
    BY <1>3, <2>1 DEF SoloInv, NoDuplicates, Stored
  <2> QED BY <1>2, <2>1, <2>2, <2>3 DEF SoloInv, LimitsHold
<1>4. ASSUME NEW i \in Unused,
             file' = [file EXCEPT ![i] = [text |-> draft[s], state |-> "queued", attempts |-> 0]]
      PROVE  SoloInv'
  <2> DEFINE entry == [text |-> draft[s], state |-> "queued", attempts |-> 0]
  <2>1. i \in Ids /\ i \notin Stored /\ sends[i] = 0
        /\ \A d \in Drains : Busy(d) \/ pc[d] = "settling" => job[d] # i
    BY DEF Unused, SoloInv, IInv, Fresh
  <2>2. file \in [Ids -> Entries \cup {NoEntry}] /\ entry # NoEntry
    <3>1. draft[s] \in Texts
      BY DEF WriteEntry, SoloInv, IInv, TypeOK
    <3>2. entry \in Entries
      BY <3>1 DEF Entries, States, Waiting, QueueAssumption
    <3> QED BY <3>2 DEF SoloInv, IInv, TypeOK, QueueAssumption
  <2>3. /\ file'[i] = entry /\ Stored' = Stored \cup {i}
        /\ \A j \in Ids : j # i => file'[j] = file[j]
    BY <1>4, <2>1, <2>2 DEF Stored
  <2>4. Sure'
    BY <1>1, <2>1, <2>3 DEF SoloInv, Sure, Busy, Stored
  <2>5. ReceiptsAreTruthful'
    BY <1>1, <2>1, <2>3 DEF SoloInv, ReceiptsAreTruthful, Stored
  <2>6. /\ \A j \in Stored : file[j].text = draft[s] /\ file[j].state \in NoResend => Out(j)
        /\ Cardinality(ActiveNow) < MaxActive
        /\ Cardinality(ActiveNow \cap For(To[draft[s]])) < MaxPerRecipient
    BY DEF WriteEntry, SoloInv, Drafted
  <2>7. \A j : Out(j)' = Out(j)
    BY <1>1 DEF Out
  <2>8. NoDuplicates'
    BY <2>3, <2>6, <2>7 DEF SoloInv, NoDuplicates, Stored
  <2>9. LimitsHold'
    <3>1. IsFiniteSet(ActiveNow) /\ ActiveNow \subseteq Ids
      BY FS_Subset DEF QueueAssumption, ActiveNow, Stored
    <3>2. ActiveNow' \subseteq ActiveNow \cup {i}
      BY <2>3, <2>7 DEF ActiveNow, Stored
    <3>3. \A t : For(t)' \subseteq IF t = To[draft[s]] THEN For(t) \cup {i} ELSE For(t)
      BY <2>3 DEF For, Stored
    <3>4. Cardinality(ActiveNow') <= MaxActive
      <4>1. /\ IsFiniteSet(ActiveNow \cup {i}) /\ Cardinality(ActiveNow) \in Nat
            /\ Cardinality(ActiveNow \cup {i}) <= Cardinality(ActiveNow) + 1
            /\ Cardinality(ActiveNow \cup {i}) \in Nat
        BY <3>1, OneMore
      <4>2. Cardinality(ActiveNow') <= Cardinality(ActiveNow \cup {i}) /\ Cardinality(ActiveNow') \in Nat
        BY <3>2, <4>1, FS_Subset, FS_CardinalityType
      <4> QED BY <2>6, <4>1, <4>2 DEF QueueAssumption
    <3>5. ASSUME NEW t \in Tasks PROVE Cardinality(ActiveNow' \cap For(t)') <= MaxPerRecipient
      <4> DEFINE A == ActiveNow \cap For(t)
      <4>1. IsFiniteSet(A) /\ Cardinality(A) \in Nat
        BY <3>1, FS_Subset, FS_CardinalityType
      <4>2. CASE t = To[draft[s]]
        <5>1. /\ IsFiniteSet(A \cup {i}) /\ Cardinality(A \cup {i}) <= Cardinality(A) + 1
              /\ Cardinality(A \cup {i}) \in Nat
          BY <4>1, OneMore
        <5>2. ActiveNow' \cap For(t)' \subseteq A \cup {i}
          BY <3>2, <3>3, <4>2
        <5>3. /\ Cardinality(ActiveNow' \cap For(t)') <= Cardinality(A \cup {i})
              /\ Cardinality(ActiveNow' \cap For(t)') \in Nat
          BY <5>1, <5>2, FS_Subset, FS_CardinalityType
        <5>4. Cardinality(A) < MaxPerRecipient
          BY <2>6, <4>2
        <5> HIDE DEF A
        <5> QED BY <4>1, <5>1, <5>3, <5>4 DEF QueueAssumption
      <4>3. CASE t # To[draft[s]]
        <5>1. i \notin For(t)
          BY <2>1 DEF For
        <5>2. ActiveNow' \cap For(t)' \subseteq A
          BY <3>2, <3>3, <4>3, <5>1
        <5>3. /\ Cardinality(ActiveNow' \cap For(t)') <= Cardinality(A)
              /\ Cardinality(ActiveNow' \cap For(t)') \in Nat
          BY <4>1, <5>2, FS_Subset, FS_CardinalityType
        <5>4. Cardinality(A) <= MaxPerRecipient
          BY DEF SoloInv, LimitsHold
        <5> HIDE DEF A
        <5> QED BY <4>1, <5>3, <5>4 DEF QueueAssumption
      <4> QED BY <4>2, <4>3
    <3> QED BY <3>4, <3>5 DEF LimitsHold
  <2> QED BY <1>2, <2>4, <2>5, <2>8, <2>9 DEF SoloInv
<1> QED BY <1>3, <1>4 DEF WriteEntry

-----------------------------------------------------------------------------

LEMMA SoloInitHolds == QueueAssumption /\ Init => SoloInv
<1> SUFFICES ASSUME QueueAssumption, Init PROVE SoloInv
  OBVIOUS
<1>1. IInv /\ Unrobbed
  BY InitIInv DEF Init, Unrobbed
<1>2. Stored = {} /\ ActiveNow = {}
  BY DEF Init, Stored, ActiveNow
<1>3. \A t : ActiveNow \cap For(t) = {}
  BY <1>2
<1>4. Sure /\ Drafted
  BY DEF Init, Sure, Drafted, Busy
<1>5. ReceiptsAreTruthful /\ NoDuplicates
  BY <1>2 DEF ReceiptsAreTruthful, NoDuplicates
<1>6. LimitsHold
  BY <1>2, <1>3, FS_EmptySet DEF LimitsHold, QueueAssumption
<1> QED BY <1>1, <1>4, <1>5, <1>6 DEF SoloInv

\* With one drain nobody is between a sweep's look at a claim and its removal.
LEMMA UnrobbedKeeps ==
    ASSUME QueueAssumption, Alone, TypeOK, Unrobbed, [Next]_vars
    PROVE  Unrobbed'
<1>1. CASE UNCHANGED <<robbed, todo, pc>> /\ (\A i \in Ids : <<i, "claim">> \in passed => <<i, "claim">> \in passed')
  BY <1>1 DEF Unrobbed
<1>2. ASSUME NEW d \in Drains, UNCHANGED robbed, todo[d] = {}, UNCHANGED todo PROVE Unrobbed'
  BY <1>2 DEF Unrobbed, Alone
<1>3. ASSUME NEW s \in Senders, NEW t \in Texts, Enqueue(s, t) PROVE Unrobbed'
  BY <1>1, <1>3 DEF Enqueue, drain
<1>4. ASSUME NEW s \in Senders, WriteEntry(s) PROVE Unrobbed'
  BY <1>1, <1>4 DEF WriteEntry, drain
<1>5. ASSUME NEW d \in Drains, Sweep(d) PROVE Unrobbed'
  <2>1. /\ UNCHANGED <<robbed, passed>> /\ pc'[d] = "sweeping"
        /\ todo'[d] = Due \cup (StaleClaims \X {"claim"}) /\ \A e \in Drains : e = d
    BY <1>5 DEF Sweep, TypeOK, Alone
  <2>2. \A i \in Ids : <<i, "claim">> \in Due \cup (StaleClaims \X {"claim"}) => <<i, "claim">> \in passed
    BY DEF Due, StaleClaims, Waiting
  <2> QED BY <2>1, <2>2 DEF Unrobbed
<1>6. ASSUME NEW d \in Drains, SweepRead(d) PROVE Unrobbed'
  <2>1. /\ UNCHANGED <<robbed, passed>> /\ pc'[d] \in {"sweeping", "settling"}
        /\ todo'[d] \subseteq todo[d] /\ \A e \in Drains : e = d
    BY <1>6 DEF SweepRead, TypeOK, Alone
  <2> QED BY <2>1 DEF Unrobbed
<1>7. ASSUME NEW d \in Drains, Unclaim(d) PROVE Unrobbed'
  <2>1. /\ UNCHANGED <<passed, pc>> /\ pc[d] = "sweeping"
        /\ todo'[d] \subseteq todo[d] /\ \A e \in Drains : e = d
    BY <1>7 DEF Unclaim, TypeOK, Alone
  <2>2. UNCHANGED robbed
    BY <1>7 DEF Unclaim, Unrobbed
  <2> QED BY <2>1, <2>2 DEF Unrobbed
<1>8. ASSUME NEW d \in Drains, SweepWrite(d) PROVE Unrobbed'
  <2>1. /\ UNCHANGED robbed /\ (pc'[d] = "sweeping" \/ todo'[d] = {})
        /\ todo'[d] \subseteq todo[d] /\ \A e \in Drains : e = d
    BY <1>8 DEF SweepWrite, TypeOK, Alone
  <2>2. \A i \in Ids : <<i, "claim">> \in passed => <<i, "claim">> \in passed'
    BY <1>8 DEF SweepWrite, Touched
  <2> QED BY <2>1, <2>2 DEF Unrobbed
<1>9. ASSUME NEW d \in Drains, Crash(d) PROVE Unrobbed'
  <2>1. UNCHANGED robbed /\ todo'[d] = {} /\ \A e \in Drains : e = d
    BY <1>9 DEF Crash, TypeOK, Alone
  <2> QED BY <2>1 DEF Unrobbed
<1>10. ASSUME NEW d \in Drains, Look(d) \/ Identify(d) \/ Claims(d) \/ WriteState(d) \/ SendEnds(d) \/ SaveSent(d)
       PROVE  Unrobbed'
  <2>1. UNCHANGED <<robbed, todo>>
    BY <1>10 DEF Look, Identify, Claims, Claim, NoClaim, WriteState, SendEnds, Send, SendUncertain, SendFails, SaveSent
  <2>2. todo[d] = {}
    BY <1>10 DEF Look, Identify, Claims, Claim, NoClaim, WriteState, SendEnds, Send, SendUncertain, SendFails, SaveSent,
       Unrobbed
  <2> QED BY <1>2, <2>1, <2>2
<1>11. ASSUME NEW i \in Ids, Reply(i) PROVE Unrobbed'
  BY <1>1, <1>11 DEF Reply, drain
<1>12. ASSUME NEW i \in Ids, NEW t \in Limits, TimePasses(i, t) PROVE Unrobbed'
  BY <1>1, <1>12 DEF TimePasses, drain
<1>13. CASE UNCHANGED vars
  BY <1>1, <1>13 DEF vars, drain
<1> QED BY <1>3, <1>4, <1>5, <1>6, <1>7, <1>8, <1>9, <1>10, <1>11, <1>12, <1>13 DEF Next, Tick, Settles

LEMMA SoloNext == QueueAssumption /\ Alone /\ SoloInv /\ [Next]_vars => SoloInv'
<1> SUFFICES ASSUME QueueAssumption, Alone, SoloInv, [Next]_vars PROVE SoloInv'
  OBVIOUS
<1>1. IInv' /\ Unrobbed'
  BY NextIInv, UnrobbedKeeps DEF SoloInv, IInv
<1>2. ASSUME Sure' /\ ReceiptsAreTruthful' /\ Settling /\ UNCHANGED draft PROVE SoloInv'
  BY <1>1, <1>2, SettlingKeeps DEF SoloInv, IInv
<1>3. CASE \E s \in Senders, t \in Texts : Enqueue(s, t)
  BY <1>1, <1>3, EnqueueKeeps
<1>4. CASE \E s \in Senders : WriteEntry(s)
  BY <1>1, <1>4, WriteEntryKeeps
<1>5. CASE \E d \in Drains : Tick(d) \/ Crash(d)
  BY <1>2, <1>5, SweepSettles, SweepReadSettles, UnclaimSettles, SweepWriteSettles, LookSettles, ClaimSettles,
     WriteStateSettles, DispatchSettles
  DEF Tick, Settles, Claims
<1>6. CASE (\E i \in Ids : Reply(i)) \/ (\E i \in Ids, t \in Limits : TimePasses(i, t))
  BY <1>2, <1>6, OthersSettle
<1>7. CASE UNCHANGED vars
  <2>1. UNCHANGED <<file, passed, pc, job, next, sends, draft>>
    BY <1>7 DEF vars, drain
  <2>2. Sure' /\ ReceiptsAreTruthful'
    BY <2>1 DEF SoloInv, Sure, ReceiptsAreTruthful, Busy, Stored
  <2> QED BY <1>2, <2>1, <2>2, LeaveAlone DEF SoloInv, IInv, Out
<1> QED BY <1>3, <1>4, <1>5, <1>6, <1>7 DEF Next

THEOREM SoloInvariance == QueueAssumption /\ Alone /\ Spec => []SoloInv
<1> SUFFICES ASSUME QueueAssumption, Alone PROVE Spec => []SoloInv
  OBVIOUS
<1>1. Init => SoloInv
  BY SoloInitHolds
<1>2. SoloInv /\ [Next]_vars => SoloInv'
  BY SoloNext
<1> QED BY <1>1, <1>2, PTL DEF Spec

\* Where one process drains the queue and one enqueues, whatever the entries, limits,
\* crashes and failed writes are, receipts tell the truth, no text that may still be
\* delivered has two entries, and the limits hold.
THEOREM ReceiptsTellTheTruth == QueueAssumption /\ Alone /\ Spec => []ReceiptsAreTruthful
BY SoloInvariance, PTL DEF SoloInv

THEOREM QueuedOnce == QueueAssumption /\ Alone /\ Spec => [](NoDuplicates /\ LimitsHold)
BY SoloInvariance, PTL DEF SoloInv

=============================================================================
