--------------------------- MODULE ThreadQueueProofs ---------------------------
(***************************************************************************)
(* Theorems about ThreadQueue, for any number of calls for one task and of *)
(* ends of the bridge's process.                                           *)
(***************************************************************************)
EXTENDS ThreadQueue, SequenceTheorems, TLAPS

Early    == {"off", "queued", "inspect", "inspected", "prepared"}
Unsent   == Early \cup {"sending", "waking"}
Prepared == {"prepared", "sending", "waking", "written", "observing"}
Over     == {"off", "queued", "settled", "gone"}
Phases   == Early \cup Prepared \cup Over

\* Types; the bound on crashes is no part of the argument.
Typing ==
    /\ phase \in [Calls -> Phases] /\ threadOperations \in Seq(Calls)
    /\ past \in [Calls -> BOOLEAN] /\ tries \in [Calls -> Nat]
    /\ dispatched \in [Calls -> BOOLEAN]
    /\ told \in [Calls -> {"none", "not_sent", "unknown", "unconfirmed", "accepted"}]
    /\ receipt \in [Calls -> {"none", "unconfirmed", "accepted"}]
    /\ seen \in [Calls -> Nat] /\ written \in Seq(Calls)
    /\ inflight \subseteq Calls /\ got \in [Calls -> Nat]

\* While a call may still write its prompt nothing of it is under way.
NothingOut == \A i \in Calls : phase[i] \in Unsent => i \notin inflight /\ got[i] = 0

\* What is not marked as dispatched was not written, and nothing is marked early.
MarkedFirst == \A i \in Calls :
    /\ i \in Range(written) \/ i \in inflight \/ got[i] > 0 => dispatched[i]
    /\ phase[i] \in Early => ~dispatched[i]

\* A call that was told "not sent" while it still runs has passed its deadline, and
\* will find so before it comes to sending.
ToldEarly == \A i \in Calls : told[i] = "not_sent" =>
    ~dispatched[i] /\ (phase[i] \in {"settled", "gone"} \/ (phase[i] \in Early /\ past[i]))

\* A receipt is there before there is anything to find by it.
ReceiptFirst == \A i \in Calls :
    /\ phase[i] \in Prepared => receipt[i] # "none"
    /\ phase[i] = "observing" => got[i] = 1

\* One operation of the task runs at a time, the first in the queue.
Alone == \A i \in Calls : phase[i] \notin Over => Turn(i)

\* Since the running operation inspected the task only it has written to it.
OnlyMine == \A i \in Calls :
    phase[i] \in {"inspected"} \cup Prepared =>
        \A q \in seen[i] + 1 .. Len(written) : written[q] = i

IInv ==
    /\ Typing /\ NothingOut /\ MarkedFirst /\ ToldEarly /\ ReceiptFirst /\ Alone /\ OnlyMine
    /\ SentOnce /\ InspectionHolds /\ Receipted

-----------------------------------------------------------------------------

\* What leaving the queue of operations does to it.
LEMMA LeaveTypes ==
    ASSUME threadOperations \in Seq(Calls), NEW i \in Calls
    PROVE  Leave(i) \in Seq(Calls)
<1>1. CASE threadOperations = <<>>
  BY <1>1 DEF Leave
<1>2. CASE threadOperations # <<>>
  BY <1>2, HeadTailProperties DEF Leave
<1> QED BY <1>1, <1>2

\* Entering it leaves the first operation the first.
LEMMA EnterTurn ==
    ASSUME threadOperations \in Seq(Calls), NEW i \in Calls,
           threadOperations' = Append(threadOperations, i)
    PROVE  threadOperations' \in Seq(Calls) /\ \A j \in Calls : Turn(j) => Turn(j)'
BY AppendProperties, HeadTailAppend DEF Turn

\* What a write adds.
LEMMA WriteAdds ==
    ASSUME written \in Seq(Calls), NEW i \in Calls, written' = Append(written, i)
    PROVE  /\ written' \in Seq(Calls) /\ Len(written) \in Nat
           /\ Len(written') = Len(written) + 1
           /\ \A p \in 1 .. Len(written) : written'[p] = written[p]
           /\ written'[Len(written) + 1] = i
           /\ DOMAIN written = 1 .. Len(written) /\ DOMAIN written' = 1 .. Len(written')
           /\ Range(written') = Range(written) \cup {i}
<1>1. /\ written' \in Seq(Calls) /\ Len(written) \in Nat /\ Len(written') = Len(written) + 1
      /\ \A p \in 1 .. Len(written) : written'[p] = written[p]
      /\ written'[Len(written) + 1] = i
  BY AppendProperties, LenProperties
<1>2. DOMAIN written = 1 .. Len(written) /\ DOMAIN written' = 1 .. Len(written')
  BY <1>1, LenProperties
<1>3. Range(written) = {written[p] : p \in 1 .. Len(written)} /\
          Range(written') = {written'[p] : p \in 1 .. Len(written')}
  BY <1>2 DEF Range
<1>4. 1 .. Len(written') = 1 .. Len(written) \cup {Len(written) + 1}
  BY <1>1
<1> QED BY <1>1, <1>2, <1>3, <1>4

\* An operation that ends, and tells its caller what is so, keeps the invariant.
LEMMA SettleKeeps ==
    ASSUME IInv, NEW i \in Calls, phase[i] # "off", Turn(i),
           NEW what \in {"not_sent", "unknown", "unconfirmed", "accepted"},
           Settle(i), Tell(i, what), UNCHANGED <<past, receipt, seen, written, got>>,
           dispatched' = dispatched \/ (dispatched' = Marked(i) /\ phase[i] = "sending"),
           inflight' = inflight \/ inflight' = inflight \ {i},
           what = "not_sent" => ~dispatched'[i], what = "accepted" => got[i] = 1,
           what = "unconfirmed" => receipt[i] # "none", tries' \in [Calls -> Nat]
    PROVE  IInv'
<1> USE DEF IInv
<1>0. /\ threadOperations' \in Seq(Calls) /\ phase' = [phase EXCEPT ![i] = "settled"]
      /\ told' \in [Calls -> {"none", "not_sent", "unknown", "unconfirmed", "accepted"}]
      /\ \A j \in Calls : told'[j] # told[j] => j = i /\ told'[j] = what
      /\ dispatched' \in [Calls -> BOOLEAN]
      /\ \A j \in Calls : dispatched'[j] # dispatched[j] => j = i /\ dispatched'[i]
      /\ inflight' \subseteq inflight
  BY LeaveTypes DEF Settle, Set, Tell, Typing, Marked
<1>1. Typing'
  BY <1>0 DEF Typing, Phases, Over
<1>2. NothingOut'
  BY <1>0 DEF NothingOut, Unsent, Early
<1>3. MarkedFirst'
  BY <1>0 DEF MarkedFirst, Early
<1>4. ToldEarly'
  BY <1>0 DEF Typing, ToldEarly, Early
<1>5. ReceiptFirst'
  BY <1>0 DEF ReceiptFirst, Prepared
<1>6. Alone'
  BY <1>0 DEF Typing, Alone, Over, Turn
<1>7. OnlyMine'
  BY <1>0 DEF OnlyMine, Prepared
<1>8. SentOnce'
  BY <1>0 DEF Typing, SentOnce
<1>9. InspectionHolds'
  BY <1>0 DEF InspectionHolds
<1>10. Receipted'
  BY <1>0 DEF Receipted
<1> QED BY <1>1, <1>2, <1>3, <1>4, <1>5, <1>6, <1>7, <1>8, <1>9, <1>10

\* So does one that fails, whatever it had come to.
LEMMA FailsKeeps == ASSUME IInv, NEW i \in Calls, phase[i] \notin Over, Fails(i) PROVE IInv'
<1>1. Turn(i) /\ phase[i] # "off"
  BY DEF IInv, Alone, Over
<1>2. Failure(i) \in {"not_sent", "unknown"} /\ (Failure(i) = "not_sent" => ~dispatched[i])
  BY DEF Failure
<1> QED BY <1>1, <1>2, SettleKeeps DEF Fails, task, IInv, Typing

\* A call comes, before its turn.
LEMMA EnterKeeps == ASSUME IInv, NEW i \in Calls, Enter(i) PROVE IInv'
<1> USE DEF IInv
<1>0. threadOperations' \in Seq(Calls) /\ \A j \in Calls : Turn(j) => Turn(j)'
  BY EnterTurn DEF Enter, Typing
<1>1. Typing'
  BY <1>0 DEF Enter, answer, task, Set, Early, Phases, Typing
<1>2. NothingOut'
  BY <1>0 DEF Enter, answer, task, Set, Early, Unsent, NothingOut
<1>3. MarkedFirst'
  BY <1>0 DEF Enter, answer, task, Set, Early, MarkedFirst
<1>4. ToldEarly'
  BY <1>0 DEF Enter, answer, task, Set, Early, ToldEarly
<1>5. ReceiptFirst'
  BY <1>0 DEF Enter, answer, task, Set, Early, Prepared, ReceiptFirst
<1>6. Alone'
  BY <1>0 DEF Enter, Set, Alone, Over
<1>7. OnlyMine'
  BY <1>0 DEF Enter, answer, task, Set, Prepared, OnlyMine
<1>8. SentOnce'
  BY <1>0 DEF Enter, answer, task, Set, SentOnce
<1>9. InspectionHolds'
  BY <1>0 DEF Enter, answer, task, InspectionHolds
<1>10. Receipted'
  BY <1>0 DEF Enter, answer, task, Set, Early, Unsent, Receipted
<1> QED BY <1>1, <1>2, <1>3, <1>4, <1>5, <1>6, <1>7, <1>8, <1>9, <1>10

\* Its time runs out, which the operation will notice.
LEMMA TickKeeps == ASSUME IInv, NEW i \in Calls, Tick(i) PROVE IInv'
<1> USE DEF IInv
<1>1. Typing'
  BY DEF Tick, answer, task, Set, Typing
<1>2. NothingOut'
  BY DEF Tick, answer, task, Set, Early, NothingOut
<1>3. MarkedFirst'
  BY DEF Tick, answer, task, MarkedFirst
<1>4. ToldEarly'
  BY DEF Tick, answer, task, Set, ToldEarly
<1>5. ReceiptFirst'
  BY DEF Tick, answer, task, Set, Early, ReceiptFirst
<1>6. Alone'
  BY DEF Tick, answer, task, Alone, Turn
<1>7. OnlyMine'
  BY DEF Tick, answer, task, OnlyMine
<1>8. SentOnce'
  BY DEF Tick, answer, task, Set, SentOnce
<1>9. InspectionHolds'
  BY DEF Tick, answer, task, InspectionHolds
<1>10. Receipted'
  BY DEF Tick, answer, task, Set, Early, Unsent, Receipted
<1> QED BY <1>1, <1>2, <1>3, <1>4, <1>5, <1>6, <1>7, <1>8, <1>9, <1>10

\* Its caller is told so, and the operation goes on.
LEMMA DeadlineKeeps == ASSUME IInv, NEW i \in Calls, Deadline(i) PROVE IInv'
<1> USE DEF IInv
<1>1. Typing'
  BY DEF Deadline, Tell, OnDeadline, Failure, op, task, Set, Typing
<1>2. NothingOut'
  BY DEF Deadline, Tell, OnDeadline, Failure, op, task, Set, Early, NothingOut
<1>3. MarkedFirst'
  BY DEF Deadline, Tell, OnDeadline, Failure, op, task, MarkedFirst
<1>4. ToldEarly'
  BY DEF Deadline, Tell, OnDeadline, Failure, op, task, Set, Early, Over, Phases, Typing,
     ToldEarly, ReceiptFirst
<1>5. ReceiptFirst'
  BY DEF Deadline, Tell, OnDeadline, Failure, op, task, Set, Early, ReceiptFirst
<1>6. Alone'
  BY DEF Deadline, Tell, OnDeadline, Failure, op, task, Alone, Turn
<1>7. OnlyMine'
  BY DEF Deadline, Tell, OnDeadline, Failure, op, task, OnlyMine
<1>8. SentOnce'
  BY DEF Deadline, Tell, OnDeadline, Failure, op, task, Set, SentOnce
<1>9. InspectionHolds'
  BY DEF Deadline, Tell, OnDeadline, Failure, op, task, InspectionHolds
<1>10. Receipted'
  BY DEF Deadline, Tell, OnDeadline, Failure, op, task, Set, Early, Unsent, Receipted,
     ReceiptFirst
<1> QED BY <1>1, <1>2, <1>3, <1>4, <1>5, <1>6, <1>7, <1>8, <1>9, <1>10

\* The first operation begins before its deadline.
LEMMA StartKeeps == ASSUME IInv, NEW i \in Calls, Start(i), ~past[i] PROVE IInv'
<1> USE DEF IInv
<1>1. Typing'
  BY DEF Start, task, Set, Goes, Early, Phases, Typing
<1>2. NothingOut'
  BY DEF Start, task, Set, Holds, Goes, Early, Unsent, Typing, NothingOut
<1>3. MarkedFirst'
  BY DEF Start, task, Set, Holds, Goes, Early, Typing, MarkedFirst
<1>4. ToldEarly'
  BY DEF Start, task, Set, Holds, Goes, Typing, ToldEarly
<1>5. ReceiptFirst'
  BY DEF Start, task, Set, Holds, Goes, Early, Prepared, Typing, ReceiptFirst
<1>6. Alone'
  BY DEF Start, task, Set, Holds, Goes, Typing, Alone, Turn
<1>7. OnlyMine'
  BY DEF Start, task, Set, Goes, Prepared, Typing, OnlyMine
<1>8. SentOnce'
  BY DEF Start, task, Set, Holds, Goes, SentOnce
<1>9. InspectionHolds'
  BY DEF Start, task, Set, Holds, InspectionHolds
<1>10. Receipted'
  BY DEF Start, task, Set, Holds, Goes, Early, Unsent, Receipted
<1> QED BY <1>1, <1>2, <1>3, <1>4, <1>5, <1>6, <1>7, <1>8, <1>9, <1>10

\* It inspects the task, after which nobody else writes.
LEMMA InspectKeeps == ASSUME IInv, NEW i \in Calls, Inspect(i), ~Fails(i) PROVE IInv'
<1> USE DEF IInv
<1>1. Typing'
  <2>1. phase' = [phase EXCEPT ![i] = "inspected"] /\ seen' = [seen EXCEPT ![i] = Len(written)]
    BY DEF Inspect, Goes, Set
  <2>2. Len(written) \in Nat
    BY LenProperties
  <2> QED BY <2>1, <2>2 DEF Inspect, Goes, answer, Typing, Phases, Early
<1>2. NothingOut'
  BY DEF Inspect, answer, Set, Holds, Goes, Early, Unsent, Typing, NothingOut
<1>3. MarkedFirst'
  BY DEF Inspect, answer, Set, Holds, Goes, Early, Typing, MarkedFirst
<1>4. ToldEarly'
  BY DEF Inspect, op, answer, task, Set, Holds, Goes, Marked, Create, Early, Unsent, Prepared,
     Over, Phases, Typing, MarkedFirst, ToldEarly, ReceiptFirst
<1>5. ReceiptFirst'
  BY DEF Inspect, answer, Set, Holds, Goes, Early, Prepared, Typing, ReceiptFirst
<1>6. Alone'
  BY DEF Inspect, answer, Set, Holds, Goes, Over, Typing, Alone, Turn
<1>7. OnlyMine'
  <2>1. /\ seen' = [seen EXCEPT ![i] = Len(written)]
        /\ phase' = [phase EXCEPT ![i] = "inspected"] /\ UNCHANGED written
    BY DEF Inspect, Goes, Set
  <2>2. Len(written) \in Nat
    BY LenProperties
  <2>3. \A q \in seen'[i] + 1 .. Len(written') : FALSE
    BY <2>1, <2>2 DEF Typing
  <2>4. ASSUME NEW j \in Calls, j # i, phase'[j] \in {"inspected"} \cup Prepared
        PROVE  \A q \in seen'[j] + 1 .. Len(written') : written'[q] = j
    BY <2>1, <2>4 DEF OnlyMine
  <2> QED BY <2>3, <2>4 DEF OnlyMine
<1>8. SentOnce'
  BY DEF Inspect, answer, Set, Holds, Goes, SentOnce
<1>9. InspectionHolds'
  <2>1. i \notin Range(written)
    BY DEF Inspect, Holds, MarkedFirst, Early
  <2>2. \A p \in DOMAIN written : written[p] # i /\ written[p] \in Calls
    BY <2>1, RangeOfSeq DEF Range, Typing
  <2>3. \A j \in Calls : j # i => seen'[j] = seen[j]
    BY DEF Inspect, Set, Typing
  <2> QED BY <2>2, <2>3 DEF Inspect, InspectionHolds
<1>10. Receipted'
  BY DEF Inspect, answer, Set, Holds, Goes, Early, Unsent, Receipted
<1> QED BY <1>1, <1>2, <1>3, <1>4, <1>5, <1>6, <1>7, <1>8, <1>9, <1>10

\* It leaves the receipt.
LEMMA PrepareKeeps == ASSUME IInv, NEW i \in Calls, Prepare(i), ~Fails(i) PROVE IInv'
<1> USE DEF IInv
<1>1. Typing'
  BY DEF Prepare, task, Set, Goes, Create, Early, Phases, Typing
<1>2. NothingOut'
  BY DEF Prepare, task, Set, Holds, Goes, Create, Early, Unsent, Typing, NothingOut
<1>3. MarkedFirst'
  BY DEF Prepare, task, Set, Holds, Goes, Early, Typing, MarkedFirst
<1>4. ToldEarly'
  BY DEF Prepare, op, answer, task, Set, Holds, Goes, Marked, Create, Early, Unsent, Prepared,
     Over, Phases, Typing, MarkedFirst, ToldEarly, ReceiptFirst
<1>5. ReceiptFirst'
  BY DEF Prepare, task, Set, Holds, Goes, Create, Early, Typing, ReceiptFirst
<1>6. Alone'
  BY DEF Prepare, task, Set, Holds, Goes, Over, Typing, Alone, Turn
<1>7. OnlyMine'
  BY DEF Prepare, task, Set, Holds, Goes, Typing, OnlyMine
<1>8. SentOnce'
  BY DEF Prepare, task, Set, Holds, Goes, Create, SentOnce
<1>9. InspectionHolds'
  BY DEF Prepare, task, Set, Holds, InspectionHolds
<1>10. Receipted'
  BY DEF Prepare, task, Set, Holds, Goes, Create, Early, Unsent, Typing, Receipted
<1> QED BY <1>1, <1>2, <1>3, <1>4, <1>5, <1>6, <1>7, <1>8, <1>9, <1>10

\* It writes.
LEMMA WriteKeeps == ASSUME IInv, NEW i \in Calls, Write(i) PROVE IInv'
<1> USE DEF IInv
<1>0. /\ written' \in Seq(Calls) /\ Len(written) \in Nat /\ Len(written') = Len(written) + 1
      /\ \A p \in 1 .. Len(written) : written'[p] = written[p]
      /\ written'[Len(written) + 1] = i
      /\ DOMAIN written = 1 .. Len(written) /\ DOMAIN written' = 1 .. Len(written')
      /\ Range(written') = Range(written) \cup {i}
  BY WriteAdds DEF Write, Typing
<1>1. Typing'
  BY <1>0 DEF Write, Set, Goes, Marked, Prepared, Phases, Typing
<1>2. NothingOut'
  BY <1>0 DEF Write, Set, Holds, Goes, Marked, Early, Unsent, Typing, NothingOut
<1>3. MarkedFirst'
  BY <1>0 DEF Write, Set, Holds, Goes, Marked, Early, Typing, MarkedFirst
<1>4. ToldEarly'
  BY <1>0 DEF Write, Set, Holds, Goes, Marked, Early, ToldEarly
<1>5. ReceiptFirst'
  BY <1>0 DEF Write, Set, Holds, Goes, Marked, Early, Prepared, ReceiptFirst
<1>6. Alone'
  BY <1>0 DEF Write, Set, Holds, Goes, Over, Alone, Turn
<1>7. OnlyMine'
  <2> SUFFICES ASSUME NEW j \in Calls, phase'[j] \in {"inspected"} \cup Prepared,
                      NEW q \in seen[j] + 1 .. Len(written')
               PROVE  written'[q] = j
    BY DEF Write, OnlyMine
  <2>1. phase[i] = "sending" /\ Turn(i) /\ phase' = [phase EXCEPT ![i] = "written"]
    BY DEF Write, Holds, Goes, Set, Alone, Over
  <2>2. phase[j] \in {"inspected"} \cup Prepared
    BY <2>1 DEF Prepared
  <2>3. j = i
    BY <2>1, <2>2 DEF Alone, Over, Prepared, Turn
  <2>4. seen[j] \in Nat /\ q \in 1 .. Len(written) + 1
    BY <1>0 DEF Typing
  <2>5. CASE q = Len(written) + 1
    BY <1>0, <2>3, <2>5
  <2>6. CASE q # Len(written) + 1
    <3>1. q \in seen[j] + 1 .. Len(written) /\ q \in 1 .. Len(written)
      BY <1>0, <2>4, <2>6
    <3> QED BY <1>0, <2>2, <2>3, <3>1 DEF OnlyMine
  <2> QED BY <2>5, <2>6
<1>8. SentOnce'
  <2>1. i \notin inflight /\ got[i] = 0 /\ inflight' = inflight \cup {i} /\ UNCHANGED got
    BY DEF Write, Holds, NothingOut, Unsent
  <2>2. got[i] + (IF i \in inflight' THEN 1 ELSE 0) <= 1
    BY <2>1
  <2>3. \A j \in Calls : j # i => (j \in inflight' <=> j \in inflight)
    BY <2>1
  <2> QED BY <2>1, <2>2, <2>3 DEF SentOnce
<1>9. InspectionHolds'
  <2> SUFFICES ASSUME NEW p \in 1 .. Len(written) + 1, NEW q \in seen[written'[p]] + 1 .. p - 1
               PROVE  written'[q] = written'[p]
    BY <1>0 DEF Write, InspectionHolds
  <2>0. \A j \in Calls : seen[j] \in Nat
    BY DEF Typing
  <2>1. CASE p = Len(written) + 1
    <3>1. phase[i] \in {"inspected"} \cup Prepared
      BY DEF Write, Holds, Prepared
    <3>2. written'[p] = i /\ q \in seen[i] + 1 .. Len(written) /\ q \in 1 .. Len(written)
      BY <1>0, <2>0, <2>1
    <3> QED BY <1>0, <3>1, <3>2 DEF OnlyMine
  <2>2. CASE p # Len(written) + 1
    <3>0. p \in 1 .. Len(written)
      BY <1>0, <2>2
    <3>1. written'[p] = written[p] /\ written[p] \in Calls
      BY <1>0, <3>0, ElementOfSeq
    <3>2. q \in 1 .. Len(written)
      BY <1>0, <2>0, <3>0, <3>1
    <3> QED BY <1>0, <3>0, <3>1, <3>2 DEF InspectionHolds
  <2> QED BY <2>1, <2>2
<1>10. Receipted'
  BY <1>0 DEF Write, Set, Holds, Goes, Marked, Early, Unsent, Prepared, Receipted, ReceiptFirst
<1> QED BY <1>1, <1>2, <1>3, <1>4, <1>5, <1>6, <1>7, <1>8, <1>9, <1>10

\* The connection fails for the first time.
LEMMA UnreachableKeeps == ASSUME IInv, NEW i \in Calls, Unreachable(i), tries[i] = 1 PROVE IInv'
<1> USE DEF IInv
<1>1. Typing'
  BY DEF Unreachable, task, Set, Goes, Marked, Prepared, Phases, Typing
<1>2. NothingOut'
  BY DEF Unreachable, task, Set, Holds, Goes, Marked, Early, Unsent, Typing, NothingOut
<1>3. MarkedFirst'
  BY DEF Unreachable, task, Set, Holds, Goes, Marked, Early, Typing, MarkedFirst
<1>4. ToldEarly'
  BY DEF Unreachable, task, Set, Holds, Goes, Marked, Early, Typing, ToldEarly
<1>5. ReceiptFirst'
  BY DEF Unreachable, task, Set, Holds, Goes, Marked, Early, Prepared, Typing, ReceiptFirst
<1>6. Alone'
  BY DEF Unreachable, task, Set, Holds, Goes, Over, Typing, Alone, Turn
<1>7. OnlyMine'
  BY DEF Unreachable, task, Set, Holds, Goes, Prepared, Typing, OnlyMine
<1>8. SentOnce'
  BY DEF Unreachable, task, Set, Holds, Goes, Marked, SentOnce
<1>9. InspectionHolds'
  BY DEF Unreachable, task, Set, Holds, InspectionHolds
<1>10. Receipted'
  BY DEF Unreachable, task, Set, Holds, Goes, Marked, Early, Unsent, Receipted
<1> QED BY <1>1, <1>2, <1>3, <1>4, <1>5, <1>6, <1>7, <1>8, <1>9, <1>10

\* The write is acknowledged.
LEMMA AcknowledgedKeeps ==
    ASSUME IInv, NEW i \in Calls, Holds(i, "written"), Acknowledged(i)
    PROVE  IInv'
<1> USE DEF IInv
<1>1. Typing'
  BY DEF Acknowledged, task, Set, Goes, Prepared, Phases, Typing
<1>2. NothingOut'
  BY DEF Acknowledged, task, Set, Holds, Goes, Early, Unsent, NothingOut
<1>3. MarkedFirst'
  BY DEF Acknowledged, task, Set, Goes, Early, MarkedFirst
<1>4. ToldEarly'
  BY DEF Acknowledged, task, Set, Holds, Goes, Early, ToldEarly
<1>5. ReceiptFirst'
  BY DEF Acknowledged, task, Set, Holds, Goes, Early, Typing, ReceiptFirst, SentOnce
<1>6. Alone'
  BY DEF Acknowledged, task, Set, Holds, Goes, Over, Alone, Turn
<1>7. OnlyMine'
  BY DEF Acknowledged, task, Set, Holds, Goes, Prepared, OnlyMine
<1>8. SentOnce'
  BY DEF Acknowledged, task, Set, Holds, Goes, SentOnce
<1>9. InspectionHolds'
  BY DEF Acknowledged, task, Set, InspectionHolds
<1>10. Receipted'
  BY DEF Acknowledged, task, Set, Holds, Goes, Early, Unsent, Typing, SentOnce, Receipted
<1> QED BY <1>1, <1>2, <1>3, <1>4, <1>5, <1>6, <1>7, <1>8, <1>9, <1>10

\* It is declined, and repeated after the task has been woken.
LEMMA DeclinedKeeps ==
    ASSUME IInv, NEW i \in Calls, Holds(i, "written"), Declined(i), Goes(i, "waking")
    PROVE  IInv'
<1> USE DEF IInv
<1>0. UNCHANGED told /\ phase' = [phase EXCEPT ![i] = "waking"]
  BY DEF Declined, Goes, Settle, Set, Typing
<1>1. Typing'
  BY <1>0 DEF Declined, Goes, Prepared, Phases, Typing
<1>2. NothingOut'
  BY <1>0 DEF Declined, Set, Holds, Goes, Early, Typing, NothingOut, SentOnce
<1>3. MarkedFirst'
  BY <1>0 DEF Declined, Set, Early, MarkedFirst
<1>4. ToldEarly'
  BY <1>0 DEF Declined, Set, Holds, Goes, Early, ToldEarly
<1>5. ReceiptFirst'
  BY <1>0 DEF Declined, Set, Holds, Goes, Early, Prepared, ReceiptFirst
<1>6. Alone'
  BY <1>0 DEF Declined, Set, Holds, Goes, Over, Alone, Turn
<1>7. OnlyMine'
  BY <1>0 DEF Declined, Set, Holds, Prepared, OnlyMine
<1>8. SentOnce'
  BY <1>0 DEF Declined, Set, Holds, Goes, Typing, SentOnce
<1>9. InspectionHolds'
  BY <1>0 DEF Declined, Set, InspectionHolds
<1>10. Receipted'
  BY <1>0 DEF Declined, Set, Holds, Goes, Early, Unsent, Receipted
<1> QED BY <1>1, <1>2, <1>3, <1>4, <1>5, <1>6, <1>7, <1>8, <1>9, <1>10

\* What was written gets there.
LEMMA DeliverKeeps == ASSUME IInv, NEW i \in Calls, Deliver(i) PROVE IInv'
<1> USE DEF IInv
<1>1. Typing'
  BY DEF Deliver, op, answer, Typing
<1>2. NothingOut'
  BY DEF Deliver, op, answer, Early, NothingOut
<1>3. MarkedFirst'
  BY DEF Deliver, op, answer, MarkedFirst
<1>4. ToldEarly'
  BY DEF Deliver, op, answer, ToldEarly
<1>5. ReceiptFirst'
  BY DEF Deliver, op, answer, Early, ReceiptFirst, SentOnce
<1>6. Alone'
  BY DEF Deliver, op, Alone, Turn
<1>7. OnlyMine'
  BY DEF Deliver, op, OnlyMine
<1>8. SentOnce'
  BY DEF Deliver, op, answer, Typing, SentOnce
<1>9. InspectionHolds'
  BY DEF Deliver, InspectionHolds
<1>10. Receipted'
  BY DEF Deliver, op, answer, Early, Unsent, SentOnce, Receipted
<1> QED BY <1>1, <1>2, <1>3, <1>4, <1>5, <1>6, <1>7, <1>8, <1>9, <1>10

\* An attempt begins before the deadline.
LEMMA AttemptKeeps ==
    ASSUME IInv, NEW i \in Calls, Holds(i, "prepared") \/ Holds(i, "waking"), Attempt(i),
           ~past[i]
    PROVE  IInv'
<1> USE DEF IInv
<1>1. Typing'
  <2>1. phase' = [phase EXCEPT ![i] = "sending"] /\ tries' = [tries EXCEPT ![i] = @ + 1]
    BY DEF Attempt, Goes, Set
  <2> QED BY <2>1 DEF Attempt, Goes, answer, task, Typing, Phases, Prepared
<1>2. NothingOut'
  BY DEF Attempt, answer, task, Set, Holds, Goes, Early, Unsent, Typing, NothingOut
<1>3. MarkedFirst'
  BY DEF Attempt, answer, task, Set, Goes, Early, Typing, MarkedFirst
<1>4. ToldEarly'
  BY DEF Attempt, op, answer, task, Set, Holds, Goes, Marked, Create, Early, Unsent, Prepared,
     Over, Phases, Typing, MarkedFirst, ToldEarly, ReceiptFirst
<1>5. ReceiptFirst'
  BY DEF Attempt, answer, task, Set, Holds, Goes, Early, Prepared, Typing, ReceiptFirst
<1>6. Alone'
  BY DEF Attempt, answer, task, Set, Holds, Goes, Over, Typing, Alone, Turn
<1>7. OnlyMine'
  BY DEF Attempt, answer, task, Set, Holds, Goes, Prepared, Typing, OnlyMine
<1>8. SentOnce'
  BY DEF Attempt, answer, task, Set, Holds, Goes, SentOnce
<1>9. InspectionHolds'
  BY DEF Attempt, answer, task, Set, InspectionHolds
<1>10. Receipted'
  BY DEF Attempt, answer, task, Set, Holds, Goes, Early, Unsent, Receipted
<1> QED BY <1>1, <1>2, <1>3, <1>4, <1>5, <1>6, <1>7, <1>8, <1>9, <1>10

\* The process ends, with every operation in it.
LEMMA CrashKeeps == ASSUME IInv, Crash PROVE IInv'
<1> USE DEF IInv
<1>0. /\ phase' \in [Calls -> {"off", "gone"}]
      /\ \A i \in Calls : phase'[i] = "off" <=> phase[i] = "off"
  BY DEF Crash
<1>1. Typing'
  BY <1>0 DEF Crash, answer, task, Over, Phases, Typing
<1>2. NothingOut'
  BY <1>0 DEF Crash, answer, task, Early, Unsent, NothingOut
<1>3. MarkedFirst'
  BY <1>0 DEF Crash, answer, task, Early, MarkedFirst
<1>4. ToldEarly'
  BY <1>0 DEF Crash, answer, task, ToldEarly
<1>5. ReceiptFirst'
  BY <1>0 DEF Crash, answer, task, Early, Prepared, ReceiptFirst
<1>6. Alone'
  BY <1>0 DEF Crash, answer, Over, Alone
<1>7. OnlyMine'
  BY <1>0 DEF Crash, Prepared, OnlyMine
<1>8. SentOnce'
  BY <1>0 DEF Crash, answer, task, SentOnce
<1>9. InspectionHolds'
  BY <1>0 DEF Crash, task, InspectionHolds
<1>10. Receipted'
  BY <1>0 DEF Crash, answer, task, Early, Unsent, Receipted
<1> QED BY <1>1, <1>2, <1>3, <1>4, <1>5, <1>6, <1>7, <1>8, <1>9, <1>10

\* An attempt is made before the deadline or fails.
LEMMA TriesKeeps ==
    ASSUME IInv, NEW i \in Calls, Holds(i, "prepared") \/ Holds(i, "waking"),
           Attempt(i) \/ Fails(i)
    PROVE  IInv'
<1>1. phase[i] \notin Over
  BY DEF Holds, Over
<1> QED BY <1>1, FailsKeeps, AttemptKeeps DEF Attempt

\* Every step keeps it.
LEMMA NextIInv == IInv /\ [Next]_vars => IInv'
<1> SUFFICES ASSUME IInv, [Next]_vars PROVE IInv'
  OBVIOUS
<1>1. ASSUME NEW i \in Calls, Start(i) PROVE IInv'
  BY <1>1, StartKeeps, SettleKeeps DEF Start, Holds, task, IInv, Typing, MarkedFirst, Early
<1>2. ASSUME NEW i \in Calls, Inspect(i) \/ Prepare(i) \/ Refused(i) PROVE IInv'
  BY <1>2, FailsKeeps, InspectKeeps, PrepareKeeps DEF Inspect, Prepare, Refused, Holds, Over
<1>3. ASSUME NEW i \in Calls, Send(i) \/ Wake(i) PROVE IInv'
  BY <1>3, TriesKeeps DEF Send, Wake
<1>4. ASSUME NEW i \in Calls, Unreachable(i) PROVE IInv'
  <2>1. CASE tries[i] = 1
    BY <1>4, <2>1, UnreachableKeeps
  <2>2. CASE tries[i] # 1
    <3>1. Turn(i) /\ phase[i] # "off"
      BY <1>4 DEF Unreachable, Holds, IInv, Alone, Over
    <3>2. PICK what \in {"not_sent", "unknown"} : Settle(i) /\ Tell(i, what) /\
              (what = "not_sent" => ~dispatched'[i])
      BY <1>4, <2>2 DEF Unreachable
    <3> QED BY <1>4, <3>1, <3>2, SettleKeeps DEF Unreachable, Holds, task, IInv, Typing
  <2> QED BY <2>1, <2>2
<1>5. ASSUME NEW i \in Calls, Answer(i) PROVE IInv'
  <2>0. Holds(i, "written") /\ Turn(i) /\ phase[i] # "off" /\ phase[i] \notin Over
    BY <1>5 DEF Answer, Holds, IInv, Alone, Over
  <2>1. CASE Acknowledged(i)
    BY <2>0, <2>1, AcknowledgedKeeps
  <2>2. CASE Declined(i)
    <3>1. CASE Goes(i, "waking")
      BY <2>0, <2>2, <3>1, DeclinedKeeps
    <3>2. CASE Settle(i) /\ Tell(i, Failure(i))
      BY <2>0, <2>2, <3>2, SettleKeeps DEF Declined, Failure, IInv, Typing
    <3> QED BY <2>2, <3>1, <3>2 DEF Declined
  <2>3. CASE Lost(i)
    BY <2>0, <2>3, SettleKeeps DEF Lost, Holds, task, IInv, Typing, ReceiptFirst, Prepared
  <2> QED BY <1>5, <2>0, <2>1, <2>2, <2>3, FailsKeeps DEF Answer
<1>6. ASSUME NEW i \in Calls, Observe(i) PROVE IInv'
  <2>1. Turn(i) /\ phase[i] # "off" /\ got[i] = 1
    BY <1>6 DEF Observe, Holds, IInv, Alone, Over, ReceiptFirst
  <2> QED BY <1>6, <2>1, SettleKeeps DEF Observe, task, IInv, Typing
<1>7. CASE UNCHANGED vars
  BY <1>7
  DEF vars, op, answer, task, IInv, Typing, NothingOut, MarkedFirst, ToldEarly, ReceiptFirst,
      Alone, OnlyMine, SentOnce, InspectionHolds, Receipted, Turn
<1> QED
  BY <1>1, <1>2, <1>3, <1>4, <1>5, <1>6, <1>7, EnterKeeps, TickKeeps, DeadlineKeeps, WriteKeeps,
     DeliverKeeps, CrashKeeps DEF Next, Operate

\* The initial states satisfy it.
LEMMA InitIInv == Init => IInv
BY DEF Init, IInv, Typing, NothingOut, MarkedFirst, ToldEarly, ReceiptFirst, Alone, OnlyMine,
   SentOnce, InspectionHolds, Receipted, Range, Prepared, Over, Phases

-----------------------------------------------------------------------------

\* The inductive invariant holds in every reachable state.
THEOREM Invariance == Spec => []IInv
BY InitIInv, NextIInv, PTL DEF Spec

\* Whatever the relay and the connection do, and however often the bridge ends, a
\* prompt reaches its task at most once (request() and its one repetition).
THEOREM ReachesOnce == Spec => []SentOnce
BY Invariance, PTL DEF IInv

\* A caller that was told that its prompt was not sent is right for good: no
\* operation that outlives its deadline writes it later (withThread(), request()).
THEOREM NotSentForGood == Spec => []NotSentIsTrue
<1>1. IInv => NotSentIsTrue
  BY DEF IInv, ToldEarly, MarkedFirst, NotSentIsTrue
<1> QED BY <1>1, Invariance, PTL

\* Between an inspection of the task and the write that relies on it nobody else
\* writes to the task, for any number of calls and deadlines.
THEOREM InspectionKept == Spec => []InspectionHolds
BY Invariance, PTL DEF IInv

\* Receipts are there for whatever may reach the task, and tell the truth.
THEOREM ReceiptsHold == Spec => []Receipted
BY Invariance, PTL DEF IInv

-----------------------------------------------------------------------------

\* What a call says to its caller, in the words of Delivery.
Says == [i \in Calls |-> CASE told[i] = "accepted" -> "delivered"
                           [] told[i] = "unconfirmed" -> "unknown"
                           [] OTHER -> told[i]]

\* A step that delivers the prompt of one call, or answers its caller.
LEMMA OneSays ==
    ASSUME NEW i \in Calls, Typing,
           got' = got \/ /\ got[i] = 0 /\ Says[i] # "not_sent"
                         /\ got' = [got EXCEPT ![i] = 1],
           Says' = Says \/ \E what \in {"not_sent", "unknown", "delivered"} :
               /\ Says[i] = "none" /\ Says' = [Says EXCEPT ![i] = what]
               /\ what = "not_sent" => got'[i] = 0
               /\ what = "delivered" => got'[i] = 1
    PROVE  Promise!Next \/ UNCHANGED <<got, Says>>
<1>1. CASE UNCHANGED <<got, Says>>
  BY <1>1
<1>2. CASE ~UNCHANGED <<got, Says>>
  <2>1. got' = got \/ Promise!Deliver(i)
    BY DEF Promise!Deliver, Says
  <2>2. Says' = Says \/ \E what \in Promise!Answers : Promise!Tell(i, what)
    <3>1. CASE Says' = Says
      BY <3>1
    <3>2. CASE Says' # Says
      <4>1. PICK what \in {"not_sent", "unknown", "delivered"} :
                /\ Says[i] = "none" /\ Says' = [Says EXCEPT ![i] = what]
                /\ what = "not_sent" => got'[i] = 0
                /\ what = "delivered" => got'[i] = 1
        BY <3>2
      <4>2. Promise!Tell(i, what) /\ what \in Promise!Answers
        BY <4>1 DEF Promise!Tell, Promise!Answers, Says
      <4> QED BY <4>2
    <3> QED BY <3>1, <3>2
  <2>3. got'[i] # got[i] \/ Says'[i] # Says[i]
    BY <1>2 DEF Typing, Says
  <2> QED BY <2>1, <2>2, <2>3 DEF Promise!Next, Says
<1> QED BY <1>1, <1>2

\* A caller is answered once, whatever ends the call.
LEMMA TellsOne ==
    ASSUME NEW i \in Calls, Tick(i) \/ Enter(i) \/ Deadline(i) \/ Operate(i)
    PROVE  /\ got' = got
           /\ told' = told \/ \E what : told[i] = "none" /\ told' = [told EXCEPT ![i] = what]
<1> USE DEF task, answer, op
<1>1. CASE Tick(i) \/ Enter(i) \/ Deadline(i) \/ Start(i)
  BY <1>1 DEF Tick, Enter, Deadline, Start, Tell, Set
<1>2. CASE Inspect(i) \/ Prepare(i) \/ Refused(i)
  BY <1>2 DEF Inspect, Prepare, Refused, Fails, Tell, Set
<1>3. CASE Send(i) \/ Wake(i)
  BY <1>3 DEF Send, Wake, Attempt, Fails, Tell, Set
<1>4. CASE Write(i) \/ Unreachable(i)
  BY <1>4 DEF Write, Unreachable, Tell, Set
<1>5. CASE Answer(i)
  BY <1>5 DEF Answer, Acknowledged, Declined, Lost, Fails, Tell, Set
<1>6. CASE Observe(i)
  BY <1>6 DEF Observe, Tell, Set
<1> QED BY <1>1, <1>2, <1>3, <1>4, <1>5, <1>6 DEF Operate

\* A step of a call, by what it changes.
LEMMA StepPromises ==
    ASSUME IInv, IInv', [Next]_vars PROVE Promise!Next \/ UNCHANGED <<got, Says>>
<1>1. ASSUME NEW i \in Calls, Tick(i) \/ Enter(i) \/ Deadline(i) \/ Operate(i)
      PROVE  Promise!Next \/ UNCHANGED <<got, Says>>
  <2>1. /\ got' = got
        /\ told' = told \/ \E what : told[i] = "none" /\ told' = [told EXCEPT ![i] = what]
    BY <1>1, TellsOne
  <2>2. /\ told'[i] = "not_sent" => got'[i] = 0
        /\ told'[i] = "accepted" => got'[i] = 1
    BY DEF IInv, Typing, ToldEarly, MarkedFirst, Receipted
  <2>3. CASE told' = told
    BY <2>1, <2>3 DEF Says
  <2>4. CASE told' # told
    <3>1. PICK how : told[i] = "none" /\ told' = [told EXCEPT ![i] = how]
      BY <2>1, <2>4
    <3>2. how \in {"not_sent", "unknown", "unconfirmed", "accepted"}
      BY <2>4, <3>1 DEF IInv, Typing
    <3> DEFINE what == CASE how = "accepted" -> "delivered"
                         [] how = "unconfirmed" -> "unknown"
                         [] OTHER -> how
    <3>3. Says[i] = "none" /\ Says' = [Says EXCEPT ![i] = what]
      BY <3>1, <3>2 DEF Says, IInv, Typing
    <3>4. /\ what \in {"not_sent", "unknown", "delivered"}
          /\ what = "not_sent" => got'[i] = 0
          /\ what = "delivered" => got'[i] = 1
      BY <2>2, <3>1, <3>2 DEF IInv, Typing
    <3> HIDE DEF what
    <3> QED BY <2>1, <3>3, <3>4, OneSays DEF IInv
  <2> QED BY <2>3, <2>4
<1>2. ASSUME NEW i \in Calls, Deliver(i)
      PROVE  Promise!Next \/ UNCHANGED <<got, Says>>
  <2>1. i \in inflight /\ got' = [got EXCEPT ![i] = got[i] + 1] /\ told' = told
    BY <1>2 DEF Deliver, answer
  <2>2. got[i] = 0 /\ told[i] # "not_sent"
    BY <2>1 DEF IInv, Typing, SentOnce, MarkedFirst, ToldEarly
  <2>3. Says[i] # "not_sent" /\ Says' = Says
    BY <2>1, <2>2 DEF Says
  <2>4. Typing /\ got' = [got EXCEPT ![i] = 1]
    BY <2>1, <2>2 DEF IInv
  <2> QED BY <2>2, <2>3, <2>4, OneSays
<1>3. CASE Crash \/ UNCHANGED vars
  BY <1>3 DEF Crash, vars, answer, task, Says
<1> QED BY <1>1, <1>2, <1>3 DEF Next

\* A prompt keeps the promise of Delivery, although its caller is answered at a deadline
\* while the operation runs on, the request may be repeated and the bridge may end.
THEOREM PromptsKeepPromise == Spec => KeepsPromise
<1>1. Init => Promise!Init
  BY DEF Init, Promise!Init
<1>2. IInv /\ IInv' /\ [Next]_vars => [Promise!Next]_<<got, Says>>
  BY StepPromises
<1> QED BY <1>1, <1>2, Invariance, PTL DEF Spec, KeepsPromise, Promise!Spec, Says

=============================================================================
