----------------------- MODULE BackgroundRelayProofs -----------------------
(***************************************************************************)
(* Theorems about BackgroundRelay for every value of its constants.        *)
(***************************************************************************)
EXTENDS BackgroundRelay, FiniteSetTheorems, SequenceTheorems, TLAPS

(* The inductive invariant.                                                *)

\* A daemon that is down has no memory.
DownIsEmpty ==
    daemon = "down" => /\ \A i \in Ids : job[i] = NoJob /\ phase[i] = "idle"
                       /\ caps = {}

\* Memory and files: what memory knows is stored, while the daemon lives it knows
\* every stored request that is no longer merely queued, and what is queued in
\* memory is queued in its file.
MemoryKnows ==
    /\ Known \subseteq Stored
    /\ daemon # "down" => \A i \in Stored : disk[i].status # "queued" => i \in Known
    /\ \A i \in Known : job[i].status = "queued" => disk[i].status = "queued"

\* A request that was started is queued nowhere, so nothing can start it again.
StartedIsNotQueued ==
    \A i \in Ids : runs[i] # 0 => /\ i \in Stored /\ disk[i].status # "queued"
                                  /\ i \in Known => job[i].status # "queued"

\* What a phase of execute() says about the receipts and the worker.
PhaseAgrees ==
    \A i \in Ids :
        /\ phase[i] \in {"inspecting", "dispatched", "failing"} =>
              /\ i \in Known /\ job[i].status = "running"
              /\ i \in Stored /\ disk[i].status = "running"
        /\ phase[i] = "inspecting" => runs[i] = 0
        /\ phase[i] \in {"dispatched", "failing"} =>
              /\ runs[i] = 1
              /\ job[i].delivery # "not_sent" /\ disk[i].delivery # "not_sent"

WorkersWereStarted == \A i \in Ids : runs[i] \in {0, 1} /\ (cli[i] # "none" => runs[i] = 1)

CapsAreKnown == caps \subseteq Known

IInv ==
    /\ TypeOK /\ DownIsEmpty /\ MemoryKnows /\ StartedIsNotQueued
    /\ PhaseAgrees /\ WorkersWereStarted /\ CapsAreKnown /\ ReceiptsAreTruthful

-----------------------------------------------------------------------------
(* Facts about the operators of the model.                                 *)

RawStates == {"not_sent", "not-sent", "sent", "unknown"}

\* NoJob is no receipt, and only queued, running and terminal receipts exist.
LEMMA JobFacts ==
    /\ NoJob \notin Jobs
    /\ \A r \in Jobs : r # NoJob /\ r.status \in Statuses /\ r.delivery \in Deliveries
BY RelayAssumption DEF Jobs

\* A receipt stays a receipt when its status or its delivery state is replaced.
LEMMA ExceptFacts ==
    ASSUME NEW r \in Jobs
    PROVE  /\ \A s \in Statuses : /\ [r EXCEPT !.status = s] \in Jobs
                                  /\ [r EXCEPT !.status = s].status = s
                                  /\ [r EXCEPT !.status = s].delivery = r.delivery
           /\ \A v \in Deliveries : /\ [r EXCEPT !.delivery = v] \in Jobs
                                    /\ [r EXCEPT !.delivery = v].delivery = v
                                    /\ [r EXCEPT !.delivery = v].status = r.status
BY DEF Jobs

\* FailedAs leaves a terminal receipt that says what the error said.
LEMMA FailedAsFacts ==
    ASSUME NEW r \in Jobs, NEW s \in RawStates
    PROVE  /\ FailedAs(r, s) \in Jobs
           /\ FailedAs(r, s).status \in {"failed", "unknown"}
           /\ FailedAs(r, s).delivery = IF s = "not-sent" THEN "not_sent" ELSE s
BY DEF FailedAs, Jobs, Statuses, Terminal, Deliveries, RawStates

\* The last write of a receipt changes one request: in memory it becomes r or
\* unknown, and its file holds the old content or r.
LEMMA SettleFacts ==
    ASSUME TypeOK, NEW j \in Ids, NEW d \in Jobs, NEW r \in Jobs, NEW n \in Nat,
           r.status \in Terminal, Settle(j, d, r, n)
    PROVE  /\ \E m \in Jobs, w \in {d, r} :
                 /\ job' = [job EXCEPT ![j] = m]
                 /\ disk' = [disk EXCEPT ![j] = w]
                 /\ m.status \in Terminal
                 /\ m = r \/ m.delivery = "unknown"
           /\ closed' \in [Ids -> BOOLEAN]
           /\ accepting' \in BOOLEAN
           /\ faults' \in 0..MaxFaults
<1>1. faults' \in 0..MaxFaults
  BY RelayAssumption DEF TypeOK, Settle, Faulty
<1>2. /\ closed' \in [Ids -> BOOLEAN]
      /\ accepting' \in BOOLEAN
  BY DEF TypeOK, Settle
<1>3. CASE job' = [job EXCEPT ![j] = r] /\ disk' = [disk EXCEPT ![j] = r]
  BY <1>1, <1>2, <1>3
<1>4. CASE /\ job' = [job EXCEPT ![j] = FailedAs(r, "unknown")]
           /\ \E w \in {d, r} : disk' = [disk EXCEPT ![j] = w]
  <2>1. /\ FailedAs(r, "unknown") \in Jobs
        /\ FailedAs(r, "unknown").status \in Terminal
        /\ FailedAs(r, "unknown").delivery = "unknown"
    BY FailedAsFacts DEF RawStates, Terminal
  <2>2. QED BY <1>1, <1>2, <1>4, <2>1
<1>5. QED BY <1>3, <1>4 DEF Settle

\* Every exit of execute() keeps the invariant when the request was running and
\* the receipts it may leave are true.
LEMMA FinishKeeps ==
    ASSUME IInv, NEW j \in Ids, NEW d \in Jobs, NEW r \in Jobs, NEW n \in Nat,
           phase[j] \in {"inspecting", "dispatched", "failing"}, daemon # "down",
           r.status \in Terminal, d.status = "running",
           Truthful(r, j), Truthful(d, j), Finish(j, d, r, n)
    PROVE  IInv'
<1> USE DEF IInv
<1>1. PICK m \in Jobs, w \in {d, r} :
         /\ job' = [job EXCEPT ![j] = m]
         /\ disk' = [disk EXCEPT ![j] = w]
         /\ m.status \in Terminal
         /\ m = r \/ m.delivery = "unknown"
  BY SettleFacts DEF Finish
<1>2. /\ closed' \in [Ids -> BOOLEAN]
      /\ accepting' \in BOOLEAN
      /\ faults' \in 0..MaxFaults
  BY SettleFacts DEF Finish
<1>3. /\ phase' = [phase EXCEPT ![j] = "idle"]
      /\ caps' = caps \ {j}
      /\ loop' \in {"idle", "soon", "later", "pump"}
      /\ UNCHANGED <<order, exiting, daemon, granted, cli, runs, crashes, stops>>
  BY DEF Finish, Release, TypeOK
<1>4. w \in Jobs /\ w.status \in {"running"} \cup Terminal /\ w # NoJob /\ m # NoJob
  BY JobFacts
<1>5. TypeOK'
  BY <1>1, <1>2, <1>3, <1>4 DEF TypeOK
<1>6. /\ Known' = Known \cup {j}
      /\ Stored' = Stored \cup {j}
  BY <1>1, <1>4 DEF Known, Stored, TypeOK
<1>7. DownIsEmpty' /\ CapsAreKnown'
  BY <1>3, <1>6 DEF DownIsEmpty, CapsAreKnown
<1>8. MemoryKnows'
  BY <1>1, <1>3, <1>4, <1>6 DEF MemoryKnows, Known, Terminal, TypeOK
<1>9. StartedIsNotQueued'
  BY <1>1, <1>3, <1>4, <1>6 DEF StartedIsNotQueued, Terminal, TypeOK
<1>10. PhaseAgrees'
  BY <1>1, <1>3, <1>6 DEF PhaseAgrees, TypeOK
<1>11. WorkersWereStarted'
  BY <1>3 DEF WorkersWereStarted
<1>12. ReceiptsAreTruthful'
  BY <1>1, <1>3 DEF ReceiptsAreTruthful, Truthful, TypeOK
<1>13. QED
  BY <1>5, <1>7, <1>8, <1>9, <1>10, <1>11, <1>12

-----------------------------------------------------------------------------
(* The steps.                                                              *)

\* Writing the receipt of a new request keeps the invariant.
LEMMA EnqueueKeeps ==
    ASSUME IInv, NEW i \in Ids, NEW r \in Jobs, daemon = "up", job[i] = NoJob,
           r.status = "queued", r.delivery = "not_sent", Enqueue(i, r),
           UNCHANGED <<phase, caps, accepting, exiting, daemon, granted, cli,
                       history, crashes, stops>>
    PROVE  IInv'
<1> USE DEF IInv, history
<1>1. PICK m \in Jobs \cup {NoJob} :
         /\ disk' = [disk EXCEPT ![i] = r]
         /\ job' = [job EXCEPT ![i] = m]
         /\ m = NoJob \/ m = r
  BY DEF Enqueue, TypeOK
<1>2. runs[i] = 0 /\ cli[i] = "none" /\ phase[i] \notin {"inspecting", "dispatched", "failing"}
  BY DEF MemoryKnows, StartedIsNotQueued, PhaseAgrees, WorkersWereStarted, Known, Stored, TypeOK
<1>3. /\ faults' \in 0..MaxFaults
      /\ order' \in Seq(Ids)
      /\ loop' \in {"idle", "soon", "later", "pump"}
  <2>1. faults' \in 0..MaxFaults
    BY RelayAssumption DEF Enqueue, Faulty, TypeOK
  <2>2. order' \in Seq(Ids)
    <3>1. order' = order \/ order' = Append(order, i)
      BY DEF Enqueue
    <3>2. order \in Seq(Ids)
      BY DEF TypeOK
    <3>3. QED BY <3>1, <3>2, AppendProperties
  <2>3. loop' \in {"idle", "soon", "later", "pump"}
    BY DEF Enqueue, TypeOK
  <2>4. QED BY <2>1, <2>2, <2>3
<1>4. TypeOK'
  BY <1>1, <1>3 DEF TypeOK
<1>5. r # NoJob /\ Stored' = Stored \cup {i} /\ Known \subseteq Known' /\ Known' \subseteq Known \cup {i}
  BY <1>1, JobFacts DEF Known, Stored, TypeOK
<1>6. DownIsEmpty' /\ CapsAreKnown'
  BY <1>5 DEF DownIsEmpty, CapsAreKnown
<1>7. MemoryKnows'
  BY <1>1, <1>5 DEF MemoryKnows, TypeOK
<1>8. StartedIsNotQueued'
  BY <1>1, <1>2, <1>5 DEF StartedIsNotQueued, Known, TypeOK
<1>9. PhaseAgrees'
  BY <1>1, <1>2, <1>5 DEF PhaseAgrees, TypeOK
<1>10. WorkersWereStarted'
  BY DEF WorkersWereStarted
<1>11. ReceiptsAreTruthful'
  BY <1>1, <1>2 DEF ReceiptsAreTruthful, Truthful, TypeOK
<1>12. QED
  BY <1>4, <1>6, <1>7, <1>8, <1>9, <1>10, <1>11

LEMMA SendKeeps ==
    ASSUME IInv, NEW i \in Ids, NEW a \in Agents, NEW p \in Projects, Send(i, a, p)
    PROVE  IInv'
<1> DEFINE r == [agent |-> a, project |-> p, root |-> i, parent |-> NoId,
                 depth |-> 0, status |-> "queued", delivery |-> "not_sent"]
<1>1. r \in Jobs /\ r.status = "queued" /\ r.delivery = "not_sent"
  BY RelayAssumption DEF Jobs, Statuses, Deliveries
<1> HIDE DEF r
<1>2. /\ daemon = "up" /\ job[i] = NoJob /\ Enqueue(i, r)
      /\ UNCHANGED <<phase, caps, accepting, exiting, daemon, granted, cli,
                     history, crashes, stops>>
  BY DEF Send, Fresh, r
<1>3. QED BY <1>1, <1>2, EnqueueKeeps

LEMMA DelegateKeeps ==
    ASSUME IInv, NEW i \in Ids, NEW w \in Ids, NEW a \in Agents, Delegate(i, w, a)
    PROVE  IInv'
<1> DEFINE r == [agent |-> a, project |-> job[w].project, root |-> job[w].root,
                 parent |-> w, depth |-> job[w].depth + 1,
                 status |-> "queued", delivery |-> "not_sent"]
<1>1. job[w] \in Jobs
  BY DEF Delegate, IInv, CapsAreKnown, Known, TypeOK
<1>2. job[w].depth + 1 \in 0..MaxDepth
  BY <1>1, RelayAssumption DEF Delegate, Delegable, Jobs
<1>3. r \in Jobs /\ r.status = "queued" /\ r.delivery = "not_sent"
  BY <1>1, <1>2 DEF Jobs, Statuses, Deliveries
<1> HIDE DEF r
<1>4. /\ daemon = "up" /\ job[i] = NoJob /\ Enqueue(i, r)
      /\ UNCHANGED <<phase, caps, accepting, exiting, daemon, granted, cli,
                     history, crashes, stops>>
  BY DEF Delegate, Fresh, r
<1>5. QED BY <1>3, <1>4, EnqueueKeeps

\* The pump: a request that starts, or that fails before its worker is inspected.
LEMMA StartJobKeeps ==
    ASSUME IInv, NEW j \in Ids, StartJob(j)
    PROVE  IInv'
<1> USE DEF IInv
<1> DEFINE running == [job[j] EXCEPT !.status = "running"]
<1>1. /\ job[j] \in Jobs /\ job[j].status = "queued" /\ j \in Known /\ j \in Stored
      /\ disk[j] \in Jobs
      /\ runs[j] = 0 /\ cli[j] = "none"
      /\ phase[j] \notin {"inspecting", "dispatched", "failing"}
  BY DEF StartJob, NextInLine, Startable, Queued, Known, Stored, TypeOK,
         MemoryKnows, StartedIsNotQueued, PhaseAgrees, WorkersWereStarted
<1>2. /\ running \in Jobs /\ running.status = "running"
      /\ running.delivery = job[j].delivery
  BY <1>1, ExceptFacts DEF Statuses
<1>3. Truthful(job[j], j) /\ Truthful(disk[j], j) /\ Truthful(running, j)
  BY <1>1, <1>2, JobFacts DEF ReceiptsAreTruthful, Truthful
<1> HIDE DEF running
<1>4. PICK m \in Jobs, w \in Jobs, ph \in {"inspecting", "done"} :
         /\ job' = [job EXCEPT ![j] = m]
         /\ disk' = [disk EXCEPT ![j] = w]
         /\ phase' = [phase EXCEPT ![j] = ph]
         /\ m.status # "queued" /\ Truthful(m, j) /\ Truthful(w, j)
         /\ ph = "inspecting" => m.status = "running" /\ w.status = "running"
         /\ closed' \in [Ids -> BOOLEAN] /\ accepting' \in BOOLEAN
         /\ faults' \in 0..MaxFaults
  <2>1. CASE /\ job' = [job EXCEPT ![j] = running]
             /\ disk' = [disk EXCEPT ![j] = running]
             /\ phase' = [phase EXCEPT ![j] = "inspecting"]
             /\ Faulty(0) /\ UNCHANGED <<accepting, closed>>
    <3>1. /\ closed' \in [Ids -> BOOLEAN] /\ accepting' \in BOOLEAN
          /\ faults' \in 0..MaxFaults
      BY <2>1, RelayAssumption DEF TypeOK, Faulty
    <3>2. QED BY <1>2, <1>3, <2>1, <3>1
  <2>2. ASSUME NEW d \in {disk[j], running}, NEW r \in {job[j], running}, NEW n \in Nat,
               Settle(j, d, FailedAs(r, "not_sent"), n),
               phase' = [phase EXCEPT ![j] = "done"]
        PROVE  \E m \in Jobs, w \in Jobs :
                 /\ job' = [job EXCEPT ![j] = m]
                 /\ disk' = [disk EXCEPT ![j] = w]
                 /\ m.status # "queued" /\ Truthful(m, j) /\ Truthful(w, j)
                 /\ closed' \in [Ids -> BOOLEAN] /\ accepting' \in BOOLEAN
                 /\ faults' \in 0..MaxFaults
    <3>1. /\ FailedAs(r, "not_sent") \in Jobs
          /\ FailedAs(r, "not_sent").status \in Terminal
          /\ FailedAs(r, "not_sent").delivery = "not_sent"
          /\ Truthful(FailedAs(r, "not_sent"), j)
      BY <1>1, <1>2, FailedAsFacts DEF RawStates, Terminal, Truthful
    <3>2. d \in Jobs /\ Truthful(d, j)
      BY <1>1, <1>2, <1>3
    <3>3. PICK m \in Jobs, w \in {d, FailedAs(r, "not_sent")} :
             /\ job' = [job EXCEPT ![j] = m]
             /\ disk' = [disk EXCEPT ![j] = w]
             /\ m.status \in Terminal
             /\ m = FailedAs(r, "not_sent") \/ m.delivery = "unknown"
      BY <2>2, <3>1, <3>2, SettleFacts
    <3>4. /\ closed' \in [Ids -> BOOLEAN] /\ accepting' \in BOOLEAN
          /\ faults' \in 0..MaxFaults
      BY <2>2, <3>1, <3>2, SettleFacts
    <3>5. w \in Jobs /\ Truthful(w, j) /\ Truthful(m, j) /\ m.status # "queued"
      BY <3>1, <3>2, <3>3 DEF Truthful, Terminal
    <3>6. QED BY <3>3, <3>4, <3>5
  <2>3. CASE Settle(j, disk[j], FailedAs(job[j], "not_sent"), 0) /\ phase' = [phase EXCEPT ![j] = "done"]
    BY <2>2, <2>3
  <2>4. CASE /\ \E d \in {disk[j], running} : Settle(j, d, FailedAs(running, "not_sent"), 1)
             /\ phase' = [phase EXCEPT ![j] = "done"]
    BY <2>2, <2>4
  <2>5. QED BY <2>1, <2>3, <2>4 DEF StartJob, running
<1>5. loop' = "pump" /\ daemon # "down"
      /\ UNCHANGED <<order, caps, exiting, daemon, granted, cli, runs, crashes, stops>>
  BY DEF StartJob
<1>6. m # NoJob /\ w # NoJob /\ Known' = Known /\ Stored' = Stored
  BY <1>1, <1>4, JobFacts DEF Known, Stored, TypeOK
<1>7. TypeOK'
  BY <1>4, <1>5 DEF TypeOK
<1>8. DownIsEmpty' /\ CapsAreKnown' /\ WorkersWereStarted'
  BY <1>5, <1>6 DEF DownIsEmpty, CapsAreKnown, WorkersWereStarted
<1>9. MemoryKnows'
  BY <1>1, <1>4, <1>5, <1>6 DEF MemoryKnows, TypeOK
<1>10. StartedIsNotQueued'
  BY <1>1, <1>4, <1>5, <1>6 DEF StartedIsNotQueued, TypeOK
<1>11. PhaseAgrees'
  BY <1>1, <1>4, <1>5, <1>6 DEF PhaseAgrees, TypeOK
<1>12. ReceiptsAreTruthful'
  BY <1>4, <1>5 DEF ReceiptsAreTruthful, Truthful, TypeOK
<1>13. QED
  BY <1>7, <1>8, <1>9, <1>10, <1>11, <1>12

LEMMA EndPumpKeeps == ASSUME IInv, EndPump PROVE IInv'
<1> USE DEF IInv, EndPump, history, budgets
<1>1. TypeOK'
  BY DEF TypeOK
<1>2. Known' = Known /\ Stored' = Stored /\ caps' \subseteq caps
  BY DEF Known, Stored
<1>3. \A i \in Ids : phase'[i] = phase[i] \/ phase'[i] = "idle"
  BY DEF TypeOK
<1>4. DownIsEmpty' /\ CapsAreKnown' /\ MemoryKnows' /\ WorkersWereStarted'
  BY <1>2 DEF DownIsEmpty, CapsAreKnown, MemoryKnows, WorkersWereStarted
<1>5. StartedIsNotQueued' /\ ReceiptsAreTruthful'
  BY <1>2 DEF StartedIsNotQueued, ReceiptsAreTruthful, Truthful
<1>6. PhaseAgrees'
  BY <1>2, <1>3 DEF PhaseAgrees
<1>7. QED BY <1>1, <1>4, <1>5, <1>6

LEMMA DispatchKeeps == ASSUME IInv, NEW j \in Ids, Dispatch(j) PROVE IInv'
<1> USE DEF IInv
<1> DEFINE r == [job[j] EXCEPT !.delivery = "unknown"]
<1>1. /\ job[j] \in Jobs /\ job[j].status = "running" /\ j \in Known /\ j \in Stored
      /\ runs[j] = 0
  BY DEF Dispatch, PhaseAgrees, Known, TypeOK
<1>2. r \in Jobs /\ r.status = "running" /\ r.delivery = "unknown" /\ r # NoJob
  BY <1>1, ExceptFacts, JobFacts DEF Deliveries
<1>3. /\ job' = [job EXCEPT ![j] = r] /\ disk' = [disk EXCEPT ![j] = r]
      /\ phase' = [phase EXCEPT ![j] = "dispatched"]
      /\ caps' = caps \cup {j} /\ runs' = [runs EXCEPT ![j] = 1]
      /\ daemon # "down"
      /\ UNCHANGED <<order, loop, accepting, exiting, daemon, granted, cli, closed, budgets>>
  BY <1>1 DEF Dispatch, Recorded, Turn, TypeOK
<1> HIDE DEF r
<1>4. Known' = Known /\ Stored' = Stored
  BY <1>1, <1>2, <1>3 DEF Known, Stored, TypeOK
<1>5. TypeOK'
  BY <1>2, <1>3 DEF TypeOK, budgets
<1>6. DownIsEmpty' /\ CapsAreKnown' /\ WorkersWereStarted'
  BY <1>1, <1>3, <1>4 DEF DownIsEmpty, CapsAreKnown, WorkersWereStarted, TypeOK
<1>7. MemoryKnows' /\ StartedIsNotQueued'
  BY <1>1, <1>2, <1>3, <1>4 DEF MemoryKnows, StartedIsNotQueued, TypeOK
<1>8. PhaseAgrees'
  BY <1>1, <1>2, <1>3, <1>4 DEF PhaseAgrees, TypeOK
<1>9. ReceiptsAreTruthful'
  BY <1>2, <1>3 DEF ReceiptsAreTruthful, Truthful, TypeOK
<1>10. QED BY <1>5, <1>6, <1>7, <1>8, <1>9

LEMMA NotDispatchedKeeps == ASSUME IInv, NEW j \in Ids, NotDispatched(j) PROVE IInv'
<1>1. /\ job[j] \in Jobs /\ disk[j] \in Jobs /\ disk[j].status = "running"
      /\ cli[j] = "none" /\ phase[j] = "inspecting" /\ daemon # "down"
      /\ Truthful(disk[j], j)
  BY DEF NotDispatched, Turn, IInv, PhaseAgrees, WorkersWereStarted,
         ReceiptsAreTruthful, Known, Stored, TypeOK
<1>2. /\ FailedAs(job[j], "not_sent") \in Jobs
      /\ FailedAs(job[j], "not_sent").status \in Terminal
      /\ Truthful(FailedAs(job[j], "not_sent"), j)
  BY <1>1, FailedAsFacts DEF RawStates, Terminal, Truthful
<1>3. Finish(j, disk[j], FailedAs(job[j], "not_sent"), 0)
  BY DEF NotDispatched
<1>4. QED BY <1>1, <1>2, <1>3, FinishKeeps

LEMMA DispatchNotRecordedKeeps ==
    ASSUME IInv, NEW j \in Ids, DispatchNotRecorded(j) PROVE IInv'
<1> DEFINE r == [job[j] EXCEPT !.delivery = "unknown"]
<1>1. /\ job[j] \in Jobs /\ job[j].status = "running"
      /\ disk[j] \in Jobs /\ disk[j].status = "running"
      /\ cli[j] = "none" /\ phase[j] = "inspecting" /\ daemon # "down"
      /\ Truthful(disk[j], j)
  BY DEF DispatchNotRecorded, Turn, IInv, PhaseAgrees, WorkersWereStarted,
         ReceiptsAreTruthful, Known, Stored, TypeOK
<1>2. r \in Jobs /\ r.status = "running" /\ r.delivery = "unknown"
  BY <1>1, ExceptFacts DEF Deliveries
<1> HIDE DEF r
<1>3. PICK d \in {disk[j], r}, s \in {"not_sent", "unknown"} :
         Finish(j, d, FailedAs(r, s), 1)
  BY DEF DispatchNotRecorded, r
<1>4. /\ FailedAs(r, s) \in Jobs
      /\ FailedAs(r, s).status \in Terminal
      /\ Truthful(FailedAs(r, s), j)
  BY <1>1, <1>2, FailedAsFacts DEF RawStates, Terminal, Truthful
<1>5. d \in Jobs /\ d.status = "running" /\ Truthful(d, j)
  BY <1>1, <1>2 DEF Truthful
<1>6. QED BY <1>1, <1>3, <1>4, <1>5, FinishKeeps

LEMMA EndsKeeps == ASSUME IInv, NEW j \in Ids, Ends(j) PROVE IInv'
<1>1. /\ job[j] \in Jobs /\ disk[j] \in Jobs /\ disk[j].status = "running"
      /\ phase[j] \in {"dispatched", "failing"} /\ daemon # "down"
      /\ Truthful(disk[j], j) /\ Truthful(job[j], j) /\ job[j] # NoJob
  BY DEF Ends, Returns, Throws, Turn, IInv, PhaseAgrees,
         ReceiptsAreTruthful, Known, Stored, TypeOK
<1>2. CASE Returns(j)
  <2> DEFINE r == [job[j] EXCEPT !.status = "completed"]
  <2>1. r \in Jobs /\ r.status \in Terminal /\ r.delivery = job[j].delivery
    BY <1>1, ExceptFacts DEF Statuses, Terminal
  <2>2. Finish(j, disk[j], r, 0)
    BY <1>2 DEF Returns
  <2> HIDE DEF r
  <2>3. Truthful(r, j)
    BY <1>1, <2>1 DEF Truthful
  <2>4. QED BY <1>1, <2>1, <2>2, <2>3, FinishKeeps
<1>3. CASE Throws(j)
  <2>1. PICK s \in ErrorStates(j) : Finish(j, disk[j], FailedAs(job[j], s), 0)
    BY <1>3 DEF Throws
  <2>2. s \in RawStates /\ (s \in {"not_sent", "not-sent"} => cli[j] = "none")
                        /\ (s = "sent" => cli[j] = "taken")
    BY <1>1 DEF ErrorStates, RawStates, Truthful
  <2>3. /\ FailedAs(job[j], s) \in Jobs
        /\ FailedAs(job[j], s).status \in Terminal
        /\ FailedAs(job[j], s).delivery = IF s = "not-sent" THEN "not_sent" ELSE s
    BY <1>1, <2>2, FailedAsFacts DEF Terminal
  <2>4. Truthful(FailedAs(job[j], s), j)
    BY <2>2, <2>3 DEF Truthful
  <2>5. QED BY <1>1, <2>1, <2>3, <2>4, FinishKeeps
<1>4. QED BY <1>2, <1>3 DEF Ends

LEMMA AcceptedKeeps == ASSUME IInv, NEW j \in Ids, Accepted(j) PROVE IInv'
<1> USE DEF IInv, history
<1> DEFINE r == [job[j] EXCEPT !.delivery = "sent"]
<1>1. /\ job[j] \in Jobs /\ job[j].status = "running"
      /\ disk[j] \in Jobs /\ disk[j].status = "running"
      /\ disk[j].delivery # "not_sent"
      /\ j \in Known /\ j \in Stored
      /\ runs[j] = 1 /\ cli[j] = "taken" /\ daemon # "down"
  BY DEF Accepted, Turn, PhaseAgrees, Known, Stored, TypeOK
<1>2. r \in Jobs /\ r.status = "running" /\ r.delivery = "sent" /\ r # NoJob
  BY <1>1, ExceptFacts, JobFacts DEF Deliveries
<1> HIDE DEF r
<1>3. PICK d \in {disk[j], r}, ph \in {"dispatched", "failing"} :
         /\ job' = [job EXCEPT ![j] = r]
         /\ disk' = [disk EXCEPT ![j] = d]
         /\ phase' = [phase EXCEPT ![j] = ph]
  <2>1. phase = [phase EXCEPT ![j] = "dispatched"]
    BY DEF Accepted, TypeOK
  <2>2. QED BY <2>1 DEF Accepted, r
<1>4. /\ faults' \in 0..MaxFaults
      /\ UNCHANGED <<order, caps, loop, accepting, exiting, daemon, granted, cli,
                     runs, closed, crashes, stops>>
  BY RelayAssumption DEF Accepted, Faulty, TypeOK
<1>5. d \in Jobs /\ d # NoJob /\ d.status = "running" /\ d.delivery # "not_sent"
  BY <1>1, <1>2, JobFacts
<1>6. Known' = Known /\ Stored' = Stored
  BY <1>1, <1>2, <1>3, <1>5 DEF Known, Stored, TypeOK
<1>7. TypeOK'
  BY <1>2, <1>3, <1>4, <1>5 DEF TypeOK
<1>8. DownIsEmpty' /\ CapsAreKnown' /\ WorkersWereStarted'
  BY <1>1, <1>4, <1>6 DEF DownIsEmpty, CapsAreKnown, WorkersWereStarted
<1>9. MemoryKnows' /\ StartedIsNotQueued'
  BY <1>1, <1>2, <1>3, <1>4, <1>5, <1>6 DEF MemoryKnows, StartedIsNotQueued, TypeOK
<1>10. PhaseAgrees'
  BY <1>1, <1>2, <1>3, <1>4, <1>5, <1>6 DEF PhaseAgrees, TypeOK
<1>11. ReceiptsAreTruthful'
  BY <1>1, <1>2, <1>3, <1>4 DEF ReceiptsAreTruthful, Truthful, TypeOK
<1>12. QED BY <1>7, <1>8, <1>9, <1>10, <1>11

\* Steps of the worker process touch neither receipts nor the relay.
LEMMA WorkerKeeps ==
    ASSUME IInv, NEW j \in Ids, WritePrompt(j) \/ WorkerTakes(j) PROVE IInv'
<1> USE DEF IInv, memory, history, budgets
<1>1. PICK c \in {"written", "taken"} : cli' = [cli EXCEPT ![j] = c]
  BY DEF WritePrompt, WorkerTakes
<1>2. UNCHANGED <<disk, memory, granted, history, budgets>>
  BY DEF WritePrompt, WorkerTakes
<1>3. runs[j] = 1 /\ (c = "written" => cli[j] = "none" /\ phase[j] = "dispatched")
                  /\ (c = "taken" => cli[j] = "written")
  BY <1>1 DEF WritePrompt, WorkerTakes, PhaseAgrees, WorkersWereStarted, TypeOK
<1>4. TypeOK'
  BY <1>1, <1>2 DEF TypeOK
<1>5. DownIsEmpty' /\ MemoryKnows' /\ CapsAreKnown'
  BY <1>2 DEF DownIsEmpty, MemoryKnows, CapsAreKnown, Known, Stored
<1>6. StartedIsNotQueued' /\ PhaseAgrees'
  BY <1>2 DEF StartedIsNotQueued, PhaseAgrees, Known, Stored
<1>7. WorkersWereStarted'
  BY <1>1, <1>2, <1>3 DEF WorkersWereStarted, TypeOK
<1>8. ReceiptsAreTruthful'
  BY <1>1, <1>2, <1>3 DEF ReceiptsAreTruthful, Truthful, PhaseAgrees, TypeOK
<1>9. QED BY <1>4, <1>5, <1>6, <1>7, <1>8

\* Steps that decide about the daemon or the policy leave every request alone.
LEMMA ControlKeeps ==
    ASSUME IInv, EditPolicy \/ Drain \/ Signal \/ (\E updated \in BOOLEAN : Poll(updated))
    PROVE  IInv'
<1> USE DEF IInv, memory, history, budgets
<1>1. UNCHANGED <<disk, job, order, phase, caps, loop, cli, runs, closed, faults, crashes>>
  BY DEF EditPolicy, Drain, Signal, Poll
<1>2. /\ granted' \subseteq Projects /\ accepting' \in BOOLEAN /\ exiting' \in BOOLEAN
      /\ stops' \in 0..MaxStops
      /\ daemon' \in {"up", "stopping", "down"}
      /\ daemon' = "down" <=> daemon = "down"
  <2>1. CASE EditPolicy
    BY <2>1 DEF EditPolicy, TypeOK
  <2>2. CASE Drain \/ Signal
    <3>1. stops' \in 0..MaxStops
      BY <2>2, RelayAssumption DEF Drain, Signal, TypeOK
    <3>2. QED BY <2>2, <3>1 DEF Drain, Signal, TypeOK
  <2>3. ASSUME NEW updated \in BOOLEAN, Poll(updated)
        PROVE  /\ granted' \subseteq Projects /\ accepting' \in BOOLEAN /\ exiting' \in BOOLEAN
               /\ stops' \in 0..MaxStops
               /\ daemon' \in {"up", "stopping", "down"}
               /\ daemon' = "down" <=> daemon = "down"
    <3>1. granted' \subseteq Projects /\ accepting' \in BOOLEAN /\ exiting' \in BOOLEAN
      BY <2>3 DEF Poll, Leaves, TypeOK
    <3>2. stops' \in 0..MaxStops
      BY <2>3, RelayAssumption DEF Poll, TypeOK
    <3>3. daemon' \in {"up", "stopping", "down"} /\ (daemon' = "down" <=> daemon = "down")
      BY <2>3 DEF Poll
    <3>4. QED BY <3>1, <3>2, <3>3
  <2>4. QED BY <2>1, <2>2, <2>3
<1>3. TypeOK'
  BY <1>1, <1>2 DEF TypeOK
<1>4. DownIsEmpty' /\ MemoryKnows' /\ CapsAreKnown' /\ WorkersWereStarted'
  BY <1>1, <1>2 DEF DownIsEmpty, MemoryKnows, CapsAreKnown, WorkersWereStarted, Known, Stored
<1>5. StartedIsNotQueued' /\ PhaseAgrees' /\ ReceiptsAreTruthful'
  BY <1>1 DEF StartedIsNotQueued, PhaseAgrees, ReceiptsAreTruthful, Truthful, Known, Stored
<1>6. QED BY <1>3, <1>4, <1>5

LEMMA VanishKeeps == ASSUME IInv, Exit \/ Crash PROVE IInv'
<1> USE DEF IInv, history
<1>1. Vanish /\ crashes' \in 0..MaxCrashes
  BY RelayAssumption DEF Exit, Crash, TypeOK
<1>2. TypeOK'
  <2>1. order' \in Seq(Ids)
    BY <1>1, EmptySeq DEF Vanish
  <2>2. QED BY <1>1, <2>1 DEF TypeOK, Vanish
<1>3. Known' = {} /\ Stored' = Stored
  BY <1>1 DEF Known, Stored, Vanish
<1>4. DownIsEmpty' /\ MemoryKnows' /\ CapsAreKnown' /\ WorkersWereStarted'
  BY <1>1, <1>3 DEF DownIsEmpty, MemoryKnows, CapsAreKnown, WorkersWereStarted, Vanish
<1>5. StartedIsNotQueued' /\ PhaseAgrees'
  BY <1>1, <1>3 DEF StartedIsNotQueued, PhaseAgrees, Vanish
<1>6. ReceiptsAreTruthful'
  BY <1>1 DEF ReceiptsAreTruthful, Truthful, Vanish
<1>7. QED BY <1>2, <1>4, <1>5, <1>6

\* initialize() replaces receipts of interrupted requests only, by unknown.
LEMMA ConvertedFacts ==
    ASSUME NEW r \in Jobs \cup {NoJob}
    PROVE  /\ Converted(r) \in Jobs \cup {NoJob}
           /\ Converted(r) = NoJob <=> r = NoJob
           /\ r # NoJob /\ r.status = "running" =>
                 Converted(r).status \in Terminal /\ Converted(r).delivery = "unknown"
           /\ ~(r # NoJob /\ r.status = "running") => Converted(r) = r
           /\ r # NoJob => Converted(r).status # "running"
<1>1. CASE r # NoJob /\ r.status = "running"
  <2>1. /\ FailedAs(r, "unknown") \in Jobs
        /\ FailedAs(r, "unknown").status \in {"failed", "unknown"}
        /\ FailedAs(r, "unknown").delivery = "unknown"
    BY <1>1, FailedAsFacts DEF RawStates
  <2>2. QED BY <1>1, <2>1, JobFacts DEF Converted, Terminal
<1>2. CASE ~(r # NoJob /\ r.status = "running")
  BY <1>2 DEF Converted
<1>3. QED BY <1>1, <1>2

LEMMA RestartKeeps == ASSUME IInv, Restart PROVE IInv'
<1> USE DEF IInv, history, budgets
<1>1. /\ job' = disk' /\ disk' = [i \in Ids |-> Converted(disk[i])]
      /\ daemon = "down" /\ daemon' = "up" /\ loop' = "soon" /\ accepting' = TRUE
      /\ closed' \in [Ids -> BOOLEAN]
      /\ UNCHANGED <<phase, caps, exiting, granted, cli, runs, budgets>>
  <2>1. \A i \in Ids : (closed[i] \/ (i \in Stored /\ disk'[i].status \in Terminal)) \in BOOLEAN
    BY DEF TypeOK
  <2>2. QED BY <2>1 DEF Restart
<1>2. order' \in Seq(Ids)
  <2>1. Stored \subseteq Ids /\ IsFiniteSet(Stored)
    BY FS_Subset, RelayAssumption DEF Stored
  <2>2. Cardinality(Stored) \in Nat
    BY <2>1, FS_CardinalityType
  <2>3. order' \in [1..Cardinality(Stored) -> Ids]
    BY <2>1 DEF Restart, Listings
  <2>4. QED BY <2>2, <2>3, SeqDef
<1>3. \A i \in Ids : disk'[i] = Converted(disk[i]) /\ disk[i] \in Jobs \cup {NoJob}
  BY <1>1 DEF TypeOK
<1>4. Known' = Stored /\ Stored' = Stored
  BY <1>1, <1>3, ConvertedFacts DEF Known, Stored
<1>5. TypeOK'
  BY <1>1, <1>2, <1>3, ConvertedFacts DEF TypeOK
<1>6. DownIsEmpty' /\ MemoryKnows' /\ CapsAreKnown' /\ WorkersWereStarted'
  BY <1>1, <1>4 DEF DownIsEmpty, MemoryKnows, CapsAreKnown, WorkersWereStarted
<1>7. StartedIsNotQueued'
  <2>1. ASSUME NEW i \in Ids, runs'[i] # 0
        PROVE  i \in Stored' /\ disk'[i].status # "queued"
    BY <1>1, <1>3, <1>4, <2>1, ConvertedFacts DEF StartedIsNotQueued, Stored, Terminal
  <2>2. QED BY <1>1, <2>1 DEF StartedIsNotQueued
<1>8. PhaseAgrees'
  BY <1>1 DEF PhaseAgrees, DownIsEmpty
<1>9. ReceiptsAreTruthful'
  <2>1. ASSUME NEW i \in Ids PROVE Truthful(disk[i], i)' 
    BY <1>1, <1>3, ConvertedFacts DEF ReceiptsAreTruthful, Truthful
  <2>2. QED BY <1>1, <2>1 DEF ReceiptsAreTruthful, Truthful
<1>10. QED BY <1>5, <1>6, <1>7, <1>8, <1>9

LEMMA RestartFailsKeeps == ASSUME IInv, RestartFails PROVE IInv'
<1> USE DEF IInv, memory, history
<1>1. PICK S \in SUBSET Ids :
         disk' = [i \in Ids |-> IF i \in S THEN Converted(disk[i]) ELSE disk[i]]
  BY DEF RestartFails, Stored
<1>2. /\ daemon = "down" /\ faults' \in 0..MaxFaults
      /\ UNCHANGED <<job, order, phase, caps, loop, accepting, exiting, daemon, granted,
                     cli, runs, closed, crashes, stops>>
  BY RelayAssumption DEF RestartFails, Faulty, TypeOK
<1>3. \A i \in Ids : /\ disk'[i] = disk[i] \/ disk'[i] = Converted(disk[i])
                     /\ disk[i] \in Jobs \cup {NoJob}
  BY <1>1 DEF TypeOK
<1>4. Known' = Known /\ Stored' = Stored
  BY <1>2, <1>3, ConvertedFacts DEF Known, Stored
<1>5. disk' \in [Ids -> Jobs \cup {NoJob}]
  BY <1>1, ConvertedFacts DEF TypeOK
<1>6. TypeOK'
  BY <1>2, <1>5 DEF TypeOK
<1>7. DownIsEmpty' /\ MemoryKnows' /\ CapsAreKnown' /\ WorkersWereStarted'
  <2>1. Known = {}
    BY <1>2 DEF DownIsEmpty, Known
  <2>2. QED
    BY <1>2, <1>4, <2>1 DEF DownIsEmpty, MemoryKnows, CapsAreKnown, WorkersWereStarted
<1>8. StartedIsNotQueued'
  <2>1. ASSUME NEW i \in Ids, runs'[i] # 0
        PROVE  i \in Stored' /\ disk'[i].status # "queued"
    BY <1>2, <1>3, <1>4, <2>1, ConvertedFacts DEF StartedIsNotQueued, Stored, Terminal
  <2>2. QED BY <1>2, <1>4, <2>1 DEF StartedIsNotQueued
<1>9. PhaseAgrees'
  BY <1>2 DEF PhaseAgrees, DownIsEmpty
<1>10. ReceiptsAreTruthful'
  BY <1>2, <1>3, ConvertedFacts DEF ReceiptsAreTruthful, Truthful
<1>11. QED BY <1>6, <1>7, <1>8, <1>9, <1>10

-----------------------------------------------------------------------------
(* The theorems.                                                           *)

LEMMA InitHolds == Init => IInv
<1> SUFFICES ASSUME Init PROVE IInv
  OBVIOUS
<1> USE DEF Init
<1>1. TypeOK
  <2>1. /\ faults \in 0..MaxFaults
        /\ crashes \in 0..MaxCrashes
        /\ stops \in 0..MaxStops
    BY RelayAssumption
  <2>2. order \in Seq(Ids)
    BY EmptySeq
  <2>3. QED BY <2>1, <2>2 DEF TypeOK
<1>2. Known = {} /\ Stored = {}
  BY DEF Known, Stored
<1>3. DownIsEmpty /\ MemoryKnows /\ CapsAreKnown /\ WorkersWereStarted
  BY <1>2 DEF DownIsEmpty, MemoryKnows, CapsAreKnown, WorkersWereStarted
<1>4. StartedIsNotQueued /\ PhaseAgrees /\ ReceiptsAreTruthful
  BY DEF StartedIsNotQueued, PhaseAgrees, ReceiptsAreTruthful, Truthful
<1>5. QED BY <1>1, <1>3, <1>4 DEF IInv

LEMMA StutterKeeps == ASSUME IInv, UNCHANGED vars PROVE IInv'
BY DEF IInv, vars, memory, history, budgets, TypeOK, DownIsEmpty, MemoryKnows,
       StartedIsNotQueued, PhaseAgrees, WorkersWereStarted, CapsAreKnown,
       ReceiptsAreTruthful, Truthful, Known, Stored

LEMMA StepKeeps == IInv /\ [Next]_vars => IInv'
<1> SUFFICES ASSUME IInv, [Next]_vars PROVE IInv'
  OBVIOUS
<1>1. CASE \E i \in Ids, a \in Agents, p \in Projects : Send(i, a, p)
  BY <1>1, SendKeeps
<1>2. CASE \E i, w \in Ids, a \in Agents : Delegate(i, w, a)
  BY <1>2, DelegateKeeps
<1>3. CASE \E j \in Ids : StartJob(j)
  BY <1>3, StartJobKeeps
<1>4. CASE EndPump
  BY <1>4, EndPumpKeeps
<1>5. CASE \E j \in Ids : Dispatch(j) \/ NotDispatched(j) \/ DispatchNotRecorded(j)
  BY <1>5, DispatchKeeps, NotDispatchedKeeps, DispatchNotRecordedKeeps
<1>6. CASE \E j \in Ids : WritePrompt(j) \/ WorkerTakes(j) \/ Accepted(j)
  BY <1>6, WorkerKeeps, AcceptedKeeps
<1>7. CASE \E j \in Ids : Ends(j)
  BY <1>7, EndsKeeps
<1>8. CASE EditPolicy \/ Drain \/ Signal \/ \E updated \in BOOLEAN : Poll(updated)
  BY <1>8, ControlKeeps
<1>9. CASE Exit \/ Crash
  BY <1>9, VanishKeeps
<1>10. CASE Restart
  BY <1>10, RestartKeeps
<1>11. CASE RestartFails
  BY <1>11, RestartFailsKeeps
<1>12. CASE UNCHANGED vars
  BY <1>12, StutterKeeps
<1>13. QED
  BY <1>1, <1>2, <1>3, <1>4, <1>5, <1>6, <1>7, <1>8, <1>9, <1>10, <1>11, <1>12 DEF Next

THEOREM Invariance == Spec => []IInv
BY InitHolds, StepKeeps, PTL DEF Spec

\* Every reachable state of the relay, its files and its workers is well typed.
THEOREM TypeCorrect == Spec => []TypeOK
<1>1. IInv => TypeOK
  BY DEF IInv
<1>2. QED BY <1>1, Invariance, PTL

\* adapter.run is called at most once per request ID, for any number of requests,
\* crashes, restarts and failed receipt writes.
THEOREM StartedAtMostOnce == Spec => []AtMostOnce
<1>1. IInv => AtMostOnce
  BY DEF IInv, WorkersWereStarted, AtMostOnce
<1>2. QED BY <1>1, Invariance, PTL

\* A receipt in memory or in its file says "not sent" only when the worker was
\* never given the prompt, and "sent" only when it took it.
THEOREM Truthfulness == Spec => []ReceiptsAreTruthful
<1>1. IInv => ReceiptsAreTruthful
  BY DEF IInv
<1>2. QED BY <1>1, Invariance, PTL

\* What the relay knows of is in its files, so that a crash forgets nothing.
THEOREM Durability == Spec => []AcceptedIsDurable
<1>1. IInv => AcceptedIsDurable
  BY DEF IInv, MemoryKnows, AcceptedIsDurable
<1>2. QED BY <1>1, Invariance, PTL

-----------------------------------------------------------------------------
(* Refinement: every step of the relay is a step of WorkerLedger, or none. *)

work == [i \in Ids |-> StageOf(disk[i], runs[i])]

LEMMA StageOfFacts ==
    ASSUME NEW r \in Jobs \cup {NoJob}, NEW n \in Nat
    PROVE  /\ r = NoJob => StageOf(r, n) = "absent"
           /\ r # NoJob /\ r.status = "queued" => StageOf(r, n) = "owed"
           /\ r # NoJob /\ r.status = "running" /\ n = 0 => StageOf(r, n) = "owed"
           /\ r # NoJob /\ r.status = "running" /\ n # 0 => StageOf(r, n) = "started"
           /\ r # NoJob /\ r.status \in Terminal => StageOf(r, n) = "settled"
<1>1. CASE r = NoJob
  BY <1>1 DEF StageOf
<1>2. CASE r # NoJob /\ r.status \in {"queued", "running"}
  BY <1>2 DEF StageOf, Terminal
<1>3. CASE r # NoJob /\ r.status \in Terminal
  BY <1>3 DEF StageOf, Terminal
<1>4. QED
  BY <1>1, <1>2, <1>3

\* Requests that settle, all in one step or none, are a step of the ledger.
LEMMA SettlingIsLedgerStep ==
    ASSUME UNCHANGED runs,
           \A i \in Ids : \/ work'[i] = work[i]
                          \/ work[i] \in {"owed", "started"} /\ work'[i] = "settled"
    PROVE  Ledger!Next
<1> DEFINE S == {i \in Ids : work[i] \in {"owed", "started"} /\ work'[i] = "settled"}
<1>1. Ledger!Settle(S)
  <2>1. work' = [i \in Ids |-> IF i \in S THEN "settled" ELSE work[i]]
    BY DEF work
  <2>2. \A i \in S : work[i] \in {"owed", "started"}
    OBVIOUS
  <2>3. QED BY <2>1, <2>2 DEF Ledger!Settle, work
<1>2. QED BY <1>1 DEF Ledger!Next

\* A step that touches one receipt file of a request that was not started, or
\* was, and leaves the count of starts alone.
LEMMA OneFileStep ==
    ASSUME IInv, IInv', NEW j \in Ids, NEW w \in Jobs, UNCHANGED runs,
           disk' = [disk EXCEPT ![j] = w], disk[j] # NoJob,
           \/ w.status = disk[j].status
           \/ w.status \in Terminal /\ disk[j].status \notin Terminal
           \/ w.status = "running" /\ disk[j].status = "queued" /\ runs[j] = 0
    PROVE  Ledger!Next
<1>1. /\ disk[j] \in Jobs /\ disk[j].status \in Statuses /\ runs[j] \in Nat
      /\ w # NoJob /\ w.status \in Statuses
      /\ disk'[j] = w /\ \A i \in Ids \ {j} : disk'[i] = disk[i]
  BY JobFacts DEF IInv, TypeOK
<1>2. work[j] = StageOf(disk[j], runs[j]) /\ work'[j] = StageOf(w, runs[j])
  BY <1>1 DEF work
<1>3. \/ work'[j] = work[j]
      \/ work[j] \in {"owed", "started"} /\ work'[j] = "settled"
  BY <1>1, <1>2, StageOfFacts DEF Statuses, Terminal
<1>4. \A i \in Ids \ {j} : work'[i] = work[i]
  BY <1>1 DEF work
<1>5. QED BY <1>3, <1>4, SettlingIsLedgerStep

LEMMA EnqueueLedger ==
    ASSUME IInv, IInv', NEW i \in Ids, NEW r \in Jobs, daemon = "up", job[i] = NoJob,
           r.status = "queued", disk' = [disk EXCEPT ![i] = r], UNCHANGED runs
    PROVE  Ledger!Next
<1>1. /\ runs[i] = 0 /\ disk[i] \in Jobs \cup {NoJob}
      /\ disk[i] # NoJob => disk[i].status = "queued"
  BY DEF IInv, MemoryKnows, StartedIsNotQueued, Known, Stored, TypeOK
<1>2. CASE disk[i] = NoJob
  <2>1. work[i] = "absent" /\ work'[i] = "owed"
    BY <1>1, <1>2, StageOfFacts, JobFacts DEF work, IInv, TypeOK
  <2>2. work' = [work EXCEPT ![i] = "owed"]
    BY <1>1, <2>1 DEF work, IInv, TypeOK
  <2>3. Ledger!Accept(i)
    BY <2>1, <2>2 DEF Ledger!Accept, work
  <2>4. QED BY <2>3 DEF Ledger!Next
<1>3. CASE disk[i] # NoJob
  BY <1>1, <1>3, OneFileStep
<1>4. QED BY <1>2, <1>3

LEMMA FinishLedger ==
    ASSUME IInv, IInv', NEW j \in Ids, NEW d \in Jobs, NEW r \in Jobs, NEW n \in Nat,
           disk[j] \in Jobs, disk[j].status \in {"queued", "running"},
           disk[j].status = "queued" => runs[j] = 0,
           d.status \in {disk[j].status, "running"}, r.status \in Terminal,
           Settle(j, d, r, n), UNCHANGED runs
    PROVE  Ledger!Next
<1>1. PICK w \in {d, r} : disk' = [disk EXCEPT ![j] = w]
  BY SettleFacts DEF IInv
<1>2. /\ w \in Jobs /\ disk[j] # NoJob
      /\ \/ w.status = disk[j].status
         \/ w.status \in Terminal /\ disk[j].status \notin Terminal
         \/ w.status = "running" /\ disk[j].status = "queued" /\ runs[j] = 0
  BY JobFacts DEF Terminal
<1>3. QED BY <1>1, <1>2, OneFileStep

LEMMA StartJobLedger ==
    ASSUME IInv, IInv', NEW j \in Ids, StartJob(j)
    PROVE  Ledger!Next
<1> DEFINE running == [job[j] EXCEPT !.status = "running"]
<1>1. /\ job[j] \in Jobs /\ job[j].status = "queued"
      /\ disk[j] \in Jobs /\ disk[j] # NoJob /\ runs[j] = 0
  BY DEF StartJob, NextInLine, Startable, Queued, Known, Stored, IInv, TypeOK,
         MemoryKnows, StartedIsNotQueued
<1>2. running \in Jobs /\ running.status = "running"
  BY <1>1, ExceptFacts DEF Statuses
<1>3. disk[j].status = "queued"
  BY <1>1 DEF StartJob, NextInLine, Startable, Queued, Known, IInv, MemoryKnows
<1> HIDE DEF running
<1>4. CASE disk' = [disk EXCEPT ![j] = running]
  BY <1>1, <1>2, <1>3, <1>4, OneFileStep DEF StartJob
<1>5. ASSUME NEW d \in {disk[j], running}, NEW r \in {job[j], running}, NEW n \in Nat,
             Settle(j, d, FailedAs(r, "not_sent"), n)
      PROVE  Ledger!Next
  <2>1. /\ FailedAs(r, "not_sent") \in Jobs
        /\ FailedAs(r, "not_sent").status \in Terminal
    BY <1>1, <1>2, FailedAsFacts DEF RawStates, Terminal
  <2>2. UNCHANGED runs
    BY DEF StartJob
  <2>3. QED BY <1>1, <1>2, <1>3, <1>5, <2>1, <2>2, FinishLedger
<1>6. QED
  BY <1>4, <1>5 DEF StartJob, running

LEMMA DispatchLedger == ASSUME IInv, IInv', NEW j \in Ids, Dispatch(j) PROVE Ledger!Next
<1> DEFINE r == [job[j] EXCEPT !.delivery = "unknown"]
<1>1. /\ job[j] \in Jobs /\ job[j].status = "running"
      /\ disk[j] \in Jobs /\ disk[j].status = "running" /\ runs[j] = 0
  BY DEF Dispatch, IInv, PhaseAgrees, Known, Stored, TypeOK
<1>2. r \in Jobs /\ r.status = "running" /\ r # NoJob /\ disk[j] # NoJob
  BY <1>1, ExceptFacts, JobFacts DEF Deliveries
<1> HIDE DEF r
<1>3. disk' = [disk EXCEPT ![j] = r] /\ runs' = [runs EXCEPT ![j] = @ + 1]
  BY DEF Dispatch, Recorded, r
<1>4. /\ disk'[j] = r /\ runs'[j] = 1
      /\ \A i \in Ids \ {j} : disk'[i] = disk[i] /\ runs'[i] = runs[i]
  BY <1>1, <1>3 DEF IInv, TypeOK
<1>5. work[j] = "owed" /\ work'[j] = "started"
  BY <1>1, <1>2, <1>4, StageOfFacts DEF work
<1>6. work' = [work EXCEPT ![j] = "started"]
  BY <1>4, <1>5 DEF work
<1>7. Ledger!Start(j)
  BY <1>3, <1>5, <1>6 DEF Ledger!Start, work
<1>8. QED BY <1>7 DEF Ledger!Next

LEMMA ExitLedger ==
    ASSUME IInv, IInv', NEW j \in Ids,
           NotDispatched(j) \/ DispatchNotRecorded(j) \/ Ends(j)
    PROVE  Ledger!Next
<1>1. /\ job[j] \in Jobs /\ disk[j] \in Jobs
      /\ job[j].status = "running" /\ disk[j].status = "running"
  BY DEF NotDispatched, DispatchNotRecorded, Ends, Returns, Throws,
         IInv, PhaseAgrees, Known, Stored, TypeOK
<1>2. UNCHANGED runs
  BY DEF NotDispatched, DispatchNotRecorded, Ends, Returns, Throws, Finish
<1>3. ASSUME NEW d \in Jobs, NEW r \in Jobs, NEW n \in Nat,
             d.status = "running", r.status \in Terminal, Finish(j, d, r, n)
      PROVE  Ledger!Next
  <2>1. Settle(j, d, r, n)
    BY <1>3 DEF Finish
  <2>2. QED BY <1>1, <1>2, <1>3, <2>1, FinishLedger
<1>4. \A r \in Jobs, s \in RawStates : /\ FailedAs(r, s) \in Jobs
                                       /\ FailedAs(r, s).status \in Terminal
  BY FailedAsFacts DEF Terminal
<1>5. CASE NotDispatched(j)
  <2>1. Finish(j, disk[j], FailedAs(job[j], "not_sent"), 0)
    BY <1>5 DEF NotDispatched
  <2>2. QED BY <1>1, <1>3, <1>4, <2>1 DEF RawStates
<1>6. CASE DispatchNotRecorded(j)
  <2> DEFINE r == [job[j] EXCEPT !.delivery = "unknown"]
  <2>1. r \in Jobs /\ r.status = "running"
    BY <1>1, ExceptFacts DEF Deliveries
  <2>2. PICK d \in {disk[j], r}, s \in {"not_sent", "unknown"} :
           Finish(j, d, FailedAs(r, s), 1)
    BY <1>6 DEF DispatchNotRecorded
  <2> HIDE DEF r
  <2>3. d \in Jobs /\ d.status = "running" /\ s \in RawStates
    BY <1>1, <2>1 DEF RawStates
  <2>4. FailedAs(r, s) \in Jobs /\ FailedAs(r, s).status \in Terminal
    BY <1>4, <2>1, <2>3
  <2>5. QED BY <1>3, <2>2, <2>3, <2>4
<1>7. CASE Returns(j)
  <2> DEFINE r == [job[j] EXCEPT !.status = "completed"]
  <2>1. r \in Jobs /\ r.status \in Terminal
    BY <1>1, ExceptFacts DEF Statuses, Terminal
  <2>2. Finish(j, disk[j], r, 0)
    BY <1>7 DEF Returns
  <2> HIDE DEF r
  <2>3. QED BY <1>1, <1>3, <2>1, <2>2
<1>8. CASE Throws(j)
  <2>1. PICK s \in ErrorStates(j) : Finish(j, disk[j], FailedAs(job[j], s), 0)
    BY <1>8 DEF Throws
  <2>2. s \in RawStates
    BY DEF ErrorStates, RawStates
  <2>3. FailedAs(job[j], s) \in Jobs /\ FailedAs(job[j], s).status \in Terminal
    BY <1>1, <1>4, <2>2
  <2>4. QED BY <1>1, <1>3, <2>1, <2>3
<1>9. QED BY <1>5, <1>6, <1>7, <1>8 DEF Ends

LEMMA AcceptedLedger == ASSUME IInv, IInv', NEW j \in Ids, Accepted(j) PROVE Ledger!Next
<1> DEFINE r == [job[j] EXCEPT !.delivery = "sent"]
<1>1. /\ job[j] \in Jobs /\ disk[j] \in Jobs
      /\ job[j].status = "running" /\ disk[j].status = "running"
  BY DEF Accepted, IInv, PhaseAgrees, Known, Stored, TypeOK
<1>2. r \in Jobs /\ r.status = "running"
  BY <1>1, ExceptFacts DEF Deliveries
<1>3. PICK w \in {disk[j], r} : disk' = [disk EXCEPT ![j] = w]
  BY DEF Accepted
<1> HIDE DEF r
<1>4. UNCHANGED runs
  BY DEF Accepted, history
<1>5. w \in Jobs /\ w.status = disk[j].status /\ disk[j] # NoJob
  BY <1>1, <1>2, JobFacts
<1>6. QED BY <1>3, <1>4, <1>5, OneFileStep

LEMMA RecoveryLedger == ASSUME IInv, IInv', Restart \/ RestartFails PROVE Ledger!Next
<1>1. UNCHANGED runs
  BY DEF Restart, RestartFails, history
<1>2. \A i \in Ids : disk'[i] = disk[i] \/ disk'[i] = Converted(disk[i])
  BY DEF Restart, RestartFails
<1>3. ASSUME NEW i \in Ids
      PROVE  \/ work'[i] = work[i]
             \/ work[i] \in {"owed", "started"} /\ work'[i] = "settled"
  <2>1. disk[i] \in Jobs \cup {NoJob} /\ disk'[i] \in Jobs \cup {NoJob} /\ runs[i] \in Nat
    BY DEF IInv, TypeOK
  <2>2. work[i] = StageOf(disk[i], runs[i]) /\ work'[i] = StageOf(disk'[i], runs[i])
    BY <1>1 DEF work
  <2>3. CASE disk'[i] = disk[i]
    BY <2>2, <2>3
  <2>4. CASE disk'[i] = Converted(disk[i]) /\ disk'[i] # disk[i]
    <3>1. /\ disk[i] # NoJob /\ disk[i].status = "running"
          /\ disk'[i] # NoJob /\ disk'[i].status \in Terminal
      BY <2>1, <2>4, ConvertedFacts
    <3>2. QED BY <2>1, <2>2, <3>1, StageOfFacts
  <2>5. QED BY <1>2, <2>3, <2>4
<1>4. QED BY <1>1, <1>3, SettlingIsLedgerStep

LEMMA StepIsLedgerStep ==
    ASSUME IInv, IInv', [Next]_vars
    PROVE  [Ledger!Next]_<<work, runs>>
<1>1. CASE UNCHANGED <<disk, runs>>
  BY <1>1 DEF work
<1>2. ASSUME NEW i \in Ids, NEW a \in Agents, NEW p \in Projects, Send(i, a, p)
      PROVE  Ledger!Next
  <2> DEFINE r == [agent |-> a, project |-> p, root |-> i, parent |-> NoId,
                   depth |-> 0, status |-> "queued", delivery |-> "not_sent"]
  <2>1. r \in Jobs /\ r.status = "queued"
    BY RelayAssumption DEF Jobs, Statuses, Deliveries
  <2>2. daemon = "up" /\ job[i] = NoJob /\ disk' = [disk EXCEPT ![i] = r] /\ UNCHANGED runs
    BY <1>2 DEF Send, Fresh, Enqueue, history
  <2> HIDE DEF r
  <2>3. QED BY <2>1, <2>2, EnqueueLedger
<1>3. ASSUME NEW i \in Ids, NEW w \in Ids, NEW a \in Agents, Delegate(i, w, a)
      PROVE  Ledger!Next
  <2> DEFINE r == [agent |-> a, project |-> job[w].project, root |-> job[w].root,
                   parent |-> w, depth |-> job[w].depth + 1,
                   status |-> "queued", delivery |-> "not_sent"]
  <2>1. job[w] \in Jobs
    BY <1>3 DEF Delegate, IInv, CapsAreKnown, Known, TypeOK
  <2>2. job[w].depth + 1 \in 0..MaxDepth
    BY <1>3, <2>1, RelayAssumption DEF Delegate, Delegable, Jobs
  <2>3. r \in Jobs /\ r.status = "queued"
    BY <2>1, <2>2 DEF Jobs, Statuses, Deliveries
  <2>4. daemon = "up" /\ job[i] = NoJob /\ disk' = [disk EXCEPT ![i] = r] /\ UNCHANGED runs
    BY <1>3 DEF Delegate, Fresh, Enqueue, history
  <2> HIDE DEF r
  <2>5. QED BY <2>3, <2>4, EnqueueLedger
<1>4. CASE EndPump \/ EditPolicy \/ Drain \/ Signal \/ (\E updated \in BOOLEAN : Poll(updated))
           \/ Exit \/ Crash \/ UNCHANGED vars
  BY <1>1, <1>4 DEF EndPump, EditPolicy, Drain, Signal, Poll, Exit, Crash, Vanish, vars, history
<1>5. CASE \E j \in Ids : WritePrompt(j) \/ WorkerTakes(j)
  BY <1>1, <1>5 DEF WritePrompt, WorkerTakes, history
<1>6. CASE \E j \in Ids : StartJob(j) \/ Dispatch(j) \/ Accepted(j)
  BY <1>6, StartJobLedger, DispatchLedger, AcceptedLedger
<1>7. CASE \E j \in Ids : NotDispatched(j) \/ DispatchNotRecorded(j) \/ Ends(j)
  BY <1>7, ExitLedger
<1>8. CASE Restart \/ RestartFails
  BY <1>8, RecoveryLedger
<1>9. QED
  BY <1>2, <1>3, <1>4, <1>5, <1>6, <1>7, <1>8 DEF Next

\* The relay implements WorkerLedger: through every fault, crash and restart a
\* request is started at most once, settles at most once and stays settled.
THEOREM Refinement == Spec => ImplementsLedger
<1>1. Init => Ledger!Init
  <2>1. Init => work = [i \in Ids |-> "absent"]
    BY StageOfFacts DEF Init, work
  <2>2. QED BY <2>1 DEF Init, Ledger!Init, work
<1>2. IInv /\ IInv' /\ [Next]_vars => [Ledger!Next]_<<work, runs>>
  BY StepIsLedgerStep
<1>3. QED BY <1>1, <1>2, Invariance, PTL DEF Spec, ImplementsLedger, Ledger!Spec, work
=============================================================================
