------------------------------ MODULE CodexProofs ------------------------------
(***************************************************************************)
(* Theorems about the way to Codex, for every set of calls and accounts    *)
(* and any number of kills: one key makes one task, and what is said of it *)
(* is true.  NativeDispatch implements Delivery for any number of          *)
(* requests, connections to Desktop, reloads, shutdowns and kills, with an *)
(* app-server to fall back to or without.  The reply a caller waits for    *)
(* (ReplyWait) and the answer of a turn of the app-server (AppServerTurns) *)
(* are its own, for any number of calls, people and other clients, and one *)
(* turn of the client's is asked for at a time, while other clients keep   *)
(* off the thread.  In the suite of all components (Codex) the queue of a  *)
(* task keeps what ThreadQueueProofs proves of it alone.                   *)
(***************************************************************************)
EXTENDS Codex, FiniteSetTheorems, SequenceTheorems, TLAPS

\* The lock does its work: the calls in the critical section hold it.
Exclusive == \A c \in Calls : pc[c] \in Section => lock = c

\* Between the second look at the receipt and the end of the section nobody else
\* writes it.
UnderLock ==
    \A c \in Calls :
        /\ pc[c] = "prepared" => task = NoTask
        /\ pc[c] \in {"send", "wait"} => task.by = c

\* Nothing was sent for a call that has not come to sending, or that says so.
NotYet ==
    \A c \in Calls :
        /\ pc[c] \in {"off", "begun", "listed", "locked", "prepared", "send"} => pipe[c] = "none"
        /\ result[c] = "nothing" => pc[c] \in {"release", "done", "dead"} /\ pipe[c] = "none"
        /\ pipe[c] \in {"none", "frame"} => desk[c] = "none" /\ c \notin waiting

\* Where the companion, the receipts or the answers say that a task exists, it does.
TruthIsKept ==
    /\ task.state = "known" => task.by \in Calls /\ desk[task.by] = "made"
    /\ \A c \in Calls :
         /\ pipe[c] = "ok" \/ native[c] = "completed" \/ c \in observed => desk[c] = "made"
         /\ result[c] \in {"created", "reused"} => told[c] \in Calls /\ desk[told[c]] = "made"

IInv == TypeOK /\ Exclusive /\ UnderLock /\ Guarded /\ NotYet /\ TruthIsKept

-----------------------------------------------------------------------------

\* The initial states satisfy it.
LEMMA InitIInv == Init => IInv
BY CreationAssumption
DEF Init, IInv, TypeOK, Exclusive, UnderLock, Guarded, NotYet, TruthIsKept, NoTask, Section, Active, Results

\* Every step keeps it.
LEMMA NextIInv == IInv /\ [Next]_vars => IInv'
<1> SUFFICES ASSUME IInv, [Next]_vars PROVE IInv'
  OBVIOUS
<1> USE CreationAssumption DEF IInv, Set, NoTask
<1>1. ASSUME NEW c \in Calls, Begin(c) PROVE IInv'
  <2>1. TypeOK'
    BY <1>1 DEF Begin, bridge, files, host, world, TypeOK, Active, Results, Section
  <2>2. Exclusive'
    BY <1>1 DEF Begin, bridge, files, host, world, TypeOK, Exclusive, Section, Active
  <2>3. UnderLock'
    BY <1>1 DEF Begin, bridge, files, host, world, TypeOK, Exclusive, UnderLock, Guarded, Section
  <2>4. Guarded'
    BY <1>1 DEF Begin, bridge, files, host, world, TypeOK, Exclusive, UnderLock, NotYet,
       Guarded, Section
  <2>5. NotYet'
    BY <1>1 DEF Begin, bridge, files, host, world, TypeOK, NotYet, Section
  <2>6. TruthIsKept'
    BY <1>1 DEF Begin, bridge, files, host, world, TypeOK, Exclusive, UnderLock, NotYet,
       Guarded, TruthIsKept, Section, Results
  <2> QED BY <2>1, <2>2, <2>3, <2>4, <2>5, <2>6
<1>2. ASSUME NEW c \in Calls, Read(c) PROVE IInv'
  <2>1. TypeOK'
    BY <1>2 DEF Read, bridge, files, host, world, Reuse, Say, TypeOK, Active, Results, Section
  <2>2. Exclusive'
    BY <1>2 DEF Read, bridge, files, host, world, Reuse, Say, TypeOK, Exclusive, Section, Active
  <2>3. UnderLock'
    BY <1>2 DEF Read, bridge, files, host, world, Reuse, Say, TypeOK, Exclusive, UnderLock,
       Guarded, Section
  <2>4. Guarded'
    BY <1>2 DEF Read, bridge, files, host, world, Reuse, Say, TypeOK, Exclusive, UnderLock,
       NotYet, Guarded, Section
  <2>5. NotYet'
    BY <1>2 DEF Read, bridge, files, host, world, Reuse, Say, TypeOK, NotYet, Section
  <2>6. TruthIsKept'
    BY <1>2 DEF Read, bridge, files, host, world, Reuse, Say, TypeOK, Exclusive, UnderLock,
       NotYet, Guarded, TruthIsKept, Section, Results
  <2> QED BY <2>1, <2>2, <2>3, <2>4, <2>5, <2>6
<1>3. ASSUME NEW c \in Calls, Lock(c) PROVE IInv'
  <2>1. TypeOK'
    BY <1>3 DEF Lock, bridge, files, host, world, Say, TypeOK, Active, Results, Section
  <2>2. Exclusive'
    BY <1>3 DEF Lock, bridge, files, host, world, Say, TypeOK, Exclusive, Section, Active
  <2>3. UnderLock'
    BY <1>3 DEF Lock, bridge, files, host, world, Say, TypeOK, Exclusive, UnderLock, Guarded,
       Section
  <2>4. Guarded'
    BY <1>3 DEF Lock, bridge, files, host, world, Say, TypeOK, Exclusive, UnderLock, NotYet,
       Guarded, Section
  <2>5. NotYet'
    BY <1>3 DEF Lock, bridge, files, host, world, Say, TypeOK, NotYet, Section
  <2>6. TruthIsKept'
    BY <1>3 DEF Lock, bridge, files, host, world, Say, TypeOK, Exclusive, UnderLock, NotYet,
       Guarded, TruthIsKept, Section, Results
  <2> QED BY <2>1, <2>2, <2>3, <2>4, <2>5, <2>6
<1>4. ASSUME NEW c \in Calls, Check(c) PROVE IInv'
  <2>1. TypeOK'
    BY <1>4 DEF Check, bridge, files, host, world, Existing, Reuse, Say, TypeOK, Active,
       Results, Section
  <2>2. Exclusive'
    BY <1>4 DEF Check, bridge, files, host, world, Existing, Reuse, Say, TypeOK, Exclusive,
       Section, Active
  <2>3. UnderLock'
    BY <1>4 DEF Check, bridge, files, host, world, Existing, Reuse, Say, TypeOK, Exclusive,
       UnderLock, Guarded, Section
  <2>4. Guarded'
    BY <1>4 DEF Check, bridge, files, host, world, Existing, Reuse, Say, TypeOK, Exclusive,
       UnderLock, NotYet, Guarded, Section
  <2>5. NotYet'
    BY <1>4 DEF Check, bridge, files, host, world, Existing, Reuse, Say, TypeOK, NotYet, Section
  <2>6. TruthIsKept'
    BY <1>4 DEF Check, bridge, files, host, world, Existing, Reuse, Say, TypeOK, Exclusive,
       UnderLock, NotYet, Guarded, TruthIsKept, Section, Results
  <2> QED BY <2>1, <2>2, <2>3, <2>4, <2>5, <2>6
<1>5. ASSUME NEW c \in Calls, Record(c) PROVE IInv'
  <2>1. TypeOK'
    BY <1>5 DEF Record, bridge, files, host, world, Pending, Say, TypeOK, Active, Results, Section
  <2>2. Exclusive'
    BY <1>5 DEF Record, bridge, files, host, world, Pending, Say, TypeOK, Exclusive, Section,
       Active
  <2>3. UnderLock'
    BY <1>5 DEF Record, bridge, files, host, world, Pending, Say, TypeOK, Exclusive,
       UnderLock, Guarded, Section
  <2>4. Guarded'
    BY <1>5 DEF Record, bridge, files, host, world, Pending, Say, TypeOK, Exclusive,
       UnderLock, NotYet, Guarded, Section
  <2>5. NotYet'
    BY <1>5 DEF Record, bridge, files, host, world, Pending, Say, TypeOK, NotYet, Section
  <2>6. TruthIsKept'
    BY <1>5 DEF Record, bridge, files, host, world, Pending, Say, TypeOK, Exclusive,
       UnderLock, NotYet, Guarded, TruthIsKept, Section, Results
  <2> QED BY <2>1, <2>2, <2>3, <2>4, <2>5, <2>6
<1>6. ASSUME NEW c \in Calls, Send(c) PROVE IInv'
  <2>1. TypeOK'
    BY <1>6 DEF Send, bridge, files, host, world, Doubt, Say, TypeOK, Active, Results, Section
  <2>2. Exclusive'
    BY <1>6 DEF Send, bridge, files, host, world, Doubt, Say, TypeOK, Exclusive, Section, Active
  <2>3. UnderLock'
    BY <1>6 DEF Send, bridge, files, host, world, Doubt, Say, TypeOK, Exclusive, UnderLock,
       Guarded, Section
  <2>4. Guarded'
    BY <1>6 DEF Send, bridge, files, host, world, Doubt, Say, TypeOK, Exclusive, UnderLock,
       NotYet, Guarded, Section
  <2>5. NotYet'
    BY <1>6 DEF Send, bridge, files, host, world, Doubt, Say, TypeOK, NotYet, Section
  <2>6. TruthIsKept'
    BY <1>6 DEF Send, bridge, files, host, world, Doubt, Say, TypeOK, Exclusive, UnderLock,
       NotYet, Guarded, TruthIsKept, Section, Results
  <2> QED BY <2>1, <2>2, <2>3, <2>4, <2>5, <2>6
<1>7. ASSUME NEW c \in Calls, Hear(c) PROVE IInv'
  <2>1. TypeOK'
    BY <1>7 DEF Hear, bridge, files, host, world, Confirms, Doubt, Say, TypeOK, Active,
       Results, Section
  <2>2. Exclusive'
    BY <1>7 DEF Hear, bridge, files, host, world, Confirms, Doubt, Say, TypeOK, Exclusive,
       Section, Active
  <2>3. UnderLock'
    BY <1>7 DEF Hear, bridge, files, host, world, Confirms, Doubt, Say, TypeOK, Exclusive,
       UnderLock, Guarded, Section
  <2>4. Guarded'
    BY <1>7 DEF Hear, bridge, files, host, world, Confirms, Doubt, Say, TypeOK, Exclusive,
       UnderLock, NotYet, Guarded, Section
  <2>5. NotYet'
    BY <1>7 DEF Hear, bridge, files, host, world, Confirms, Doubt, Say, TypeOK, NotYet, Section
  <2>6. TruthIsKept'
    BY <1>7 DEF Hear, bridge, files, host, world, Confirms, Doubt, Say, TypeOK, Exclusive,
       UnderLock, NotYet, Guarded, TruthIsKept, Section, Results
  <2> QED BY <2>1, <2>2, <2>3, <2>4, <2>5, <2>6
<1>8. ASSUME NEW c \in Calls, GiveUp(c) PROVE IInv'
  <2>1. TypeOK'
    BY <1>8 DEF GiveUp, bridge, files, host, world, Doubt, Say, TypeOK, Active, Results, Section
  <2>2. Exclusive'
    BY <1>8 DEF GiveUp, bridge, files, host, world, Doubt, Say, TypeOK, Exclusive, Section, Active
  <2>3. UnderLock'
    BY <1>8 DEF GiveUp, bridge, files, host, world, Doubt, Say, TypeOK, Exclusive, UnderLock,
       Guarded, Section
  <2>4. Guarded'
    BY <1>8 DEF GiveUp, bridge, files, host, world, Doubt, Say, TypeOK, Exclusive, UnderLock,
       NotYet, Guarded, Section
  <2>5. NotYet'
    BY <1>8 DEF GiveUp, bridge, files, host, world, Doubt, Say, TypeOK, NotYet, Section
  <2>6. TruthIsKept'
    BY <1>8 DEF GiveUp, bridge, files, host, world, Doubt, Say, TypeOK, Exclusive, UnderLock,
       NotYet, Guarded, TruthIsKept, Section, Results
  <2> QED BY <2>1, <2>2, <2>3, <2>4, <2>5, <2>6
<1>9. ASSUME NEW c \in Calls, Finish(c) PROVE IInv'
  <2>1. TypeOK'
    BY <1>9 DEF Finish, bridge, files, host, world, Release, TypeOK, Active, Results, Section
  <2>2. Exclusive'
    BY <1>9 DEF Finish, bridge, files, host, world, Release, TypeOK, Exclusive, Section, Active
  <2>3. UnderLock'
    BY <1>9 DEF Finish, bridge, files, host, world, Release, TypeOK, Exclusive, UnderLock,
       Guarded, Section
  <2>4. Guarded'
    BY <1>9 DEF Finish, bridge, files, host, world, Release, TypeOK, Exclusive, UnderLock,
       NotYet, Guarded, Section
  <2>5. NotYet'
    BY <1>9 DEF Finish, bridge, files, host, world, Release, TypeOK, NotYet, Section
  <2>6. TruthIsKept'
    BY <1>9 DEF Finish, bridge, files, host, world, Release, TypeOK, Exclusive, UnderLock,
       NotYet, Guarded, TruthIsKept, Section, Results
  <2> QED BY <2>1, <2>2, <2>3, <2>4, <2>5, <2>6
<1>10. ASSUME NEW c \in Calls, Kill(c) PROVE IInv'
  <2>1. TypeOK'
    BY <1>10 DEF Kill, bridge, files, host, world, TypeOK, Active, Results, Section
  <2>2. Exclusive'
    BY <1>10 DEF Kill, bridge, files, host, world, TypeOK, Exclusive, Section, Active
  <2>3. UnderLock'
    BY <1>10 DEF Kill, bridge, files, host, world, TypeOK, Exclusive, UnderLock, Guarded, Section
  <2>4. Guarded'
    BY <1>10 DEF Kill, bridge, files, host, world, TypeOK, Exclusive, UnderLock, NotYet,
       Guarded, Section
  <2>5. NotYet'
    BY <1>10 DEF Kill, bridge, files, host, world, TypeOK, NotYet, Section
  <2>6. TruthIsKept'
    BY <1>10 DEF Kill, bridge, files, host, world, TypeOK, Exclusive, UnderLock, NotYet,
       Guarded, TruthIsKept, Section, Results
  <2> QED BY <2>1, <2>2, <2>3, <2>4, <2>5, <2>6
<1>11. ASSUME NEW c \in Calls, Observe(c) PROVE IInv'
  <2>1. TypeOK'
    BY <1>11 DEF Observe, bridge, files, host, world, Reachable, TypeOK, Active, Results, Section
  <2>2. Exclusive'
    BY <1>11 DEF Observe, bridge, files, host, world, Reachable, TypeOK, Exclusive, Section,
       Active
  <2>3. UnderLock'
    BY <1>11 DEF Observe, bridge, files, host, world, Reachable, TypeOK, Exclusive, UnderLock,
       Guarded, Section
  <2>4. Guarded'
    BY <1>11 DEF Observe, bridge, files, host, world, Reachable, TypeOK, Exclusive, UnderLock,
       NotYet, Guarded, Section
  <2>5. NotYet'
    BY <1>11 DEF Observe, bridge, files, host, world, Reachable, TypeOK, NotYet, Section
  <2>6. TruthIsKept'
    BY <1>11 DEF Observe, bridge, files, host, world, Reachable, TypeOK, Exclusive, UnderLock,
       NotYet, Guarded, TruthIsKept, Section, Results
  <2> QED BY <2>1, <2>2, <2>3, <2>4, <2>5, <2>6
<1>12. ASSUME NEW c \in Calls, Take(c) PROVE IInv'
  <2>1. TypeOK'
    BY <1>12 DEF Take, bridge, files, host, world, TypeOK, Active, Results, Section
  <2>2. Exclusive'
    BY <1>12 DEF Take, bridge, files, host, world, TypeOK, Exclusive, Section, Active
  <2>3. UnderLock'
    BY <1>12 DEF Take, bridge, files, host, world, TypeOK, Exclusive, UnderLock, Guarded, Section
  <2>4. Guarded'
    BY <1>12 DEF Take, bridge, files, host, world, TypeOK, Exclusive, UnderLock, NotYet,
       Guarded, Section
  <2>5. NotYet'
    BY <1>12 DEF Take, bridge, files, host, world, TypeOK, NotYet, Section
  <2>6. TruthIsKept'
    BY <1>12 DEF Take, bridge, files, host, world, TypeOK, Exclusive, UnderLock, NotYet,
       Guarded, TruthIsKept, Section, Results
  <2> QED BY <2>1, <2>2, <2>3, <2>4, <2>5, <2>6
<1>13. ASSUME NEW c \in Calls, Return(c) PROVE IInv'
  <2>1. TypeOK'
    BY <1>13 DEF Return, bridge, files, host, world, Outcome, TypeOK, Active, Results, Section
  <2>2. Exclusive'
    BY <1>13 DEF Return, bridge, files, host, world, Outcome, TypeOK, Exclusive, Section, Active
  <2>3. UnderLock'
    BY <1>13 DEF Return, bridge, files, host, world, Outcome, TypeOK, Exclusive, UnderLock,
       Guarded, Section
  <2>4. Guarded'
    BY <1>13 DEF Return, bridge, files, host, world, Outcome, TypeOK, Exclusive, UnderLock,
       NotYet, Guarded, Section
  <2>5. NotYet'
    BY <1>13 DEF Return, bridge, files, host, world, Outcome, TypeOK, NotYet, Section
  <2>6. TruthIsKept'
    BY <1>13 DEF Return, bridge, files, host, world, Outcome, TypeOK, Exclusive, UnderLock,
       NotYet, Guarded, TruthIsKept, Section, Results
  <2> QED BY <2>1, <2>2, <2>3, <2>4, <2>5, <2>6
<1>14. ASSUME NEW c \in Calls, Desktop(c) PROVE IInv'
  <2>1. TypeOK'
    BY <1>14 DEF Desktop, bridge, files, host, world, TypeOK, Active, Results, Section
  <2>2. Exclusive'
    BY <1>14 DEF Desktop, bridge, files, host, world, TypeOK, Exclusive, Section, Active
  <2>3. UnderLock'
    BY <1>14 DEF Desktop, bridge, files, host, world, TypeOK, Exclusive, UnderLock, Guarded,
       Section
  <2>4. Guarded'
    BY <1>14 DEF Desktop, bridge, files, host, world, TypeOK, Exclusive, UnderLock, NotYet,
       Guarded, Section
  <2>5. NotYet'
    BY <1>14 DEF Desktop, bridge, files, host, world, TypeOK, NotYet, Section
  <2>6. TruthIsKept'
    BY <1>14 DEF Desktop, bridge, files, host, world, TypeOK, Exclusive, UnderLock, NotYet,
       Guarded, TruthIsKept, Section, Results
  <2> QED BY <2>1, <2>2, <2>3, <2>4, <2>5, <2>6
<1>15. CASE Repair
  <2>1. TypeOK'
    BY <1>15 DEF Repair, bridge, files, host, world, TypeOK, Active, Results, Section
  <2>2. Exclusive'
    BY <1>15 DEF Repair, bridge, files, host, world, TypeOK, Exclusive, Section, Active
  <2>3. UnderLock'
    BY <1>15 DEF Repair, bridge, files, host, world, TypeOK, Exclusive, UnderLock, Guarded,
       Section
  <2>4. Guarded'
    BY <1>15 DEF Repair, bridge, files, host, world, TypeOK, Exclusive, UnderLock, NotYet,
       Guarded, Section
  <2>5. NotYet'
    BY <1>15 DEF Repair, bridge, files, host, world, TypeOK, NotYet, Section
  <2>6. TruthIsKept'
    BY <1>15 DEF Repair, bridge, files, host, world, TypeOK, Exclusive, UnderLock, NotYet,
       Guarded, TruthIsKept, Section, Results
  <2> QED BY <2>1, <2>2, <2>3, <2>4, <2>5, <2>6
<1>16. CASE Die
  <2>1. TypeOK'
    <3>1. pipe' \in [Calls -> {"none", "frame", "taken", "closed", "ok", "unknown", "error"}]
      BY <1>16 DEF Die, TypeOK
    <3>2. native' \in [Calls -> {"missing", "partial", "pending", "completed", "doubtful", "failed"}] /\ key' \in {"none", "partial", "whole"}
      BY <1>16 DEF Die, TypeOK
    <3>3. up' \in BOOLEAN /\ waiting' \subseteq Calls
      BY <1>16 DEF Die
    <3>4. kills' \in 0..MaxKills
      BY <1>16 DEF Die, TypeOK
    <3> QED BY <1>16, <3>1, <3>2, <3>3, <3>4 DEF Die, bridge, files, world, TypeOK, Active, Results, Section
  <2>2. Exclusive'
    BY <1>16 DEF Die, bridge, files, host, world, TypeOK, Exclusive, Section, Active
  <2>3. UnderLock'
    BY <1>16 DEF Die, bridge, files, host, world, TypeOK, Exclusive, UnderLock, Guarded, Section
  <2>4. Guarded'
    BY <1>16 DEF Die, bridge, files, host, world, TypeOK, Exclusive, UnderLock, NotYet,
       Guarded, Section
  <2>5. NotYet'
    BY <1>16 DEF Die, bridge, files, host, world, TypeOK, NotYet, Section
  <2>6. TruthIsKept'
    BY <1>16 DEF Die, bridge, files, host, world, TypeOK, Exclusive, UnderLock, NotYet,
       Guarded, TruthIsKept, Section, Results
  <2> QED BY <2>1, <2>2, <2>3, <2>4, <2>5, <2>6
<1>17. CASE Boot
  <2>1. TypeOK'
    BY <1>17 DEF Boot, bridge, files, host, world, TypeOK, Active, Results, Section
  <2>2. Exclusive'
    BY <1>17 DEF Boot, bridge, files, host, world, TypeOK, Exclusive, Section, Active
  <2>3. UnderLock'
    BY <1>17 DEF Boot, bridge, files, host, world, TypeOK, Exclusive, UnderLock, Guarded, Section
  <2>4. Guarded'
    BY <1>17 DEF Boot, bridge, files, host, world, TypeOK, Exclusive, UnderLock, NotYet,
       Guarded, Section
  <2>5. NotYet'
    BY <1>17 DEF Boot, bridge, files, host, world, TypeOK, NotYet, Section
  <2>6. TruthIsKept'
    BY <1>17 DEF Boot, bridge, files, host, world, TypeOK, Exclusive, UnderLock, NotYet,
       Guarded, TruthIsKept, Section, Results
  <2> QED BY <2>1, <2>2, <2>3, <2>4, <2>5, <2>6
<1>18. CASE Switch
  <2>1. TypeOK'
    BY <1>18 DEF Switch, bridge, files, host, world, TypeOK, Active, Results, Section
  <2>2. Exclusive'
    BY <1>18 DEF Switch, bridge, files, host, world, TypeOK, Exclusive, Section, Active
  <2>3. UnderLock'
    BY <1>18 DEF Switch, bridge, files, host, world, TypeOK, Exclusive, UnderLock, Guarded,
       Section
  <2>4. Guarded'
    BY <1>18 DEF Switch, bridge, files, host, world, TypeOK, Exclusive, UnderLock, NotYet,
       Guarded, Section
  <2>5. NotYet'
    BY <1>18 DEF Switch, bridge, files, host, world, TypeOK, NotYet, Section
  <2>6. TruthIsKept'
    BY <1>18 DEF Switch, bridge, files, host, world, TypeOK, Exclusive, UnderLock, NotYet,
       Guarded, TruthIsKept, Section, Results
  <2> QED BY <2>1, <2>2, <2>3, <2>4, <2>5, <2>6
<1>19. CASE UNCHANGED vars
  BY <1>19 DEF vars, bridge, files, host, world, TypeOK, Exclusive, UnderLock, Guarded, NotYet,
     TruthIsKept, Section, Active, Results
<1> QED BY <1>1, <1>2, <1>3, <1>4, <1>5, <1>6, <1>7, <1>8, <1>9, <1>10, <1>11, <1>12, <1>13, <1>14, <1>15, <1>16, <1>17, <1>18, <1>19 DEF Next, Work

-----------------------------------------------------------------------------

\* The inductive invariant holds in every reachable state.
THEOREM Invariance == Spec => []IInv
BY InitIInv, NextIInv, PTL DEF Spec

\* All the calls with one key make at most one task, however many calls there are
\* and whatever is killed, lost or late.
THEOREM OneCreation == Spec => []CreatedOnce
<1>1. IInv => CreatedOnce
  <2> SUFFICES ASSUME IInv PROVE CreatedOnce
    OBVIOUS
  <2> DEFINE Made == {c \in Calls : desk[c] = "made"}
  <2>1. \A c \in Made : c = task.by
    BY DEF IInv, Guarded
  <2>2. CASE Made = {}
    BY <2>2, FS_EmptySet DEF CreatedOnce
  <2>3. CASE Made # {}
    <3>1. Made = {task.by}
      BY <2>1, <2>3
    <3>2. Cardinality(Made) = 1
      BY <3>1, FS_Singleton
    <3> QED BY <3>2 DEF CreatedOnce
  <2> QED BY <2>2, <2>3
<1> QED BY <1>1, Invariance, PTL

\* A receipt, an answer or an observation speaks of a task only if there is one, and
\* a call that says that nothing was created has made nothing.
THEOREM Truthfulness == Spec => []TruthIsTold
<1>1. IInv => TruthIsTold
  BY DEF IInv, NotYet, TruthIsKept, TruthIsTold
<1> QED BY <1>1, Invariance, PTL

\* What may reach Desktop is named by the receipt that stops every other call.
THEOREM ReceiptGuards == Spec => []Guarded
BY Invariance, PTL DEF IInv

-----------------------------------------------------------------------------
(* NativeDispatch. *)

Early == {"off", "connecting", "checking", "fallback"}

\* The companion has not got the request, and will not get it.
Untouched(r) == r \notin d_line /\ d_handler[r] = "none" /\ d_desk[r] = 0
Refused(r)   == (r \in d_line => d_conn[r] = "refused") /\ d_handler[r] = "none" /\ d_desk[r] = 0

\* Before its line is written a request is nowhere but in the bridge.
StillAway == \A r \in Sends :
    /\ d_pc[r] \in Early => Untouched(r) /\ r \notin d_app
    /\ d_pc[r] # "done" => d_result[r] = "none" /\ r \notin d_app

\* What is in the line was read by nobody, and a handler writes to Desktop last.
LastStep == \A r \in Sends :
    /\ r \in d_line => d_handler[r] = "none" /\ d_desk[r] = 0 /\ d_conn[r] # "gone"
    /\ d_handler[r] \in {"connecting", "checking"} => d_desk[r] = 0
    /\ d_handler[r] = "written" => d_desk[r] = 1
    /\ d_desk[r] <= 1

\* A connection that was not accepted has no handler, and one without a request
\* has no answer.
OnlyAccepted == \A r \in Sends :
    /\ d_conn[r] \in {"none", "backlog", "refused"} => d_handler[r] = "none" /\ d_desk[r] = 0
    /\ d_conn[r] \in {"none", "backlog"} => d_down[r] = "none"
    /\ d_conn[r] = "open" /\ d_down[r] # "none" => d_pc[r] \notin Early
    /\ d_pc[r] = "off" => d_conn[r] = "none"

\* Whoever says "not sent" says it of a request that nobody will ever send.
SaidOnce == \A r \in Sends :
    /\ d_down[r] = "not_sent" => Refused(r)
    /\ d_result[r] = "not_sent" => Refused(r) /\ r \notin d_app
    /\ r \in d_app => Untouched(r)

\* Whoever says "acked" says it of a request that was sent.
SaidRight == \A r \in Sends :
    /\ d_down[r] = "acked" => d_desk[r] = 1
    /\ d_result[r] = "acked" => d_desk[r] = 1 \/ r \in d_app

\* Between the look and the stop of a reload nothing is begun.
NothingBegun == (d_mode = "draining" => ~D!Busy) /\ D!ReloadCutsNothing

DispatchInv ==
    /\ D!TypeOK /\ StillAway /\ LastStep /\ OnlyAccepted /\ SaidOnce /\ NothingBegun /\ SaidRight

-----------------------------------------------------------------------------

\* A request connects, or finds no companion.
LEMMA BeginKeeps == ASSUME DispatchInv, NEW i \in Sends, D!Begin(i) PROVE DispatchInv'
<1> USE DEF DispatchInv, D!bridge, D!link, D!work, D!native, D!lifecycle
<1>1. D!TypeOK'
  BY DEF D!TypeOK, D!Begin, D!Set
<1>2. StillAway'
  BY DEF D!TypeOK, StillAway, Untouched, Early, D!Begin, D!Set
<1>3. LastStep'
  BY DEF D!TypeOK, LastStep, D!Begin, D!Set
<1>4. OnlyAccepted'
  BY DEF D!TypeOK, OnlyAccepted, D!Begin, D!Set
<1>5. SaidOnce'
  BY DEF D!TypeOK, SaidOnce, Refused, Untouched, D!Begin, D!Set, OnlyAccepted
<1>6. NothingBegun'
  BY DEF D!TypeOK, NothingBegun, D!Busy, D!ReloadCutsNothing, D!Begin, D!Set
<1>7. SaidRight'
  BY DEF SaidRight, D!Begin
<1> QED BY <1>1, <1>2, <1>3, <1>4, <1>5, <1>6, <1>7

\* It has connected.
LEMMA ConnectedKeeps == ASSUME DispatchInv, NEW i \in Sends, D!Connected(i) PROVE DispatchInv'
<1> USE DEF DispatchInv, D!bridge, D!link, D!work, D!native, D!lifecycle
<1>1. D!TypeOK'
  BY DEF D!TypeOK, D!Connected, D!Set
<1>2. StillAway'
  BY DEF StillAway, Untouched, Early, D!Connected, D!Set
<1>3. LastStep'
  BY DEF LastStep, D!Connected
<1>4. OnlyAccepted'
  BY DEF OnlyAccepted, Early, D!Connected, D!Set
<1>5. SaidOnce'
  BY DEF SaidOnce, Refused, Untouched, D!Connected
<1>6. NothingBegun'
  BY DEF NothingBegun, D!Busy, D!ReloadCutsNothing, D!Connected
<1>7. SaidRight'
  BY DEF SaidRight, D!Connected
<1> QED BY <1>1, <1>2, <1>3, <1>4, <1>5, <1>6, <1>7

\* It writes its line, or gives up before.
LEMMA WriteKeeps == ASSUME DispatchInv, NEW i \in Sends, D!Write(i) PROVE DispatchInv'
<1> USE DEF DispatchInv, D!bridge, D!link, D!work, D!native, D!lifecycle
<1>1. D!TypeOK'
  BY DEF D!TypeOK, D!Write, D!Done, D!Set
<1>2. StillAway'
  BY DEF D!TypeOK, StillAway, Untouched, Early, D!Write, D!Done, D!Set
<1>3. LastStep'
  BY DEF LastStep, StillAway, Untouched, Early, D!Write
<1>4. OnlyAccepted'
  BY DEF D!TypeOK, OnlyAccepted, Early, D!Write, D!Done, D!Set
<1>5. SaidOnce'
  BY DEF D!TypeOK, SaidOnce, Refused, Untouched, D!Write, D!Done, D!Set, StillAway,
     OnlyAccepted, Early
<1>6. NothingBegun'
  BY DEF NothingBegun, D!Busy, D!ReloadCutsNothing, D!Write
<1>7. SaidRight'
  BY DEF D!TypeOK, SaidRight, D!Write, D!Done, D!Set
<1> QED BY <1>1, <1>2, <1>3, <1>4, <1>5, <1>6, <1>7

\* It has its answer.
LEMMA HearKeeps == ASSUME DispatchInv, NEW i \in Sends, D!Hear(i) PROVE DispatchInv'
<1> USE DEF DispatchInv, D!bridge, D!link, D!work, D!native, D!lifecycle
<1>1. D!TypeOK'
  BY DEF D!TypeOK, D!Hear, D!Done, D!Set
<1>2. StillAway'
  BY DEF D!TypeOK, StillAway, Untouched, Early, D!Hear, D!Done, D!Set
<1>3. LastStep'
  BY DEF LastStep, D!Hear
<1>4. OnlyAccepted'
  BY DEF OnlyAccepted, Early, D!Hear, D!Done, D!Set
<1>5. SaidOnce'
  BY DEF SaidOnce, Refused, Untouched, D!Hear, D!Done, D!Set, D!Open, StillAway
<1>6. NothingBegun'
  BY DEF NothingBegun, D!Busy, D!ReloadCutsNothing, D!Hear
<1>7. SaidRight'
  BY DEF SaidRight, D!Hear, D!Done, D!Set
<1> QED BY <1>1, <1>2, <1>3, <1>4, <1>5, <1>6, <1>7

\* Its connection is gone.
LEMMA LoseKeeps == ASSUME DispatchInv, NEW i \in Sends, D!Lose(i) PROVE DispatchInv'
<1> USE DEF DispatchInv, D!bridge, D!link, D!work, D!native, D!lifecycle
<1>1. D!TypeOK'
  BY DEF D!TypeOK, D!Lose, D!Break, D!Done, D!Set
<1>2. StillAway'
  BY DEF D!TypeOK, StillAway, Untouched, Early, D!Lose, D!Break, D!Done, D!Set, D!Open
<1>3. LastStep'
  BY DEF LastStep, D!Lose
<1>4. OnlyAccepted'
  BY DEF D!TypeOK, OnlyAccepted, D!Lose, D!Break, D!Done, D!Set
<1>5. SaidOnce'
  BY DEF D!TypeOK, SaidOnce, Refused, Untouched, D!Lose, D!Break, D!Done, D!Set
<1>6. NothingBegun'
  BY DEF NothingBegun, D!Busy, D!ReloadCutsNothing, D!Lose
<1>7. SaidRight'
  BY DEF D!TypeOK, SaidRight, D!Lose, D!Break, D!Done, D!Set
<1> QED BY <1>1, <1>2, <1>3, <1>4, <1>5, <1>6, <1>7

\* Its time is over.
LEMMA TimeoutKeeps == ASSUME DispatchInv, NEW i \in Sends, D!Timeout(i) PROVE DispatchInv'
<1> USE DEF DispatchInv, D!bridge, D!link, D!work, D!native, D!lifecycle
<1>1. D!TypeOK'
  BY DEF D!TypeOK, D!Timeout, D!Break, D!Done, D!Set
<1>2. StillAway'
  BY DEF D!TypeOK, StillAway, Untouched, Early, D!Timeout, D!Break, D!Done, D!Set, D!Open
<1>3. LastStep'
  BY DEF LastStep, D!Timeout
<1>4. OnlyAccepted'
  BY DEF D!TypeOK, OnlyAccepted, Early, D!Timeout, D!Break, D!Done, D!Set, D!Open
<1>5. SaidOnce'
  BY DEF D!TypeOK, SaidOnce, Refused, Untouched, D!Timeout, D!Break, D!Done, D!Set
<1>6. NothingBegun'
  BY DEF NothingBegun, D!Busy, D!ReloadCutsNothing, D!Timeout
<1>7. SaidRight'
  BY DEF D!TypeOK, SaidRight, D!Timeout, D!Break, D!Done, D!Set
<1> QED BY <1>1, <1>2, <1>3, <1>4, <1>5, <1>6, <1>7

\* It goes another way, or nowhere.
LEMMA FallbackKeeps == ASSUME DispatchInv, NEW i \in Sends, D!Fallback(i) PROVE DispatchInv'
<1> USE DEF DispatchInv, D!bridge, D!link, D!work, D!native, D!lifecycle
<1>1. D!TypeOK'
  BY DEF D!TypeOK, D!Fallback, D!Done, D!Set
<1>2. StillAway'
  BY DEF D!TypeOK, StillAway, Untouched, Early, D!Fallback, D!Done, D!Set
<1>3. LastStep'
  BY DEF LastStep, D!Fallback
<1>4. OnlyAccepted'
  BY DEF D!TypeOK, OnlyAccepted, Early, D!Fallback, D!Done, D!Set
<1>5. SaidOnce'
  BY DEF D!TypeOK, SaidOnce, Refused, Untouched, D!Fallback, D!Done, D!Set, StillAway, Early
<1>6. NothingBegun'
  BY DEF NothingBegun, D!Busy, D!ReloadCutsNothing, D!Fallback
<1>7. SaidRight'
  BY DEF D!TypeOK, SaidRight, D!Fallback, D!Done, D!Set
<1> QED BY <1>1, <1>2, <1>3, <1>4, <1>5, <1>6, <1>7

\* The companion accepts a connection, or refuses it.
LEMMA AcceptKeeps == ASSUME DispatchInv, NEW i \in Sends, D!Accept(i) PROVE DispatchInv'
<1> USE DEF DispatchInv, D!bridge, D!link, D!work, D!native, D!lifecycle
<1>1. D!TypeOK'
  BY DEF D!TypeOK, D!Accept, D!Set
<1>2. StillAway'
  BY DEF StillAway, Untouched, D!Accept
<1>3. LastStep'
  BY DEF D!TypeOK, LastStep, D!Accept, D!Set
<1>4. OnlyAccepted'
  BY DEF D!TypeOK, OnlyAccepted, D!Accept, D!Set
<1>5. SaidOnce'
  BY DEF D!TypeOK, SaidOnce, Refused, Untouched, D!Accept, D!Set, OnlyAccepted
<1>6. NothingBegun'
  BY DEF D!TypeOK, NothingBegun, D!Busy, D!ReloadCutsNothing, D!Accept, D!Set
<1>7. SaidRight'
  BY DEF D!TypeOK, SaidRight, D!Accept, D!Set
<1> QED BY <1>1, <1>2, <1>3, <1>4, <1>5, <1>6, <1>7

\* A connection ends.
LEMMA CloseKeeps == ASSUME DispatchInv, NEW i \in Sends, D!Close(i) PROVE DispatchInv'
<1> USE DEF DispatchInv, D!bridge, D!link, D!work, D!native, D!lifecycle
<1>1. D!TypeOK'
  BY DEF D!TypeOK, D!Close, D!Set
<1>2. StillAway'
  BY DEF StillAway, Untouched, D!Close
<1>3. LastStep'
  BY DEF LastStep, D!Close, D!Set
<1>4. OnlyAccepted'
  BY DEF OnlyAccepted, D!Close, D!Set
<1>5. SaidOnce'
  BY DEF SaidOnce, Refused, Untouched, D!Close, D!Set
<1>6. NothingBegun'
  BY DEF NothingBegun, D!Busy, D!ReloadCutsNothing, D!Close, D!Set
<1>7. SaidRight'
  BY DEF SaidRight, D!Close
<1> QED BY <1>1, <1>2, <1>3, <1>4, <1>5, <1>6, <1>7

\* The companion reads a line.
LEMMA ReadKeeps == ASSUME DispatchInv, NEW i \in Sends, D!Read(i) PROVE DispatchInv'
<1> USE DEF DispatchInv, D!bridge, D!link, D!work, D!native, D!lifecycle
<1>1. D!TypeOK'
  BY DEF D!TypeOK, D!Read, D!AnswerOne, D!Reply, D!Ended, D!Set
<1>2. StillAway'
  BY DEF D!TypeOK, StillAway, Untouched, D!Read, D!AnswerOne, D!Ended, D!Set
<1>3. LastStep'
  BY DEF D!TypeOK, LastStep, D!Read, D!AnswerOne, D!Ended, D!Set
<1>4. OnlyAccepted'
  BY DEF D!TypeOK, OnlyAccepted, D!Read, D!AnswerOne, D!Reply, D!Ended, D!Set, StillAway,
     Untouched
<1>5. SaidOnce'
  BY DEF D!TypeOK, SaidOnce, Refused, Untouched, D!Read, D!AnswerOne, D!Reply, D!Ended, D!Set,
     LastStep
<1>6. NothingBegun'
  BY DEF NothingBegun, D!Busy, D!ReloadCutsNothing, D!Read
<1>7. SaidRight'
  BY DEF SaidRight, D!Read, D!AnswerOne, D!Reply
<1> QED BY <1>1, <1>2, <1>3, <1>4, <1>5, <1>6, <1>7

\* A handler connects to Desktop.
LEMMA AttachKeeps == ASSUME D!DispatchAssumption, DispatchInv, NEW i \in Sends, D!Attach(i)
PROVE DispatchInv'
<1> USE DEF DispatchInv, D!bridge, D!link, D!work, D!native, D!lifecycle
<1>1. D!TypeOK'
  BY DEF D!DispatchAssumption, D!TypeOK, D!Attach, D!AnswerOne, D!Reply, D!Ended, D!Set
<1>2. StillAway'
  BY DEF D!TypeOK, StillAway, Untouched, D!Attach, D!AnswerOne, D!Ended, D!Set
<1>3. LastStep'
  BY DEF D!TypeOK, LastStep, D!Attach, D!AnswerOne, D!Ended, D!Set
<1>4. OnlyAccepted'
  BY DEF D!TypeOK, OnlyAccepted, D!Attach, D!AnswerOne, D!Reply, D!Ended, D!Set, StillAway,
     Untouched
<1>5. SaidOnce'
  BY DEF D!TypeOK, SaidOnce, Refused, Untouched, D!Attach, D!AnswerOne, D!Reply, D!Ended, D!Set,
     LastStep
<1>6. NothingBegun'
  BY DEF NothingBegun, D!Busy, D!ReloadCutsNothing, D!Attach
<1>7. SaidRight'
  BY DEF SaidRight, D!Attach, D!AnswerOne, D!Reply
<1> QED BY <1>1, <1>2, <1>3, <1>4, <1>5, <1>6, <1>7

\* A handler sends the request.
LEMMA DispatchKeeps == ASSUME DispatchInv, NEW i \in Sends, D!Dispatch(i) PROVE DispatchInv'
<1> USE DEF DispatchInv, D!bridge, D!link, D!work, D!native, D!lifecycle
<1>1. D!TypeOK'
  BY DEF D!TypeOK, D!Dispatch, D!AnswerOne, D!Reply, D!Ended, D!Set
<1>2. StillAway'
  BY DEF D!TypeOK, StillAway, Untouched, D!Dispatch, D!AnswerOne, D!Ended, D!Set
<1>3. LastStep'
  BY DEF D!TypeOK, LastStep, D!Dispatch, D!AnswerOne, D!Ended, D!Set
<1>4. OnlyAccepted'
  BY DEF D!TypeOK, OnlyAccepted, D!Dispatch, D!AnswerOne, D!Reply, D!Ended, D!Set, StillAway,
     Untouched
<1>5. SaidOnce'
  BY DEF D!TypeOK, SaidOnce, Refused, Untouched, D!Dispatch, D!AnswerOne, D!Reply, D!Ended,
     D!Set, LastStep
<1>6. NothingBegun'
  BY DEF NothingBegun, D!Busy, D!ReloadCutsNothing, D!Dispatch
<1>7. SaidRight'
  BY DEF D!TypeOK, SaidRight, D!Dispatch, D!AnswerOne, D!Reply, D!Set, LastStep
<1> QED BY <1>1, <1>2, <1>3, <1>4, <1>5, <1>6, <1>7

\* Desktop answers.
LEMMA AnswerKeeps == ASSUME DispatchInv, NEW i \in Sends, D!Answer(i) PROVE DispatchInv'
<1> USE DEF DispatchInv, D!bridge, D!link, D!work, D!native, D!lifecycle
<1>1. D!TypeOK'
  BY DEF D!TypeOK, D!Answer, D!AnswerOne, D!Reply, D!Ended
<1>2. StillAway'
  BY DEF StillAway, Untouched, D!Answer, D!AnswerOne, D!Ended
<1>3. LastStep'
  BY DEF LastStep, D!Answer, D!AnswerOne, D!Ended
<1>4. OnlyAccepted'
  BY DEF OnlyAccepted, D!Answer, D!AnswerOne, D!Reply, D!Ended, StillAway, Untouched
<1>5. SaidOnce'
  BY DEF SaidOnce, Refused, Untouched, D!Answer, D!AnswerOne, D!Reply, D!Ended
<1>6. NothingBegun'
  BY DEF NothingBegun, D!Busy, D!ReloadCutsNothing, D!Answer
<1>7. SaidRight'
  BY DEF SaidRight, D!Answer, D!AnswerOne, D!Reply, LastStep
<1> QED BY <1>1, <1>2, <1>3, <1>4, <1>5, <1>6, <1>7

\* A handler's time is over.
LEMMA ExpireKeeps == ASSUME DispatchInv, NEW i \in Sends, D!Expire(i) PROVE DispatchInv'
<1> USE DEF DispatchInv, D!bridge, D!link, D!work, D!native, D!lifecycle
<1>1. D!TypeOK'
  BY DEF D!TypeOK, D!Expire, D!AnswerOne, D!Reply, D!Ended, D!Says
<1>2. StillAway'
  BY DEF StillAway, Untouched, D!Expire, D!AnswerOne, D!Ended
<1>3. LastStep'
  BY DEF LastStep, D!Expire, D!AnswerOne, D!Ended
<1>4. OnlyAccepted'
  BY DEF OnlyAccepted, D!Expire, D!AnswerOne, D!Reply, D!Ended, StillAway, Untouched
<1>5. SaidOnce'
  BY DEF SaidOnce, Refused, Untouched, D!Expire, D!AnswerOne, D!Reply, D!Ended, D!Says, LastStep
<1>6. NothingBegun'
  BY DEF NothingBegun, D!Busy, D!ReloadCutsNothing, D!Expire
<1>7. SaidRight'
  BY DEF SaidRight, D!Expire, D!AnswerOne, D!Reply, D!Says
<1> QED BY <1>1, <1>2, <1>3, <1>4, <1>5, <1>6, <1>7

\* The connection to Desktop breaks.
LEMMA PipeBreaksKeeps == ASSUME D!DispatchAssumption, DispatchInv, D!PipeBreaks PROVE DispatchInv'
<1> USE DEF DispatchInv, D!bridge, D!link, D!work, D!native, D!lifecycle
<1>1. D!TypeOK'
  BY DEF D!DispatchAssumption, D!TypeOK, D!PipeBreaks, D!Reply, D!Ended, D!Says
<1>2. StillAway'
  BY DEF StillAway, Untouched, D!PipeBreaks, D!Ended
<1>3. LastStep'
  BY DEF LastStep, D!PipeBreaks, D!Ended
<1>4. OnlyAccepted'
  BY DEF OnlyAccepted, D!PipeBreaks, D!Reply, D!Ended, D!Pending, StillAway, Untouched
<1>5. SaidOnce'
  BY DEF SaidOnce, Refused, Untouched, D!PipeBreaks, D!Reply, D!Ended, D!Pending, D!Says, LastStep
<1>6. NothingBegun'
  BY DEF NothingBegun, D!Busy, D!ReloadCutsNothing, D!PipeBreaks, D!Ended
<1>7. SaidRight'
  BY DEF SaidRight, D!PipeBreaks, D!Reply, D!Says
<1> QED BY <1>1, <1>2, <1>3, <1>4, <1>5, <1>6, <1>7

\* A reload begins.
LEMMA QuiesceKeeps == ASSUME D!DispatchAssumption, DispatchInv, D!Quiesce PROVE DispatchInv'
<1> USE DEF DispatchInv, D!bridge, D!link, D!work, D!native, D!lifecycle
<1>0. MaxPipes \in Nat /\ MaxStops \in Nat /\ d_listening' \in BOOLEAN
  <2>1. MaxPipes \in Nat /\ MaxStops \in Nat
    BY DEF D!DispatchAssumption
  <2>2. d_listening' \in BOOLEAN
    BY Zenon DEF D!TypeOK, D!Quiesce
  <2> QED BY <2>1, <2>2
<1>1. D!TypeOK'
  BY <1>0 DEF D!TypeOK, D!Modes, D!Quiesce
<1>2. StillAway'
  BY DEF StillAway, Untouched, D!Quiesce
<1>3. LastStep'
  BY DEF LastStep, D!Quiesce
<1>4. OnlyAccepted'
  BY DEF OnlyAccepted, D!Quiesce
<1>5. SaidOnce'
  BY DEF SaidOnce, Refused, Untouched, D!Quiesce
<1>6. NothingBegun'
  BY DEF NothingBegun, D!Busy, D!ReloadCutsNothing, D!Quiesce
<1>7. SaidRight'
  BY DEF SaidRight, D!Quiesce
<1> QED BY <1>1, <1>2, <1>3, <1>4, <1>5, <1>6, <1>7

\* A reload stops the companion.
LEMMA QuiescedKeeps == ASSUME D!DispatchAssumption, DispatchInv, D!Quiesced PROVE DispatchInv'
<1> USE DEF DispatchInv, D!bridge, D!link, D!work, D!native, D!lifecycle
<1>0. MaxPipes \in Nat /\ MaxStops \in Nat /\ d_listening' \in BOOLEAN
  <2>1. MaxPipes \in Nat /\ MaxStops \in Nat
    BY DEF D!DispatchAssumption
  <2>2. d_listening' \in BOOLEAN
    BY Zenon DEF D!Quiesced, D!Stop
  <2> QED BY <2>1, <2>2
<1>1. D!TypeOK'
  BY <1>0 DEF D!TypeOK, D!Modes, D!Quiesced, D!Stop
<1>2. StillAway'
  BY DEF StillAway, Untouched, D!Quiesced, D!Stop
<1>3. LastStep'
  BY DEF LastStep, D!Quiesced, D!Stop
<1>4. OnlyAccepted'
  BY DEF OnlyAccepted, D!Quiesced, D!Stop
<1>5. SaidOnce'
  BY DEF SaidOnce, Refused, Untouched, D!Quiesced, D!Stop
<1>6. NothingBegun'
  BY DEF NothingBegun, D!Busy, D!ReloadCutsNothing, D!Quiesced
<1>7. SaidRight'
  BY DEF SaidRight, D!Quiesced, D!Stop
<1> QED BY <1>1, <1>2, <1>3, <1>4, <1>5, <1>6, <1>7

\* The companion accepts calls again.
LEMMA ActivateKeeps == ASSUME DispatchInv, D!Activate PROVE DispatchInv'
<1> USE DEF DispatchInv, D!bridge, D!link, D!work, D!native, D!lifecycle
<1>1. D!TypeOK'
  BY DEF D!TypeOK, D!Modes, D!Activate, D!Accepts
<1>2. StillAway'
  BY DEF StillAway, Untouched, D!Activate
<1>3. LastStep'
  BY DEF LastStep, D!Activate
<1>4. OnlyAccepted'
  BY DEF OnlyAccepted, D!Activate
<1>5. SaidOnce'
  BY DEF SaidOnce, Refused, Untouched, D!Activate
<1>6. NothingBegun'
  BY DEF NothingBegun, D!ReloadCutsNothing, D!Activate, D!Accepts
<1>7. SaidRight'
  BY DEF SaidRight, D!Activate
<1> QED BY <1>1, <1>2, <1>3, <1>4, <1>5, <1>6, <1>7

\* A shutdown begins.
LEMMA ShutdownKeeps == ASSUME D!DispatchAssumption, DispatchInv, D!Shutdown PROVE DispatchInv'
<1> USE DEF DispatchInv, D!bridge, D!link, D!work, D!native, D!lifecycle
<1>1. D!TypeOK'
  BY DEF D!DispatchAssumption, D!TypeOK, D!Modes, D!Shutdown
<1>2. StillAway'
  BY DEF StillAway, Untouched, D!Shutdown
<1>3. LastStep'
  BY DEF LastStep, D!Shutdown
<1>4. OnlyAccepted'
  BY DEF OnlyAccepted, D!Shutdown
<1>5. SaidOnce'
  BY DEF SaidOnce, Refused, Untouched, D!Shutdown
<1>6. NothingBegun'
  BY DEF NothingBegun, D!ReloadCutsNothing, D!Shutdown
<1>7. SaidRight'
  BY DEF SaidRight, D!Shutdown
<1> QED BY <1>1, <1>2, <1>3, <1>4, <1>5, <1>6, <1>7

\* A shutdown stops the companion.
LEMMA ExitKeeps == ASSUME D!DispatchAssumption, DispatchInv, D!Exit PROVE DispatchInv'
<1> USE DEF DispatchInv, D!bridge, D!link, D!work, D!native, D!lifecycle
<1>0. MaxPipes \in Nat /\ MaxStops \in Nat /\ d_listening' \in BOOLEAN
  <2>1. MaxPipes \in Nat /\ MaxStops \in Nat
    BY DEF D!DispatchAssumption
  <2>2. d_listening' \in BOOLEAN
    BY Zenon DEF D!Exit, D!Stop
  <2> QED BY <2>1, <2>2
<1>1. D!TypeOK'
  BY <1>0 DEF D!TypeOK, D!Modes, D!Exit, D!Stop
<1>2. StillAway'
  BY DEF StillAway, Untouched, D!Exit, D!Stop
<1>3. LastStep'
  BY DEF LastStep, D!Exit, D!Stop
<1>4. OnlyAccepted'
  BY DEF OnlyAccepted, D!Exit, D!Stop
<1>5. SaidOnce'
  BY DEF SaidOnce, Refused, Untouched, D!Exit, D!Stop
<1>6. NothingBegun'
  BY DEF NothingBegun, D!ReloadCutsNothing, D!Exit
<1>7. SaidRight'
  BY DEF SaidRight, D!Exit, D!Stop
<1> QED BY <1>1, <1>2, <1>3, <1>4, <1>5, <1>6, <1>7

\* The companion is killed.
LEMMA KilledKeeps == ASSUME D!DispatchAssumption, DispatchInv, D!Killed PROVE DispatchInv'
<1> USE DEF DispatchInv, D!bridge, D!link, D!work, D!native, D!lifecycle
<1>0. MaxPipes \in Nat /\ MaxStops \in Nat /\ d_listening' \in BOOLEAN
  <2>1. MaxPipes \in Nat /\ MaxStops \in Nat
    BY DEF D!DispatchAssumption
  <2>2. d_listening' \in BOOLEAN
    BY Zenon DEF D!Killed, D!Stop
  <2> QED BY <2>1, <2>2
<1>1. D!TypeOK'
  BY <1>0 DEF D!TypeOK, D!Modes, D!Killed, D!Stop
<1>2. StillAway'
  BY DEF StillAway, Untouched, D!Killed, D!Stop
<1>3. LastStep'
  BY DEF LastStep, D!Killed, D!Stop
<1>4. OnlyAccepted'
  BY DEF OnlyAccepted, D!Killed, D!Stop
<1>5. SaidOnce'
  BY DEF SaidOnce, Refused, Untouched, D!Killed, D!Stop
<1>6. NothingBegun'
  BY DEF NothingBegun, D!ReloadCutsNothing, D!Killed
<1>7. SaidRight'
  BY DEF SaidRight, D!Killed, D!Stop
<1> QED BY <1>1, <1>2, <1>3, <1>4, <1>5, <1>6, <1>7

-----------------------------------------------------------------------------

\* No request is under way at first.
LEMMA InitHolds == ASSUME D!DispatchAssumption, D!Init PROVE DispatchInv
BY DEF D!DispatchAssumption, D!Init, DispatchInv, D!TypeOK, D!Modes, StillAway, Untouched, Early,
   LastStep,
   OnlyAccepted, SaidOnce, SaidRight, Refused, NothingBegun, D!ReloadCutsNothing, D!Busy

\* What every step keeps.
LEMMA StepKeeps == ASSUME D!DispatchAssumption, DispatchInv, [D!Next]_(D!vars) PROVE DispatchInv'
<1>1. CASE UNCHANGED D!vars
  BY <1>1 DEF D!vars, D!bridge, D!link, D!work, D!native, D!lifecycle, DispatchInv, D!TypeOK,
     StillAway, Untouched,
     LastStep, OnlyAccepted, SaidOnce, SaidRight, Refused, NothingBegun, D!ReloadCutsNothing, D!Busy
<1>2. ASSUME NEW i \in Sends,
             \/ D!Begin(i) \/ D!Connected(i) \/ D!Write(i) \/ D!Hear(i) \/ D!Lose(i)
             \/ D!Timeout(i) \/ D!Fallback(i)
      PROVE  DispatchInv'
  BY <1>2, BeginKeeps, ConnectedKeeps, WriteKeeps, HearKeeps, LoseKeeps, TimeoutKeeps,
     FallbackKeeps
<1>3. ASSUME NEW i \in Sends,
             \/ D!Accept(i) \/ D!Close(i) \/ D!Read(i) \/ D!Attach(i) \/ D!Dispatch(i)
             \/ D!Answer(i) \/ D!Expire(i)
      PROVE  DispatchInv'
  BY <1>3, AcceptKeeps, CloseKeeps, ReadKeeps, AttachKeeps, DispatchKeeps, AnswerKeeps,
     ExpireKeeps
<1>4. CASE D!PipeBreaks \/ D!Quiesce \/ D!Quiesced \/ D!Activate \/ D!Shutdown \/ D!Exit \/ D!Killed
  BY <1>4, PipeBreaksKeeps, QuiesceKeeps, QuiescedKeeps, ActivateKeeps, ShutdownKeeps, ExitKeeps,
     KilledKeeps
<1> QED BY <1>1, <1>2, <1>3, <1>4 DEF D!Next

\* What a request has come to, on its way through the bridge, its connection, the
\* companion and Desktop, and what may still become of it.
THEOREM DispatchInvariance == D!DispatchAssumption /\ D!Spec => []DispatchInv
<1> SUFFICES ASSUME D!DispatchAssumption PROVE D!Spec => []DispatchInv
  OBVIOUS
<1>1. D!Init => DispatchInv
  BY InitHolds
<1>2. DispatchInv /\ [D!Next]_(D!vars) => DispatchInv'
  BY StepKeeps
<1> QED BY <1>1, <1>2, PTL DEF D!Spec

\* A request is given to Desktop or to an app-server, and once, although either side
\* may give it up, lose the other or be restarted at any moment: deliver(), the
\* companion's handler and its stop().
THEOREM RequestsOnce == D!DispatchAssumption /\ D!Spec => []D!DeliveredOnce
<1>1. DispatchInv => D!DeliveredOnce
  BY DEF DispatchInv, LastStep, SaidOnce, Untouched, D!DeliveredOnce
<1> QED BY <1>1, DispatchInvariance, PTL

\* A request that deliver() reports as not sent has reached nobody, and never will.
THEOREM RequestsNotSent == D!DispatchAssumption /\ D!Spec => []D!NotSentIsTrue
<1>1. DispatchInv => D!NotSentIsTrue
  BY DEF DispatchInv, SaidOnce, Refused, D!NotSentIsTrue
<1> QED BY <1>1, DispatchInvariance, PTL

\* A reload that finds nobody at work before it refuses calls stops nobody: what
\* quiesce() of the companion relies on between its look and its stop.
THEOREM ReloadCuts == D!DispatchAssumption /\ D!Spec => []D!ReloadCutsNothing
<1>1. DispatchInv => D!ReloadCutsNothing
  BY DEF DispatchInv, NothingBegun
<1> QED BY <1>1, DispatchInvariance, PTL

\* What it says to its sender in the words of Delivery.
Sent == [r \in Sends |-> d_desk[r] + (IF r \in d_app THEN 1 ELSE 0)]
Said == [r \in Sends |-> IF d_result[r] = "acked" THEN "delivered" ELSE d_result[r]]

\* A step that changes nothing for any request but one, and for that keeps the promise.
LEMMA OneSends ==
    ASSUME NEW r \in Sends,
           \A q \in Sends \ {r} : Sent'[q] = Sent[q] /\ Said'[q] = Said[q],
           Sent'[r] = Sent[r] \/ (Sent[r] = 0 /\ Sent'[r] = 1 /\ Said[r] # "not_sent"),
           Said'[r] = Said[r] \/ /\ Said[r] = "none"
                                 /\ Said'[r] \in {"not_sent", "unknown", "delivered"}
                                 /\ Said'[r] = "not_sent" => Sent'[r] = 0
                                 /\ Said'[r] = "delivered" => Sent'[r] = 1
    PROVE  D!Promise!Next \/ UNCHANGED <<Sent, Said>>
<1>1. Sent' = [Sent EXCEPT ![r] = Sent'[r]] /\ Said' = [Said EXCEPT ![r] = Said'[r]]
  BY DEF Sent, Said
<1>2. CASE Sent'[r] = Sent[r] /\ Said'[r] = Said[r]
  BY <1>1, <1>2 DEF Sent, Said
<1>3. CASE ~(Sent'[r] = Sent[r] /\ Said'[r] = Said[r])
  <2>1. Sent' = Sent \/ D!Promise!Deliver(r)
    BY <1>1 DEF D!Promise!Deliver, Sent, Said
  <2>2. Said' = Said \/ \E what \in D!Promise!Answers : D!Promise!Tell(r, what)
    <3>1. CASE Said'[r] = Said[r]
      BY <1>1, <3>1 DEF Said
    <3>2. CASE Said'[r] # Said[r]
      <4>1. PICK what \in D!Promise!Answers : what = Said'[r]
        BY <3>2 DEF D!Promise!Answers
      <4>2. D!Promise!Tell(r, what)
        BY <1>1, <3>2, <4>1 DEF D!Promise!Tell, Sent, Said
      <4> QED BY <4>2
    <3> QED BY <3>1, <3>2
  <2> QED BY <1>3, <2>1, <2>2 DEF D!Promise!Next, Sent, Said
<1> QED BY <1>2, <1>3

\* A step of a request, by what it changes.
LEMMA StepPromises ==
    ASSUME DispatchInv, DispatchInv', [D!Next]_(D!vars)
    PROVE  D!Promise!Next \/ UNCHANGED <<Sent, Said>>
<1> USE DEF D!bridge, D!link, D!work, D!native, D!lifecycle
<1>1. CASE UNCHANGED <<d_desk, d_app, d_result>>
  BY <1>1 DEF Sent, Said
<1>2. ASSUME NEW r \in Sends, D!Write(r) \/ D!Hear(r) \/ D!Lose(r) \/ D!Timeout(r) \/ D!Fallback(r)
      PROVE  D!Promise!Next \/ UNCHANGED <<Sent, Said>>
  <2>1. /\ d_desk' = d_desk /\ d_app' \in {d_app, d_app \cup {r}}
        /\ d_app' # d_app => d_pc[r] = "fallback"
        /\ d_result' = d_result \/ /\ d_pc[r] # "done"
                                   /\ d_result' = [d_result EXCEPT ![r] = d_result'[r]]
                                   /\ d_result'[r] \in {"acked", "not_sent", "unknown"}
    BY <1>2 DEF D!Write, D!Hear, D!Lose, D!Timeout, D!Fallback, D!Break, D!Done, D!Set,
       D!Open, DispatchInv, D!TypeOK
  <2>2. \A q \in Sends \ {r} : Sent'[q] = Sent[q] /\ Said'[q] = Said[q]
    BY <2>1 DEF Sent, Said, DispatchInv, D!TypeOK
  <2>3. Sent'[r] = Sent[r] \/ (Sent[r] = 0 /\ Sent'[r] = 1 /\ Said[r] # "not_sent")
    BY <2>1 DEF Sent, Said, DispatchInv, StillAway, Untouched, Early
  <2>4. d_result'[r] = d_result[r] \/ d_result[r] = "none"
    BY <2>1 DEF DispatchInv, StillAway
  <2>5. Said'[r] = Said[r] \/ /\ Said[r] = "none"
                              /\ Said'[r] \in {"not_sent", "unknown", "delivered"}
                              /\ Said'[r] = "not_sent" => Sent'[r] = 0
                              /\ Said'[r] = "delivered" => Sent'[r] = 1
    BY <2>1, <2>4 DEF Sent, Said, DispatchInv, D!TypeOK, SaidOnce, SaidRight, Refused, Untouched
  <2> QED BY <2>2, <2>3, <2>5, OneSends
<1>3. ASSUME NEW r \in Sends, D!Dispatch(r)
      PROVE  D!Promise!Next \/ UNCHANGED <<Sent, Said>>
  <2>1. /\ d_app' = d_app /\ d_result' = d_result
        /\ d_desk' = d_desk \/ d_desk' = [d_desk EXCEPT ![r] = d_desk[r] + 1]
        /\ d_handler[r] = "checking"
    BY <1>3 DEF D!Dispatch, D!Set
  <2>2. \A q \in Sends \ {r} : Sent'[q] = Sent[q] /\ Said'[q] = Said[q]
    BY <2>1 DEF Sent, Said, DispatchInv, D!TypeOK
  <2>3. Sent'[r] = Sent[r] \/ (Sent[r] = 0 /\ Sent'[r] = 1 /\ Said[r] # "not_sent")
    BY <2>1 DEF Sent, Said, DispatchInv, D!TypeOK, LastStep, SaidOnce, Refused, Untouched
  <2>4. Said'[r] = Said[r]
    BY <2>1 DEF Said
  <2> QED BY <2>2, <2>3, <2>4, OneSends
<1> QED
  BY <1>1, <1>2, <1>3
  DEF D!Next, D!vars, D!Begin, D!Connected, D!Accept, D!Close, D!Read, D!Attach, D!Answer, D!Expire, D!PipeBreaks,
     D!Quiesce, D!Quiesced, D!Activate, D!Shutdown, D!Exit, D!Killed, D!Stop

\* A request keeps the promise of Delivery, whatever breaks, is reloaded or dies on its
\* way: deliver() and the companion.
THEOREM RequestsKeepPromise == D!DispatchAssumption /\ D!Spec => D!KeepsPromise
<1>1. D!Init => D!Promise!Init
  BY DEF D!Init, D!Promise!Init
<1>2. DispatchInv /\ DispatchInv' /\ [D!Next]_(D!vars) => [D!Promise!Next]_<<Sent, Said>>
  BY StepPromises
<1> QED BY <1>1, <1>2, DispatchInvariance, PTL DEF D!Spec, D!KeepsPromise, D!Promise!Spec, Sent, Said

-----------------------------------------------------------------------------
(* ReplyWait: whose reply a caller gets. *)

LEMMA NoneCounted == W!Cardinality({}) # 1
<1>1. W!Cardinality({}) = Cardinality({})
  BY DEF W!Cardinality, Cardinality, W!IsFiniteSet, IsFiniteSet
<1> QED BY <1>1, FS_EmptySet

LogRecs == [kind : {"meta", "start", "user", "dispatch", "final", "done", "fail"},
            turn : Nat, of : Deliveries \cup {None}]
Over == {"done", "fail"}
Answered == {"reply", "no_reply"}

WTypes ==
    /\ w_log \in Seq(LogRecs) /\ w_flushed \in Nat /\ w_flushed <= Len(w_log)
    /\ w_turn \in Nat /\ w_running \in BOOLEAN /\ w_left \subseteq Nat
    /\ w_flight \subseteq Deliveries /\ w_landed \in [Deliveries -> Nat]
    /\ DOMAIN w_pc = Deliveries /\ DOMAIN w_got = Deliveries /\ DOMAIN w_out = Deliveries
    /\ DOMAIN w_bind = Deliveries /\ \A d \in Deliveries : w_bind[d].mark \in Nat \cup {None}

\* A prompt arrives once, after it was sent, and is recorded where it arrived.
WBooks ==
    /\ \A i \in DOMAIN w_log : w_log[i].kind = "dispatch" =>
         w_log[i].of \in Deliveries /\ w_landed[w_log[i].of] = i
    /\ \A d \in Deliveries : w_landed[d] # 0 => w_landed[d] <= Len(w_log) /\ d \notin w_flight
    /\ \A d \in Deliveries : w_landed[d] # 0 \/ d \in w_flight =>
         w_pc[d] \notin {"new", "inspected", "sending"}

\* A turn begins after everything of the earlier ones, and its end is its last record.
WTurns ==
    /\ \A i \in DOMAIN w_log : w_log[i].turn <= w_turn
    /\ \A i, j \in DOMAIN w_log : i < j /\ w_log[j].kind = "start" => w_log[i].turn < w_log[j].turn
    /\ \A t \in w_left : t < w_turn
    /\ \A i \in DOMAIN w_log : w_log[i].kind \in Over =>
         /\ w_log[i].turn \notin w_left /\ (w_running => w_log[i].turn # w_turn)
         /\ \A j \in DOMAIN w_log : j > i => w_log[j].turn # w_log[i].turn

\* What OwnReply and NotShared say of an outcome, of a turn whose end is recorded.
Right(d, o) ==
    /\ w_landed[d] # 0 /\ w_landed[d] <= w_flushed /\ w_log[w_landed[d]].turn = o.turn
    /\ \E e \in DOMAIN w_log : w_log[e].kind = "done" /\ w_log[e].turn = o.turn
    /\ \A i \in W!Is("final", o.turn, w_log) : i > w_landed[d]
    /\ o.scope = "same_turn_final" => \A i \in W!Is("user", o.turn, w_log) : i < w_landed[d]
    /\ o.scope = "turn" /\ d \notin Created =>
         W!Cardinality(W!Dispatched(o.turn, Deliveries \ Created)) = 1

\* No other turn began between the prompt and the end of its turn.
Undisturbed(d, o) ==
    \A i \in w_landed[d]..Len(w_log) :
      (\E e \in W!Is("done", o.turn, w_log) : i < e) =>
        (w_log[i].kind = "start" => w_log[i].turn = o.turn)

WReplies ==
    /\ \A d \in Deliveries : w_out[d].is \in Answered =>
         Right(d, w_out[d]) /\ Undisturbed(d, w_out[d]) /\ w_pc[d] = "end"
    /\ \A d \in Deliveries : w_got[d].is \in Answered =>
         Right(d, w_got[d]) /\ (d \notin Created => Undisturbed(d, w_got[d]))

\* The reader of a creation does not look for later turns: the turn it reads is the one
\* the task was in when it began, which is compared once more before the reply is given.
WReading ==
    /\ DOMAIN w_first = Deliveries /\ DOMAIN w_at = Deliveries /\ DOMAIN w_deferred = Deliveries
    /\ \A d \in Created : w_bind[d].mark = None
    /\ \A d \in Created : w_pc[d] = "read" => w_first[d] = W!Target(d)
    /\ \A d \in Created : w_got[d].is \in Answered => w_pc[d] = "second" /\ w_first[d] = w_got[d].turn

\* Of two deliveries that look the same one has not begun or has had its reply, before the
\* watermark of the other.
WTwins ==
    \A d, e \in Deliveries :
        d # e /\ {d, e} \subseteq Twins /\ w_pc[d] # "new" /\ w_out[d].is # "reply" =>
            \/ w_pc[e] = "new"
            \/ /\ w_out[e].is = "reply"
               /\ w_pc[d] # "inspected" /\ w_bind[d].mark # None => w_landed[e] <= w_bind[d].mark

WaitInv == WTypes /\ WBooks /\ WTurns /\ WReplies /\ WReading /\ WTwins

\* What the file holds.
LEMMA FileIs ==
    ASSUME WTypes
    PROVE  /\ DOMAIN W!File = 1 .. w_flushed /\ Len(W!File) = w_flushed
           /\ \A i \in 1 .. w_flushed : W!File[i] = w_log[i]
           /\ DOMAIN w_log = 1 .. Len(w_log) /\ 1 .. w_flushed \subseteq DOMAIN w_log
<1>1. w_flushed \in 1 - 1 .. Len(w_log) /\ w_log \in Seq(LogRecs) /\ Len(w_log) \in Nat
  BY DEF WTypes
<1>2. W!File = [i \in 1 .. w_flushed |-> w_log[i]]
  BY <1>1 DEF W!File
<1>3. Len(W!File) = w_flushed
  BY <1>1, <1>2, SMT
<1> QED BY <1>1, <1>2, <1>3

\* A reply that is read in the file is right, if nobody else's prompt after the watermark
\* looks the same.
LEMMA TurnReplyIsRight ==
    ASSUME WTypes, WBooks, WTurns, NEW d \in Deliveries, NEW t, NEW mark \in Nat, NEW existing \in BOOLEAN,
           existing => d \notin Created, NEW o, o = W!TurnReply(d, t, mark, existing, W!File), o.is \in Answered,
           \A i \in DOMAIN w_log : w_log[i].kind = "dispatch" /\ W!Same(w_log[i].of, d) /\ i > mark
             => w_log[i].of = d
    PROVE  Right(d, o) /\ (d \notin Created => Undisturbed(d, o)) /\ o.turn = t
<1> DEFINE s == W!File
           hits == W!Rivals(d, t, existing, s)
           hit == CHOOSE i \in hits : TRUE
           end == CHOOSE i \in W!Is("done", t, s) : TRUE
           finals == W!Is("final", t, s)
<1>1. /\ DOMAIN s = 1 .. w_flushed /\ Len(s) = w_flushed
      /\ \A i \in 1 .. w_flushed : s[i] = w_log[i]
      /\ DOMAIN w_log = 1 .. Len(w_log) /\ 1 .. w_flushed \subseteq DOMAIN w_log
      /\ w_flushed \in Nat /\ Len(w_log) \in Nat
  BY FileIs DEF WTypes
<1>2. /\ W!Is("done", t, s) # {}
      /\ W!Cardinality(hits) = 1 /\ W!Same(s[hit].of, d) /\ ~(hit <= mark)
      /\ ~(end < hit) /\ (d \notin Created => ~W!Superseded(t, hit, end, existing, s))
      /\ \A i \in finals : ~(i < hit) /\ ~(i > end)
      /\ o.turn = t /\ o.scope = IF existing THEN "same_turn_final" ELSE "turn"
  BY DEF W!TurnReply, W!Out, Answered
<1> HIDE DEF s
<1>3. hit \in hits
  <2>1. hits # {}
    BY <1>2, NoneCounted
  <2> QED BY <2>1
<1>4. end \in W!Is("done", t, s)
  BY <1>2
<1> HIDE DEF hit, end
<1>5. /\ hit \in 1 .. w_flushed /\ w_log[hit].kind = "dispatch" /\ w_log[hit].turn = t
      /\ end \in 1 .. w_flushed /\ w_log[end].kind = "done" /\ w_log[end].turn = t
  BY <1>1, <1>3, <1>4 DEF W!Rivals, W!Is
<1>6. w_log[hit].of = d /\ w_landed[d] = hit
  BY <1>1, <1>2, <1>5 DEF WBooks
<1>7. \A j \in DOMAIN w_log : w_log[j].turn = t => j \in 1 .. w_flushed /\ j <= end
  BY <1>1, <1>5 DEF WTurns, Over
<1>8. \A k : W!Is(k, t, s) = W!Is(k, t, w_log)
  BY <1>1, <1>7 DEF W!Is
<1>9. \A i \in finals : i > hit
  BY <1>1, <1>2, <1>5 DEF W!Is
<1>10. d \notin Created => \A i \in hit .. Len(w_log) : (\E e \in W!Is("done", t, w_log) : i < e)
         => (w_log[i].kind = "start" => w_log[i].turn = t)
  <2> SUFFICES ASSUME d \notin Created, NEW i \in hit .. Len(w_log), NEW e \in W!Is("done", t, w_log), i < e,
                      w_log[i].kind = "start", w_log[i].turn # t
               PROVE  FALSE
    OBVIOUS
  <2>1. e <= end /\ e \in Nat
    BY <1>1, <1>7 DEF W!Is
  <2>2. i \in hit + 1 .. end - 1 /\ s[i] = w_log[i]
    BY <1>1, <1>5, <2>1
  <2> QED BY <1>2, <2>2 DEF W!Superseded
<1>11. existing => \A i \in W!Is("user", t, w_log) : i < hit
  <2> SUFFICES ASSUME existing, NEW i \in W!Is("user", t, w_log), ~(i < hit)
               PROVE  FALSE
    OBVIOUS
  <2>1. i \in DOMAIN w_log /\ w_log[i].kind = "user" /\ i \in W!Is("user", t, s)
    BY <1>8 DEF W!Is
  <2>2. i > hit
    BY <1>1, <1>5, <2>1
  <2> QED BY <1>2, <2>1, <2>2 DEF W!Superseded
<1>12. ~existing /\ d \notin Created => W!Cardinality(W!Dispatched(t, Deliveries \ Created)) = 1
  <2> SUFFICES ASSUME ~existing, d \notin Created PROVE hits = W!Dispatched(t, Deliveries \ Created)
    BY <1>2
  <2>1. hits = {i \in W!Is("dispatch", t, s) : s[i].of \notin Created}
    BY DEF W!Rivals
  <2>2. \A i \in W!Is("dispatch", t, s) : s[i] = w_log[i] /\ w_log[i].of \in Deliveries
    BY <1>1 DEF W!Is, WBooks
  <2> QED BY <1>8, <2>1, <2>2 DEF W!Dispatched
<1>13. d \notin Created => Undisturbed(d, o)
  BY <1>2, <1>6, <1>10 DEF Undisturbed
<1> QED BY <1>1, <1>2, <1>5, <1>6, <1>8, <1>9, <1>11, <1>12, <1>13 DEF Right

\* What is read for a delivery is right.
LEMMA ReadIsRight ==
    ASSUME WTypes, WBooks, WTurns, WReplies, WReading, WTwins, Created \cap Twins = {},
           NEW d \in Deliveries, w_pc[d] = "read", NEW o, o.is \in Answered,
           o = IF W!Matched(d) THEN W!Resolve(d, W!File)
               ELSE W!ReadReleased(d, W!Target(d), W!File)
    PROVE  /\ Right(d, o) /\ (d \notin Created => Undisturbed(d, o))
           /\ d \in Created => o.turn = w_first[d]
<1>1. CASE W!Matched(d)
  <2> DEFINE s == W!File
             hits == {i \in w_bind[d].mark + 1 .. Len(s) : s[i].kind = "dispatch" /\ W!Same(s[i].of, d)}
             u == s[CHOOSE i \in hits : TRUE].turn
             mark == w_bind[d].mark
             existing == u = w_bind[d].prev
  <2>1. mark \in Nat /\ existing \in BOOLEAN /\ d \notin Created
    BY <1>1 DEF W!Matched, WTypes, WReading
  <2>2. o = W!ReadTurn(d, u, s)
    BY <1>1 DEF W!Resolve, W!Out, Answered
  <2>3. o = W!TurnReply(d, u, mark, existing, s)
    BY <2>2 DEF W!ReadTurn, W!Out, Answered
  <2>4. ASSUME NEW i \in DOMAIN w_log, w_log[i].kind = "dispatch", W!Same(w_log[i].of, d), i > mark
        PROVE  w_log[i].of = d
    <3> SUFFICES ASSUME w_log[i].of # d PROVE FALSE
      OBVIOUS
    <3> DEFINE e == w_log[i].of
    <3>1. e \in Deliveries /\ w_landed[e] = i /\ i \in Nat /\ i # 0
      BY <2>4 DEF WBooks, WTypes, LogRecs
    <3>2. {d, e} \subseteq Twins
      BY <2>4 DEF W!Same
    <3>3. w_pc[e] # "new"
      BY <3>1 DEF WBooks
    <3>4. w_out[d].is # "reply"
      BY DEF WReplies, Answered
    <3>5. w_landed[e] <= mark
      BY <1>1, <3>1, <3>2, <3>3, <3>4 DEF WTwins, W!Matched
    <3> QED BY <2>1, <2>4, <3>1, <3>5
  <2> HIDE DEF existing, mark, u
  <2> QED BY <2>1, <2>3, <2>4, TurnReplyIsRight
<1>2. CASE ~W!Matched(d)
  <2>1. d \in Created /\ o = W!TurnReply(d, W!Target(d), 0, FALSE, W!File)
    BY <1>2 DEF W!ReadReleased, W!Out, Answered
  <2>2. \A i \in DOMAIN w_log : w_log[i].kind = "dispatch" /\ W!Same(w_log[i].of, d) /\ i > 0
          => w_log[i].of = d
    <3>1. d \notin Twins
      BY <2>1
    <3>2. \A e : W!Same(e, d) => e = d
      BY <3>1, Zenon DEF W!Same
    <3> QED BY <3>2, Zenon
  <2>3. PICK t : t = W!Target(d)
    OBVIOUS
  <2>6. PICK x \in BOOLEAN : x = FALSE
    OBVIOUS
  <2>4. o = W!TurnReply(d, t, 0, x, W!File) /\ (x => d \notin Created) /\ 0 \in Nat
    BY <2>1, <2>3, <2>6
  <2>5. Right(d, o) /\ (d \notin Created => Undisturbed(d, o)) /\ o.turn = t
    BY <2>2, <2>4, TurnReplyIsRight
  <2> QED BY <2>1, <2>3, <2>5 DEF WReading
<1> QED BY <1>1, <1>2

\* How Desktop appends: what was there stays, and nothing is added to a turn whose end is
\* recorded.
Grown ==
    /\ DOMAIN w_log = 1 .. Len(w_log) /\ DOMAIN w_log' = 1 .. Len(w_log') /\ Len(w_log) \in Nat
    /\ Len(w_log') \in Nat /\ Len(w_log) <= Len(w_log')
    /\ \A i \in 1 .. Len(w_log) : w_log'[i] = w_log[i]
    /\ \A i \in Len(w_log) + 1 .. Len(w_log'), e \in DOMAIN w_log :
         w_log[e].kind \in Over => w_log'[i].turn # w_log[e].turn
    /\ w_flushed' \in Nat /\ w_flushed' >= w_flushed
    /\ \A d \in Deliveries : w_landed[d] # 0 => w_landed'[d] = w_landed[d]

\* An answer that is right stays right.
LEMMA RightStays ==
    ASSUME WTypes, WBooks, Grown, NEW d \in Deliveries, NEW o, Right(d, o)
    PROVE  Right(d, o)' /\ (Undisturbed(d, o) => Undisturbed(d, o)')
<1>1. \A k : W!Is(k, o.turn, w_log)' = W!Is(k, o.turn, w_log)
  BY DEF Grown, Right, W!Is, Over
<1>2. /\ w_landed'[d] = w_landed[d] /\ w_landed[d] \in 1 .. Len(w_log)
      /\ w_log'[w_landed[d]] = w_log[w_landed[d]] /\ w_flushed \in Nat
  BY DEF Grown, Right, WBooks, WTypes
<1>3. \A e \in W!Is("done", o.turn, w_log) : e \in 1 .. Len(w_log)
  BY DEF W!Is, Grown
<1>4. /\ w_landed'[d] # 0 /\ w_landed'[d] <= w_flushed' /\ w_log'[w_landed'[d]].turn = o.turn
      /\ \E e \in DOMAIN w_log' : w_log'[e].kind = "done" /\ w_log'[e].turn = o.turn
  BY <1>2 DEF Right, Grown
<1>5. Undisturbed(d, o) => \A i \in w_landed'[d] .. Len(w_log') :
         (\E e \in W!Is("done", o.turn, w_log)' : i < e) =>
           (w_log'[i].kind = "start" => w_log'[i].turn = o.turn)
  <2> SUFFICES ASSUME Undisturbed(d, o), NEW i \in w_landed'[d] .. Len(w_log'), NEW e \in W!Is("done", o.turn, w_log), i < e
               PROVE  w_log'[i].kind = "start" => w_log'[i].turn = o.turn
    BY <1>1
  <2>1. i \in w_landed[d] .. Len(w_log) /\ w_log'[i] = w_log[i]
    BY <1>2, <1>3 DEF Grown
  <2> QED BY <2>1 DEF Undisturbed
<1>6. \A A : W!Dispatched(o.turn, A)' = W!Dispatched(o.turn, A)
  <2>1. \A i \in W!Is("dispatch", o.turn, w_log) : w_log'[i] = w_log[i]
    BY DEF W!Is, Grown
  <2> QED BY <1>1, <2>1 DEF W!Dispatched
<1>7. Undisturbed(d, o) => Undisturbed(d, o)'
  BY <1>5 DEF Undisturbed
<1>8. Right(d, o)'
  BY <1>1, <1>2, <1>4, <1>6 DEF Right
<1> QED BY <1>7, <1>8

LEMMA Appended ==
    ASSUME WTypes, NEW r \in Seq(LogRecs), W!Write(r)
    PROVE  /\ w_log' \in Seq(LogRecs) /\ Len(w_log') = Len(w_log) + Len(r)
           /\ DOMAIN w_log = 1 .. Len(w_log) /\ DOMAIN w_log' = 1 .. Len(w_log')
           /\ Len(w_log) \in Nat /\ Len(w_log') \in Nat /\ Len(r) \in Nat
           /\ \A i \in 1 .. Len(w_log) : w_log'[i] = w_log[i]
           /\ \A i \in Len(w_log) + 1 .. Len(w_log') :
                w_log'[i] = r[i - Len(w_log)] /\ i - Len(w_log) \in 1 .. Len(r)
<1>1. w_log \in Seq(LogRecs) /\ w_log' = w_log \o r
  BY DEF WTypes, W!Write
<1> HIDE DEF LogRecs
<1> QED BY <1>1, ConcatProperties

\* Nothing is added, but more of it may be in the file.
LEMMA Still ==
    ASSUME WTypes, UNCHANGED <<w_log, w_landed>>, w_flushed' \in Nat, w_flushed' >= w_flushed
    PROVE  Grown
<1>1. Len(w_log) \in Nat /\ DOMAIN w_log = 1 .. Len(w_log)
  BY DEF WTypes
<1>2. Len(w_log') = Len(w_log) /\ DOMAIN w_log' = DOMAIN w_log /\ Len(w_log) + 1 .. Len(w_log) = {}
  BY <1>1
<1> QED BY <1>1, <1>2 DEF Grown

\* The answers that were read or given stay right.
LEMMA AnswersStayRight ==
    ASSUME WTypes, WBooks, WReplies, Grown, UNCHANGED <<w_got, w_out>>,
           \A d \in Deliveries : w_out[d].is \in Answered => w_pc'[d] = w_pc[d]
    PROVE  WReplies' /\ \A d \in Deliveries : w_out[d].is \in Answered => w_landed'[d] = w_landed[d]
<1>1. ASSUME NEW d \in Deliveries, NEW o, o = w_out[d] \/ o = w_got[d], o.is \in Answered
      PROVE  Right(d, o)' /\ (Undisturbed(d, o) => Undisturbed(d, o)') /\ w_landed'[d] = w_landed[d]
  <2>1. Right(d, o)
    BY <1>1 DEF WReplies
  <2>2. w_landed'[d] = w_landed[d]
    BY <2>1 DEF Right, Grown
  <2> QED BY <2>1, <2>2, RightStays
<1>2. ASSUME NEW d \in Deliveries, w_out'[d].is \in Answered
      PROVE  Right(d, w_out[d])' /\ Undisturbed(d, w_out[d])' /\ w_pc'[d] = "end"
  <2> DEFINE o == w_out[d]
  <2>1. o.is \in Answered /\ Undisturbed(d, o) /\ w_pc[d] = "end"
    BY <1>2 DEF WReplies
  <2>2. PICK u : u = o
    OBVIOUS
  <2>3. Right(d, u)' /\ Undisturbed(d, u)'
    BY <1>1, <2>1, <2>2
  <2> QED BY <2>1, <2>2, <2>3 DEF Right, Undisturbed
<1>3. ASSUME NEW d \in Deliveries, w_got'[d].is \in Answered
      PROVE  Right(d, w_got[d])' /\ (d \notin Created => Undisturbed(d, w_got[d])')
  <2> DEFINE o == w_got[d]
  <2>1. o.is \in Answered /\ (d \notin Created => Undisturbed(d, o))
    BY <1>3 DEF WReplies
  <2>2. PICK u : u = o
    OBVIOUS
  <2>3. Right(d, u)' /\ (d \notin Created => Undisturbed(d, u)')
    BY <1>1, <2>1, <2>2
  <2> QED BY <2>2, <2>3 DEF Right, Undisturbed
<1>4. \A d \in Deliveries : w_out[d].is \in Answered => w_landed'[d] = w_landed[d]
  BY <1>1
<1> QED BY <1>2, <1>3, <1>4 DEF WReplies

\* Desktop changes nothing of what the calls know.
LEMMA CallsStayRight ==
    ASSUME WaitInv, Grown, UNCHANGED W!calls
    PROVE  WReplies' /\ WReading' /\ WTwins'
<1>1. UNCHANGED <<w_bind, w_pc, w_got, w_out, w_first, w_at, w_deferred>>
  BY DEF W!calls
<1>2. WReplies' /\ \A d \in Deliveries : w_out[d].is \in Answered => w_landed'[d] = w_landed[d]
  BY <1>1, AnswersStayRight DEF WaitInv
<1>3. WTwins'
  BY <1>1, <1>2 DEF WaitInv, WTwins, Answered
<1>4. WReading'
  BY <1>1 DEF WaitInv, WReading, W!Target
<1> QED BY <1>2, <1>3, <1>4

LEMMA TurnsAreNat == ASSUME WTypes PROVE \A i \in DOMAIN w_log : w_log[i] \in LogRecs /\ w_log[i].turn \in Nat
<1>1. \A i \in DOMAIN w_log : w_log[i] \in LogRecs
  BY DEF WTypes
<1> QED BY <1>1 DEF LogRecs

\* Records of a turn whose end is not recorded are appended, its end as the last of them.
LEMMA Extended ==
    ASSUME WTypes, WTurns, NEW r \in Seq(LogRecs), W!Write(r), NEW t \in Nat,
           \A k \in 1 .. Len(r) : r[k].turn = t /\ (r[k].kind = "start" => k = 1 /\ w_turn < t),
           \A k \in 1 .. Len(r) : r[k].kind \in Over =>
             k = Len(r) /\ t \notin w_left' /\ (w_running' => t # w_turn'),
           \A e \in DOMAIN w_log : w_log[e].kind \in Over =>
             w_log[e].turn # t /\ w_log[e].turn \notin w_left' /\ (w_running' => w_log[e].turn # w_turn'),
           w_turn' \in Nat, w_turn <= w_turn', t <= w_turn', \A u \in w_left' : u < w_turn',
           w_flushed' = w_flushed, \A d \in Deliveries : w_landed[d] # 0 => w_landed'[d] = w_landed[d]
    PROVE  WTurns' /\ Grown
<1>1. /\ Len(w_log') = Len(w_log) + Len(r) /\ Len(w_log) \in Nat /\ Len(w_log') \in Nat /\ Len(r) \in Nat
      /\ DOMAIN w_log = 1 .. Len(w_log) /\ DOMAIN w_log' = 1 .. Len(w_log')
      /\ \A i \in 1 .. Len(w_log) : w_log'[i] = w_log[i]
      /\ \A i \in Len(w_log) + 1 .. Len(w_log') :
           w_log'[i] = r[i - Len(w_log)] /\ i - Len(w_log) \in 1 .. Len(r)
  BY Appended
<1>2. \A i \in 1 .. Len(w_log) : w_log[i].turn \in Nat
  BY <1>1, TurnsAreNat
<1>3. \A i \in DOMAIN w_log' :
        \/ i \in DOMAIN w_log /\ w_log'[i] = w_log[i]
        \/ i \in Len(w_log) + 1 .. Len(w_log') /\ w_log'[i].turn = t
  BY <1>1
<1>4. Grown
  <2>0. \A k \in 1 .. Len(r) : r[k].turn = t
    OBVIOUS
  <2>1. \A i \in Len(w_log) + 1 .. Len(w_log') : w_log'[i].turn = t
    BY <1>1, <2>0
  <2>2. w_flushed' \in Nat /\ w_flushed' >= w_flushed /\ Len(w_log) <= Len(w_log')
    BY <1>1 DEF WTypes
  <2> QED BY <1>1, <2>1, <2>2 DEF Grown
<1>5. \A i \in DOMAIN w_log' : w_log'[i].turn <= w_turn'
  BY <1>1, <1>2, <1>3 DEF WTurns, WTypes
<1>6. ASSUME NEW i \in DOMAIN w_log', w_log'[i].kind \in Over
      PROVE  /\ w_log'[i].turn \notin w_left' /\ (w_running' => w_log'[i].turn # w_turn')
             /\ \A j \in DOMAIN w_log' : j > i => w_log'[j].turn # w_log'[i].turn
  <2>1. CASE i \in DOMAIN w_log /\ w_log'[i] = w_log[i]
    <3>1. ASSUME NEW j \in DOMAIN w_log', j > i PROVE w_log'[j].turn # w_log'[i].turn
      <4>1. CASE j \in DOMAIN w_log /\ w_log'[j] = w_log[j]
        BY <1>6, <2>1, <3>1, <4>1 DEF WTurns
      <4>2. CASE w_log'[j].turn = t
        BY <1>6, <2>1, <4>2
      <4> QED BY <1>3, <4>1, <4>2
    <3> QED BY <1>6, <2>1, <3>1
  <2>2. CASE i \in Len(w_log) + 1 .. Len(w_log') /\ w_log'[i].turn = t
    <3>1. i - Len(w_log) \in 1 .. Len(r) /\ r[i - Len(w_log)] = w_log'[i]
      BY <1>1, <2>2
    <3>2. i - Len(w_log) = Len(r) /\ t \notin w_left' /\ (w_running' => t # w_turn')
      BY <1>6, <3>1
    <3>3. i = Len(w_log')
      BY <1>1, <2>2, <3>2
    <3>4. \A j \in DOMAIN w_log' : ~(j > i)
      BY <1>1, <3>3
    <3> QED BY <2>2, <3>2, <3>4
  <2> QED BY <1>3, <2>1, <2>2
<1>7. ASSUME NEW i \in DOMAIN w_log', NEW j \in DOMAIN w_log', i < j, w_log'[j].kind = "start"
      PROVE  w_log'[i].turn < w_log'[j].turn
  <2>1. CASE j \in DOMAIN w_log /\ w_log'[j] = w_log[j]
    <3>1. i \in DOMAIN w_log /\ w_log'[i] = w_log[i]
      BY <1>1, <1>7, <2>1
    <3> QED BY <1>7, <2>1, <3>1 DEF WTurns
  <2>2. CASE j \in Len(w_log) + 1 .. Len(w_log') /\ w_log'[j].turn = t
    <3>1. j - Len(w_log) \in 1 .. Len(r) /\ r[j - Len(w_log)] = w_log'[j]
      BY <1>1, <2>2
    <3>2. j - Len(w_log) = 1 /\ w_turn < t
      BY <1>7, <3>1
    <3>3. i \in DOMAIN w_log /\ w_log'[i] = w_log[i]
      BY <1>1, <1>7, <2>2, <3>2
    <3>4. w_log[i].turn \in Nat /\ w_log[i].turn <= w_turn /\ w_turn \in Nat
      BY <1>1, <1>2, <3>3 DEF WTurns, WTypes
    <3> QED BY <2>2, <3>2, <3>3, <3>4
  <2> QED BY <1>3, <2>1, <2>2
<1> QED BY <1>4, <1>5, <1>6, <1>7 DEF WTurns

\* Two records that begin a turn are appended.
LEMMA Begun ==
    ASSUME WTypes, WTurns, NEW q \in LogRecs, q.turn = w_turn + 1, q.kind \notin Over, q.kind # "start",
           W!Begin(q),
           w_flushed' = w_flushed, \A d \in Deliveries : w_landed[d] # 0 => w_landed'[d] = w_landed[d]
    PROVE  /\ WTurns' /\ Grown /\ w_turn' \in Nat /\ w_running' \in BOOLEAN /\ w_left' \subseteq Nat
           /\ w_log' \in Seq(LogRecs) /\ Len(w_log') = Len(w_log) + 2 /\ w_log'[Len(w_log) + 2] = q
           /\ w_log'[Len(w_log) + 1].kind = "start"
<1> DEFINE p == W!Rec("start", w_turn + 1, None)
           r == <<p, q>>
<1>1. p \in LogRecs /\ p.turn = w_turn + 1 /\ p.kind = "start"
  BY DEF W!Rec, LogRecs, WTypes
<1> HIDE DEF p
<1>2. r \in Seq(LogRecs) /\ Len(r) = 2 /\ r[1] = p /\ r[2] = q
  BY <1>1
<1>3. W!Write(r) /\ w_turn' = w_turn + 1 /\ w_running' = TRUE
      /\ w_left' = IF w_running THEN w_left \cup {w_turn} ELSE w_left
  BY DEF W!Begin, p
<1> HIDE DEF r
<1>4. /\ w_log' \in Seq(LogRecs) /\ Len(w_log') = Len(w_log) + 2 /\ Len(w_log) \in Nat
      /\ w_log'[Len(w_log) + 2] = q /\ w_log'[Len(w_log) + 1] = p
  <2>1. /\ w_log' \in Seq(LogRecs) /\ Len(w_log') = Len(w_log) + 2 /\ Len(w_log) \in Nat
        /\ \A i \in Len(w_log) + 1 .. Len(w_log') : w_log'[i] = r[i - Len(w_log)]
    BY <1>2, <1>3, Appended
  <2>2. Len(w_log) + 2 - Len(w_log) = 2 /\ Len(w_log) + 1 - Len(w_log) = 1
        /\ Len(w_log) + 1 \in Len(w_log) + 1 .. Len(w_log') /\ Len(w_log) + 2 \in Len(w_log) + 1 .. Len(w_log')
    BY <2>1
  <2> QED BY <1>2, <2>1, <2>2
<1>5. \A k \in 1 .. Len(r) : /\ r[k].turn = w_turn + 1 /\ r[k].kind \notin Over
                             /\ r[k].kind = "start" => k = 1 /\ w_turn < w_turn + 1
  <2>1. \A k \in 1 .. Len(r) : (k = 1 /\ r[k] = p) \/ (k = 2 /\ r[k] = q)
    BY <1>2
  <2>2. w_turn < w_turn + 1
    BY DEF WTypes
  <2>3. p.kind \notin Over
    BY <1>1 DEF Over
  <2> QED BY <1>1, <2>1, <2>2, <2>3, Zenon
<1>10. \A k \in 1 .. Len(r) : r[k].turn = w_turn + 1 /\ (r[k].kind = "start" => k = 1 /\ w_turn < w_turn + 1)
  BY <1>5
<1>6. w_turn + 1 \in Nat /\ w_turn \in Nat /\ w_turn <= w_turn + 1 /\ w_turn' \in Nat
      /\ w_left' \subseteq Nat /\ \A u \in w_left' : u < w_turn'
  <2>1. w_turn \in Nat /\ w_left \subseteq Nat /\ \A u \in w_left : u < w_turn
    BY DEF WTurns, WTypes
  <2>2. w_turn + 1 \in Nat /\ w_turn <= w_turn + 1 /\ w_turn < w_turn + 1
    BY <2>1
  <2>3. w_left' \subseteq w_left \cup {w_turn}
    BY <1>3
  <2>4. ASSUME NEW u \in w_left' PROVE u \in Nat /\ u < w_turn + 1
    <3>1. CASE u \in w_left
      <4>1. u \in Nat /\ u < w_turn
        BY <2>1, <3>1
      <4> QED BY <2>1, <4>1
    <3>2. CASE u = w_turn
      BY <2>1, <2>2, <3>2
    <3> QED BY <2>3, <3>1, <3>2
  <2> QED BY <1>3, <2>1, <2>2, <2>4
<1>7. \A e \in DOMAIN w_log : w_log[e].turn # w_turn + 1
  <2>1. \A e \in DOMAIN w_log : w_log[e].turn \in Nat /\ w_log[e].turn <= w_turn
    BY TurnsAreNat DEF WTurns
  <2> QED BY <1>6, <2>1
<1>8. \A e \in DOMAIN w_log : w_log[e].kind \in Over => w_log[e].turn \notin w_left'
  BY <1>3 DEF WTurns
<1>11. /\ \A k \in 1 .. Len(r) : r[k].kind \in Over =>
              k = Len(r) /\ w_turn + 1 \notin w_left' /\ (w_running' => w_turn + 1 # w_turn')
       /\ \A e \in DOMAIN w_log : w_log[e].kind \in Over =>
              w_log[e].turn # w_turn + 1 /\ w_log[e].turn \notin w_left' /\ (w_running' => w_log[e].turn # w_turn')
       /\ w_turn <= w_turn' /\ w_turn + 1 <= w_turn'
  <2>1. w_turn' = w_turn + 1 /\ w_turn + 1 <= w_turn + 1
    BY <1>3, <1>6
  <2>2. \A k \in 1 .. Len(r) : r[k].kind \notin Over
    BY <1>5
  <2>3. \A e \in DOMAIN w_log : w_log[e].turn # w_turn'
    BY <1>7, <2>1
  <2> QED BY <1>6, <1>7, <1>8, <2>1, <2>2, <2>3
<1>9. WTurns' /\ Grown
  BY <1>2, <1>3, <1>6, <1>10, <1>11, Extended
<1> QED BY <1>1, <1>3, <1>4, <1>6, <1>9

\* One record of a turn that is not over is appended.
LEMMA Added ==
    ASSUME WTypes, WTurns, NEW q \in LogRecs, q.kind # "start", W!Write(<<q>>),
           q.kind \in Over => q.turn \notin w_left' /\ (w_running' => q.turn # w_turn'),
           (w_running /\ q.turn = w_turn) \/ q.turn \in w_left, w_turn' = w_turn, w_left' \subseteq w_left,
           w_running' => w_running,
           w_flushed' = w_flushed, \A d \in Deliveries : w_landed[d] # 0 => w_landed'[d] = w_landed[d]
    PROVE  /\ WTurns' /\ Grown
           /\ w_log' \in Seq(LogRecs) /\ Len(w_log') = Len(w_log) + 1 /\ w_log'[Len(w_log) + 1] = q
<1> DEFINE r == <<q>>
<1>1. r \in Seq(LogRecs) /\ Len(r) = 1 /\ r[1] = q
  OBVIOUS
<1>2. W!Write(r)
  OBVIOUS
<1> HIDE DEF r
<1>3. /\ w_log' \in Seq(LogRecs) /\ Len(w_log') = Len(w_log) + 1 /\ Len(w_log) \in Nat
      /\ w_log'[Len(w_log) + 1] = q
  <2>1. /\ w_log' \in Seq(LogRecs) /\ Len(w_log') = Len(w_log) + 1 /\ Len(w_log) \in Nat
        /\ \A i \in Len(w_log) + 1 .. Len(w_log') : w_log'[i] = r[i - Len(w_log)]
    BY <1>1, <1>2, Appended
  <2>2. Len(w_log) + 1 - Len(w_log) = 1 /\ Len(w_log) + 1 \in Len(w_log) + 1 .. Len(w_log')
    BY <2>1
  <2> QED BY <1>1, <2>1, <2>2
<1>4. q.turn \in Nat /\ q.turn <= w_turn /\ w_turn \in Nat /\ w_turn' \in Nat /\ w_turn <= w_turn'
      /\ q.turn <= w_turn' /\ \A u \in w_left' : u < w_turn'
  BY DEF WTurns, WTypes, LogRecs
<1>5. \A e \in DOMAIN w_log : w_log[e].kind \in Over =>
         w_log[e].turn # q.turn /\ w_log[e].turn \notin w_left' /\ (w_running' => w_log[e].turn # w_turn')
  BY DEF WTurns
<1>6. \A k \in 1 .. Len(r) : k = 1 /\ r[k] = q /\ Len(r) = 1
  BY <1>1
<1>7. /\ \A k \in 1 .. Len(r) : r[k].turn = q.turn /\ (r[k].kind = "start" => k = 1 /\ w_turn < q.turn)
      /\ \A k \in 1 .. Len(r) : r[k].kind \in Over =>
             k = Len(r) /\ q.turn \notin w_left' /\ (w_running' => q.turn # w_turn')
  BY <1>6
<1>8. WTurns' /\ Grown
  BY <1>1, <1>2, <1>4, <1>5, <1>7, Extended
<1> QED BY <1>3, <1>8

LEMMA HumanKeeps == ASSUME WaitInv, W!Human, UNCHANGED W!calls PROVE WaitInv'
<1> USE DEF WaitInv
<1>1. UNCHANGED <<w_bind, w_pc, w_got, w_out, w_flushed, w_flight, w_landed>>
  BY DEF W!calls, W!Human
<1>2. CASE W!Begin(W!Rec("user", w_turn + 1, None))
  <2> DEFINE q == W!Rec("user", w_turn + 1, None)
  <2>1. q \in LogRecs /\ q.turn = w_turn + 1 /\ q.kind = "user" /\ q.kind \notin Over
    BY DEF W!Rec, LogRecs, WTypes, Over
  <2> HIDE DEF q
  <2>2. W!Begin(q)
    BY <1>2 DEF q
  <2>3. /\ WTurns' /\ Grown /\ w_turn' \in Nat /\ w_running' \in BOOLEAN /\ w_left' \subseteq Nat
        /\ w_log' \in Seq(LogRecs) /\ Len(w_log') = Len(w_log) + 2 /\ w_log'[Len(w_log) + 2] = q
        /\ w_log'[Len(w_log) + 1].kind = "start"
    BY <1>1, <2>1, <2>2, Begun
  <2>4. WTypes'
    BY <1>1, <2>3 DEF WTypes
  <2>5. \A i \in DOMAIN w_log' : w_log'[i].kind = "dispatch" => i \in DOMAIN w_log /\ w_log'[i] = w_log[i]
    BY <2>1, <2>3 DEF Grown
  <2>6. WBooks'
    BY <1>1, <2>3, <2>5 DEF WBooks, WTypes
  <2> QED BY <2>3, <2>4, <2>6, CallsStayRight
<1>3. CASE w_running /\ W!Write(<<W!Rec("user", w_turn, None)>>) /\ UNCHANGED <<w_turn, w_running, w_left>>
  <2> DEFINE q == W!Rec("user", w_turn, None)
  <2>1. q \in LogRecs /\ q.turn = w_turn /\ q.kind = "user" /\ q.kind \notin Over
    BY DEF W!Rec, LogRecs, WTypes, Over
  <2> HIDE DEF q
  <2>2. W!Write(<<q>>)
    BY <1>3 DEF q
  <2>3. /\ WTurns' /\ Grown
        /\ w_log' \in Seq(LogRecs) /\ Len(w_log') = Len(w_log) + 1 /\ w_log'[Len(w_log) + 1] = q
    BY <1>1, <1>3, <2>1, <2>2, Added
  <2>4. WTypes'
    BY <1>1, <1>3, <2>3 DEF WTypes
  <2>5. \A i \in DOMAIN w_log' : w_log'[i].kind = "dispatch" => i \in DOMAIN w_log /\ w_log'[i] = w_log[i]
    BY <2>1, <2>3 DEF Grown
  <2>6. WBooks'
    BY <1>1, <2>3, <2>5 DEF WBooks, WTypes
  <2> QED BY <2>3, <2>4, <2>6, CallsStayRight
<1> QED BY <1>2, <1>3 DEF W!Human

LEMMA LandKeeps ==
    ASSUME WaitInv, NEW d \in Deliveries, W!Land(d), UNCHANGED W!calls
    PROVE  WaitInv'
<1> USE DEF WaitInv
<1>1. /\ UNCHANGED <<w_bind, w_pc, w_got, w_out, w_flushed>> /\ d \in w_flight
      /\ w_flight' = w_flight \ {d} /\ w_landed' = [w_landed EXCEPT ![d] = Len(w_log')]
  BY DEF W!calls, W!Land
<1>2. w_landed[d] = 0 /\ w_landed'[d] = Len(w_log') /\ \A e \in Deliveries \ {d} : w_landed'[e] = w_landed[e]
  BY <1>1 DEF WBooks, WTypes
<1>3. \A e \in Deliveries : w_landed[e] # 0 => w_landed'[e] = w_landed[e]
  BY <1>2
<1>4. ASSUME NEW q \in LogRecs, q.kind = "dispatch", q.of = d, Grown, WTurns', w_turn' \in Nat,
             w_running' \in BOOLEAN, w_left' \subseteq Nat, w_log' \in Seq(LogRecs), w_log'[Len(w_log')] = q,
             \A i \in Len(w_log) + 1 .. Len(w_log') : w_log'[i].kind = "dispatch" => i = Len(w_log')
      PROVE  WaitInv'
  <2>0. /\ Len(w_log) \in Nat /\ Len(w_log') \in Nat /\ Len(w_log) <= Len(w_log')
        /\ DOMAIN w_log = 1 .. Len(w_log) /\ DOMAIN w_log' = 1 .. Len(w_log')
        /\ \A i \in 1 .. Len(w_log) : w_log'[i] = w_log[i]
    BY <1>4 DEF Grown
  <2>1. WTypes'
    <3>0. w_flushed \in Nat /\ w_flushed <= Len(w_log)
      BY DEF WTypes
    <3>1. w_flushed' \in Nat /\ w_flushed' <= Len(w_log') /\ Len(w_log') \in Nat
      BY <1>1, <2>0, <3>0
    <3>2. w_landed' \in [Deliveries -> Nat]
      BY <1>1, <3>1 DEF WTypes
    <3> QED BY <1>1, <1>4, <3>1, <3>2 DEF WTypes
  <2>2. ASSUME NEW i \in DOMAIN w_log', w_log'[i].kind = "dispatch"
        PROVE  w_log'[i].of \in Deliveries /\ w_landed'[w_log'[i].of] = i
    <3>1. CASE i \in DOMAIN w_log /\ w_log'[i] = w_log[i]
      <4>1. w_log[i].of \in Deliveries /\ w_landed[w_log[i].of] = i /\ i # 0
        BY <2>0, <2>2, <3>1 DEF WBooks
      <4> QED BY <1>3, <3>1, <4>1
    <3>2. CASE i = Len(w_log')
      BY <1>2, <1>4, <3>2
    <3>3. i \in Len(w_log) + 1 .. Len(w_log') \/ i \in 1 .. Len(w_log)
      BY <2>0
    <3> QED BY <1>4, <2>0, <2>2, <3>1, <3>2, <3>3
  <2>3. \A e \in Deliveries : w_landed'[e] # 0 => w_landed'[e] <= Len(w_log') /\ e \notin w_flight'
    <3>1. \A e \in Deliveries : w_landed[e] # 0 => w_landed[e] <= Len(w_log) /\ w_landed[e] \in Nat
      BY DEF WBooks, WTypes
    <3>2. d \notin w_flight' /\ \A e \in Deliveries : e \in w_flight' => e \in w_flight
      BY <1>1
    <3> QED BY <1>2, <2>0, <3>1, <3>2 DEF WBooks
  <2>4. \A e \in Deliveries : w_landed'[e] # 0 \/ e \in w_flight' => w_pc'[e] \notin {"new", "inspected", "sending"}
    BY <1>1, <1>2 DEF WBooks
  <2>5. WBooks'
    BY <2>2, <2>3, <2>4 DEF WBooks
  <2> QED BY <1>4, <2>1, <2>5, CallsStayRight
<1>5. CASE w_running /\ W!Write(<<W!Rec("dispatch", w_turn, d)>>) /\ UNCHANGED <<w_turn, w_running, w_left>>
  <2> DEFINE q == W!Rec("dispatch", w_turn, d)
  <2>1. q \in LogRecs /\ q.turn = w_turn /\ q.kind = "dispatch" /\ q.kind \notin Over /\ q.of = d
    BY DEF W!Rec, LogRecs, WTypes, Over
  <2> HIDE DEF q
  <2>2. W!Write(<<q>>)
    BY <1>5 DEF q
  <2>3. /\ WTurns' /\ Grown
        /\ w_log' \in Seq(LogRecs) /\ Len(w_log') = Len(w_log) + 1 /\ w_log'[Len(w_log) + 1] = q
    BY <1>1, <1>3, <1>5, <2>1, <2>2, Added
  <2>4. \A i \in Len(w_log) + 1 .. Len(w_log') : i = Len(w_log')
    BY <2>3 DEF Grown
  <2>5. w_turn' \in Nat /\ w_running' \in BOOLEAN /\ w_left' \subseteq Nat
    BY <1>5 DEF WTypes
  <2> QED BY <1>4, <2>1, <2>3, <2>4, <2>5
<1>6. CASE W!Begin(W!Rec("dispatch", w_turn + 1, d))
  <2> DEFINE q == W!Rec("dispatch", w_turn + 1, d)
  <2>1. q \in LogRecs /\ q.turn = w_turn + 1 /\ q.kind = "dispatch" /\ q.kind \notin Over /\ q.of = d
    BY DEF W!Rec, LogRecs, WTypes, Over
  <2> HIDE DEF q
  <2>2. W!Begin(q)
    BY <1>6 DEF q
  <2>3. /\ WTurns' /\ Grown /\ w_turn' \in Nat /\ w_running' \in BOOLEAN /\ w_left' \subseteq Nat
        /\ w_log' \in Seq(LogRecs) /\ Len(w_log') = Len(w_log) + 2 /\ w_log'[Len(w_log) + 2] = q
        /\ w_log'[Len(w_log) + 1].kind = "start"
    BY <1>1, <1>3, <2>1, <2>2, Begun
  <2>4. \A i \in Len(w_log) + 1 .. Len(w_log') : w_log'[i].kind = "dispatch" => i = Len(w_log')
    BY <2>3 DEF Grown
  <2> QED BY <1>4, <2>1, <2>3, <2>4
<1> QED BY <1>5, <1>6 DEF W!Land

\* One record, of another kind than a dispatch, to a turn that is not over.
LEMMA RecordKeeps ==
    ASSUME WaitInv, UNCHANGED W!calls, NEW q \in LogRecs, q.kind \notin {"dispatch", "start"}, W!Write(<<q>>),
           q.kind \in Over => q.turn \notin w_left' /\ (w_running' => q.turn # w_turn'),
           (w_running /\ q.turn = w_turn) \/ q.turn \in w_left, w_turn' = w_turn, w_left' \subseteq w_left,
           w_running' \in BOOLEAN, w_running' => w_running, UNCHANGED <<w_flushed, w_flight, w_landed>>
    PROVE  WaitInv'
<1> USE DEF WaitInv
<1>1. UNCHANGED <<w_bind, w_pc, w_got, w_out>>
  BY DEF W!calls
<1>2. /\ WTurns' /\ Grown
      /\ w_log' \in Seq(LogRecs) /\ Len(w_log') = Len(w_log) + 1 /\ w_log'[Len(w_log) + 1] = q
  BY Added
<1>3. WTypes'
  BY <1>1, <1>2 DEF WTypes
<1>4. \A i \in DOMAIN w_log' : w_log'[i].kind = "dispatch" => i \in DOMAIN w_log /\ w_log'[i] = w_log[i]
  BY <1>2 DEF Grown
<1>5. WBooks'
  BY <1>1, <1>2, <1>4 DEF WBooks, WTypes
<1> QED BY <1>2, <1>3, <1>5, CallsStayRight

LEMMA DesktopKeeps ==
    ASSUME WaitInv, W!Desktop, UNCHANGED W!calls
    PROVE  WaitInv'
<1>1. CASE W!Answer
  <2> DEFINE q == W!Rec("final", w_turn, None)
  <2>1. q \in LogRecs /\ q.turn = w_turn /\ q.kind = "final" /\ q.kind \notin Over
    BY DEF W!Rec, LogRecs, WaitInv, WTypes, Over
  <2> HIDE DEF q
  <2>2. W!Write(<<q>>) /\ w_running /\ UNCHANGED <<w_flushed, w_turn, w_running, w_left, w_flight, w_landed>>
    BY <1>1 DEF W!Answer, q
  <2> QED BY <2>1, <2>2, RecordKeeps DEF WaitInv, WTypes
<1>2. CASE W!Finish
  <2>1. ASSUME NEW k \in {"done", "fail"}, w_running, w_running' = FALSE, w_left' = w_left,
               W!Write(<<W!Rec(k, w_turn, None)>>)
        PROVE  WaitInv'
    <3> DEFINE q == W!Rec(k, w_turn, None)
    <3>1. q \in LogRecs /\ q.turn = w_turn /\ q.kind \notin {"dispatch", "start"}
      BY <2>1 DEF W!Rec, LogRecs, WaitInv, WTypes
    <3> HIDE DEF q
    <3>2. W!Write(<<q>>) /\ w_turn \notin w_left'
      BY <2>1 DEF q, WaitInv, WTurns, WTypes
    <3> QED BY <1>2, <2>1, <3>1, <3>2, RecordKeeps DEF W!Finish
  <2>2. ASSUME NEW t \in w_left, w_left' = w_left \ {t}, w_running' = w_running,
               W!Write(<<W!Rec("done", t, None)>>)
        PROVE  WaitInv'
    <3> DEFINE q == W!Rec("done", t, None)
    <3>a. w_left \subseteq Nat /\ w_turn \in Nat /\ \A u \in w_left : u < w_turn
      BY DEF WaitInv, WTypes, WTurns
    <3>0. t \in Nat /\ t # w_turn
      <4> HIDE DEF q
      <4>1. t \in Nat /\ t < w_turn
        BY <2>2, <3>a
      <4> QED BY <4>1, <3>a
    <3>1. q \in LogRecs /\ q.turn = t /\ q.kind \notin {"dispatch", "start"} /\ t # w_turn
      BY <3>0 DEF W!Rec, LogRecs
    <3> HIDE DEF q
    <3>2. W!Write(<<q>>)
      BY <2>2 DEF q
    <3>3. w_turn' = w_turn /\ w_running' \in BOOLEAN /\ UNCHANGED <<w_flushed, w_flight, w_landed>>
      BY <1>2, <2>2 DEF W!Finish, WaitInv, WTypes
    <3> QED BY <2>2, <3>1, <3>2, <3>3, RecordKeeps
  <2> QED BY <1>2, <2>1, <2>2 DEF W!Finish
<1>3. CASE W!Flush
  <2> USE DEF WaitInv
  <2>1. /\ w_flushed < Len(w_log) /\ w_flushed' = Len(w_log)
        /\ UNCHANGED <<w_log, w_turn, w_running, w_left, w_flight, w_landed, w_bind, w_pc, w_got, w_out>>
    BY <1>3 DEF W!Flush, W!calls
  <2>2. WTypes' /\ WBooks' /\ WTurns'
    BY <2>1 DEF WTypes, WBooks, WTurns
  <2>3. Grown
    BY <2>1, Still DEF WTypes
  <2> QED BY <2>2, <2>3, CallsStayRight
<1> QED BY <1>1, <1>2, <1>3, HumanKeeps, LandKeeps DEF W!Desktop

\* What the other calls noted of the task stays.
Aside(d) ==
    /\ DOMAIN w_first' = Deliveries /\ DOMAIN w_at' = Deliveries /\ DOMAIN w_deferred' = Deliveries
    /\ \A e \in Deliveries \ {d} :
         w_first'[e] = w_first[e] /\ w_at'[e] = w_at[e] /\ w_deferred'[e] = w_deferred[e]

Reading(d) ==
    d \in Created =>
      /\ w_pc'[d] = "read" => w_first'[d] = W!Target(d)'
      /\ w_got'[d].is \in Answered => w_pc'[d] = "second" /\ w_first'[d] = w_got'[d].turn

\* A step of a call whose receipt is written: all it learns it has read before.
Late(d) ==
    /\ UNCHANGED <<w_log, w_turn, w_running, w_left, w_landed, w_bind>>
    /\ w_flushed' = w_flushed \/ (w_flushed < Len(w_log) /\ w_flushed' = Len(w_log))
    /\ w_flight' = w_flight \/ (w_pc[d] = "sending" /\ w_flight' = w_flight \cup {d})
    /\ w_pc[d] \notin {"new", "inspected", "end"} \/ (w_pc[d] = "end" /\ w_out[d].is \notin Answered)
    /\ \E l : w_pc' = [w_pc EXCEPT ![d] = l] /\ l \notin {"new", "inspected", "sending"}
    /\ w_got' = w_got \/ \E o : /\ w_got' = [w_got EXCEPT ![d] = o]
                                /\ (o.is \in Answered => Right(d, o) /\ (d \notin Created => Undisturbed(d, o)))
    /\ w_out' = w_out \/ \E o : /\ w_out' = [w_out EXCEPT ![d] = o] /\ w_pc'[d] = "end"
                                /\ (o.is \in Answered => o = w_got[d] /\ w_turn = w_first[d])
    /\ Aside(d) /\ Reading(d)

\* No other turn began after a prompt that landed in the latest one.
LEMMA LatestIsEarly ==
    ASSUME WTypes, WBooks, WTurns, NEW d \in Deliveries, NEW o, Right(d, o), o.turn = w_turn
    PROVE  Undisturbed(d, o)
<1>1. w_landed[d] \in DOMAIN w_log /\ Len(w_log) \in Nat /\ DOMAIN w_log = 1 .. Len(w_log)
  BY DEF Right, WBooks, WTypes
<1>2. ASSUME NEW i \in w_landed[d] .. Len(w_log), w_log[i].kind = "start", w_log[i].turn # w_turn
      PROVE  FALSE
  <2>1. i \in DOMAIN w_log /\ i # w_landed[d]
    BY <1>1, <1>2 DEF Right
  <2>2. w_turn < w_log[i].turn /\ w_log[i].turn <= w_turn /\ w_turn \in Nat /\ w_log[i].turn \in Nat
    BY <1>1, <1>2, <2>1, TurnsAreNat DEF Right, WTurns, WTypes
  <2> QED BY <2>2
<1> QED BY <1>2 DEF Undisturbed

LEMMA LateKeeps == ASSUME W!WaitAssumption, WaitInv, NEW d \in Deliveries, Late(d) PROVE WaitInv'
<1> USE DEF WaitInv
<1>1. /\ UNCHANGED <<w_log, w_turn, w_running, w_left, w_landed, w_bind>>
      /\ w_flushed \in Nat /\ w_flushed' \in Nat /\ w_flushed' <= Len(w_log) /\ w_flushed' >= w_flushed
      /\ Len(w_log) \in Nat /\ DOMAIN w_log = 1 .. Len(w_log)
  BY DEF Late, WTypes
<1>2. /\ w_pc[d] \notin {"new", "inspected"} /\ w_pc'[d] \notin {"new", "inspected", "sending"}
      /\ w_out[d].is \notin Answered
      /\ \A e \in Deliveries \ {d} : w_pc'[e] = w_pc[e] /\ w_out'[e] = w_out[e] /\ w_got'[e] = w_got[e]
      /\ DOMAIN w_pc' = Deliveries /\ DOMAIN w_got' = Deliveries /\ DOMAIN w_out' = Deliveries
  <2>1. w_out[d].is \notin Answered
    BY DEF Late, WReplies
  <2>2. /\ DOMAIN w_pc' = Deliveries /\ w_pc'[d] \notin {"new", "inspected", "sending"}
        /\ \A e \in Deliveries \ {d} : w_pc'[e] = w_pc[e]
    BY DEF Late, WTypes
  <2>3. DOMAIN w_got' = Deliveries /\ \A e \in Deliveries \ {d} : w_got'[e] = w_got[e]
    BY DEF Late, WTypes
  <2>4. DOMAIN w_out' = Deliveries /\ \A e \in Deliveries \ {d} : w_out'[e] = w_out[e]
    BY DEF Late, WTypes
  <2> QED BY <2>1, <2>2, <2>3, <2>4 DEF Late
<1>3. Grown
  BY <1>1, Still
<1>4. ASSUME NEW e \in Deliveries, NEW o, Right(e, o)
      PROVE  Right(e, o)' /\ (Undisturbed(e, o) => Undisturbed(e, o)')
  BY <1>3, <1>4, RightStays
<1>5. WTypes' /\ WTurns'
  BY <1>1, <1>2 DEF WTypes, WTurns, Late
<1>6. WBooks'
  <2>1. w_flight' = w_flight \/ (w_landed[d] = 0 /\ w_flight' = w_flight \cup {d})
    BY DEF Late, WBooks
  <2> QED BY <1>1, <1>2, <2>1 DEF WBooks
<1>7. ASSUME NEW e \in Deliveries, NEW o, o = w_got'[e], o.is \in Answered
      PROVE  Right(e, o)' /\ (e \notin Created => Undisturbed(e, o)')
  <2>1. w_got'[e] = w_got[e] \/ (\E u : /\ w_got' = [w_got EXCEPT ![d] = u]
                                        /\ (u.is \in Answered => Right(d, u) /\ (d \notin Created => Undisturbed(d, u))))
    BY DEF Late
  <2>2. Right(e, o) /\ (e \notin Created => Undisturbed(e, o))
    BY <1>2, <1>7, <2>1 DEF WReplies, WTypes
  <2> QED BY <1>4, <2>2
<1>8. ASSUME NEW e \in Deliveries, NEW o, o = w_out'[e], o.is \in Answered
      PROVE  Right(e, o)' /\ Undisturbed(e, o)' /\ w_pc'[e] = "end"
  <2>1. CASE e # d
    <3>1. o = w_out[e] /\ w_pc'[e] = w_pc[e]
      BY <1>2, <1>8, <2>1
    <3>2. Right(e, o) /\ Undisturbed(e, o) /\ w_pc[e] = "end"
      BY <1>8, <3>1 DEF WReplies
    <3> QED BY <1>4, <3>1, <3>2
  <2>2. CASE e = d
    <3>1. w_pc'[d] = "end" /\ o = w_got[d] /\ w_turn = w_first[d]
      BY <1>2, <1>8, <2>2 DEF Late, WTypes
    <3>2. Right(d, o) /\ (d \notin Created => Undisturbed(d, o)) /\ (d \in Created => o.turn = w_turn)
      BY <1>8, <3>1 DEF WReplies, WReading
    <3>3. Undisturbed(d, o)
      BY <3>2, LatestIsEarly
    <3> QED BY <1>4, <2>2, <3>1, <3>2, <3>3
  <2> QED BY <2>1, <2>2
<1>12. ASSUME NEW e \in Deliveries, w_got'[e].is \in Answered
       PROVE  Right(e, w_got[e])' /\ (e \notin Created => Undisturbed(e, w_got[e])')
  <2>1. PICK u : u = w_got'[e]
    OBVIOUS
  <2>2. Right(e, u)' /\ (e \notin Created => Undisturbed(e, u)')
    BY <1>7, <1>12, <2>1
  <2> QED BY <2>1, <2>2 DEF Right, Undisturbed
<1>13. ASSUME NEW e \in Deliveries, w_out'[e].is \in Answered
       PROVE  Right(e, w_out[e])' /\ Undisturbed(e, w_out[e])' /\ w_pc'[e] = "end"
  <2>1. PICK u : u = w_out'[e]
    OBVIOUS
  <2>2. Right(e, u)' /\ Undisturbed(e, u)' /\ w_pc'[e] = "end"
    BY <1>8, <1>13, <2>1
  <2> QED BY <2>1, <2>2 DEF Right, Undisturbed
<1>9. WReplies'
  BY <1>12, <1>13 DEF WReplies
<1>11. WReading'
  <2>1. Aside(d) /\ Reading(d)
    BY DEF Late
  <2>2. ASSUME NEW e \in Created, e # d, e \in Deliveries
        PROVE  /\ w_pc'[e] = "read" => w_first'[e] = W!Target(e)'
               /\ w_got'[e].is \in Answered => w_pc'[e] = "second" /\ w_first'[e] = w_got'[e].turn
    BY <1>2, <2>1, <2>2 DEF Aside, WReading, W!Target
  <2>3. \A e \in Created : w_bind'[e].mark = None
    BY <1>1 DEF WReading
  <2>4. \A e \in Created : e \in Deliveries
    BY DEF W!WaitAssumption
  <2>5. ASSUME NEW e \in Created
        PROVE  /\ w_pc'[e] = "read" => w_first'[e] = W!Target(e)'
               /\ w_got'[e].is \in Answered => w_pc'[e] = "second" /\ w_first'[e] = w_got'[e].turn
    <3>1. CASE e = d
      BY <2>1, <3>1 DEF Reading, W!Target
    <3>2. CASE e # d
      BY <2>2, <2>4, <3>2
    <3> QED BY <3>1, <3>2
  <2>6. DOMAIN w_first' = Deliveries /\ DOMAIN w_at' = Deliveries /\ DOMAIN w_deferred' = Deliveries
    BY <2>1 DEF Aside
  <2> QED BY <2>3, <2>5, <2>6 DEF WReading
<1>10. WTwins'
  <2> SUFFICES ASSUME NEW a \in Deliveries, NEW b \in Deliveries, a # b, {a, b} \subseteq Twins,
                      w_pc'[a] # "new", w_out'[a].is # "reply"
               PROVE  \/ w_pc'[b] = "new"
                      \/ /\ w_out'[b].is = "reply"
                         /\ w_pc'[a] # "inspected" /\ w_bind'[a].mark # None => w_landed'[b] <= w_bind'[a].mark
    BY DEF WTwins
  <2>1. CASE a = d
    <3>1. w_pc[d] # "new" /\ w_out[d].is # "reply" /\ w_pc[d] # "inspected"
      BY <1>2 DEF Answered
    <3> QED BY <1>1, <1>2, <2>1, <3>1 DEF WTwins
  <2>2. CASE b = d
    <3>1. w_pc[a] # "new" /\ w_out[a].is # "reply" /\ w_pc[d] # "new" /\ w_out[d].is # "reply"
      BY <1>2, <2>2 DEF Answered
    <3> QED BY <2>2, <3>1 DEF WTwins
  <2>3. CASE a # d /\ b # d
    BY <1>1, <1>2, <2>3 DEF WTwins
  <2> QED BY <2>1, <2>2, <2>3
<1> QED BY <1>5, <1>6, <1>9, <1>10, <1>11

\* An outcome that is no reply may be told at any time.
LEMMA ToldNothing ==
    ASSUME NEW d \in Deliveries, DOMAIN w_pc = Deliveries, w_pc' = [w_pc EXCEPT ![d] = "end"],
           NEW k \in {"attention", "withheld", "unmatched", "timeout"},
           w_out' = [w_out EXCEPT ![d] = W!Out(k, 0, None)]
    PROVE  \E o : /\ w_out' = [w_out EXCEPT ![d] = o] /\ w_pc'[d] = "end"
                  /\ (o.is \in Answered => o = w_got[d] /\ w_turn = w_first[d])
<1>1. W!Out(k, 0, None).is \notin Answered /\ w_pc'[d] = "end"
  BY DEF W!Out, Answered
<1> WITNESS W!Out(k, 0, None)
<1> QED BY <1>1

LEMMA StepIsLate ==
    ASSUME WaitInv, Created \cap Twins = {}, NEW d \in Deliveries, W!Send(d) \/ W!Step(d) \/ W!Timeout(d)
    PROVE  Late(d)
<1> USE DEF WaitInv, W!Go, W!Fresh
<1>0. /\ DOMAIN w_first = Deliveries /\ DOMAIN w_at = Deliveries /\ DOMAIN w_deferred = Deliveries
      /\ DOMAIN w_pc = Deliveries /\ DOMAIN w_got = Deliveries /\ DOMAIN w_out = Deliveries
      /\ d \in Created =>
           /\ w_bind[d].mark = None /\ (w_pc[d] = "read" => w_first[d] = W!Target(d))
           /\ w_got[d].is \in Answered => w_pc[d] = "second" /\ w_first[d] = w_got[d].turn
  BY DEF WReading, WTypes
<1>1. CASE W!Send(d)
  <2>1. /\ w_pc[d] = "sending" /\ w_flight' \in {w_flight, w_flight \cup {d}}
        /\ UNCHANGED <<w_log, w_flushed, w_turn, w_running, w_left, w_landed, w_bind, w_got, w_out,
                       w_first, w_at, w_deferred>>
        /\ w_pc' = [w_pc EXCEPT ![d] = IF d \in Waited THEN "poll" ELSE "gone"]
    BY <1>1 DEF W!Send
  <2>2. \E l : w_pc' = [w_pc EXCEPT ![d] = l] /\ l \notin {"new", "inspected", "sending"}
    <3> WITNESS IF d \in Waited THEN "poll" ELSE "gone"
    <3> QED BY <2>1
  <2>3. Aside(d) /\ Reading(d)
    BY <1>0, <2>1 DEF Aside, Reading
  <2> QED BY <2>1, <2>2, <2>3 DEF Late
<1>2. CASE W!Poll(d)
  <2>1. /\ w_pc[d] = "poll" /\ UNCHANGED <<w_log, w_flushed, w_turn, w_running, w_left, w_flight, w_landed, w_bind, w_got>>
        /\ UNCHANGED <<w_first, w_deferred>> /\ (\E v : w_at' = [w_at EXCEPT ![d] = v])
        /\ \/ w_out' = w_out
           \/ w_out' = [w_out EXCEPT ![d] = W!Out("attention", 0, None)] /\ w_pc' = [w_pc EXCEPT ![d] = "end"]
        /\ \E l : w_pc' = [w_pc EXCEPT ![d] = l] /\ l \in {"first", "end", "poll"}
    BY <1>2 DEF W!Poll, W!desktop
  <2>2. w_out' = [w_out EXCEPT ![d] = W!Out("attention", 0, None)] /\ w_pc' = [w_pc EXCEPT ![d] = "end"] =>
          \E o : w_out' = [w_out EXCEPT ![d] = o] /\ w_pc'[d] = "end" /\ (o.is \in Answered => o = w_got[d] /\ w_turn = w_first[d])
    BY <1>0, <2>1, ToldNothing
  <2>3. Aside(d) /\ Reading(d)
    BY <1>0, <2>1 DEF Aside, Reading
  <2> QED BY <2>1, <2>2, <2>3 DEF Late
<1>3. CASE W!First(d)
  <2>1. /\ w_pc[d] = "first" /\ UNCHANGED <<w_log, w_flushed, w_turn, w_running, w_left, w_flight, w_landed, w_bind>>
        /\ \/ /\ w_out' = w_out /\ w_got' = w_got /\ w_pc' = [w_pc EXCEPT ![d] = "read"]
              /\ w_first' = [w_first EXCEPT ![d] = w_turn] /\ UNCHANGED <<w_at, w_deferred>>
              /\ ~W!Matched(d) => w_turn = W!Target(d)
           \/ /\ w_at' = [w_at EXCEPT ![d] = W!NoPoll] /\ w_first' = [w_first EXCEPT ![d] = 0]
              /\ w_deferred' = [w_deferred EXCEPT ![d] = 0]
              /\ w_out' = [w_out EXCEPT ![d] = W!Out("withheld", 0, None)] /\ w_pc' = [w_pc EXCEPT ![d] = "end"]
              /\ w_got' = [w_got EXCEPT ![d] = W!Out("none", 0, None)]
    BY <1>3 DEF W!First, W!desktop, W!End, W!Clear
  <2>2. w_out' = [w_out EXCEPT ![d] = W!Out("withheld", 0, None)] /\ w_pc' = [w_pc EXCEPT ![d] = "end"] =>
          \E o : w_out' = [w_out EXCEPT ![d] = o] /\ w_pc'[d] = "end" /\ (o.is \in Answered => o = w_got[d] /\ w_turn = w_first[d])
    BY <1>0, <2>1, ToldNothing
  <2>3. W!Out("none", 0, None).is \notin Answered
    BY DEF W!Out, Answered
  <2>4. Aside(d)
    BY <1>0, <2>1 DEF Aside
  <2>5. Reading(d)
    BY <1>0, <2>1, <2>3 DEF Reading, W!Target, W!Matched
  <2> QED BY <2>1, <2>2, <2>3, <2>4, <2>5 DEF Late
<1>4. CASE W!Read(d)
  <2>1. /\ w_pc[d] = "read" /\ w_pc' = [w_pc EXCEPT ![d] = "second"]
        /\ UNCHANGED <<w_log, w_turn, w_running, w_left, w_flight, w_landed, w_bind, w_out, w_first, w_at, w_deferred>>
    BY <1>4 DEF W!Read
  <2>0. \E l : w_pc' = [w_pc EXCEPT ![d] = l] /\ l \notin {"new", "inspected", "sending"}
    <3> WITNESS "second"
    <3> QED BY <2>1
  <2>2. CASE /\ w_flushed' = w_flushed
             /\ w_got' = [w_got EXCEPT ![d] = IF W!Matched(d) THEN W!Resolve(d, W!File)
                                               ELSE W!ReadReleased(d, W!Target(d), W!File)]
    <3> DEFINE o == IF W!Matched(d) THEN W!Resolve(d, W!File) ELSE W!ReadReleased(d, W!Target(d), W!File)
    <3>1. o.is \in Answered => /\ Right(d, o) /\ (d \notin Created => Undisturbed(d, o))
                               /\ d \in Created => o.turn = w_first[d]
      BY <2>1, ReadIsRight
    <3>2. w_got' = [w_got EXCEPT ![d] = o]
      BY <2>2
    <3> HIDE DEF o
    <3>9. \E u : w_got' = [w_got EXCEPT ![d] = u] /\ (u.is \in Answered => Right(d, u) /\ (d \notin Created => Undisturbed(d, u)))
      <4> WITNESS o
      <4> QED BY <3>1, <3>2
    <3>3. w_got'[d] = o /\ w_pc'[d] = "second" /\ w_first'[d] = w_first[d]
      BY <1>0, <2>1, <3>2
    <3>10. Aside(d) /\ Reading(d)
      BY <1>0, <2>1, <3>1, <3>3 DEF Aside, Reading
    <3> QED BY <2>1, <2>2, <2>0, <3>9, <3>10 DEF Late
  <2>3. CASE w_flushed < Len(w_log) /\ w_flushed' = Len(w_log) /\ w_got' = [w_got EXCEPT ![d] = W!Out("later", 0, None)]
    <3>1. W!Out("later", 0, None).is \notin Answered
      BY DEF W!Out, Answered
    <3>9. \E u : w_got' = [w_got EXCEPT ![d] = u] /\ (u.is \in Answered => Right(d, u) /\ (d \notin Created => Undisturbed(d, u)))
      BY <2>3, <3>1
    <3>10. Aside(d) /\ Reading(d)
      BY <1>0, <2>1, <2>3, <3>1 DEF Aside, Reading
    <3> QED BY <2>1, <2>3, <2>0, <3>9, <3>10 DEF Late
  <2> QED BY <1>4, <2>2, <2>3 DEF W!Read
<1>5. CASE W!Second(d)
  <2>1. /\ w_pc[d] = "second" /\ UNCHANGED <<w_log, w_flushed, w_turn, w_running, w_left, w_flight, w_landed, w_bind>>
        /\ w_got' = [w_got EXCEPT ![d] = W!Out("none", 0, None)]
        /\ w_at' = [w_at EXCEPT ![d] = W!NoPoll] /\ w_first' = [w_first EXCEPT ![d] = 0]
    BY <1>5 DEF W!Second, W!desktop, W!Clear
  <2>2. \/ w_out' = w_out /\ \E l \in {"poll", "snapshot"} : w_pc' = [w_pc EXCEPT ![d] = l]
        \/ \E o : /\ w_out' = [w_out EXCEPT ![d] = o] /\ w_pc' = [w_pc EXCEPT ![d] = "end"]
                  /\ (o.is \in Answered => o = w_got[d] /\ w_turn = w_first[d])
    <3>1. CASE w_turn # w_first[d]
      <4>1. w_out' = [w_out EXCEPT ![d] = W!Out("withheld", 0, None)] /\ w_pc' = [w_pc EXCEPT ![d] = "end"]
        BY <1>5, <3>1 DEF W!Second, W!End
      <4> QED BY <1>0, <4>1, ToldNothing
    <3>2. CASE w_turn = w_first[d] /\ w_got[d].is = "later"
      BY <1>5, <3>2 DEF W!Second, W!Later
    <3>3. CASE w_turn = w_first[d] /\ w_got[d].is # "later" /\ w_got[d].is # "pending"
      BY <1>5, <3>3 DEF W!Second, W!End
    <3>4. CASE w_turn = w_first[d] /\ w_got[d].is = "pending" /\ w_at[d].asks
      BY <1>5, <3>4 DEF W!Second, W!End, W!Out, Answered
    <3>5. CASE w_turn = w_first[d] /\ w_got[d].is = "pending" /\ ~w_at[d].asks
      BY <1>5, <3>5 DEF W!Second, W!Pending
    <3> QED BY <3>1, <3>2, <3>3, <3>4, <3>5
  <2>3. W!Out("none", 0, None).is \notin Answered
    BY DEF W!Out, Answered
  <2>4. w_pc' = [w_pc EXCEPT ![d] = "end"] => w_pc'[d] = "end"
    BY DEF WTypes
  <2>5. w_deferred' = w_deferred \/ \E v : w_deferred' = [w_deferred EXCEPT ![d] = v]
    BY <1>5 DEF W!Second, W!Later, W!End, W!Pending
  <2>6. Aside(d) /\ Reading(d)
    BY <1>0, <2>1, <2>2, <2>3, <2>5 DEF Aside, Reading
  <2> QED BY <2>1, <2>2, <2>3, <2>4, <2>6 DEF Late
<1>6. CASE W!Snapshot(d)
  <2>1. /\ w_pc[d] = "snapshot"
        /\ UNCHANGED <<w_log, w_flushed, w_turn, w_running, w_left, w_flight, w_landed, w_bind, w_got>>
        /\ UNCHANGED <<w_first, w_at>> /\ (w_deferred' = w_deferred \/ w_deferred' = [w_deferred EXCEPT ![d] = 0])
        /\ \/ w_out' = w_out /\ w_pc' = [w_pc EXCEPT ![d] = "poll"]
           \/ w_out' = [w_out EXCEPT ![d] = W!Out("unmatched", 0, None)] /\ w_pc' = [w_pc EXCEPT ![d] = "end"]
    BY <1>6 DEF W!Snapshot, W!desktop, W!End
  <2>2. w_out' = [w_out EXCEPT ![d] = W!Out("unmatched", 0, None)] /\ w_pc' = [w_pc EXCEPT ![d] = "end"] =>
          \E o : w_out' = [w_out EXCEPT ![d] = o] /\ w_pc'[d] = "end" /\ (o.is \in Answered => o = w_got[d] /\ w_turn = w_first[d])
    BY <1>0, <2>1, ToldNothing
  <2>3. Aside(d) /\ Reading(d)
    BY <1>0, <2>1 DEF Aside, Reading
  <2> QED BY <2>1, <2>2, <2>3 DEF Late
<1>7. CASE W!Timeout(d)
  <2>1. /\ w_pc[d] \in {"poll", "first", "read", "second", "snapshot"}
        /\ UNCHANGED <<w_log, w_flushed, w_turn, w_running, w_left, w_flight, w_landed, w_bind>>
        /\ w_got' = [w_got EXCEPT ![d] = W!Out("none", 0, None)]
        /\ w_out' = [w_out EXCEPT ![d] = W!Out("timeout", 0, None)] /\ w_pc' = [w_pc EXCEPT ![d] = "end"]
        /\ w_at' = [w_at EXCEPT ![d] = W!NoPoll] /\ w_first' = [w_first EXCEPT ![d] = 0]
        /\ w_deferred' = [w_deferred EXCEPT ![d] = 0]
    BY <1>7 DEF W!Timeout, W!desktop, W!End, W!Clear
  <2>2. \E o : w_out' = [w_out EXCEPT ![d] = o] /\ w_pc'[d] = "end"
                 /\ (o.is \in Answered => o = w_got[d] /\ w_turn = w_first[d])
    <3>1. W!Out("timeout", 0, None).is \notin Answered /\ w_pc'[d] = "end"
      BY <2>1 DEF W!Out, Answered, WTypes
    <3> QED BY <2>1, <3>1
  <2>3. W!Out("none", 0, None).is \notin Answered
    BY DEF W!Out, Answered
  <2>4. \E o : w_got' = [w_got EXCEPT ![d] = o] /\ (o.is \in Answered => Right(d, o) /\ (d \notin Created => Undisturbed(d, o)))
    BY <2>1, <2>3
  <2>5. \E l : w_pc' = [w_pc EXCEPT ![d] = l] /\ l \notin {"new", "inspected", "sending"}
    <3> WITNESS "end"
    <3> QED BY <2>1
  <2>6. Aside(d) /\ Reading(d)
    BY <1>0, <2>1, <2>3 DEF Aside, Reading
  <2> QED BY <2>1, <2>2, <2>4, <2>5, <2>6 DEF Late
<1>8. CASE W!Again(d)
  <2>1. /\ w_pc[d] = "end" /\ w_out[d].is \notin Answered /\ w_pc' = [w_pc EXCEPT ![d] = "poll"]
        /\ UNCHANGED <<w_log, w_flushed, w_turn, w_running, w_left, w_flight, w_landed, w_bind, w_got, w_out,
                       w_first, w_at, w_deferred>>
    BY <1>8 DEF W!Again, W!desktop, Answered
  <2>2. \E l : w_pc' = [w_pc EXCEPT ![d] = l] /\ l \notin {"new", "inspected", "sending"}
    <3> WITNESS "poll"
    <3> QED BY <2>1
  <2>3. Aside(d) /\ Reading(d)
    BY <1>0, <2>1 DEF Aside, Reading
  <2> QED BY <2>1, <2>2, <2>3 DEF Late
<1> QED BY <1>1, <1>2, <1>3, <1>4, <1>5, <1>6, <1>7, <1>8 DEF W!Step

\* A call looks at the task only when those that look like it have not begun or have their
\* reply.
LEMMA InspectKeeps == ASSUME WaitInv, NEW d \in Deliveries, W!Inspect(d) PROVE WaitInv'
<1> USE DEF WaitInv
<1>1. /\ w_pc[d] = "new" /\ w_pc' = [w_pc EXCEPT ![d] = "inspected"]
      /\ \A e \in Deliveries \ {d} : W!Same(d, e) => w_pc[e] = "new" \/ w_out[e].is = "reply"
      /\ UNCHANGED <<w_log, w_flushed, w_turn, w_running, w_left, w_flight, w_landed, w_bind, w_got, w_out,
                     w_first, w_deferred>>
      /\ \E v : w_at' = [w_at EXCEPT ![d] = v]
  BY DEF W!Inspect, W!desktop, W!Go
<1>2. /\ w_pc'[d] = "inspected" /\ DOMAIN w_pc' = Deliveries
      /\ \A e \in Deliveries \ {d} : w_pc'[e] = w_pc[e]
  BY <1>1 DEF WTypes
<1>3. WTypes' /\ WTurns'
  BY <1>1, <1>2 DEF WTypes, WTurns
<1>4. WBooks'
  BY <1>1, <1>2 DEF WBooks
<1>5. WReplies'
  BY <1>1, <1>2, Still, AnswersStayRight DEF WReplies, Answered, WTypes
<1>6. WTwins'
  <2> SUFFICES ASSUME NEW a \in Deliveries, NEW b \in Deliveries, a # b, {a, b} \subseteq Twins,
                      w_pc'[a] # "new", w_out'[a].is # "reply"
               PROVE  \/ w_pc'[b] = "new"
                      \/ /\ w_out'[b].is = "reply"
                         /\ w_pc'[a] # "inspected" /\ w_bind'[a].mark # None => w_landed'[b] <= w_bind'[a].mark
    BY DEF WTwins
  <2>1. CASE a = d
    BY <1>1, <1>2, <2>1 DEF W!Same
  <2>2. CASE b = d
    BY <1>1, <1>2, <2>2 DEF W!Same
  <2>3. CASE a # d /\ b # d
    BY <1>1, <1>2, <2>3 DEF WTwins
  <2> QED BY <2>1, <2>2, <2>3
<1>7. WReading'
  BY <1>1, <1>2 DEF WReading, W!Target
<1> QED BY <1>3, <1>4, <1>5, <1>6, <1>7

\* The watermark lies after everything that was replied before.
LEMMA PrepareKeeps == ASSUME WaitInv, None \notin Nat, NEW d \in Deliveries, W!Prepare(d) PROVE WaitInv'
<1> USE DEF WaitInv
<1> DEFINE mark == IF d \in Blind \cup Created THEN None ELSE w_flushed
           prev == IF d \in Created THEN 0 ELSE w_at[d].turn
<1>1. /\ w_pc[d] = "inspected" /\ w_pc' = [w_pc EXCEPT ![d] = "sending"]
      /\ w_bind' = [w_bind EXCEPT ![d] = [mark |-> mark, prev |-> prev]]
      /\ UNCHANGED <<w_log, w_flushed, w_turn, w_running, w_left, w_flight, w_landed, w_got, w_out,
                     w_first, w_deferred>>
      /\ w_at' = [w_at EXCEPT ![d] = W!NoPoll]
  BY DEF W!Prepare, W!desktop, W!Go, W!Fresh, W!Watermark
<1>2. mark \in Nat \cup {None} /\ (mark # None => mark = w_flushed) /\ (d \in Created => mark = None)
  BY DEF WTypes
<1> HIDE DEF mark, prev
<1>3. /\ w_pc'[d] = "sending" /\ DOMAIN w_pc' = Deliveries
      /\ \A e \in Deliveries \ {d} : w_pc'[e] = w_pc[e] /\ w_bind'[e] = w_bind[e]
      /\ w_bind'[d].mark = mark /\ DOMAIN w_bind' = Deliveries
  BY <1>1 DEF WTypes
<1>4. WTypes' /\ WTurns'
  BY <1>1, <1>2, <1>3 DEF WTypes, WTurns
<1>5. WBooks'
  BY <1>1, <1>3 DEF WBooks
<1>6. WReplies'
  BY <1>1, <1>3, Still, AnswersStayRight DEF WReplies, Answered, WTypes
<1>7. WTwins'
  <2> SUFFICES ASSUME NEW a \in Deliveries, NEW b \in Deliveries, a # b, {a, b} \subseteq Twins,
                      w_pc'[a] # "new", w_out'[a].is # "reply"
               PROVE  \/ w_pc'[b] = "new"
                      \/ /\ w_out'[b].is = "reply"
                         /\ w_pc'[a] # "inspected" /\ w_bind'[a].mark # None => w_landed'[b] <= w_bind'[a].mark
    BY DEF WTwins
  <2>1. CASE a = d
    <3>1. w_out[d].is # "reply" /\ w_pc[d] # "new"
      BY <1>1, <2>1
    <3>2. w_pc[b] = "new" \/ w_out[b].is = "reply"
      BY <2>1, <3>1 DEF WTwins
    <3>3. w_out[b].is = "reply" => w_landed[b] <= w_flushed
      BY DEF WReplies, Right, Answered
    <3> QED BY <1>1, <1>2, <1>3, <2>1, <3>2, <3>3
  <2>2. CASE b = d
    <3>1. w_pc[d] # "new" /\ w_out[d].is # "reply" /\ w_pc[a] # "new" /\ w_out[a].is # "reply"
      BY <1>1, <1>3, <2>2 DEF WReplies, Answered
    <3> QED BY <2>2, <3>1 DEF WTwins
  <2>3. CASE a # d /\ b # d
    BY <1>1, <1>3, <2>3 DEF WTwins
  <2> QED BY <2>1, <2>2, <2>3
<1>8. WReading'
  BY <1>1, <1>2, <1>3 DEF WReading, W!Target
<1> QED BY <1>4, <1>5, <1>6, <1>7, <1>8

LEMMA WaitInit == ASSUME W!WaitAssumption, W!Init PROVE WaitInv
<1>1. w_log = <<[kind |-> "meta", turn |-> 0, of |-> None]>>
  BY DEF W!Init, W!Rec
<1>2. [kind |-> "meta", turn |-> 0, of |-> None] \in LogRecs
  BY DEF LogRecs
<1>3. w_log \in Seq(LogRecs) /\ Len(w_log) = 1 /\ DOMAIN w_log = {1} /\ w_log[1].kind = "meta" /\ w_log[1].turn = 0
  BY <1>1, <1>2
<1> HIDE DEF LogRecs
<1>4. WTypes
  <2>1. /\ w_flushed = 1 /\ w_turn = 0 /\ w_running = FALSE /\ w_left = {} /\ w_flight = {}
        /\ w_landed = [d \in Deliveries |-> 0] /\ w_bind = [d \in Deliveries |-> [mark |-> None, prev |-> 0]]
        /\ DOMAIN w_pc = Deliveries /\ DOMAIN w_got = Deliveries /\ DOMAIN w_out = Deliveries
    BY DEF W!Init
  <2>2. w_landed \in [Deliveries -> Nat] /\ DOMAIN w_bind = Deliveries
        /\ \A d \in Deliveries : w_bind[d].mark \in Nat \cup {None}
    BY <2>1
  <2>3. /\ w_log \in Seq(LogRecs) /\ w_flushed \in Nat /\ w_flushed <= Len(w_log) /\ w_turn \in Nat
        /\ w_running \in BOOLEAN
    <3>1. w_log \in Seq(LogRecs) /\ w_flushed \in Nat /\ w_turn \in Nat /\ w_running \in BOOLEAN
      BY <1>3, <2>1
    <3>2. w_flushed <= Len(w_log)
      BY <1>3, <2>1
    <3> QED BY <3>1, <3>2
  <2>4. w_left \subseteq Nat /\ w_flight \subseteq Deliveries
    BY <2>1
  <2> QED BY <2>1, <2>2, <2>3, <2>4 DEF WTypes
<1>5. WBooks /\ WTurns
  <2>1. \A i, j \in DOMAIN w_log : ~(i < j)
    BY <1>3
  <2> QED BY <1>3, <2>1 DEF W!Init, WBooks, WTurns, Over
<1>6. WReplies /\ WTwins
  BY DEF W!Init, WReplies, WTwins, W!Out, Answered
<1>7. WReading
  <2>1. /\ DOMAIN w_first = Deliveries /\ DOMAIN w_at = Deliveries /\ DOMAIN w_deferred = Deliveries
        /\ \A d \in Deliveries : /\ w_bind[d].mark = None /\ w_pc[d] = "new"
                                /\ w_got[d].is \notin Answered
    BY DEF W!Init, W!Out, Answered
  <2> QED BY <2>1 DEF WReading, W!WaitAssumption
<1> QED BY <1>4, <1>5, <1>6, <1>7 DEF WaitInv

LEMMA WaitKeeps == ASSUME W!WaitAssumption, WaitInv, [W!Next]_(W!vars) PROVE WaitInv'
<1>1. Created \cap Twins = {} /\ None \notin Nat
  BY DEF W!WaitAssumption
<1>2. CASE UNCHANGED W!vars
  <2> USE DEF WaitInv
  <2>1. UNCHANGED <<w_log, w_flushed, w_turn, w_running, w_left, w_flight, w_landed, w_bind, w_pc, w_got, w_out,
                    w_first, w_at, w_deferred>>
    BY <1>2 DEF W!vars, W!desktop, W!calls
  <2>2. WTypes' /\ WBooks' /\ WTurns' /\ WReading' /\ WTwins'
    BY <2>1 DEF WTypes, WBooks, WTurns, WReading, WTwins, W!Target
  <2> QED BY <2>1, <2>2, Still, AnswersStayRight DEF WTypes
<1>3. CASE W!Desktop /\ UNCHANGED W!calls
  BY <1>3, DesktopKeeps
<1>4. ASSUME NEW d \in Deliveries, W!Call(d) PROVE WaitInv'
  BY <1>1, <1>4, InspectKeeps, PrepareKeeps, StepIsLate, LateKeeps DEF W!Call
<1> QED BY <1>2, <1>3, <1>4 DEF W!Next

THEOREM WaitInvariance == W!WaitAssumption /\ W!Spec => []WaitInv
<1> SUFFICES ASSUME W!WaitAssumption PROVE W!Spec => []WaitInv
  OBVIOUS
<1>1. W!Init => WaitInv
  BY WaitInit
<1>2. WaitInv /\ [W!Next]_(W!vars) => WaitInv'
  BY WaitKeeps
<1> QED BY <1>1, <1>2, PTL DEF W!Spec

\* The reply a caller gets is the answer to its own prompt, whatever people and other
\* bridges do in the task (ReplyWait).
THEOREM RepliesAreOwn == W!WaitAssumption /\ W!Spec => [](W!OwnReply /\ W!NotShared)
<1>1. WaitInv => W!OwnReply /\ W!NotShared
  BY DEF WaitInv, WReplies, Right, Undisturbed, Answered, W!OwnReply, W!NotShared, W!Replied
<1> QED BY <1>1, WaitInvariance, PTL

-----------------------------------------------------------------------------
(* AppServerTurns: whose answer a call returns. *)

Kinds == {"resume", "read", "start", "started", "item", "completed", "failed", "closed", "ask"}
Asks == [call : Asking \cup {None}, kind : {"resume", "read", "start"}]

Posted ==
    [kind : Kinds, turn : Nat] \cup [kind : Kinds, turn : Nat, call : Asking \cup {None}]
        \cup [kind : Kinds, turn : Nat, call : Asking \cup {None}, open : BOOLEAN]

\* The server's turns: each has an owner and, until it ends, none but the last runs.
TurnServer ==
    /\ t_owner \in Seq(Asking \cup {None}) /\ t_ended \in Seq({"no", "completed", "failed"})
    /\ Len(t_ended) = Len(t_owner) /\ t_running \in 0..Len(t_owner)
    /\ t_running # 0 => t_ended[t_running] = "no"

\* What a message says of a turn is true, and stays true.
Says(m) ==
    /\ m.kind = "start" /\ m.turn # 0 => m.turn \in 1..Len(t_owner) /\ t_owner[m.turn] = m.call
    /\ m.kind \in {"completed", "failed"} => m.turn \in 1..Len(t_owner) /\ t_ended[m.turn] = m.kind

Heard(ms) == ms \in Seq(Posted) /\ \A i \in 1..Len(ms) : Says(ms[i])

TurnChannel ==
    /\ Heard(t_inbox) /\ Heard(t_buffered)
    /\ t_asked \in Seq(Asks)

Answer(c) ==
    t_res[c].is = "completed" =>
        /\ t_res[c].turn \in 1..Len(t_owner) /\ t_owner[t_res[c].turn] = c
        /\ t_ended[t_res[c].turn] = "completed" /\ t_res[c].from \subseteq {t_res[c].turn}

TurnClient ==
    /\ t_cur \in Asking \cup {None} /\ (t_cur = None <=> t_pc = "idle")
    /\ t_mine \in Nat
    /\ t_mine # 0 => t_pc = "waiting" /\ t_mine \in 1..Len(t_owner) /\ t_owner[t_mine] = t_cur
    /\ t_items \subseteq {t_mine} /\ (t_mine = 0 => t_items = {})
    /\ DOMAIN t_res = Asking /\ \A c \in Asking : Answer(c)

TurnInv == TurnServer /\ TurnChannel /\ TurnClient

\* A turn keeps its owner and, once it has ended, its end.
Older ==
    /\ TurnServer' /\ Len(t_owner) <= Len(t_owner')
    /\ \A t \in 1..Len(t_owner) : t_owner'[t] = t_owner[t]
    /\ \A t \in 1..Len(t_owner) : t_ended[t] # "no" => t_ended'[t] = t_ended[t]

LEMMA SayingStays == ASSUME TurnServer, Older, NEW m, Says(m) PROVE Says(m)'
<1>1. \A t \in 1..Len(t_owner) : t \in 1..Len(t_owner')
  BY DEF Older, TurnServer
<1>2. m.kind = "start" /\ m.turn # 0 => m.turn \in 1..Len(t_owner') /\ t_owner'[m.turn] = m.call
  BY <1>1 DEF Says, Older
<1>3. m.kind \in {"completed", "failed"} => m.turn \in 1..Len(t_owner') /\ t_ended'[m.turn] = m.kind
  <2> SUFFICES ASSUME m.kind \in {"completed", "failed"}
               PROVE m.turn \in 1..Len(t_owner') /\ t_ended'[m.turn] = m.kind
    OBVIOUS
  <2>1. m.turn \in 1..Len(t_owner) /\ t_ended[m.turn] = m.kind /\ m.kind # "no"
    BY DEF Says
  <2> QED BY <1>1, <2>1 DEF Older
<1> QED BY <1>2, <1>3 DEF Says

LEMMA HearingStays == ASSUME TurnServer, Older, NEW ms, Heard(ms) PROVE Heard(ms)'
<1>1. ASSUME NEW i \in 1..Len(ms) PROVE Says(ms[i])'
  <2> DEFINE m == ms[i]
  <2>1. Says(m)
    BY DEF Heard
  <2> HIDE DEF m
  <2>2. Says(m)'
    BY <2>1, SayingStays
  <2> QED BY <2>2 DEF m
<1> QED BY <1>1 DEF Heard

LEMMA Unchanging == ASSUME TurnServer, UNCHANGED <<t_running, t_owner, t_ended>> PROVE Older
BY DEF TurnServer, Older

\* The client's part when it does nothing.
LEMMA ClientStays ==
    ASSUME TurnServer, TurnClient, Older, UNCHANGED <<t_cur, t_pc, t_mine, t_items, t_res>>
    PROVE TurnClient'
<1>1. t_mine # 0 => t_mine \in 1..Len(t_owner') /\ t_owner'[t_mine] = t_cur
  BY DEF TurnClient, TurnServer, Older
<1>2. ASSUME NEW c \in Asking PROVE Answer(c)'
  <2>1. Answer(c)
    BY DEF TurnClient
  <2>2. CASE t_res[c].is # "completed"
    BY <2>2 DEF Answer
  <2>3. CASE t_res[c].is = "completed"
    <3>1. t_res[c].turn \in 1..Len(t_owner) /\ t_ended[t_res[c].turn] = "completed"
      BY <2>1, <2>3 DEF Answer
    <3>2. t_res[c].turn \in 1..Len(t_owner')
      BY <3>1 DEF Older, TurnServer
    <3> QED BY <2>1, <2>3, <3>1, <3>2 DEF Answer, Older
  <2> QED BY <2>2, <2>3
<1> QED BY <1>1, <1>2 DEF TurnClient

\* And when the call in it ends.
LEMMA FinishKeeps ==
    ASSUME TurnServer, TurnClient, Older, None \notin Asking, NEW r, T!Finish(r),
           t_cur \in Asking, r.is # "completed" \/
             /\ r.turn \in 1..Len(t_owner) /\ t_owner[r.turn] = t_cur
             /\ t_ended[r.turn] = "completed" /\ r.from \subseteq {r.turn}
    PROVE TurnClient' /\ t_buffered' = <<>>
<1>1. /\ t_cur' = None /\ t_pc' = "idle" /\ t_mine' = 0 /\ t_items' = {} /\ t_buffered' = <<>>
      /\ t_res' = [t_res EXCEPT ![t_cur] = r]
  BY DEF T!Finish
<1>2. DOMAIN t_res' = Asking
  BY <1>1 DEF TurnClient
<1>3. ASSUME NEW c \in Asking PROVE Answer(c)'
  <2>1. CASE c = t_cur
    <3>1. t_res'[c] = r
      BY <1>1, <2>1 DEF TurnClient
    <3>2. CASE r.is # "completed"
      BY <3>1, <3>2 DEF Answer
    <3>3. CASE r.is = "completed"
      <4>1. r.turn \in 1..Len(t_owner') /\ t_owner'[r.turn] = c /\ t_ended'[r.turn] = "completed"
        BY <2>1, <3>3 DEF Older, TurnServer
      <4> QED BY <3>1, <3>3, <4>1 DEF Answer
    <3> QED BY <3>2, <3>3
  <2>2. CASE c # t_cur
    <3>1. t_res'[c] = t_res[c] /\ Answer(c)
      BY <1>1, <2>2 DEF TurnClient
    <3>2. CASE t_res[c].is # "completed"
      BY <3>1, <3>2 DEF Answer
    <3>3. CASE t_res[c].is = "completed"
      <4>1. t_res[c].turn \in 1..Len(t_owner) /\ t_ended[t_res[c].turn] = "completed"
        BY <3>1, <3>3 DEF Answer
      <4>2. t_res[c].turn \in 1..Len(t_owner')
        BY <4>1 DEF Older, TurnServer
      <4> QED BY <3>1, <3>3, <4>1, <4>2 DEF Answer, Older
    <3> QED BY <3>2, <3>3
  <2> QED BY <2>1, <2>2
<1> QED BY <1>1, <1>2, <1>3 DEF TurnClient

LEMMA NothingHeard == Heard(<<>>)
BY DEF Heard

LEMMA OneMore ==
    ASSUME NEW ms, Heard(ms)', NEW m \in Posted, Says(m)' PROVE Heard(Append(ms, m))'
<1>1. Append(ms, m) \in Seq(Posted) /\ Len(Append(ms, m)) = Len(ms) + 1 /\ Len(ms) \in Nat
  BY DEF Heard
<1>2. ASSUME NEW i \in 1..Len(ms) + 1 PROVE Says(Append(ms, m)[i])'
  <2>1. CASE i = Len(ms) + 1
    <3>1. Append(ms, m)[i] = m
      BY <2>1 DEF Heard
    <3> QED BY <3>1
  <2>2. CASE i # Len(ms) + 1
    <3>1. i \in 1..Len(ms) /\ Append(ms, m)[i] = ms[i]
      BY <1>1, <2>2 DEF Heard
    <3> QED BY <3>1 DEF Heard
  <2> QED BY <2>1, <2>2
<1> QED BY <1>1, <1>2 DEF Heard

LEMMA OneLess ==
    ASSUME NEW ms, Heard(ms), ms # <<>>
    PROVE Head(ms) \in Posted /\ Says(Head(ms)) /\ Heard(Tail(ms))
<1>1. /\ Len(ms) \in Nat \ {0} /\ Head(ms) = ms[1] /\ Head(ms) \in Posted /\ Tail(ms) \in Seq(Posted)
      /\ Len(Tail(ms)) = Len(ms) - 1
  BY DEF Heard
<1>2. ASSUME NEW i \in 1..Len(ms) - 1 PROVE Says(Tail(ms)[i])
  <2>1. Tail(ms)[i] = ms[i + 1] /\ i + 1 \in 1..Len(ms)
    BY <1>1 DEF Heard
  <2> QED BY <2>1 DEF Heard
<1> QED BY <1>1, <1>2 DEF Heard

\* What is collected of turn t is t's, and its end is the one that was heard.
LEMMA CollectedIsOwn ==
    ASSUME NEW ms, Heard(ms), NEW t, NEW its, its \subseteq {t}
    PROVE /\ T!Collected(ms, t, its).items \subseteq {t}
          /\ T!Collected(ms, t, its).end \in {"none", "completed", "failed"}
          /\ T!Collected(ms, t, its).end = "completed" => t_ended[t] = "completed"
<1> DEFINE ends == T!Ends(ms, t)
           seen == {i \in DOMAIN ms : T!Counts(ms[i], t) /\ \A j \in ends : i < j}
           its2 == its \cup {ms[i].turn : i \in seen}
           last == IF ends = {} THEN "none"
                   ELSE IF \E i \in ends : ms[i].kind = "completed" /\ \A j \in ends : i <= j
                   THEN "completed" ELSE "failed"
<1>1. T!Collected(ms, t, its) = [items |-> its2, end |-> last]
  BY DEF T!Collected
<1>2. its2 \subseteq {t}
  BY DEF T!Counts
<1>3. last \in {"none", "completed", "failed"}
  OBVIOUS
<1>4. last = "completed" => t_ended[t] = "completed"
  <2> SUFFICES ASSUME last = "completed" PROVE t_ended[t] = "completed"
    OBVIOUS
  <2>1. PICK i \in ends : ms[i].kind = "completed"
    OBVIOUS
  <2>2. i \in 1..Len(ms) /\ ms[i].turn = t
    BY <2>1 DEF T!Ends, Heard
  <2> QED BY <2>1, <2>2 DEF Heard, Says
<1> HIDE DEF its2, last
<1> QED BY <1>1, <1>2, <1>3, <1>4

LEMMA SettleKeeps ==
    ASSUME TurnServer, TurnClient, Older, None \notin Asking, t_cur \in Asking,
           NEW ms, Heard(ms), NEW t \in 1..Len(t_owner), t_owner[t] = t_cur, t_items \subseteq {t},
           NEW s, s = T!Collected(ms, t, t_items), T!Settle(s, t)
    PROVE TurnClient' /\ t_buffered' = <<>>
<1>1. /\ s.items \subseteq {t} /\ s.end \in {"none", "completed", "failed"}
      /\ s.end = "completed" => t_ended[t] = "completed"
  BY CollectedIsOwn
<1>2. CASE s.end = "none"
  <2>1. /\ t_mine' = t /\ t_items' = s.items /\ t_buffered' = <<>> /\ t_pc' = "waiting"
        /\ UNCHANGED <<t_cur, t_res>>
    BY <1>2 DEF T!Settle
  <2>2. t \in 1..Len(t_owner') /\ t_owner'[t] = t_cur /\ t \in Nat /\ t # 0
    BY DEF Older, TurnServer
  <2>3. ASSUME NEW c \in Asking PROVE Answer(c)'
    <3>1. Answer(c)
      BY DEF TurnClient
    <3>2. CASE t_res[c].is # "completed"
      BY <2>1, <3>2 DEF Answer
    <3>3. CASE t_res[c].is = "completed"
      <4>1. t_res[c].turn \in 1..Len(t_owner) /\ t_ended[t_res[c].turn] = "completed"
        BY <3>1, <3>3 DEF Answer
      <4>2. t_res[c].turn \in 1..Len(t_owner')
        BY <4>1 DEF Older, TurnServer
      <4> QED BY <2>1, <3>1, <3>3, <4>1, <4>2 DEF Answer, Older
    <3> QED BY <3>2, <3>3
  <2> QED BY <1>1, <2>1, <2>2, <2>3 DEF TurnClient
<1>3. CASE s.end # "none"
  <2> DEFINE r == [is |-> s.end, turn |-> t, from |-> IF s.end = "completed" THEN s.items ELSE {}]
  <2>1. T!Finish(r)
    BY <1>3 DEF T!Settle
  <2>2. r.is # "completed" \/ /\ r.turn \in 1..Len(t_owner) /\ t_owner[r.turn] = t_cur
                              /\ t_ended[r.turn] = "completed" /\ r.from \subseteq {r.turn}
    BY <1>1
  <2> HIDE DEF r
  <2> QED BY <2>1, <2>2, FinishKeeps
<1> QED BY <1>2, <1>3

LEMMA TurnInit == ASSUME T!TurnsAssumption, T!Init PROVE TurnInv
<1>1. TurnServer
  BY DEF T!Init, TurnServer
<1>2. TurnChannel
  BY NothingHeard DEF T!Init, TurnChannel
<1>3. TurnClient
  BY DEF T!Init, T!TurnsAssumption, TurnClient, Answer
<1> QED BY <1>1, <1>2, <1>3 DEF TurnInv

\* Whatever happens to the connection: what is pending fails.
LEMMA DisconnectKeeps ==
    ASSUME TurnInv, None \notin Asking, UNCHANGED <<t_running, t_owner, t_ended>>,
           NEW p, T!Disconnect(p)
    PROVE TurnInv'
<1>1. TurnServer /\ TurnChannel /\ TurnClient /\ Older
  BY Unchanging DEF TurnInv
<1>2. t_inbox' = <<>> /\ t_asked' = <<>>
  BY DEF T!Disconnect
<1>3. TurnClient' /\ Heard(t_buffered)'
  <2>1. CASE t_pc \in T!Waiting /\ t_phase = "open"
    <3> DEFINE r == [is |-> "disconnected", turn |-> t_mine, from |-> {}]
    <3>1. T!Finish(r) /\ r.is # "completed" /\ t_cur \in Asking
      BY <1>1, <2>1 DEF T!Disconnect, T!Waiting, TurnClient
    <3> HIDE DEF r
    <3>2. TurnClient' /\ t_buffered' = <<>>
      BY <1>1, <3>1, FinishKeeps
    <3> QED BY <3>2, NothingHeard DEF Heard
  <2>2. CASE ~(t_pc \in T!Waiting /\ t_phase = "open")
    <3>1. T!Stay
      BY <2>2 DEF T!Disconnect
    <3>2. Heard(t_buffered)'
      BY <1>1, <3>1, HearingStays DEF T!Stay, TurnChannel, Heard
    <3> QED BY <1>1, <3>1, <3>2, ClientStays DEF T!Stay
  <2> QED BY <2>1, <2>2
<1>4. TurnChannel'
  BY <1>2, <1>3 DEF TurnChannel, Heard
<1> QED BY <1>1, <1>3, <1>4 DEF TurnInv, Older

\* Steps of the client that hear nothing.
LEMMA QuietKeeps ==
    ASSUME TurnInv, None \notin Asking, UNCHANGED <<t_running, t_owner, t_ended, t_inbox>>,
           t_asked' \in Seq(Asks),
           TurnClient', t_buffered' \in {t_buffered, <<>>}
    PROVE TurnInv'
<1>1. TurnServer /\ TurnChannel /\ Older
  BY Unchanging DEF TurnInv
<1>2. Heard(t_inbox)' /\ Heard(t_buffered)'
  <2>1. \A ms : Heard(ms) => Heard(ms)'
    BY <1>1, HearingStays
  <2>2. Heard(t_inbox) /\ Heard(t_buffered) /\ Heard(<<>>)
    BY <1>1, NothingHeard DEF TurnChannel
  <2> QED BY <2>1, <2>2 DEF Heard
<1> QED BY <1>1, <1>2 DEF TurnInv, TurnChannel, Older

LEMMA PcKeeps ==
    ASSUME TurnInv, None \notin Asking, UNCHANGED <<t_running, t_owner, t_ended, t_inbox>>,
           t_asked' = t_asked \/ T!Ask("resume") \/ T!Ask("read") \/ T!Ask("start"),
           t_pc \in {"connect", "attached", "resuming"}, t_pc' # "idle",
           UNCHANGED <<t_cur, t_mine, t_buffered, t_items, t_res>>
    PROVE TurnInv'
<1>1. TurnServer /\ TurnChannel /\ TurnClient /\ Older
  BY Unchanging DEF TurnInv
<1>2. t_cur \in Asking /\ t_mine = 0
  BY <1>1 DEF TurnClient
<1>3. t_asked' \in Seq(Asks)
  <2>1. ASSUME NEW k \in {"resume", "read", "start"} PROVE [call |-> t_cur, kind |-> k] \in Asks
    BY <1>2 DEF Asks
  <2>2. CASE t_asked' = t_asked
    BY <1>1, <2>2 DEF TurnChannel
  <2>3. ASSUME NEW k \in {"resume", "read", "start"}, T!Ask(k)
        PROVE t_asked' \in Seq(Asks)
    <3>1. t_asked' = Append(t_asked, [call |-> t_cur, kind |-> k])
      BY <2>3 DEF T!Ask
    <3>2. [call |-> t_cur, kind |-> k] \in Asks
      BY <2>1
    <3> HIDE DEF TurnChannel
    <3> QED BY <1>1, <3>1, <3>2 DEF TurnChannel
  <2> QED BY <2>2, <2>3
<1>4. TurnClient'
  <2>1. ASSUME NEW c \in Asking PROVE Answer(c)'
    BY <1>1 DEF TurnClient, Answer
  <2> QED BY <1>1, <1>2, <2>1 DEF TurnClient
<1> QED BY <1>3, <1>4, QuietKeeps

LEMMA FinishQuietly ==
    ASSUME TurnInv, None \notin Asking, UNCHANGED <<t_running, t_owner, t_ended, t_inbox, t_asked>>,
           t_pc # "idle", NEW r, T!Finish(r), r.is # "completed"
    PROVE TurnInv'
<1>1. TurnServer /\ TurnClient /\ Older /\ t_cur \in Asking
  BY Unchanging DEF TurnInv, TurnClient
<1>2. TurnClient' /\ t_buffered' = <<>>
  BY <1>1, FinishKeeps
<1> QED BY <1>2, QuietKeeps DEF TurnInv, TurnChannel

LEMMA StayQuietly ==
    ASSUME TurnInv, None \notin Asking,
           UNCHANGED <<t_running, t_owner, t_ended, t_inbox, t_asked>>, T!Stay
    PROVE TurnInv'
<1>1. TurnServer /\ TurnClient /\ Older
  BY Unchanging DEF TurnInv
<1>2. TurnClient'
  BY <1>1, ClientStays DEF T!Stay
<1> QED BY <1>2, QuietKeeps DEF TurnInv, TurnChannel, T!Stay

LEMMA ConnectionKeeps ==
    ASSUME TurnInv, None \notin Asking, T!Connect \/ T!Advance \/ T!Retry \/ T!Release PROVE TurnInv'
<1>1. CASE T!Connect \/ T!Advance \/ T!Release
  <2>1. UNCHANGED <<t_running, t_owner, t_ended, t_inbox, t_asked>> /\ T!Stay
    BY <1>1 DEF T!Connect, T!Advance, T!Release, T!server, T!Stay
  <2> QED BY <2>1, StayQuietly
<1>2. CASE T!Retry
  <2>1. UNCHANGED <<t_running, t_owner, t_ended, t_inbox, t_asked>>
    BY <1>2 DEF T!Retry, T!server
  <2>2. CASE T!Stay
    BY <2>1, <2>2, StayQuietly
  <2>3. CASE ~T!Stay
    <3> DEFINE r == [is |-> "failed", turn |-> 0, from |-> {}]
    <3>1. t_pc = "connect" /\ T!Finish(r) /\ r.is # "completed"
      BY <1>2, <2>3 DEF T!Retry
    <3> HIDE DEF r
    <3> QED BY <2>1, <3>1, FinishQuietly
  <2> QED BY <2>2, <2>3
<1> QED BY <1>1, <1>2

LEMMA TakeKeeps2 == ASSUME TurnInv, None \notin Asking, NEW c \in Asking, T!Take(c) PROVE TurnInv'
<1>1. /\ UNCHANGED <<t_running, t_owner, t_ended, t_inbox, t_asked, t_mine, t_buffered, t_items, t_res>>
      /\ t_cur = None /\ t_cur' = c /\ t_pc' = "connect"
  BY DEF T!Take, T!server
<1>2. TurnClient'
  <2>1. ASSUME NEW a \in Asking PROVE Answer(a)'
    BY <1>1 DEF TurnInv, TurnClient, Answer
  <2> QED BY <1>1, <2>1 DEF TurnInv, TurnClient
<1> QED BY <1>1, <1>2, QuietKeeps DEF TurnInv, TurnChannel

LEMMA CallKeeps2 ==
    ASSUME TurnInv, None \notin Asking, T!Attach \/ T!Start \/ T!Timeout PROVE TurnInv'
<1>1. UNCHANGED <<t_running, t_owner, t_ended, t_inbox>>
  BY DEF T!Attach, T!Start, T!Timeout, T!Quiet, T!server
<1>2. CASE T!Attach
  <2>1. /\ t_pc = "connect" /\ t_pc' # "idle" /\ UNCHANGED <<t_cur, t_mine, t_buffered, t_items, t_res>>
        /\ t_asked' = t_asked \/ T!Ask("resume") \/ T!Ask("read") \/ T!Ask("start")
    BY <1>2 DEF T!Attach
  <2> QED BY <1>1, <2>1, PcKeeps
<1>3. CASE T!Start
  <2>1. CASE t_phase # "open" \/ T!Refuses
    <3> DEFINE r == [is |-> IF T!Refuses THEN "busy" ELSE "failed", turn |-> 0, from |-> {}]
    <3>1. t_pc = "attached" /\ T!Finish(r) /\ r.is # "completed" /\ UNCHANGED t_asked
      BY <1>3, <2>1 DEF T!Start
    <3> HIDE DEF r
    <3> QED BY <1>1, <3>1, FinishQuietly
  <2>2. CASE ~(t_phase # "open" \/ T!Refuses)
    <3>1. /\ t_pc = "attached" /\ t_pc' # "idle" /\ UNCHANGED <<t_cur, t_mine, t_buffered, t_items, t_res>>
          /\ T!Ask("start")
      BY <1>3, <2>2 DEF T!Start
    <3> QED BY <1>1, <3>1, PcKeeps
  <2> QED BY <2>1, <2>2
<1>4. CASE T!Timeout
  <2> DEFINE r == [is |-> "timeout", turn |-> t_mine, from |-> {}]
  <2>1. t_pc # "idle" /\ T!Finish(r) /\ r.is # "completed" /\ UNCHANGED t_asked
    BY <1>4 DEF T!Timeout
  <2> HIDE DEF r
  <2> QED BY <1>1, <2>1, FinishQuietly
<1> QED BY <1>2, <1>3, <1>4

\* Messages are taken from the channel in turn.
LEMMA NextMessage ==
    ASSUME TurnInv, t_inbox # <<>>, t_inbox' = Tail(t_inbox),
           UNCHANGED <<t_running, t_owner, t_ended>>, NEW m, m = Head(t_inbox)
    PROVE /\ m \in Posted /\ Says(m) /\ Says(m)' /\ Older /\ TurnServer /\ TurnClient
          /\ Heard(t_inbox)' /\ \A ms : Heard(ms) => Heard(ms)'
<1>1. TurnServer /\ TurnClient /\ TurnChannel /\ Older
  BY Unchanging DEF TurnInv
<1>2. PICK rest : rest = Tail(t_inbox)
  OBVIOUS
<1>3. m \in Posted /\ Says(m) /\ Heard(rest)
  BY <1>1, <1>2, OneLess DEF TurnChannel
<1>4. \A ms : Heard(ms) => Heard(ms)'
  BY <1>1, HearingStays
<1>5. Says(m)'
  BY <1>1, <1>3, SayingStays
<1> QED BY <1>1, <1>2, <1>3, <1>4, <1>5 DEF Heard

LEMMA NoteKeeps == ASSUME TurnInv, None \notin Asking, T!Note PROVE TurnInv'
<1>1. /\ t_inbox # <<>> /\ t_inbox' = Tail(t_inbox)
      /\ UNCHANGED <<t_running, t_owner, t_ended, t_asked>>
  BY DEF T!Note, T!server
<1>2. PICK m : m = Head(t_inbox)
  OBVIOUS
<1>3. /\ m \in Posted /\ Says(m) /\ Says(m)' /\ Older /\ TurnServer /\ TurnClient
      /\ Heard(t_inbox)' /\ \A ms : Heard(ms) => Heard(ms)'
  BY <1>1, <1>2, NextMessage
<1>4. TurnClient' /\ Heard(t_buffered)'
  <2>1. CASE t_pc \notin {"starting", "waiting"}
    <3>1. T!Stay
      BY <2>1 DEF T!Note
    <3>2. TurnClient'
      BY <1>3, <3>1, ClientStays DEF T!Stay
    <3> QED BY <1>3, <3>1, <3>2 DEF T!Stay, TurnInv, TurnChannel, Heard
  <2>2. CASE t_pc \in {"starting", "waiting"} /\ m.kind = "closed"
    <3> DEFINE r == [is |-> "disconnected", turn |-> t_mine, from |-> {}]
    <3>1. T!Finish(r) /\ r.is # "completed" /\ t_cur \in Asking
      BY <1>2, <1>3, <2>2 DEF T!Note, TurnClient
    <3> HIDE DEF r
    <3>2. TurnClient' /\ t_buffered' = <<>>
      BY <1>3, <3>1, FinishKeeps
    <3> QED BY <3>2, NothingHeard DEF Heard
  <2>3. CASE t_pc \in {"starting", "waiting"} /\ m.kind # "closed" /\ t_mine = 0
    <3>1. t_buffered' = Append(t_buffered, m) /\ UNCHANGED <<t_cur, t_pc, t_mine, t_items, t_res>>
      BY <1>2, <2>3 DEF T!Note
    <3>2. TurnClient'
      BY <1>3, <3>1, ClientStays
    <3>3. PICK ms : ms = t_buffered
      OBVIOUS
    <3>4. Heard(ms)'
      BY <1>3, <3>3 DEF TurnInv, TurnChannel
    <3>5. Heard(Append(ms, m))'
      BY <1>3, <3>4, OneMore
    <3> QED BY <3>1, <3>2, <3>3, <3>5 DEF Heard
  <2>4. CASE t_pc \in {"starting", "waiting"} /\ m.kind # "closed" /\ t_mine # 0
    <3>1. PICK s, t : /\ s = T!Collected(<<m>>, t, t_items) /\ t = t_mine
      OBVIOUS
    <3>2. T!Settle(s, t)
      BY <1>2, <2>4, <3>1 DEF T!Note
    <3>3. t \in 1..Len(t_owner) /\ t_owner[t] = t_cur /\ t_items \subseteq {t} /\ t_cur \in Asking
      BY <1>3, <2>4, <3>1 DEF TurnClient
    <3>4. Heard(<<m>>)
      <4>1. <<m>> \in Seq(Posted) /\ Len(<<m>>) = 1 /\ <<m>>[1] = m
        BY <1>3
      <4> QED BY <1>3, <4>1 DEF Heard
    <3>5. TurnClient' /\ t_buffered' = <<>>
      <4>1. PICK ms : ms = <<m>>
        OBVIOUS
      <4> QED BY <1>3, <3>1, <3>2, <3>3, <3>4, <4>1, SettleKeeps
    <3> QED BY <3>5, NothingHeard DEF Heard
  <2> QED BY <2>1, <2>2, <2>3, <2>4
<1> QED BY <1>1, <1>3, <1>4 DEF TurnInv, TurnChannel, Older

LEMMA ReplyKeeps == ASSUME TurnInv, None \notin Asking, T!Reply PROVE TurnInv'
<1>1. /\ t_inbox # <<>> /\ t_inbox' = Tail(t_inbox) /\ Head(t_inbox).kind \in {"resume", "read", "start"}
      /\ UNCHANGED <<t_running, t_owner, t_ended>>
  BY DEF T!Reply, T!server
<1>2. PICK m : m = Head(t_inbox)
  OBVIOUS
<1>3. /\ m \in Posted /\ Says(m) /\ Says(m)' /\ Older /\ TurnServer /\ TurnClient
      /\ Heard(t_inbox)' /\ \A ms : Heard(ms) => Heard(ms)'
  BY <1>1, <1>2, NextMessage
<1>4. T!Stay => TurnClient' /\ Heard(t_buffered)'
  <2> SUFFICES ASSUME T!Stay PROVE TurnClient' /\ Heard(t_buffered)'
    OBVIOUS
  <2>1. TurnClient'
    BY <1>3, ClientStays DEF T!Stay
  <2> QED BY <1>3, <2>1 DEF T!Stay, TurnInv, TurnChannel, Heard
<1>5. \A r : T!Finish(r) /\ r.is # "completed" /\ t_cur \in Asking => TurnClient' /\ Heard(t_buffered)'
  <2> SUFFICES ASSUME NEW r, T!Finish(r), r.is # "completed", t_cur \in Asking
               PROVE TurnClient' /\ Heard(t_buffered)'
    OBVIOUS
  <2>1. TurnClient' /\ t_buffered' = <<>>
    BY <1>3, FinishKeeps
  <2> QED BY <2>1, NothingHeard DEF Heard
<1> DEFINE Asked == t_asked' \in Seq(Asks)
<1>6. UNCHANGED t_asked => Asked
  BY DEF TurnInv, TurnChannel
<1>7. TurnClient' /\ Heard(t_buffered)' /\ Asked
  <2>1. CASE T!Late(m)
    BY <1>2, <1>4, <1>6, <2>1 DEF T!Reply
  <2> SUFFICES ASSUME ~T!Late(m) PROVE TurnClient' /\ Heard(t_buffered)' /\ Asked
    BY <2>1
  <2>2. /\ m.call = t_cur /\ m.kind \in {"resume", "read", "start"} /\ t_cur \in Asking
        /\ t_pc = CASE m.kind = "resume" -> "resuming" [] m.kind = "read" -> "reading" [] OTHER -> "starting"
    BY <1>1, <1>2, <1>3 DEF T!Late, TurnClient
  <2>3. CASE m.kind = "start" /\ m.turn = 0
    <3> DEFINE r == [is |-> "failed", turn |-> 0, from |-> {}]
    <3>1. T!Finish(r) /\ r.is # "completed" /\ UNCHANGED t_asked
      BY <1>2, <2>3 DEF T!Reply
    <3> HIDE DEF r
    <3> QED BY <1>5, <1>6, <2>2, <3>1
  <2>4. CASE m.kind = "start" /\ m.turn # 0
    <3>1. PICK s, t : s = T!Collected(t_buffered, t, t_items) /\ t = m.turn
      OBVIOUS
    <3>2. T!Settle(s, t) /\ UNCHANGED t_asked
      BY <1>2, <2>4, <3>1 DEF T!Reply
    <3>3. t \in 1..Len(t_owner) /\ t_owner[t] = t_cur
      BY <1>3, <2>2, <2>4, <3>1 DEF Says
    <3>4. t_items \subseteq {t}
      BY <1>3, <2>2, <2>4 DEF TurnClient
    <3>5. PICK ms : ms = t_buffered
      OBVIOUS
    <3>6. Heard(ms)
      BY <3>5 DEF TurnInv, TurnChannel
    <3>7. TurnClient' /\ t_buffered' = <<>>
      BY <1>3, <2>2, <3>1, <3>2, <3>3, <3>4, <3>5, <3>6, SettleKeeps
    <3> QED BY <1>6, <3>2, <3>7, NothingHeard DEF Heard
  <2>5. CASE m.kind # "start"
    <3>1. T!Reconcile(m)
      BY <1>2, <2>5 DEF T!Reply
    <3>2. t_mine = 0 /\ t_items = {} /\ t_pc # "idle"
      BY <1>3, <2>2, <2>5 DEF TurnClient
    <3>3. CASE ~m.open \/ m.kind = "resume"
      <4>1. /\ UNCHANGED <<t_cur, t_mine, t_buffered, t_items, t_res>> /\ t_pc' \in {"attached", "reading"}
            /\ t_asked' = t_asked \/ T!Ask("read")
        BY <3>1, <3>3 DEF T!Reconcile
      <4>2. TurnClient'
        <5>1. ASSUME NEW c \in Asking PROVE Answer(c)'
          BY <1>1, <1>3, <4>1 DEF TurnClient, Answer
        <5> QED BY <1>3, <2>2, <3>2, <4>1, <5>1 DEF TurnClient
      <4>3. Heard(t_buffered)'
        BY <1>3, <4>1 DEF TurnInv, TurnChannel, Heard
      <4>4. Asked
        <5>1. CASE T!Ask("read")
          <6>1. t_asked' = Append(t_asked, [call |-> t_cur, kind |-> "read"])
            BY <5>1 DEF T!Ask
          <6>2. [call |-> t_cur, kind |-> "read"] \in Asks
            BY <2>2 DEF Asks
          <6> QED BY <6>1, <6>2 DEF TurnInv, TurnChannel
        <5> QED BY <1>6, <4>1, <5>1
      <4> QED BY <4>2, <4>3, <4>4
    <3>4. CASE ~(~m.open \/ m.kind = "resume")
      <4> DEFINE r == [is |-> "failed", turn |-> 0, from |-> {}]
      <4>1. T!Finish(r) /\ r.is # "completed" /\ UNCHANGED t_asked
        BY <3>1, <3>4 DEF T!Reconcile
      <4> HIDE DEF r
      <4> QED BY <1>5, <1>6, <2>2, <4>1
    <3> QED BY <3>3, <3>4
  <2> QED BY <2>3, <2>4, <2>5
<1> QED BY <1>1, <1>3, <1>7 DEF TurnInv, TurnChannel, Older

LEMMA ServeKeeps == ASSUME TurnInv, None \notin Asking, T!Serve PROVE TurnInv'
<1>1. /\ t_inbox # <<>> /\ t_inbox' = Tail(t_inbox)
      /\ UNCHANGED <<t_running, t_owner, t_ended, t_asked, t_cur, t_pc, t_mine, t_buffered, t_items, t_res>>
  BY DEF T!Serve, T!client
<1>2. PICK m : m = Head(t_inbox)
  OBVIOUS
<1>3. Older /\ TurnServer /\ TurnClient /\ Heard(t_inbox)' /\ \A ms : Heard(ms) => Heard(ms)'
  BY <1>1, <1>2, NextMessage
<1>4. TurnClient'
  BY <1>1, <1>3, ClientStays
<1> QED BY <1>1, <1>3, <1>4 DEF TurnInv, TurnChannel, Older, Heard

-----------------------------------------------------------------------------
(* The server's steps. *)

\* What is posted is true when it is.
LEMMA PostKeeps ==
    ASSUME TurnInv, Older, UNCHANGED <<t_cur, t_pc, t_mine, t_buffered, t_items, t_res>>,
           t_asked' \in Seq(Asks), NEW m \in Posted, Says(m)',
           t_inbox' = t_inbox \/ t_inbox' = Append(t_inbox, m)
    PROVE TurnInv'
<1>1. TurnServer /\ TurnChannel /\ TurnClient
  BY DEF TurnInv
<1>2. \A ms : Heard(ms) => Heard(ms)'
  BY <1>1, HearingStays
<1>3. Heard(t_buffered)'
  BY <1>1, <1>2 DEF TurnChannel, Heard
<1>4. Heard(t_inbox)'
  <2>1. PICK ms : ms = t_inbox
    OBVIOUS
  <2>2. Heard(ms)'
    BY <1>1, <1>2, <2>1 DEF TurnChannel
  <2>3. Heard(Append(ms, m))'
    BY <2>2, OneMore
  <2> QED BY <2>1, <2>2, <2>3 DEF Heard
<1>5. TurnClient'
  BY <1>1, ClientStays
<1> QED BY <1>3, <1>4, <1>5 DEF TurnInv, TurnChannel, Older

LEMMA SameTurns ==
    ASSUME TurnInv, UNCHANGED <<t_running, t_owner, t_ended>>,
           UNCHANGED <<t_cur, t_pc, t_mine, t_buffered, t_items, t_res>>, t_asked' = t_asked,
           NEW m \in [kind : {"item", "ask", "closed"}, turn : Nat],
           t_inbox' = t_inbox \/ t_inbox' = Append(t_inbox, m)
    PROVE TurnInv'
<1>1. Older
  BY Unchanging DEF TurnInv
<1>2. m \in Posted /\ Says(m)'
  BY DEF Posted, Kinds, Says
<1> QED BY <1>1, <1>2, PostKeeps DEF TurnInv, TurnChannel

LEMMA NotesKept ==
    ASSUME TurnInv, T!Item \/ T!Request \/ T!Unload PROVE TurnInv'
<1>1. UNCHANGED <<t_running, t_owner, t_ended, t_cur, t_pc, t_mine, t_buffered, t_items, t_res, t_asked>>
  BY DEF T!Item, T!Request, T!Unload, T!Asleep, T!client, T!server
<1>2. t_running \in Nat
  BY DEF TurnInv, TurnServer
<1>3. PICK m \in [kind : {"item", "ask", "closed"}, turn : Nat] :
         t_inbox' = t_inbox \/ t_inbox' = Append(t_inbox, m)
  <2>1. CASE T!Item
    BY <1>2, <2>1 DEF T!Item, T!Post, T!Msg
  <2>2. CASE T!Request
    BY <1>2, <2>2 DEF T!Request, T!Post, T!Msg
  <2>3. CASE T!Unload
    BY <2>3 DEF T!Unload, T!Post, T!Msg
  <2> QED BY <2>1, <2>2, <2>3
<1> QED BY <1>1, <1>3, SameTurns

LEMMA CompleteKeeps == ASSUME TurnInv, T!Complete PROVE TurnInv'
<1>1. UNCHANGED <<t_cur, t_pc, t_mine, t_buffered, t_items, t_res, t_asked, t_owner>>
  BY DEF T!Complete, T!Asleep, T!client
<1>2. PICK s \in {"completed", "failed"} :
        /\ t_ended' = [t_ended EXCEPT ![t_running] = s]
        /\ t_inbox' = t_inbox \/ t_inbox' = Append(t_inbox, [kind |-> s, turn |-> t_running])
  BY DEF T!Complete, T!Post, T!Msg
<1>3. t_running \in 1..Len(t_owner) /\ t_ended[t_running] = "no" /\ t_running' = 0
  BY DEF TurnInv, TurnServer, T!Complete
<1>4. /\ t_ended' \in Seq({"no", "completed", "failed"}) /\ Len(t_ended') = Len(t_ended)
      /\ \A t \in 1..Len(t_ended) : t_ended'[t] = IF t = t_running THEN s ELSE t_ended[t]
  BY <1>2, <1>3 DEF TurnInv, TurnServer
<1>5. Older
  BY <1>1, <1>3, <1>4 DEF Older, TurnInv, TurnServer
<1>6. [kind |-> s, turn |-> t_running] \in Posted
  BY <1>3 DEF Posted, Kinds, TurnInv, TurnServer
<1>7. PICK m \in Posted : m = [kind |-> s, turn |-> t_running]
  BY <1>6
<1>8. Says(m)'
  BY <1>1, <1>3, <1>4, <1>7 DEF Says, TurnInv, TurnServer
<1> QED BY <1>1, <1>2, <1>5, <1>7, <1>8, PostKeeps DEF TurnInv, TurnChannel

\* A turn begins.
LEMMA AnotherTurn ==
    ASSUME TurnServer, NEW c \in Asking \cup {None}, t_owner' = Append(t_owner, c),
           t_ended' = Append(t_ended, "no"), t_running' = Len(t_owner) + 1
    PROVE Older /\ Len(t_owner') = Len(t_owner) + 1 /\ t_owner'[Len(t_owner) + 1] = c
<1>1. /\ t_owner' \in Seq(Asking \cup {None}) /\ Len(t_owner') = Len(t_owner) + 1
      /\ t_owner'[Len(t_owner) + 1] = c /\ \A t \in 1..Len(t_owner) : t_owner'[t] = t_owner[t]
  BY DEF TurnServer
<1>2. /\ t_ended' \in Seq({"no", "completed", "failed"}) /\ Len(t_ended') = Len(t_ended) + 1
      /\ t_ended'[Len(t_ended) + 1] = "no" /\ \A t \in 1..Len(t_ended) : t_ended'[t] = t_ended[t]
  BY DEF TurnServer
<1> QED BY <1>1, <1>2 DEF Older, TurnServer

LEMMA ForeignKeeps == ASSUME TurnInv, None \notin Asking, T!Foreign PROVE TurnInv'
<1>1. UNCHANGED <<t_cur, t_pc, t_mine, t_buffered, t_items, t_res, t_asked>>
  BY DEF T!Foreign, T!Asleep, T!client
<1>2. Older
  BY AnotherTurn DEF TurnInv, T!Foreign
<1>3. PICK m : m = [kind |-> "started", turn |-> Len(t_owner) + 1]
  OBVIOUS
<1>4. m \in Posted /\ Says(m)' /\ (t_inbox' = t_inbox \/ t_inbox' = Append(t_inbox, m))
  BY <1>3 DEF Posted, Kinds, Says, T!Foreign, T!Post, T!Msg, TurnInv, TurnServer
<1> QED BY <1>1, <1>2, <1>4, PostKeeps DEF TurnInv, TurnChannel

LEMMA HandleKeeps == ASSUME TurnInv, None \notin Asking, T!Handle PROVE TurnInv'
<1>1. /\ UNCHANGED <<t_cur, t_pc, t_mine, t_buffered, t_items, t_res>>
      /\ t_asked # <<>> /\ t_asked' = Tail(t_asked)
  BY DEF T!Handle, T!Asleep, T!client
<1>2. PICK r : r = Head(t_asked)
  OBVIOUS
<1>3. r \in Asks /\ t_asked' \in Seq(Asks)
  BY <1>1, <1>2 DEF TurnInv, TurnChannel
<1>4. CASE r.kind # "start"
  <2>1. UNCHANGED <<t_running, t_owner, t_ended>>
    BY <1>2, <1>4 DEF T!Handle
  <2>2. PICK open \in BOOLEAN :
          t_inbox' = Append(t_inbox, [kind |-> r.kind, turn |-> t_running, call |-> r.call, open |-> open])
    BY <1>2, <1>4 DEF T!Handle
  <2>3. PICK m : m = [kind |-> r.kind, turn |-> t_running, call |-> r.call, open |-> open]
    OBVIOUS
  <2>4. m \in Posted /\ Says(m)'
    BY <1>3, <1>4, <2>3 DEF Asks, Posted, Kinds, Says, TurnInv, TurnServer
  <2>5. Older
    BY <2>1, Unchanging DEF TurnInv
  <2> QED BY <1>1, <1>3, <2>2, <2>3, <2>4, <2>5, PostKeeps
<1>5. CASE r.kind = "start" /\ (t_running # 0 \/ ~t_loaded \/ Len(t_owner) = ServerTurns)
  <2>1. PICK m : m = [kind |-> "start", turn |-> 0, call |-> r.call]
    OBVIOUS
  <2>2. UNCHANGED <<t_running, t_owner, t_ended>> /\ t_inbox' = Append(t_inbox, m)
    BY <1>2, <1>5, <2>1 DEF T!Handle
  <2>3. m \in Posted /\ Says(m)'
    BY <1>3, <2>1 DEF Asks, Posted, Kinds, Says
  <2>4. Older
    BY <2>2, Unchanging DEF TurnInv
  <2> QED BY <1>1, <1>3, <2>2, <2>3, <2>4, PostKeeps
<1>6. CASE r.kind = "start" /\ ~(t_running # 0 \/ ~t_loaded \/ Len(t_owner) = ServerTurns)
  <2>1. PICK a : a = [kind |-> "start", turn |-> Len(t_owner) + 1, call |-> r.call]
    OBVIOUS
  <2>2. PICK n : n = [kind |-> "started", turn |-> Len(t_owner) + 1]
    OBVIOUS
  <2>3. /\ t_running' = Len(t_owner) + 1 /\ t_owner' = Append(t_owner, r.call)
        /\ t_ended' = Append(t_ended, "no")
        /\ \/ t_inbox' = t_inbox \o <<a, n>>
           \/ t_inbox' = t_inbox \o <<n, a>>
           \/ t_inbox' = Append(t_inbox, a)
    BY <1>2, <1>6, <2>1, <2>2 DEF T!Handle, T!Msg
  <2>4. Older /\ Len(t_owner') = Len(t_owner) + 1 /\ t_owner'[Len(t_owner) + 1] = r.call
    BY <1>3, <2>3, AnotherTurn DEF Asks, TurnInv
  <2>5. a \in Posted /\ n \in Posted
    BY <1>3, <2>1, <2>2 DEF Asks, Posted, Kinds, TurnInv, TurnServer
  <2>6. Says(a)' /\ Says(n)'
    BY <2>1, <2>2, <2>4 DEF Says, TurnInv, TurnServer
  <2>7. PICK ms : ms = t_inbox
    OBVIOUS
  <2>8. Heard(ms)' /\ Heard(t_buffered)'
    <3>1. \A b : Heard(b) => Heard(b)'
      BY <2>4, HearingStays DEF TurnInv
    <3> QED BY <1>1, <2>7, <3>1 DEF TurnInv, TurnChannel, Heard
  <2>9. Heard(Append(ms, a))' /\ Heard(Append(ms, n))'
    BY <2>5, <2>6, <2>8, OneMore
  <2>10. Heard(Append(Append(ms, a), n))' /\ Heard(Append(Append(ms, n), a))'
    <3>1. PICK x, y : x = Append(ms, a) /\ y = Append(ms, n)
      OBVIOUS
    <3>2. Heard(x)' /\ Heard(y)'
      BY <2>9, <3>1
    <3>3. Heard(Append(x, n))' /\ Heard(Append(y, a))'
      BY <2>5, <2>6, <3>2, OneMore
    <3> QED BY <3>1, <3>3
  <2>11. ms \o <<a, n>> = Append(Append(ms, a), n) /\ ms \o <<n, a>> = Append(Append(ms, n), a)
    <3>1. ms \in Seq(Posted)
      BY <2>8 DEF Heard
    <3> QED BY <2>5, <3>1
  <2>12. Heard(t_inbox)'
    BY <2>3, <2>7, <2>9, <2>10, <2>11 DEF Heard
  <2>13. TurnClient'
    BY <1>1, <2>4, ClientStays DEF TurnInv
  <2> QED BY <1>3, <2>4, <2>8, <2>12, <2>13 DEF TurnInv, TurnChannel, Older
<1> QED BY <1>4, <1>5, <1>6

LEMMA OvertakeKeeps == ASSUME TurnInv, T!Overtake PROVE TurnInv'
<1>1. UNCHANGED <<t_running, t_owner, t_ended, t_cur, t_pc, t_mine, t_buffered, t_items, t_res, t_asked>>
  BY DEF T!Overtake, T!client, T!server
<1>2. PICK i \in 1..Len(t_inbox) - 1 :
        t_inbox' = [t_inbox EXCEPT ![i] = t_inbox[i + 1], ![i + 1] = t_inbox[i]]
  BY DEF T!Overtake
<1>3. Older /\ TurnClient' /\ \A ms : Heard(ms) => Heard(ms)'
  BY <1>1, Unchanging, ClientStays, HearingStays DEF TurnInv
<1>4. PICK ms : ms = t_inbox
  OBVIOUS
<1>5. Heard(ms)' /\ Heard(t_buffered)'
  BY <1>1, <1>3, <1>4 DEF TurnInv, TurnChannel, Heard
<1>6. /\ ms \in Seq(Posted) /\ i \in 1..Len(ms) /\ i + 1 \in 1..Len(ms)
      /\ t_inbox' \in Seq(Posted) /\ Len(t_inbox') = Len(ms)
      /\ \A j \in 1..Len(ms) : t_inbox'[j] = ms[IF j = i THEN i + 1 ELSE IF j = i + 1 THEN i ELSE j]
  BY <1>2, <1>4, <1>5 DEF Heard
<1>7. Heard(t_inbox)'
  <2>1. PICK ns : ns = t_inbox'
    OBVIOUS
  <2>2. ASSUME NEW j \in 1..Len(ns) PROVE Says(ns[j])'
    <3>1. PICK k \in 1..Len(ms) : ns[j] = ms[k]
      BY <1>6, <2>1
    <3> QED BY <1>5, <3>1 DEF Heard
  <2> QED BY <1>6, <2>1, <2>2 DEF Heard
<1> QED BY <1>1, <1>3, <1>5, <1>7 DEF TurnInv, TurnChannel, Older

LEMMA TurnKeeps == ASSUME T!TurnsAssumption, TurnInv, [T!Next]_(T!vars) PROVE TurnInv'
<1>1. None \notin Asking
  BY DEF T!TurnsAssumption
<1>2. CASE UNCHANGED T!vars
  <2>1. UNCHANGED <<t_running, t_owner, t_ended, t_inbox, t_asked>> /\ T!Stay
    BY <1>2 DEF T!vars, T!client, T!server, T!Stay
  <2> QED BY <1>1, <2>1, StayQuietly
<1>3. CASE T!Drop \/ T!Close
  <2>1. UNCHANGED <<t_running, t_owner, t_ended>> /\ \E p : T!Disconnect(p)
    BY <1>3 DEF T!Drop, T!Close
  <2> QED BY <1>1, <2>1, DisconnectKeeps
<1>4. CASE T!Client
  BY <1>1, <1>4, ConnectionKeeps, CallKeeps2, NoteKeeps, ReplyKeeps, ServeKeeps DEF T!Client
<1>5. CASE T!Timeout \/ T!Release
  BY <1>1, <1>5, CallKeeps2, ConnectionKeeps
<1>6. CASE \E c \in Asking : T!Take(c)
  BY <1>1, <1>6, TakeKeeps2
<1>7. CASE T!Serving \/ T!Foreign \/ T!Overtake \/ T!Item \/ T!Request \/ T!Unload
  BY <1>1, <1>7, CompleteKeeps, HandleKeeps, ForeignKeeps, OvertakeKeeps, NotesKept DEF T!Serving
<1> QED BY <1>2, <1>3, <1>4, <1>5, <1>6, <1>7 DEF T!Next

THEOREM TurnInvariance == T!TurnsAssumption /\ T!Spec => []TurnInv
<1> SUFFICES ASSUME T!TurnsAssumption PROVE T!Spec => []TurnInv
  OBVIOUS
<1>1. T!Init => TurnInv
  BY TurnInit
<1>2. TurnInv /\ [T!Next]_(T!vars) => TurnInv'
  BY TurnKeeps
<1> QED BY <1>1, <1>2, PTL DEF T!Spec

\* A call that returns an answer returns that of the turn it started, in a thread that
\* others use at the same time or not.
THEOREM AnswersAreOwn == T!TurnsAssumption /\ T!Spec => []T!OwnAnswer
<1>1. TurnInv => T!OwnAnswer
  BY DEF TurnInv, TurnClient, Answer, T!OwnAnswer
<1> QED BY <1>1, TurnInvariance, PTL

-----------------------------------------------------------------------------
(* AppServerTurns: one turn at a time, while other clients keep off the    *)
(* thread.                                                                 *)

\* Where a call has made sure of the thread, the answer it waits for, the calls that
\* may have asked for something, and an answer to the one that holds the thread.
Keeping == {"attached", "reading", "starting", "waiting"}
Awaited == IF t_pc = "resuming" THEN "resume" ELSE IF t_pc = "reading" THEN "read"
           ELSE IF t_pc = "starting" THEN "start" ELSE "none"
Asker(c) == c \in Asking /\ (c = t_cur \/ t_res[c].is # "none")
Replies == {"resume", "read", "start"}
Own(m) == m.kind \in Replies /\ m.call = t_cur
NoStart == \A i \in 1..Len(t_asked) : t_asked[i].kind # "start"

\* A connection that is not open carries nothing.
Connection ==
    /\ t_phase # "open" => t_inbox = <<>> /\ t_asked = <<>> /\ ~t_attached /\ ~t_subscribed
    /\ t_phase \notin {"none", "open"} => t_pc = "connect"
    /\ t_pc \in T!Waiting => t_phase = "open"
    /\ t_cur # None => t_res[t_cur].is = "none"
    /\ t_pc \in {"idle", "connect", "resuming"} \cup Keeping

\* The last turn is the one that runs, in a thread that is loaded.
Server ==
    /\ t_subscribed => t_loaded
    /\ t_running # 0 => t_loaded /\ t_running = Len(t_owner)

Book == [turn : Nat, over : SUBSET Nat, starting : BOOLEAN, doubt : BOOLEAN, none : BOOLEAN]

\* The client's entry, and that it is there for a turn that runs or may begin.
Entries ==
    /\ t_active \in Book
    /\ t_active.none => t_active.turn = 0
    /\ ~t_active.none /\ t_active.turn = 0 => t_active.starting
    /\ \A t \in t_active.over : t \in 1..Len(t_owner) /\ t_ended[t] # "no"
    /\ t_attached /\ t_running # 0 =>
         ~t_active.none /\ ~t_active.doubt /\ t_active.turn \in {0, t_running}
    /\ t_pc \in Keeping /\ ~t_attached /\ t_phase = "open" => ~t_loaded
    /\ t_pc = "reading" /\ t_attached => t_running = 0 /\ NoStart
    /\ t_pc = "resuming" => ~t_attached

\* The last request may be that of the call that holds the thread; while a turn is
\* asked for in a thread that stays attached, no other is and none runs.
Requests ==
    \A i \in 1..Len(t_asked) :
        /\ Asker(t_asked[i].call)
        /\ t_asked[i].call = t_cur => t_asked[i].kind = Awaited /\ i = Len(t_asked)
        /\ t_asked[i].kind = "resume" => ~t_attached /\ t_pc \notin Keeping
        /\ t_asked[i].kind = "start" /\ t_attached =>
             /\ ~t_active.none /\ ~t_active.doubt /\ t_active.turn = 0 /\ t_running = 0
             /\ \A j \in 1..Len(t_asked) : t_asked[j].kind = "start" => i = j

\* Each message on its way,
One(m) ==
    /\ m.kind = "closed" /\ t_attached => ~t_loaded
    /\ m.kind = "started" /\ t_attached =>
         /\ ~t_active.none /\ ~t_active.doubt /\ t_active.turn \in {0, m.turn} /\ m.turn = Len(t_owner)
         /\ m.turn \notin t_active.over /\ NoStart /\ t_pc # "reading"
    /\ m.kind \in Replies => Asker(m.call)
    /\ Own(m) =>
         /\ m.kind = Awaited /\ t_asked = <<>>
         /\ m.kind = "resume" => t_running \in {0, m.turn} /\ (m.open => m.turn = 0)
         /\ m.kind = "read" /\ t_attached => m.turn = 0
         /\ m.kind = "start" /\ t_attached =>
              IF m.turn = 0 THEN t_running = 0 ELSE m.turn = Len(t_owner)
\* and two of which the first comes before the other.
Two(m, n) ==
    /\ ~(Own(m) /\ Own(n))
    /\ m.kind \in {"completed", "failed"} /\ n.kind = "started" => m.turn # n.turn
    /\ Own(m) /\ m.kind = "resume" => n.kind # "started" /\ (n.kind = "closed" => ~t_loaded)
    /\ Own(m) /\ m.kind = "start" /\ m.turn = 0 /\ t_attached => n.kind # "started"
    /\ Own(n) /\ n.kind = "start" /\ n.turn = 0 /\ t_attached => m.kind # "started"

Lined(ms) ==
    /\ ms \in Seq(Posted) /\ \A i \in 1..Len(ms) : One(ms[i])
    /\ \A i, j \in 1..Len(ms) : i < j => Two(ms[i], ms[j])

OneInv == Connection /\ Server /\ Entries /\ Requests /\ Lined(t_inbox)

\* How a line of messages keeps its form.
LEMMA NoneInLine == Lined(<<>>)
BY DEF Lined

LEMMA LineStays ==
    ASSUME NEW ms, Heard(ms), Lined(ms),
           \A m \in Posted : One(m) /\ Says(m) => One(m)',
           \A m, n \in Posted : One(m) /\ One(n) /\ Two(m, n) => Two(m, n)'
    PROVE Lined(ms)'
<1>1. \A i \in 1..Len(ms) : ms[i] \in Posted /\ One(ms[i]) /\ Says(ms[i])
  BY DEF Lined, Heard
<1>2. ASSUME NEW i \in 1..Len(ms) PROVE One(ms[i])'
  <2>1. PICK m : m = ms[i]
    OBVIOUS
  <2>2. One(m)'
    BY <1>1, <2>1
  <2> QED BY <2>1, <2>2
<1>3. ASSUME NEW i \in 1..Len(ms), NEW j \in 1..Len(ms), i < j PROVE Two(ms[i], ms[j])'
  <2>1. PICK m, n : m = ms[i] /\ n = ms[j]
    OBVIOUS
  <2>2. Two(m, n)
    BY <1>3, <2>1 DEF Lined
  <2>3. Two(m, n)'
    BY <1>1, <2>1, <2>2
  <2> QED BY <2>1, <2>3
<1> QED BY <1>2, <1>3 DEF Lined

\* So does what followed a message that is taken from the line.
LEMMA LineFollows ==
    ASSUME NEW h, NEW ms, Heard(ms), Lined(ms), \A i \in 1..Len(ms) : Two(h, ms[i]),
           \A m \in Posted : One(m) /\ Says(m) /\ Two(h, m) => One(m)',
           \A m, n \in Posted : One(m) /\ One(n) /\ Two(m, n) => Two(m, n)'
    PROVE Lined(ms)'
<1>1. \A i \in 1..Len(ms) : ms[i] \in Posted /\ One(ms[i]) /\ Says(ms[i])
  BY DEF Lined, Heard
<1>2. ASSUME NEW i \in 1..Len(ms) PROVE One(ms[i])'
  <2>1. PICK m : m = ms[i]
    OBVIOUS
  <2>2. One(m)'
    BY <1>1, <2>1
  <2> QED BY <2>1, <2>2
<1>3. ASSUME NEW i \in 1..Len(ms), NEW j \in 1..Len(ms), i < j PROVE Two(ms[i], ms[j])'
  <2>1. PICK m, n : m = ms[i] /\ n = ms[j]
    OBVIOUS
  <2>2. Two(m, n)
    BY <1>3, <2>1 DEF Lined
  <2>3. Two(m, n)'
    BY <1>1, <2>1, <2>2
  <2> QED BY <2>1, <2>3
<1> QED BY <1>2, <1>3 DEF Lined

LEMMA LineGrows ==
    ASSUME NEW ms, Lined(ms)', NEW m \in Posted, One(m)', \A i \in 1..Len(ms) : Two(ms[i], m)'
    PROVE Lined(Append(ms, m))'
<1>1. /\ Append(ms, m) \in Seq(Posted) /\ Len(Append(ms, m)) = Len(ms) + 1 /\ Len(ms) \in Nat
      /\ Append(ms, m)[Len(ms) + 1] = m /\ \A i \in 1..Len(ms) : Append(ms, m)[i] = ms[i]
  BY DEF Lined
<1>2. ASSUME NEW i \in 1..Len(ms) + 1 PROVE One(Append(ms, m)[i])'
  <2>1. CASE i = Len(ms) + 1
    BY <1>1, <2>1
  <2>2. CASE i \in 1..Len(ms)
    BY <1>1, <2>2 DEF Lined
  <2> QED BY <1>1, <2>1, <2>2
<1>3. ASSUME NEW i \in 1..Len(ms) + 1, NEW j \in 1..Len(ms) + 1, i < j
      PROVE Two(Append(ms, m)[i], Append(ms, m)[j])'
  <2>1. i \in 1..Len(ms)
    BY <1>1, <1>3
  <2>2. CASE j = Len(ms) + 1
    BY <1>1, <2>1, <2>2
  <2>3. CASE j \in 1..Len(ms)
    BY <1>1, <1>3, <2>1, <2>3 DEF Lined
  <2> QED BY <1>1, <2>2, <2>3
<1> QED BY <1>1, <1>2, <1>3 DEF Lined

LEMMA LineMoves ==
    ASSUME NEW ms, Lined(ms), ms # <<>>
    PROVE /\ Head(ms) \in Posted /\ One(Head(ms)) /\ Lined(Tail(ms))
          /\ \A i \in 1..Len(Tail(ms)) : Two(Head(ms), Tail(ms)[i])
<1>1. /\ Len(ms) \in Nat \ {0} /\ Head(ms) = ms[1] /\ Head(ms) \in Posted /\ Tail(ms) \in Seq(Posted)
      /\ Len(Tail(ms)) = Len(ms) - 1
      /\ \A i \in 1..Len(ms) - 1 : Tail(ms)[i] = ms[i + 1] /\ i + 1 \in 1..Len(ms)
  BY DEF Lined
<1>2. One(Head(ms)) /\ \A i \in 1..Len(ms) - 1 : One(Tail(ms)[i])
  BY <1>1 DEF Lined
<1>3. \A i \in 1..Len(ms) - 1 : Two(Head(ms), Tail(ms)[i])
  <2> SUFFICES ASSUME NEW i \in 1..Len(ms) - 1 PROVE Two(Head(ms), Tail(ms)[i])
    OBVIOUS
  <2>1. 1 \in 1..Len(ms) /\ i + 1 \in 1..Len(ms) /\ 1 < i + 1
    BY <1>1
  <2> QED BY <1>1, <2>1 DEF Lined
<1>4. ASSUME NEW i \in 1..Len(ms) - 1, NEW j \in 1..Len(ms) - 1, i < j
      PROVE Two(Tail(ms)[i], Tail(ms)[j])
  <2>1. i + 1 \in 1..Len(ms) /\ j + 1 \in 1..Len(ms) /\ i + 1 < j + 1
    BY <1>1, <1>4
  <2> QED BY <1>1, <2>1 DEF Lined
<1> QED BY <1>1, <1>2, <1>3, <1>4 DEF Lined

LEMMA LineTurns ==
    ASSUME NEW ms, Lined(ms), NEW i \in 1..Len(ms) - 1, Two(ms[i + 1], ms[i])
    PROVE Lined([ms EXCEPT ![i] = ms[i + 1], ![i + 1] = ms[i]])
<1> DEFINE ns == [ms EXCEPT ![i] = ms[i + 1], ![i + 1] = ms[i]]
           At(j) == IF j = i THEN i + 1 ELSE IF j = i + 1 THEN i ELSE j
<1>1. /\ ns \in Seq(Posted) /\ Len(ns) = Len(ms) /\ Len(ms) \in Nat
      /\ \A j \in 1..Len(ms) : ns[j] = ms[At(j)] /\ At(j) \in 1..Len(ms)
  BY DEF Lined
<1> HIDE DEF ns
<1>2. \A j \in 1..Len(ns) : One(ns[j])
  BY <1>1 DEF Lined
<1>3. ASSUME NEW j \in 1..Len(ms), NEW k \in 1..Len(ms), j < k PROVE Two(ns[j], ns[k])
  <2>1. CASE j = i /\ k = i + 1
    BY <1>1, <2>1
  <2>2. CASE ~(j = i /\ k = i + 1)
    <3>1. At(j) < At(k) /\ At(j) \in 1..Len(ms) /\ At(k) \in 1..Len(ms)
      BY <1>1, <1>3, <2>2
    <3> QED BY <1>1, <3>1 DEF Lined
  <2> QED BY <2>1, <2>2
<1> QED BY <1>1, <1>2, <1>3 DEF Lined, ns

\* Without a connection there is nothing in line.
LEMMA EmptyKeeps ==
    ASSUME TurnInv, OneInv, t_inbox' = <<>>, t_asked' = <<>>, ~t_attached', ~t_subscribed',
           UNCHANGED <<t_running, t_owner, t_ended, t_loaded>>, t_active' \in {t_active, T!Doubt},
           Connection', t_phase' # "open" \/ t_pc' = "connect"
    PROVE OneInv'
<1>1. Server'
  BY DEF OneInv, Server
<1>2. Entries'
  <2>1. /\ t_active'.none = t_active.none /\ t_active'.turn = t_active.turn
        /\ t_active'.starting = t_active.starting /\ t_active'.over = t_active.over
        /\ t_active' \in Book
    <3>1. CASE t_active' = t_active
      BY <3>1 DEF OneInv, Entries
    <3>2. CASE t_active' = T!Doubt
      BY <3>2 DEF T!Doubt, OneInv, Entries, Book
    <3> QED BY <3>1, <3>2
  <2> QED BY <2>1 DEF OneInv, Entries, Keeping
<1>3. Requests'
  BY DEF Requests
<1>4. Lined(t_inbox)'
  BY NoneInLine DEF Lined
<1> QED BY <1>1, <1>2, <1>3, <1>4 DEF OneInv

\* The call that holds the thread ends, and stays one that may have asked.
LEMMA FreeKeeps ==
    ASSUME TurnInv, NEW r, T!Finish(r), r.is # "none", t_cur \in Asking
    PROVE /\ t_cur' = None /\ t_pc' = "idle" /\ t_res'[t_cur].is # "none"
          /\ \A c \in Asking : Asker(c) => Asker(c)'
BY DEF T!Finish, TurnInv, TurnClient, Asker

LEMMA OpeningKeepsOne ==
    ASSUME TurnInv, OneInv, T!Connect \/ T!Advance \/ T!Retry \/ T!Drop \/ T!Close PROVE OneInv'
<1>1. CASE T!Connect \/ T!Advance
  <2>1. /\ UNCHANGED <<t_running, t_owner, t_ended, t_loaded, t_inbox, t_asked, t_attached,
                       t_subscribed, t_active>>
        /\ UNCHANGED <<t_cur, t_pc, t_res>> /\ t_phase # "open" /\ t_pc = "connect"
    BY <1>1 DEF T!Connect, T!Advance, T!server, OneInv, Connection
  <2>2. Connection'
    BY <2>1 DEF OneInv, Connection, T!Waiting, Keeping
  <2>3. t_inbox' = <<>> /\ t_asked' = <<>> /\ ~t_attached' /\ ~t_subscribed'
    BY <2>1 DEF OneInv, Connection
  <2> QED BY <2>1, <2>2, <2>3, EmptyKeeps
<1>2. CASE T!Retry
  <2>1. /\ UNCHANGED <<t_running, t_owner, t_ended, t_loaded, t_inbox, t_asked, t_attached,
                       t_subscribed, t_active>>
        /\ t_phase \in {"failed", "checking"} /\ t_phase' \in {"none", "checking"} /\ t_pc = "connect"
    BY <1>2 DEF T!Retry, T!server, OneInv, Connection
  <2>2. Connection'
    <3>1. CASE T!Stay
      BY <2>1, <3>1 DEF T!Stay, OneInv, Connection, T!Waiting, Keeping
    <3>2. CASE ~T!Stay
      <4>1. PICK r : T!Finish(r) /\ t_phase' = "none"
        BY <1>2, <2>1, <3>2 DEF T!Retry
      <4>2. t_cur' = None /\ t_pc' = "idle"
        BY <4>1 DEF T!Finish
      <4> QED BY <2>1, <4>1, <4>2 DEF OneInv, Connection, T!Waiting, Keeping
    <3> QED BY <3>1, <3>2
  <2>3. t_inbox' = <<>> /\ t_asked' = <<>> /\ ~t_attached' /\ ~t_subscribed'
    BY <2>1 DEF OneInv, Connection
  <2> QED BY <2>1, <2>2, <2>3, EmptyKeeps
<1>3. CASE T!Drop \/ T!Close
  <2>1. PICK p : /\ T!Disconnect(p) /\ p # "open"
                 /\ p # "none" => t_phase \notin {"none", "open"}
    BY <1>3 DEF T!Drop, T!Close
  <2>2. UNCHANGED <<t_running, t_owner, t_ended, t_loaded>>
    BY <1>3 DEF T!Drop, T!Close
  <2>3. /\ t_inbox' = <<>> /\ t_asked' = <<>> /\ ~t_attached' /\ ~t_subscribed'
        /\ t_phase' = p /\ t_active' = T!Doubt
    BY <2>1 DEF T!Disconnect
  <2>4. Connection'
    <3>1. CASE t_pc \in T!Waiting
      <4>1. t_phase = "open"
        BY <3>1 DEF OneInv, Connection
      <4>2. t_cur' = None /\ t_pc' = "idle" /\ p = "none"
        BY <2>1, <3>1, <4>1 DEF T!Disconnect, T!Finish
      <4> QED BY <2>1, <2>3, <4>2 DEF Connection, T!Waiting
    <3>2. CASE t_pc \notin T!Waiting
      <4>1. T!Stay
        BY <2>1, <3>2 DEF T!Disconnect
      <4> QED BY <2>1, <2>3, <3>2, <4>1 DEF T!Stay, OneInv, Connection, T!Waiting, Keeping
    <3> QED BY <3>1, <3>2
  <2> QED BY <2>1, <2>2, <2>3, <2>4, EmptyKeeps
<1> QED BY <1>1, <1>2, <1>3

\* The line and the requests while only the call that holds the thread moves.
LEMMA UnaskedKeeps ==
    ASSUME TurnInv, OneInv, Connection', Entries', None \notin Asking,
           UNCHANGED <<t_loaded, t_attached, t_subscribed, t_active, t_running, t_owner, t_ended, t_inbox, t_asked>>,
           \A c \in Asking : Asker(c) => Asker(c)',
           \A c \in Asking : Asker(c) /\ c = t_cur' => t_cur = t_cur' /\ Awaited' = Awaited,
           t_pc' # "reading", t_pc' \in Keeping => t_pc \in Keeping
    PROVE OneInv'
<1>1. Server'
  BY DEF OneInv, Server
<1>2. NoStart' = NoStart
  BY DEF NoStart
<1>3. Requests'
  <2> SUFFICES ASSUME NEW i \in 1..Len(t_asked)
               PROVE /\ Asker(t_asked[i].call)'
                     /\ t_asked[i].call = t_cur' => t_asked[i].kind = Awaited' /\ i = Len(t_asked)
                     /\ t_asked[i].kind = "resume" => ~t_attached /\ t_pc' \notin Keeping
                     /\ t_asked[i].kind = "start" /\ t_attached =>
                          /\ ~t_active.none /\ ~t_active.doubt /\ t_active.turn = 0 /\ t_running = 0
                          /\ \A j \in 1..Len(t_asked) : t_asked[j].kind = "start" => i = j
    BY DEF Requests
  <2>1. Asker(t_asked[i].call) /\ t_asked[i].call \in Asking
    BY DEF OneInv, Requests, Asker
  <2>2. PICK c : c = t_asked[i].call
    OBVIOUS
  <2>3. Asker(c)'
    BY <2>1, <2>2
  <2> QED BY <2>1, <2>2, <2>3 DEF OneInv, Requests
<1>4. ASSUME NEW m, One(m) PROVE One(m)'
  <2>1. m.kind \in Replies => Asker(m.call) /\ m.call \in Asking
    BY <1>4 DEF One, Asker
  <2>2. m.kind \in Replies => Asker(m.call)'
    <3>1. PICK c : c = m.call
      OBVIOUS
    <3> QED BY <2>1, <3>1
  <2>3. Own(m)' => Own(m) /\ Awaited' = Awaited
    BY <2>1 DEF Own
  <2> QED BY <1>2, <1>4, <2>2, <2>3 DEF One
<1>5. ASSUME NEW m, NEW n, One(m), One(n), Two(m, n) PROVE Two(m, n)'
  <2>1. Own(m)' => Own(m)
    BY <1>5 DEF Own, One, Asker
  <2>2. Own(n)' => Own(n)
    BY <1>5 DEF Own, One, Asker
  <2> QED BY <1>5, <2>1, <2>2 DEF Two
<1>6. Lined(t_inbox)'
  <2>1. PICK ms : ms = t_inbox
    OBVIOUS
  <2>2. Heard(ms) /\ Lined(ms)
    BY <2>1 DEF TurnInv, TurnChannel, OneInv
  <2>3. Lined(ms)'
    BY <1>4, <1>5, <2>2, LineStays
  <2> QED BY <2>1, <2>3 DEF Lined
<1> QED BY <1>1, <1>3, <1>6 DEF OneInv

\* The call ends and leaves its requests to the server.
LEMMA EndKeeps ==
    ASSUME TurnInv, OneInv, None \notin Asking, NEW r, T!Finish(r), r.is # "none", t_cur \in Asking,
           t_phase \in {"none", "open"},
           UNCHANGED <<t_phase, t_loaded, t_attached, t_subscribed, t_active, t_running, t_owner,
                       t_ended, t_inbox, t_asked>>
    PROVE OneInv'
<1>1. /\ t_cur' = None /\ t_pc' = "idle" /\ \A c \in Asking : Asker(c) => Asker(c)'
  BY FreeKeeps
<1>2. Connection'
  BY <1>1 DEF OneInv, Connection, T!Waiting, Keeping
<1>3. Entries'
  BY <1>1 DEF OneInv, Entries, Keeping
<1> QED BY <1>1, <1>2, <1>3, UnaskedKeeps DEF Keeping

LEMMA TakeKeepsOne == ASSUME TurnInv, OneInv, None \notin Asking, NEW c \in Asking, T!Take(c) PROVE OneInv'
<1>1. /\ UNCHANGED <<t_phase, t_loaded, t_attached, t_subscribed, t_active, t_running, t_owner,
                     t_ended, t_inbox, t_asked, t_res>>
      /\ t_cur = None /\ t_res[c].is = "none" /\ t_cur' = c /\ t_pc' = "connect" /\ t_pc = "idle"
  BY DEF T!Take, T!server, TurnInv, TurnClient
<1>2. Connection'
  BY <1>1 DEF OneInv, Connection, T!Waiting, Keeping
<1>3. Entries'
  BY <1>1 DEF OneInv, Entries, Keeping
<1>4. \A a \in Asking : Asker(a) => Asker(a)' /\ a # c
  BY <1>1 DEF Asker
<1> QED BY <1>1, <1>2, <1>3, <1>4, UnaskedKeeps DEF Keeping

LEMMA TimeoutKeepsOne == ASSUME TurnInv, OneInv, None \notin Asking, T!Timeout PROVE OneInv'
<1>1. /\ UNCHANGED <<t_phase, t_loaded, t_attached, t_subscribed, t_active, t_running, t_owner,
                     t_ended, t_inbox, t_asked>>
      /\ t_pc \in T!Waiting /\ t_pc # "idle"
  BY DEF T!Timeout, T!Quiet, T!server, T!Waiting
<1>2. t_phase = "open" /\ t_cur \in Asking
  BY <1>1 DEF OneInv, Connection, TurnInv, TurnClient
<1>3. PICK r : T!Finish(r) /\ r.is # "none"
  <2>1. T!Finish([is |-> "timeout", turn |-> t_mine, from |-> {}])
    BY DEF T!Timeout
  <2>2. PICK r : r = [is |-> "timeout", turn |-> t_mine, from |-> {}]
    OBVIOUS
  <2> QED BY <2>1, <2>2
<1> QED BY <1>1, <1>2, <1>3, EndKeeps

LEMMA ReleaseKeepsOne == ASSUME TurnInv, OneInv, None \notin Asking, T!Release PROVE OneInv'
<1>1. /\ UNCHANGED <<t_phase, t_loaded, t_active, t_running, t_owner, t_ended, t_inbox, t_asked,
                     t_cur, t_pc, t_res>>
      /\ t_cur = None /\ t_pc = "idle" /\ t_phase = "open" /\ ~t_attached' /\ ~t_subscribed'
  BY DEF T!Release, TurnInv, TurnClient
<1>2. Connection' /\ Server' /\ Entries'
  BY <1>1 DEF OneInv, Connection, Server, Entries, Keeping, T!Waiting
<1>3. Requests'
  BY <1>1 DEF OneInv, Requests, Keeping, Asker, Awaited
<1>4. ASSUME NEW m, One(m) PROVE One(m)'
  <2>1. Own(m)' => Own(m)
    BY <1>1 DEF Own
  <2> QED BY <1>1, <1>4, <2>1 DEF One, Asker, Awaited, Own, NoStart
<1>5. ASSUME NEW m, NEW n, Two(m, n) PROVE Two(m, n)'
  BY <1>1, <1>5 DEF Two, Own
<1>6. Lined(t_inbox)'
  <2>1. PICK ms : ms = t_inbox
    OBVIOUS
  <2>2. Heard(ms) /\ Lined(ms)
    BY <2>1 DEF TurnInv, TurnChannel, OneInv
  <2>3. Lined(ms)'
    BY <1>4, <1>5, <2>2, LineStays
  <2> QED BY <1>1, <2>1, <2>3 DEF Lined
<1> QED BY <1>2, <1>3, <1>6 DEF OneInv

\* Who waits for no answer has asked for nothing, and nothing is on its way.
LEMMA Unasked ==
    ASSUME TurnInv, OneInv, Awaited = "none"
    PROVE /\ \A i \in 1..Len(t_asked) : t_asked[i].call # t_cur
          /\ \A m : One(m) => ~Own(m)
<1>1. ASSUME NEW i \in 1..Len(t_asked) PROVE t_asked[i].call # t_cur
  <2>1. t_asked[i] \in Asks
    BY DEF TurnInv, TurnChannel
  <2>2. t_asked[i].kind # "none"
    BY <2>1 DEF Asks
  <2> QED BY <2>2 DEF OneInv, Requests
<1>2. ASSUME NEW m, One(m) PROVE ~Own(m)
  BY <1>2 DEF One, Own, Replies
<1> QED BY <1>1, <1>2

\* A request of the call that holds the thread.
LEMMA AskKeeps ==
    ASSUME TurnInv, OneInv, None \notin Asking, Connection', Entries', Awaited = "none", t_cur \in Asking,
           UNCHANGED <<t_loaded, t_attached, t_subscribed, t_running, t_owner, t_ended, t_inbox, t_cur, t_res>>,
           NEW k \in Replies, T!Ask(k), Awaited' = k,
           k = "resume" => ~t_attached /\ t_pc' \notin Keeping,
           k # "resume" => t_pc' \in Keeping /\ (t_attached \/ t_pc \in Keeping),
           IF k = "start"
           THEN t_attached => /\ t_active.none /\ ~t_active'.none /\ ~t_active'.doubt
                              /\ t_active'.turn = 0
           ELSE t_active' = t_active /\ (k = "read" /\ t_attached => t_active.doubt)
    PROVE OneInv'
<1>1. Server'
  BY DEF OneInv, Server
<1>2. /\ t_asked \in Seq(Asks) /\ t_asked' = Append(t_asked, [call |-> t_cur, kind |-> k])
      /\ [call |-> t_cur, kind |-> k] \in Asks
  BY DEF TurnInv, TurnChannel, T!Ask, Replies, Asks
<1>3. /\ Len(t_asked') = Len(t_asked) + 1 /\ Len(t_asked) \in Nat
      /\ t_asked'[Len(t_asked) + 1] = [call |-> t_cur, kind |-> k]
      /\ \A i \in 1..Len(t_asked) : t_asked'[i] = t_asked[i]
  BY <1>2
<1>4. /\ \A i \in 1..Len(t_asked) : t_asked[i].call # t_cur
      /\ \A m : One(m) => ~Own(m)
  BY Unasked
<1>5. /\ t_attached /\ k = "start" => /\ t_running = 0
                                      /\ \A i \in 1..Len(t_asked) : t_asked[i].kind # "start"
      /\ k # "resume" => \A i \in 1..Len(t_asked) : t_asked[i].kind # "resume"
  BY DEF OneInv, Entries, Requests
<1>6. Requests'
  <2> SUFFICES ASSUME NEW i \in 1..Len(t_asked) + 1
               PROVE /\ Asker(t_asked[i].call)'
                     /\ t_asked'[i].call = t_cur => t_asked'[i].kind = Awaited' /\ i = Len(t_asked')
                     /\ t_asked'[i].kind = "resume" => ~t_attached /\ t_pc' \notin Keeping
                     /\ t_asked'[i].kind = "start" /\ t_attached =>
                          /\ ~t_active'.none /\ ~t_active'.doubt /\ t_active'.turn = 0 /\ t_running = 0
                          /\ \A j \in 1..Len(t_asked) + 1 : t_asked'[j].kind = "start" => i = j
    BY <1>3 DEF Requests
  <2>1. CASE i = Len(t_asked) + 1
    <3>1. Asker(t_cur)'
      BY DEF Asker
    <3> QED BY <1>3, <1>5, <2>1, <3>1
  <2>2. CASE i \in 1..Len(t_asked)
    <3>1. Asker(t_asked[i].call)'
      BY <1>3, <2>2 DEF Asker, OneInv, Requests
    <3>2. t_asked[i].kind = "resume" => ~t_attached /\ t_pc' \notin Keeping
      BY <1>5, <2>2 DEF OneInv, Requests
    <3>3. CASE k = "start" /\ t_attached
      BY <1>3, <1>4, <1>5, <2>2, <3>1, <3>2, <3>3
    <3>4. CASE k = "start" /\ ~t_attached
      BY <1>3, <1>4, <2>2, <3>1, <3>2, <3>4
    <3>5. CASE k # "start"
      BY <1>3, <1>4, <2>2, <3>1, <3>2, <3>5 DEF OneInv, Requests
    <3> QED BY <3>3, <3>4, <3>5
  <2> QED BY <1>3, <2>1, <2>2
<1>7. ASSUME NEW m, One(m) PROVE One(m)'
  <2>1. ~Own(m) /\ ~Own(m)'
    BY <1>4, <1>7 DEF Own
  <2>2. m.kind = "started" /\ t_attached => k \notin {"start", "read"} /\ NoStart
    BY <1>7 DEF One
  <2>3. m.kind = "started" /\ t_attached => NoStart' /\ t_pc' # "reading" /\ t_active' = t_active
    <3> SUFFICES ASSUME m.kind = "started", t_attached PROVE NoStart' /\ t_pc' # "reading" /\ t_active' = t_active
      OBVIOUS
    <3>1. k = "resume"
      BY <2>2 DEF Replies
    <3> QED BY <3>1
  <2> QED BY <1>7, <2>1, <2>3 DEF One, Asker
<1>8. ASSUME NEW m, NEW n, One(m), One(n), Two(m, n) PROVE Two(m, n)'
  BY <1>8 DEF Two, Own
<1>9. Lined(t_inbox)'
  <2>1. PICK ms : ms = t_inbox
    OBVIOUS
  <2>2. Heard(ms) /\ Lined(ms)
    BY <2>1 DEF TurnInv, TurnChannel, OneInv
  <2>3. Lined(ms)'
    BY <1>7, <1>8, <2>2, LineStays
  <2> QED BY <2>1, <2>3 DEF Lined
<1> QED BY <1>1, <1>6, <1>9 DEF OneInv

LEMMA AttachKeepsOne == ASSUME TurnInv, OneInv, None \notin Asking, T!Attach PROVE OneInv'
<1>1. /\ t_pc = "connect" /\ t_phase = "open" /\ t_cur \in Asking /\ Awaited = "none"
      /\ UNCHANGED <<t_phase, t_loaded, t_attached, t_subscribed, t_active, t_running, t_owner,
                     t_ended, t_inbox, t_cur, t_res>>
  BY DEF T!Attach, T!Quiet, T!server, TurnInv, TurnClient, Awaited
<1>2. CASE ~t_attached
  <2>1. t_pc' = "resuming" /\ T!Ask("resume")
    BY <1>2 DEF T!Attach
  <2>2. Connection' /\ Entries' /\ Awaited' = "resume"
    BY <1>1, <1>2, <2>1 DEF OneInv, Connection, Entries, T!Waiting, Keeping, Awaited
  <2>3. PICK k : k = "resume"
    OBVIOUS
  <2>4. k \in Replies /\ T!Ask(k) /\ Awaited' = k
    BY <2>1, <2>2, <2>3 DEF Replies
  <2> QED BY <1>1, <1>2, <2>1, <2>2, <2>3, <2>4, AskKeeps DEF Keeping
<1>3. CASE t_attached /\ T!Busy /\ t_active.doubt
  <2>1. t_pc' = "reading" /\ T!Ask("read")
    BY <1>3 DEF T!Attach
  <2>2. t_running = 0 /\ NoStart
    BY <1>3 DEF OneInv, Entries, Requests, NoStart
  <2>3. NoStart'
    <3>1. t_asked' = Append(t_asked, [call |-> t_cur, kind |-> "read"]) /\ t_asked \in Seq(Asks)
      BY <2>1 DEF T!Ask, TurnInv, TurnChannel
    <3>2. [call |-> t_cur, kind |-> "read"] \in Asks
      BY <1>1 DEF Asks
    <3> QED BY <2>2, <3>1, <3>2 DEF NoStart
  <2>4. Connection' /\ Entries' /\ Awaited' = "read"
    BY <1>1, <1>3, <2>1, <2>2, <2>3 DEF OneInv, Connection, Entries, T!Waiting, Keeping, Awaited
  <2>5. PICK k : k = "read"
    OBVIOUS
  <2>6. k \in Replies /\ T!Ask(k) /\ Awaited' = k
    BY <2>1, <2>4, <2>5 DEF Replies
  <2> QED BY <1>1, <1>3, <2>1, <2>4, <2>5, <2>6, AskKeeps DEF Keeping
<1>4. CASE t_attached /\ ~(T!Busy /\ t_active.doubt)
  <2>1. t_pc' = "attached" /\ t_asked' = t_asked
    BY <1>4 DEF T!Attach
  <2>2. Connection' /\ Entries' /\ Awaited' = "none"
    BY <1>1, <1>4, <2>1 DEF OneInv, Connection, Entries, T!Waiting, Keeping, Awaited
  <2>3. Server' /\ NoStart' = NoStart
    BY <1>1, <2>1 DEF OneInv, Server, NoStart
  <2>4. /\ \A i \in 1..Len(t_asked) : t_asked[i].call # t_cur
        /\ \A m : One(m) => ~Own(m)
    BY <1>1, Unasked
  <2>5. Requests'
    BY <1>1, <1>4, <2>1, <2>4 DEF OneInv, Requests, Asker
  <2>6. ASSUME NEW m, One(m) PROVE One(m)'
    <3>1. ~Own(m)'
      BY <1>1, <2>4, <2>6 DEF Own
    <3> QED BY <1>1, <2>1, <2>3, <2>6, <3>1 DEF One, Asker
  <2>7. ASSUME NEW m, NEW n, Two(m, n) PROVE Two(m, n)'
    BY <1>1, <2>7 DEF Two, Own
  <2>8. Lined(t_inbox)'
    <3>1. PICK ms : ms = t_inbox
      OBVIOUS
    <3>2. Heard(ms) /\ Lined(ms)
      BY <3>1 DEF TurnInv, TurnChannel, OneInv
    <3>3. Lined(ms)'
      BY <2>6, <2>7, <3>2, LineStays
    <3> QED BY <1>1, <3>1, <3>3 DEF Lined
  <2> QED BY <2>2, <2>3, <2>5, <2>8 DEF OneInv
<1> QED BY <1>2, <1>3, <1>4

LEMMA StartKeepsOne == ASSUME TurnInv, OneInv, None \notin Asking, T!Start PROVE OneInv'
<1>1. /\ t_pc = "attached" /\ t_phase \in {"none", "open"} /\ t_cur \in Asking /\ Awaited = "none"
      /\ UNCHANGED <<t_phase, t_loaded, t_attached, t_subscribed, t_running, t_owner, t_ended, t_inbox>>
  BY DEF T!Start, T!Quiet, T!server, TurnInv, TurnClient, Awaited, OneInv, Connection
<1>2. CASE t_phase # "open" \/ T!Refuses
  <2>1. PICK r : T!Finish(r) /\ r.is # "none"
    <3>1. T!Finish([is |-> IF T!Refuses THEN "busy" ELSE "failed", turn |-> 0, from |-> {}])
      BY <1>2 DEF T!Start
    <3>2. PICK r : r = [is |-> IF T!Refuses THEN "busy" ELSE "failed", turn |-> 0, from |-> {}]
      OBVIOUS
    <3> QED BY <3>1, <3>2
  <2>2. UNCHANGED <<t_active, t_asked>>
    BY <1>2 DEF T!Start
  <2> QED BY <1>1, <2>1, <2>2, EndKeeps
<1>3. CASE t_phase = "open" /\ ~T!Refuses
  <2>1. /\ t_active' = T!Entry(0, TRUE) /\ T!Ask("start") /\ t_pc' = "starting" /\ t_active.none
        /\ UNCHANGED <<t_cur, t_res>>
    BY <1>3 DEF T!Start, T!Refuses, T!Busy
  <2>2. /\ t_active' \in Book /\ ~t_active'.none /\ ~t_active'.doubt /\ t_active'.turn = 0
        /\ t_active'.starting /\ t_active'.over = {}
    BY <2>1 DEF T!Entry, Book
  <2>3. t_attached => t_running = 0
    BY <2>1 DEF OneInv, Entries
  <2>4. Connection' /\ Entries' /\ Awaited' = "start"
    BY <1>1, <1>3, <2>1, <2>2, <2>3 DEF OneInv, Connection, Entries, T!Waiting, Keeping, Awaited
  <2>5. PICK k : k = "start"
    OBVIOUS
  <2>6. k \in Replies /\ T!Ask(k) /\ Awaited' = k
    BY <2>1, <2>4, <2>5 DEF Replies
  <2> QED BY <1>1, <2>1, <2>2, <2>4, <2>5, <2>6, AskKeeps DEF Keeping
<1> QED BY <1>2, <1>3

-----------------------------------------------------------------------------
(* What comes from the server. *)

\* The first in line, and what stays of the others if one stays for one.
LEMMA FirstInLine ==
    ASSUME TurnInv, OneInv, t_inbox # <<>>, NEW m, m = Head(t_inbox)
    PROVE /\ m \in Posted /\ One(m) /\ Says(m) /\ t_phase = "open"
          /\ \A i \in 1..Len(Tail(t_inbox)) : Two(m, Tail(t_inbox)[i])
<1>1. PICK ms : ms = t_inbox
  OBVIOUS
<1>2. Heard(ms) /\ Lined(ms)
  BY <1>1 DEF TurnInv, TurnChannel, OneInv
<1>3. t_phase = "open"
  BY DEF OneInv, Connection
<1> QED BY <1>1, <1>2, <1>3, OneLess, LineMoves

LEMMA RestOfLine ==
    ASSUME TurnInv, OneInv, t_inbox # <<>>, NEW h, h = Head(t_inbox), t_inbox' = Tail(t_inbox),
           \A m \in Posted : One(m) /\ Says(m) /\ Two(h, m) => One(m)',
           \A m, n \in Posted : One(m) /\ One(n) /\ Two(m, n) => Two(m, n)'
    PROVE Lined(t_inbox)'
<1>1. PICK ms, ns : ms = t_inbox /\ ns = Tail(ms)
  OBVIOUS
<1>2. Heard(ms) /\ Lined(ms)
  BY <1>1 DEF TurnInv, TurnChannel, OneInv
<1>3. Heard(ns) /\ Lined(ns) /\ \A i \in 1..Len(ns) : Two(h, ns[i])
  BY <1>1, <1>2, OneLess, LineMoves
<1>4. Lined(ns)'
  BY <1>3, LineFollows
<1> QED BY <1>1, <1>4 DEF Lined

\* A message that changes nothing.
LEMMA SkipKeeps ==
    ASSUME TurnInv, OneInv, t_inbox # <<>>, t_inbox' = Tail(t_inbox),
           UNCHANGED <<t_phase, t_loaded, t_attached, t_subscribed, t_active, t_running, t_owner,
                       t_ended, t_asked, t_cur, t_pc, t_res>>
    PROVE OneInv'
<1>2. t_phase = "open"
  BY DEF OneInv, Connection
<1>3. Connection' /\ Server' /\ Entries'
  BY <1>2 DEF OneInv, Connection, Server, Entries, NoStart, T!Waiting, Keeping
<1>4. Requests'
  BY DEF OneInv, Requests, Asker, Awaited
<1>5. ASSUME NEW m, One(m) PROVE One(m)'
  BY <1>5 DEF One, Own, Asker, Awaited, NoStart
<1>6. ASSUME NEW m, NEW n, Two(m, n) PROVE Two(m, n)'
  BY <1>6 DEF Two, Own
<1>7. PICK h : h = Head(t_inbox)
  OBVIOUS
<1>8. Lined(t_inbox)'
  BY <1>5, <1>6, <1>7, RestOfLine
<1> QED BY <1>3, <1>4, <1>8 DEF OneInv

\* The entry after a notification.
LEMMA NoteBook ==
    ASSUME TurnInv, OneInv, NEW m \in Posted, m.kind \in T!Notes, One(m), Says(m),
           UNCHANGED <<t_phase, t_running, t_owner, t_ended, t_asked, t_loaded>>,
           t_active' = T!EntryAfter(m), t_attached' = (t_attached /\ m.kind # "closed"),
           t_pc' = t_pc \/ (t_pc \in {"starting", "waiting"} /\ t_pc' = "idle")
    PROVE /\ Entries' /\ (t_attached' => t_attached)
          /\ t_attached' /\ ~NoStart =>
                /\ t_active'.none = t_active.none /\ t_active'.turn = t_active.turn
                /\ t_active'.doubt = t_active.doubt
          /\ \A n \in Posted : One(n) /\ Two(m, n) /\ n.kind = "started" /\ t_attached' =>
                /\ ~t_active'.none /\ ~t_active'.doubt /\ t_active'.turn \in {0, n.turn}
                /\ n.turn \notin t_active'.over
<1> DEFINE Later(n) == /\ ~t_active'.none /\ ~t_active'.doubt /\ t_active'.turn \in {0, n.turn}
                       /\ n.turn \notin t_active'.over
<1>1. t_active \in Book /\ TurnServer /\ NoStart' = NoStart /\ m.turn \in Nat
  BY DEF OneInv, Entries, TurnInv, NoStart, Posted
<1>2. CASE m.kind = "closed"
  <2>1. t_active' = T!NoEntry /\ ~t_attached' /\ T!NoEntry \in Book
    BY <1>2 DEF T!EntryAfter, T!NoEntry, Book
  <2>2. Entries'
    BY <1>1, <1>2, <2>1 DEF OneInv, Entries, T!NoEntry, One, Keeping
  <2> QED BY <2>1, <2>2
<1>3. CASE m.kind # "closed" /\ t_active' = t_active
  <2>1. (t_attached' <=> t_attached)
    BY <1>3
  <2>2. Entries'
    BY <1>1, <1>3, <2>1 DEF OneInv, Entries, Keeping
  <2> QED BY <1>3, <2>1, <2>2 DEF One
<1>4. CASE m.kind = "started" /\ T!Busy /\ t_active.turn = 0
  <2>1. /\ t_active' = [t_active EXCEPT !.turn = m.turn] /\ (t_attached' <=> t_attached) /\ ~t_active.none
    BY <1>4 DEF T!EntryAfter, T!Busy
  <2>2. /\ t_active'.turn = m.turn /\ t_active'.none = t_active.none /\ t_active'.doubt = t_active.doubt
        /\ t_active'.over = t_active.over /\ t_active'.starting = t_active.starting /\ t_active' \in Book
    BY <1>1, <2>1 DEF Book
  <2>3. t_attached => m.turn = Len(t_owner) /\ NoStart /\ t_pc # "reading"
    BY <1>4 DEF One
  <2>4. Entries'
    BY <1>1, <1>4, <2>1, <2>2, <2>3 DEF OneInv, Entries, Server, Keeping
  <2>5. \A n \in Posted : One(n) /\ n.kind = "started" /\ t_attached' => Later(n)
    BY <2>1, <2>2, <2>3 DEF One
  <2> QED BY <2>1, <2>3, <2>4, <2>5
<1>5. CASE m.kind \in {"completed", "failed"} /\ T!Busy /\ t_active.turn = m.turn
  <2>1. t_active' = T!NoEntry /\ (t_attached' <=> t_attached) /\ T!NoEntry \in Book /\ ~t_active.none
    BY <1>5 DEF T!EntryAfter, T!NoEntry, T!Busy, Book
  <2>2. m.turn \in 1..Len(t_owner) /\ t_ended[m.turn] # "no" /\ m.turn # 0
    BY <1>5 DEF Says
  <2>3. t_attached => t_running = 0
    BY <1>1, <1>5, <2>2 DEF TurnServer, OneInv, Entries
  <2>4. Entries'
    BY <1>1, <1>5, <2>1, <2>3 DEF OneInv, Entries, T!NoEntry, Keeping
  <2>5. t_attached => NoStart
    BY <1>5, <2>2 DEF OneInv, Requests, NoStart
  <2>6. \A n \in Posted : One(n) /\ Two(m, n) /\ n.kind = "started" /\ t_attached' => FALSE
    BY <1>5, <2>1, <2>2 DEF One, Two
  <2> QED BY <2>1, <2>4, <2>5, <2>6
<1>6. CASE m.kind \in {"completed", "failed"} /\ T!Busy /\ t_active.turn = 0 /\ t_active.turn # m.turn
  <2>1. t_active.starting /\ ~t_active.none
    BY <1>6 DEF OneInv, Entries, T!Busy
  <2>2. /\ t_active' = [t_active EXCEPT !.over = @ \cup {m.turn}] /\ (t_attached' <=> t_attached)
    BY <1>6, <2>1 DEF T!EntryAfter, T!Busy
  <2>3. /\ t_active'.turn = t_active.turn /\ t_active'.none = t_active.none /\ t_active'.doubt = t_active.doubt
        /\ t_active'.over = t_active.over \cup {m.turn} /\ t_active'.starting = t_active.starting
        /\ t_active' \in Book
    BY <1>1, <2>2 DEF Book
  <2>4. m.turn \in 1..Len(t_owner) /\ t_ended[m.turn] # "no"
    BY <1>6 DEF Says
  <2>5. Entries'
    BY <1>1, <2>2, <2>3, <2>4 DEF OneInv, Entries, Keeping
  <2>6. \A n \in Posted : One(n) /\ Two(m, n) /\ n.kind = "started" /\ t_attached' => Later(n)
    BY <1>6, <2>2, <2>3 DEF One, Two
  <2> QED BY <2>2, <2>3, <2>5, <2>6
<1>7. t_active' = t_active \/ ~(m.kind # "closed" /\ ~(m.kind = "started" /\ T!Busy /\ t_active.turn = 0)
                               /\ ~(m.kind \in {"completed", "failed"} /\ T!Busy /\ t_active.turn \in {0, m.turn}))
  BY DEF T!EntryAfter
<1> QED BY <1>2, <1>3, <1>4, <1>5, <1>6, <1>7

LEMMA NoteKeepsOne == ASSUME TurnInv, OneInv, None \notin Asking, T!Note PROVE OneInv'
<1>1. /\ t_inbox # <<>> /\ t_inbox' = Tail(t_inbox)
      /\ UNCHANGED <<t_phase, t_running, t_owner, t_ended, t_asked, t_loaded, t_subscribed>>
  BY DEF T!Note, T!server
<1>2. PICK h : h = Head(t_inbox)
  OBVIOUS
<1>3. /\ h \in Posted /\ One(h) /\ Says(h) /\ t_phase = "open" /\ h.kind \in T!Notes
      /\ t_active' = T!EntryAfter(h) /\ t_attached' = (t_attached /\ h.kind # "closed")
  BY <1>1, <1>2, FirstInLine DEF T!Note
<1>4. \/ UNCHANGED <<t_cur, t_pc, t_res>>
      \/ t_pc \in {"starting", "waiting"} /\ t_cur \in Asking /\ \E r : T!Finish(r) /\ r.is # "none"
  <2>1. CASE t_pc \notin {"starting", "waiting"}
    BY <2>1 DEF T!Note, T!Stay
  <2>2. CASE t_pc \in {"starting", "waiting"} /\ h.kind = "closed"
    <3> DEFINE r == [is |-> "disconnected", turn |-> t_mine, from |-> {}]
    <3>1. T!Finish(r) /\ r.is # "none"
      BY <1>2, <2>2 DEF T!Note
    <3> HIDE DEF r
    <3> QED BY <2>2, <3>1 DEF TurnInv, TurnClient
  <2>3. CASE t_pc \in {"starting", "waiting"} /\ h.kind # "closed" /\ t_mine = 0
    BY <1>2, <2>3 DEF T!Note
  <2>4. CASE t_pc \in {"starting", "waiting"} /\ h.kind # "closed" /\ t_mine # 0
    <3>1. PICK s, t : s = T!Collected(<<h>>, t_mine, t_items) /\ t = t_mine
      OBVIOUS
    <3>2. T!Settle(s, t) /\ t_pc = "waiting" /\ t_cur \in Asking
      BY <1>2, <2>4, <3>1 DEF T!Note, TurnInv, TurnClient
    <3>3. CASE s.end = "none"
      BY <3>2, <3>3 DEF T!Settle
    <3>4. CASE s.end # "none"
      <4> DEFINE r == [is |-> s.end, turn |-> t, from |-> IF s.end = "completed" THEN s.items ELSE {}]
      <4>1. T!Finish(r) /\ r.is # "none"
        BY <3>2, <3>4 DEF T!Settle
      <4> HIDE DEF r
      <4> QED BY <3>2, <4>1
    <3> QED BY <3>3, <3>4
  <2> QED BY <2>1, <2>2, <2>3, <2>4
<1>5. /\ t_pc' = t_pc \/ (t_pc \in {"starting", "waiting"} /\ t_pc' = "idle")
      /\ \A c \in Asking : Asker(c) => Asker(c)'
      /\ \A c \in Asking : c = t_cur' => c = t_cur /\ t_pc' = t_pc
      /\ t_cur' # None => t_res'[t_cur'].is = "none"
  <2>1. CASE UNCHANGED <<t_cur, t_pc, t_res>>
    BY <2>1 DEF Asker, OneInv, Connection
  <2>2. CASE t_pc \in {"starting", "waiting"} /\ t_cur \in Asking /\ \E r : T!Finish(r) /\ r.is # "none"
    <3>1. PICK r : T!Finish(r) /\ r.is # "none"
      BY <2>2
    <3> QED BY <2>2, <3>1, FreeKeeps
  <2> QED BY <1>4, <2>1, <2>2
<1>6. Connection'
  BY <1>1, <1>3, <1>5 DEF OneInv, Connection, Keeping
<1>7. Server' /\ NoStart' = NoStart
  BY <1>1 DEF OneInv, Server, NoStart
<1>8. /\ Entries' /\ (t_attached' => t_attached)
      /\ t_attached' /\ ~NoStart =>
            /\ t_active'.none = t_active.none /\ t_active'.turn = t_active.turn
            /\ t_active'.doubt = t_active.doubt
      /\ \A n \in Posted : One(n) /\ Two(h, n) /\ n.kind = "started" /\ t_attached' =>
            /\ ~t_active'.none /\ ~t_active'.doubt /\ t_active'.turn \in {0, n.turn}
            /\ n.turn \notin t_active'.over
  BY <1>1, <1>3, <1>5, NoteBook
<1>9. Requests'
  <2> SUFFICES ASSUME NEW i \in 1..Len(t_asked)
               PROVE /\ Asker(t_asked[i].call)'
                     /\ t_asked[i].call = t_cur' => t_asked[i].kind = Awaited' /\ i = Len(t_asked)
                     /\ t_asked[i].kind = "resume" => ~t_attached' /\ t_pc' \notin Keeping
                     /\ t_asked[i].kind = "start" /\ t_attached' =>
                          /\ ~t_active'.none /\ ~t_active'.doubt /\ t_active'.turn = 0 /\ t_running = 0
                          /\ \A j \in 1..Len(t_asked) : t_asked[j].kind = "start" => i = j
    BY <1>1 DEF Requests
  <2>1. PICK c : c = t_asked[i].call
    OBVIOUS
  <2>2. c \in Asking /\ Asker(c)
    BY <2>1 DEF OneInv, Requests, Asker
  <2>3. Asker(c)' /\ (c = t_cur' => c = t_cur /\ Awaited' = Awaited)
    BY <1>5, <2>2 DEF Awaited
  <2>4. t_asked[i].kind = "start" => ~NoStart
    BY DEF NoStart
  <2>5. t_pc' \in Keeping => t_pc \in Keeping
    BY <1>5 DEF Keeping
  <2> QED BY <1>1, <1>8, <2>1, <2>3, <2>4, <2>5 DEF OneInv, Requests
<1>10. ASSUME NEW n \in Posted, One(n), Two(h, n) PROVE One(n)'
  <2>1. n.kind \in Replies => Asker(n.call) /\ n.call \in Asking
    BY <1>10 DEF One, Asker
  <2>2. n.kind \in Replies => Asker(n.call)'
    <3>1. PICK c : c = n.call
      OBVIOUS
    <3> QED BY <1>5, <2>1, <3>1
  <2>3. Own(n)' => Own(n) /\ Awaited' = Awaited
    BY <1>5, <2>1 DEF Own, Awaited
  <2>4. t_pc' # t_pc => t_pc' = "idle"
    BY <1>5
  <2> QED BY <1>1, <1>7, <1>8, <1>10, <2>2, <2>3, <2>4 DEF One
<1>11. ASSUME NEW m \in Posted, NEW n \in Posted, One(m), One(n), Two(m, n) PROVE Two(m, n)'
  <2>1. Own(m)' => Own(m)
    BY <1>5, <1>11 DEF Own, One, Asker
  <2>2. Own(n)' => Own(n)
    BY <1>5, <1>11 DEF Own, One, Asker
  <2> QED BY <1>1, <1>8, <1>11, <2>1, <2>2 DEF Two
<1>12. Lined(t_inbox)'
  BY <1>1, <1>2, <1>10, <1>11, RestOfLine
<1> QED BY <1>6, <1>7, <1>8, <1>9, <1>12 DEF OneInv

LEMMA ServeKeepsOne == ASSUME TurnInv, OneInv, T!Serve PROVE OneInv'
BY SkipKeeps DEF T!Serve, T!client

\* An answer that was waited for: nothing else of the call is on its way.
LEMMA AnsweredKeeps ==
    ASSUME TurnInv, OneInv, None \notin Asking, t_inbox # <<>>, t_inbox' = Tail(t_inbox),
           NEW h, h = Head(t_inbox), Own(h), One(h),
           UNCHANGED <<t_phase, t_running, t_owner, t_ended, t_loaded, t_subscribed>>,
           Connection', Entries',
           \A c \in Asking : Asker(c) => Asker(c)',
           \A c \in Asking : c = t_cur' => c = t_cur,
           \/ t_asked' = <<>>
           \/ t_asked' = <<[call |-> t_cur', kind |-> "read"]>> /\ Awaited' = "read" /\ t_cur' \in Asking,
           t_attached' => t_attached \/ Awaited = "resume",
           \A n \in Posted : One(n) /\ Two(h, n) /\ n.kind = "started" /\ t_attached' =>
                /\ t_attached /\ ~t_active'.none /\ ~t_active'.doubt /\ t_active'.turn \in {0, n.turn}
                /\ n.turn \notin t_active'.over /\ t_pc' # "reading",
           \A n \in Posted : One(n) /\ Two(h, n) /\ n.kind = "closed" /\ t_attached' => ~t_loaded
    PROVE OneInv'
<1>1. Server'
  BY DEF OneInv, Server
<1>2. Requests' /\ NoStart'
  <2>1. CASE t_asked' = <<>>
    BY <2>1 DEF Requests, NoStart
  <2>2. CASE t_asked' = <<[call |-> t_cur', kind |-> "read"]>> /\ Awaited' = "read" /\ t_cur' \in Asking
    <3>1. Len(t_asked') = 1 /\ t_asked'[1].call = t_cur' /\ t_asked'[1].kind = "read"
      BY <2>2
    <3>2. \A i \in 1..Len(t_asked') : i = 1
      BY <3>1
    <3> QED BY <2>2, <3>1, <3>2 DEF Requests, NoStart, Asker
  <2> QED BY <2>1, <2>2
<1>3. ASSUME NEW n \in Posted, One(n), Two(h, n) PROVE One(n)'
  <2>1. n.kind \in Replies => Asker(n.call) /\ n.call \in Asking
    BY <1>3 DEF One, Asker
  <2>2. n.kind \in Replies => Asker(n.call)'
    <3>1. PICK c : c = n.call
      OBVIOUS
    <3> QED BY <2>1, <3>1
  <2>3. ~Own(n)'
    <3>1. ~Own(n)
      BY <1>3 DEF Two
    <3> QED BY <2>1, <3>1 DEF Own
  <2> QED BY <1>2, <1>3, <2>2, <2>3 DEF One
<1>4. ASSUME NEW m \in Posted, NEW n \in Posted, One(m), One(n), Two(m, n) PROVE Two(m, n)'
  <2>1. Own(m)' => Own(m) /\ m.kind = Awaited
    BY <1>4 DEF Own, One, Asker
  <2>2. Own(n)' => Own(n) /\ n.kind = Awaited
    BY <1>4 DEF Own, One, Asker
  <2> QED BY <1>4, <2>1, <2>2 DEF Two
<1>5. Lined(t_inbox)'
  BY <1>3, <1>4, RestOfLine
<1> QED BY <1>1, <1>2, <1>5 DEF OneInv

LEMMA ReplyKeepsOne == ASSUME TurnInv, OneInv, None \notin Asking, T!Reply PROVE OneInv'
<1>1. /\ t_inbox # <<>> /\ t_inbox' = Tail(t_inbox) /\ Head(t_inbox).kind \in Replies
      /\ UNCHANGED <<t_phase, t_running, t_owner, t_ended, t_loaded, t_subscribed>>
  BY DEF T!Reply, T!server, Replies
<1>2. PICK h : h = Head(t_inbox)
  OBVIOUS
<1>3. h \in Posted /\ One(h) /\ Says(h) /\ t_phase = "open" /\ h.kind \in Replies
  BY <1>1, <1>2, FirstInLine
<1>4. CASE T!Late(h)
  <2>1. UNCHANGED <<t_active, t_attached, t_asked, t_cur, t_pc, t_res>>
    BY <1>2, <1>4 DEF T!Reply, T!Stay
  <2> QED BY <1>1, <2>1, SkipKeeps
<1> SUFFICES ASSUME ~T!Late(h) PROVE OneInv'
  BY <1>4
<1>5. /\ h.call = t_cur /\ Own(h) /\ t_asked = <<>> /\ h.kind = Awaited /\ t_cur \in Asking
      /\ t_pc = CASE h.kind = "resume" -> "resuming" [] h.kind = "read" -> "reading" [] OTHER -> "starting"
  <2>1. h.call = t_cur /\ Own(h)
    BY <1>3 DEF T!Late, Own
  <2>2. t_cur \in Asking /\ t_asked = <<>> /\ h.kind = Awaited
    BY <1>3, <2>1 DEF One, Asker
  <2> QED BY <2>1, <2>2 DEF T!Late
<1>6. /\ Asker(t_cur) /\ t_active \in Book /\ h.turn \in Nat /\ TurnServer
      /\ t_res[t_cur].is = "none" /\ t_cur # None
  BY <1>3, <1>5 DEF Asker, OneInv, Connection, Entries, Posted, TurnInv
<1>7. CASE h.kind = "start"
  <2>1. t_pc = "starting" /\ (t_attached' <=> t_attached) /\ UNCHANGED t_asked
    BY <1>2, <1>5, <1>7 DEF T!Reply
  <2>2. CASE h.turn = 0
    <3>1. PICK r : T!Finish(r) /\ r.is # "none"
      <4>1. T!Finish([is |-> "failed", turn |-> 0, from |-> {}])
        BY <1>2, <1>7, <2>2 DEF T!Reply
      <4>2. PICK r : r = [is |-> "failed", turn |-> 0, from |-> {}]
        OBVIOUS
      <4> QED BY <4>1, <4>2
    <3>2. t_active' = T!NoEntry
      BY <1>2, <1>7, <2>2 DEF T!Reply
    <3>3. t_cur' = None /\ t_pc' = "idle" /\ \A c \in Asking : Asker(c) => Asker(c)'
      BY <1>5, <3>1, FreeKeeps
    <3>4. t_attached => t_running = 0
      BY <1>3, <1>5, <1>7, <2>2 DEF One
    <3>5. Connection'
      BY <1>1, <1>3, <3>3 DEF Connection, T!Waiting
    <3>6. Entries'
      BY <1>1, <2>1, <3>2, <3>3, <3>4 DEF Entries, T!NoEntry, Book, Keeping
    <3>7. \A n \in Posted : Two(h, n) /\ n.kind = "started" => ~t_attached
      BY <1>5, <1>7, <2>2 DEF Two
    <3> QED BY <1>1, <1>2, <1>3, <1>5, <2>1, <3>3, <3>5, <3>6, <3>7, AnsweredKeeps DEF One
  <2>3. CASE h.turn # 0
    <3>1. PICK s, t : s = T!Collected(t_buffered, h.turn, t_items) /\ t = h.turn
      OBVIOUS
    <3>2. /\ T!Settle(s, t)
          /\ t_active' = IF ~T!Busy THEN t_active ELSE IF T!Ended(t) THEN T!NoEntry
                         ELSE [t_active EXCEPT !.turn = t, !.starting = FALSE]
      BY <1>2, <1>7, <2>3, <3>1 DEF T!Reply
    <3>3. /\ t_pc' \in {"waiting", "idle"} /\ \A c \in Asking : Asker(c) => Asker(c)'
          /\ t_cur' # None => t_cur' = t_cur /\ t_res'[t_cur'].is = "none"
      <4>1. CASE s.end = "none"
        BY <1>6, <3>2, <4>1 DEF T!Settle, Asker
      <4>2. CASE s.end # "none"
        <5> DEFINE r == [is |-> s.end, turn |-> t, from |-> IF s.end = "completed" THEN s.items ELSE {}]
        <5>1. T!Finish(r) /\ r.is # "none"
          BY <3>2, <4>2 DEF T!Settle
        <5> HIDE DEF r
        <5> QED BY <1>5, <5>1, FreeKeeps
      <4> QED BY <4>1, <4>2
    <3>4. Connection'
      BY <1>1, <1>3, <3>3 DEF Connection, Keeping
    <3>5. h.turn \in 1..Len(t_owner)
      BY <1>3, <1>5, <1>7, <2>3 DEF Says, One
    <3>6. t_attached => h.turn = Len(t_owner)
      BY <1>3, <1>5, <1>7, <2>3 DEF One
    <3>7. t_attached /\ t_running # 0 => t_running = t /\ ~t_active.none /\ ~t_active.doubt /\ ~T!Ended(t)
      BY <1>6, <3>1, <3>6 DEF OneInv, Server, Entries, TurnServer, T!Ended
    <3>8. CASE ~T!Busy
      <4>1. t_active' = t_active
        BY <3>2, <3>8
      <4>2. Entries'
        BY <1>1, <2>1, <3>3, <4>1 DEF OneInv, Entries, Keeping
      <4> QED BY <1>1, <1>2, <1>3, <1>5, <2>1, <3>3, <3>4, <4>1, <4>2, AnsweredKeeps DEF One
    <3>9. CASE T!Busy /\ T!Ended(t)
      <4>1. t_active' = T!NoEntry
        BY <3>2, <3>9
      <4>2. Entries'
        BY <1>1, <2>1, <3>3, <3>7, <3>9, <4>1 DEF OneInv, Entries, Keeping, T!NoEntry, Book
      <4>3. \A n \in Posted : One(n) /\ n.kind = "started" => ~t_attached
        BY <3>1, <3>6, <3>9 DEF One, T!Ended
      <4> QED BY <1>1, <1>2, <1>3, <1>5, <2>1, <3>3, <3>4, <4>2, <4>3, AnsweredKeeps DEF One
    <3>10. CASE T!Busy /\ ~T!Ended(t)
      <4>1. t_active' = [t_active EXCEPT !.turn = t, !.starting = FALSE]
        BY <3>2, <3>10
      <4>2. /\ t_active'.turn = t /\ t_active'.none = t_active.none /\ t_active'.doubt = t_active.doubt
            /\ t_active'.over = t_active.over /\ t_active' \in Book /\ ~t_active.none
        BY <1>6, <3>1, <3>10, <4>1 DEF Book, T!Busy
      <4>3. Entries'
        BY <1>1, <2>1, <2>3, <3>1, <3>3, <3>7, <4>2 DEF OneInv, Entries, Keeping
      <4>4. \A n \in Posted : One(n) /\ n.kind = "started" /\ t_attached =>
              /\ ~t_active'.none /\ ~t_active'.doubt /\ t_active'.turn \in {0, n.turn}
              /\ n.turn \notin t_active'.over
        BY <3>1, <3>6, <4>2 DEF One
      <4> QED BY <1>1, <1>2, <1>3, <1>5, <2>1, <3>3, <3>4, <4>3, <4>4, AnsweredKeeps DEF One
    <3> QED BY <3>8, <3>9, <3>10
  <2> QED BY <2>2, <2>3
<1>8. CASE h.kind # "start"
  <2>1. T!Reconcile(h) /\ (t_attached' <=> (t_attached \/ h.kind = "resume"))
    BY <1>2, <1>8 DEF T!Reply
  <2>2. t_attached' /\ t_running # 0 => h.turn = t_running /\ (h.kind = "resume" => ~h.open)
    BY <1>3, <1>5, <1>8, <2>1 DEF One, OneInv, Entries, Replies
  <2>3. (h.kind = "resume" /\ t_pc = "resuming") \/ (h.kind = "read" /\ t_pc = "reading")
    BY <1>3, <1>5, <1>8 DEF Replies, Awaited
  <2>4. \A n \in Posted : One(n) /\ Two(h, n) /\ n.kind = "closed" /\ t_attached' => ~t_loaded
    BY <1>5, <2>1 DEF One, Two
  <2>5. ASSUME NEW n \in Posted, One(n), Two(h, n), n.kind = "started" PROVE ~t_attached'
    <3>1. CASE h.kind = "resume"
      BY <1>5, <2>5, <3>1 DEF Two
    <3>2. CASE h.kind = "read" /\ t_pc = "reading"
      BY <2>1, <2>5, <3>2 DEF One
    <3> QED BY <2>3, <3>1, <3>2
  <2>6. CASE ~h.open
    <3>1. /\ t_active' = IF h.turn # 0 THEN T!Entry(h.turn, FALSE) ELSE T!NoEntry
          /\ t_pc' = "attached" /\ t_asked' = t_asked /\ UNCHANGED <<t_cur, t_res>>
      BY <2>1, <2>6 DEF T!Reconcile
    <3>2. Connection'
      BY <1>1, <1>3, <1>6, <3>1 DEF Connection, T!Waiting, Keeping
    <3>3. Entries'
      <4>1. /\ t_active' \in Book /\ t_active'.turn = h.turn /\ t_active'.over = {} /\ ~t_active'.doubt
            /\ t_active'.none = (h.turn = 0)
        BY <1>6, <3>1 DEF T!Entry, T!NoEntry, Book
      <4>2. t_attached' \/ t_pc \in Keeping
        BY <2>1, <2>3 DEF Keeping
      <4> QED BY <1>1, <2>1, <2>2, <3>1, <4>1, <4>2 DEF OneInv, Entries
    <3>4. \A c \in Asking : Asker(c) => Asker(c)'
      BY <3>1 DEF Asker
    <3> QED BY <1>1, <1>2, <1>3, <1>5, <2>1, <2>5, <2>4, <3>1, <3>2, <3>3, <3>4, AnsweredKeeps
  <2>7. CASE h.open /\ h.kind = "resume"
    <3>1. /\ t_active' = T!Doubt /\ UNCHANGED <<t_cur, t_res>>
          /\ IF T!Busy THEN t_pc' = "reading" /\ T!Ask("read") ELSE t_pc' = "attached" /\ t_asked' = t_asked
      BY <2>1, <2>7 DEF T!Reconcile
    <3>2. t_running = 0 /\ t_attached'
      BY <1>3, <1>5, <2>1, <2>7 DEF One
    <3>3. \/ t_asked' = <<>> /\ t_pc' = "attached"
          \/ /\ t_asked' = <<[call |-> t_cur', kind |-> "read"]>> /\ t_pc' = "reading"
             /\ Awaited' = "read" /\ t_cur' \in Asking
      BY <1>5, <3>1 DEF T!Ask, Awaited
    <3>4. NoStart'
      <4>1. CASE t_asked' = <<>>
        BY <4>1 DEF NoStart
      <4>2. CASE t_asked' = <<[call |-> t_cur', kind |-> "read"]>>
        BY <4>2 DEF NoStart
      <4> QED BY <3>3, <4>1, <4>2
    <3>5. Connection'
      BY <1>1, <1>3, <1>6, <3>1, <3>3 DEF Connection, T!Waiting, Keeping
    <3>6. /\ t_active'.none = t_active.none /\ t_active'.turn = t_active.turn
          /\ t_active'.starting = t_active.starting /\ t_active'.over = t_active.over /\ t_active' \in Book
      BY <1>6, <3>1 DEF T!Doubt, Book
    <3>7. Entries'
      BY <1>1, <3>2, <3>3, <3>4, <3>6 DEF OneInv, Entries, Keeping
    <3>8. \A c \in Asking : Asker(c) => Asker(c)'
      BY <3>1 DEF Asker
    <3> QED BY <1>1, <1>2, <1>3, <1>5, <2>5, <2>4, <2>7, <3>1, <3>3, <3>5, <3>7, <3>8, AnsweredKeeps
  <2>8. CASE h.open /\ h.kind # "resume"
    <3>1. /\ UNCHANGED <<t_active, t_asked>> /\ \E r : T!Finish(r) /\ r.is # "none"
      <4>1. T!Finish([is |-> "failed", turn |-> 0, from |-> {}]) /\ UNCHANGED <<t_active, t_asked>>
        BY <2>1, <2>8 DEF T!Reconcile
      <4>2. PICK r : r = [is |-> "failed", turn |-> 0, from |-> {}]
        OBVIOUS
      <4> QED BY <4>1, <4>2
    <3>2. t_cur' = None /\ t_pc' = "idle" /\ \A c \in Asking : Asker(c) => Asker(c)'
      BY <1>5, <3>1, FreeKeeps
    <3>3. Connection'
      BY <1>1, <1>3, <3>2 DEF Connection, T!Waiting
    <3>4. Entries'
      BY <1>1, <2>1, <2>8, <3>1, <3>2 DEF OneInv, Entries, Keeping
    <3> QED BY <1>1, <1>2, <1>3, <1>5, <2>1, <2>5, <2>4, <2>8, <3>1, <3>2, <3>3, <3>4, AnsweredKeeps
  <2> QED BY <2>6, <2>7, <2>8
<1> QED BY <1>7, <1>8

-----------------------------------------------------------------------------
(* What the server does. *)

\* What may be added at the end of the line.
LEMMA PostLine ==
    ASSUME TurnInv, OneInv, NEW m \in Posted,
           \A x \in Posted : One(x) /\ Says(x) => One(x)',
           \A x, y \in Posted : One(x) /\ One(y) /\ Two(x, y) => Two(x, y)',
           \/ t_inbox' = t_inbox
           \/ /\ t_inbox' = Append(t_inbox, m) /\ One(m)'
              /\ \A x \in Posted : One(x) /\ Says(x) => Two(x, m)'
    PROVE Lined(t_inbox)'
<1>1. PICK ms : ms = t_inbox
  OBVIOUS
<1>2. Heard(ms) /\ Lined(ms)
  BY <1>1 DEF TurnInv, TurnChannel, OneInv
<1>3. Lined(ms)'
  BY <1>2, LineStays
<1>4. CASE t_inbox' = t_inbox
  BY <1>1, <1>3, <1>4 DEF Lined
<1>5. CASE /\ t_inbox' = Append(t_inbox, m) /\ One(m)'
           /\ \A x \in Posted : One(x) /\ Says(x) => Two(x, m)'
  <2>1. ASSUME NEW i \in 1..Len(ms) PROVE Two(ms[i], m)'
    <3>1. PICK x : x = ms[i]
      OBVIOUS
    <3>2. x \in Posted /\ One(x) /\ Says(x)
      BY <1>2, <3>1 DEF Heard, Lined
    <3>3. Two(x, m)'
      BY <1>5, <3>2
    <3> QED BY <3>1, <3>3
  <2>2. Lined(Append(ms, m))'
    BY <1>3, <1>5, <2>1, LineGrows
  <2> QED BY <1>1, <1>5, <2>2 DEF Lined
<1> QED BY <1>4, <1>5

\* Notifications of what runs, ends or is unloaded.
LEMMA NotedKeeps ==
    ASSUME TurnInv, OneInv, Older,
           UNCHANGED <<t_phase, t_attached, t_active, t_cur, t_pc, t_res, t_asked, t_owner>>,
           t_running' \in {t_running, 0}, t_loaded' => t_loaded, t_subscribed' => t_subscribed /\ t_loaded',
           t_running' # 0 => t_loaded',
           NEW m \in Posted, m.kind \in {"item", "ask", "completed", "failed", "closed"},
           m.kind = "closed" => ~t_loaded',
           t_inbox' = t_inbox \/ (t_subscribed /\ t_inbox' = Append(t_inbox, m))
    PROVE OneInv'
<1>1. Connection'
  <2>1. t_phase # "open" => t_inbox' = t_inbox /\ ~t_subscribed'
    BY DEF OneInv, Connection
  <2> QED BY <2>1 DEF OneInv, Connection, T!Waiting
<1>2. Server' /\ NoStart' = NoStart
  BY DEF OneInv, Server, NoStart
<1>3. Entries'
  <2>1. \A t \in t_active.over : t \in 1..Len(t_owner') /\ t_ended'[t] # "no"
    BY DEF OneInv, Entries, Older
  <2> QED BY <1>2, <2>1 DEF OneInv, Entries
<1>4. Requests'
  BY DEF OneInv, Requests, Asker, Awaited
<1>5. ASSUME NEW x, One(x) PROVE One(x)'
  <2>1. Own(x)' = Own(x) /\ Awaited' = Awaited /\ (Asker(x.call) => Asker(x.call)')
    BY DEF Own, Awaited, Asker
  <2> QED BY <1>2, <1>5, <2>1 DEF One
<1>6. ASSUME NEW x, NEW y, Two(x, y) PROVE Two(x, y)'
  BY <1>6 DEF Two, Own
<1>7. One(m)' /\ \A x : Two(x, m)'
  BY DEF One, Two, Own, Replies
<1>8. Lined(t_inbox)'
  BY <1>5, <1>6, <1>7, PostLine
<1> QED BY <1>1, <1>2, <1>3, <1>4, <1>8 DEF OneInv

LEMMA NotesKeepOne == ASSUME TurnInv, OneInv, T!Item \/ T!Request \/ T!Unload \/ T!Complete PROVE OneInv'
<1>1. /\ UNCHANGED <<t_phase, t_attached, t_active, t_cur, t_pc, t_res, t_asked, t_owner>>
      /\ t_running \in Nat
  BY DEF T!Item, T!Request, T!Unload, T!Complete, T!Asleep, T!client, T!server, TurnInv, TurnServer
<1>2. CASE T!Item \/ T!Request
  <2>1. UNCHANGED <<t_running, t_owner, t_ended, t_loaded, t_subscribed>>
    BY <1>2 DEF T!Item, T!Request, T!Asleep, T!server
  <2>2. PICK m \in [kind : {"item", "ask"}, turn : Nat] :
          t_inbox' = t_inbox \/ (t_subscribed /\ t_inbox' = Append(t_inbox, m))
    BY <1>1, <1>2 DEF T!Item, T!Request, T!Post, T!Msg
  <2>3. m \in Posted /\ Older
    BY <2>1, Unchanging DEF Posted, Kinds, TurnInv
  <2> QED BY <1>1, <2>1, <2>2, <2>3, NotedKeeps DEF OneInv, Server
<1>3. CASE T!Unload
  <2>1. UNCHANGED <<t_running, t_owner, t_ended>> /\ ~t_loaded' /\ ~t_subscribed' /\ t_running = 0
    BY <1>3 DEF T!Unload, T!Asleep
  <2>2. PICK m : m = [kind |-> "closed", turn |-> 0]
    OBVIOUS
  <2>3. t_inbox' = t_inbox \/ (t_subscribed /\ t_inbox' = Append(t_inbox, m))
    BY <1>3, <2>2 DEF T!Unload, T!Post, T!Msg
  <2>4. m \in Posted /\ Older
    BY <2>1, <2>2, Unchanging DEF Posted, Kinds, TurnInv
  <2> QED BY <1>1, <2>1, <2>2, <2>3, <2>4, NotedKeeps
<1>4. CASE T!Complete
  <2>1. PICK s \in {"completed", "failed"} :
          /\ t_ended' = [t_ended EXCEPT ![t_running] = s] /\ T!Post(T!Msg(s, t_running))
    BY <1>4 DEF T!Complete
  <2>2. UNCHANGED <<t_loaded, t_subscribed>> /\ t_running' = 0 /\ t_running # 0
    BY <1>4 DEF T!Complete
  <2>3. PICK m : m = [kind |-> s, turn |-> t_running]
    OBVIOUS
  <2>4. m \in Posted /\ (t_inbox' = t_inbox \/ (t_subscribed /\ t_inbox' = Append(t_inbox, m)))
    BY <1>1, <2>1, <2>3 DEF Posted, Kinds, T!Post, T!Msg
  <2>5. Older
    BY <1>1, <2>1, <2>2 DEF Older, TurnInv, TurnServer
  <2> QED BY <1>1, <2>2, <2>3, <2>4, <2>5, NotedKeeps DEF OneInv, Server
<1> QED BY <1>2, <1>3, <1>4

LEMMA ForeignKeepsOne == ASSUME TurnInv, OneInv, None \notin Asking, ~Crowded, T!Foreign PROVE OneInv'
<1>1. /\ UNCHANGED <<t_phase, t_attached, t_active, t_cur, t_pc, t_res, t_asked, t_subscribed>>
      /\ ~t_attached /\ ~t_subscribed /\ t_pc \in {"idle", "connect"} /\ t_loaded'
  BY DEF T!Foreign, T!Asleep, T!client
<1>2. t_inbox' = t_inbox
  BY <1>1 DEF T!Foreign, T!Post
<1>3. Older /\ Len(t_owner') = Len(t_owner) + 1 /\ t_running' = Len(t_owner')
  BY AnotherTurn DEF T!Foreign, TurnInv
<1>4. Connection' /\ Server'
  BY <1>1, <1>2, <1>3 DEF OneInv, Connection, Server, T!Waiting, Keeping
<1>5. Entries'
  <2>1. \A t \in t_active.over : t \in 1..Len(t_owner') /\ t_ended'[t] # "no"
    BY <1>3 DEF OneInv, Entries, Older, TurnInv, TurnServer
  <2> QED BY <1>1, <2>1 DEF OneInv, Entries, Keeping
<1>6. Requests'
  BY <1>1 DEF OneInv, Requests, Asker, Awaited
<1>7. \A x : One(x) => ~Own(x)
  BY <1>1, Unasked DEF Awaited
<1>8. ASSUME NEW x, One(x) PROVE One(x)'
  <2>1. Own(x)' = Own(x) /\ Awaited' = Awaited /\ (Asker(x.call) => Asker(x.call)')
    BY <1>1 DEF Own, Awaited, Asker
  <2> QED BY <1>1, <1>7, <1>8, <2>1 DEF One
<1>9. ASSUME NEW x, NEW y, One(x), One(y), Two(x, y) PROVE Two(x, y)'
  BY <1>1, <1>7, <1>9 DEF Two, Own
<1>10. PICK m : m \in [kind : {"ask"}, turn : Nat]
  <2>1. [kind |-> "ask", turn |-> 0] \in [kind : {"ask"}, turn : Nat]
    OBVIOUS
  <2> QED BY <2>1
<1>11. Lined(t_inbox)'
  BY <1>2, <1>8, <1>9, <1>10, PostLine DEF Posted, Kinds
<1> QED BY <1>4, <1>5, <1>6, <1>11 DEF OneInv

LEMMA OvertakeKeepsOne == ASSUME TurnInv, OneInv, T!Overtake PROVE OneInv'
<1>1. UNCHANGED <<t_phase, t_loaded, t_attached, t_subscribed, t_active, t_running, t_owner, t_ended,
                  t_asked, t_cur, t_pc, t_res>>
  BY DEF T!Overtake, T!client, T!server
<1>2. PICK i \in 1..Len(t_inbox) - 1 :
        /\ t_inbox[i].kind = "start" /\ t_inbox[i].turn # 0 /\ t_inbox[i + 1].kind \in T!Notes
        /\ t_inbox' = [t_inbox EXCEPT ![i] = t_inbox[i + 1], ![i + 1] = t_inbox[i]]
  BY DEF T!Overtake
<1>3. PICK ms, ns : ms = t_inbox /\ ns = [ms EXCEPT ![i] = ms[i + 1], ![i + 1] = ms[i]]
  OBVIOUS
<1>4. Heard(ms) /\ Lined(ms) /\ t_inbox' = ns
  BY <1>2, <1>3 DEF TurnInv, TurnChannel, OneInv
<1>5. Two(ms[i + 1], ms[i])
  BY <1>2, <1>3 DEF Two, Own, Replies, T!Notes
<1>6. Lined(ns)
  BY <1>2, <1>3, <1>4, <1>5, LineTurns
<1>7. Heard(ns)
  <2>1. /\ ms \in Seq(Posted) /\ i \in 1..Len(ms) /\ i + 1 \in 1..Len(ms)
        /\ ns \in Seq(Posted) /\ Len(ns) = Len(ms)
        /\ \A j \in 1..Len(ms) : ns[j] = ms[IF j = i THEN i + 1 ELSE IF j = i + 1 THEN i ELSE j]
    BY <1>2, <1>3, <1>4 DEF Heard
  <2>2. ASSUME NEW j \in 1..Len(ns) PROVE Says(ns[j])
    <3>1. PICK k \in 1..Len(ms) : ns[j] = ms[k]
      BY <2>1
    <3> QED BY <1>4, <3>1 DEF Heard
  <2> QED BY <2>1, <2>2 DEF Heard
<1>8. Connection'
  <2>1. t_phase = "open"
    <3>1. t_inbox # <<>>
      BY <1>2
    <3> QED BY <3>1 DEF OneInv, Connection
  <2> QED BY <1>1, <2>1 DEF OneInv, Connection, T!Waiting
<1>9. Server' /\ Entries' /\ Requests'
  BY <1>1 DEF OneInv, Server, Entries, Requests, NoStart, Asker, Awaited
<1>10. ASSUME NEW m, One(m) PROVE One(m)'
  BY <1>1, <1>10 DEF One, Own, Asker, Awaited, NoStart
<1>11. ASSUME NEW m, NEW n, Two(m, n) PROVE Two(m, n)'
  BY <1>1, <1>11 DEF Two, Own
<1>12. Lined(ns)'
  BY <1>6, <1>7, <1>10, <1>11, LineStays
<1> QED BY <1>4, <1>8, <1>9, <1>12 DEF OneInv, Lined

\* Requests are answered in their order.
LEMMA FewerAsked ==
    ASSUME TurnInv, OneInv, t_asked # <<>>, t_asked' = Tail(t_asked), NEW r, r = Head(t_asked)
    PROVE /\ r \in Asks /\ r = t_asked[1] /\ 1 \in 1..Len(t_asked)
          /\ Len(t_asked') = Len(t_asked) - 1 /\ t_phase = "open"
          /\ \A i \in 1..Len(t_asked') : t_asked'[i] = t_asked[i + 1] /\ i + 1 \in 1..Len(t_asked)
          /\ NoStart => NoStart'
          /\ \A m : One(m) => ~Own(m)
          /\ r.call = t_cur => t_asked' = <<>>
<1>1. /\ r \in Asks /\ r = t_asked[1] /\ 1 \in 1..Len(t_asked) /\ Len(t_asked) \in Nat
      /\ Len(t_asked') = Len(t_asked) - 1 /\ t_phase = "open" /\ t_asked' \in Seq(Asks)
      /\ \A i \in 1..Len(t_asked') : t_asked'[i] = t_asked[i + 1] /\ i + 1 \in 1..Len(t_asked)
  BY DEF TurnInv, TurnChannel, OneInv, Connection
<1>2. NoStart => NoStart'
  BY <1>1 DEF NoStart
<1>3. \A m : One(m) => ~Own(m)
  BY DEF One
<1>4. r.call = t_cur => t_asked' = <<>>
  <2>1. r.call = t_cur => Len(t_asked) = 1
    BY <1>1 DEF OneInv, Requests
  <2> QED BY <1>1, <2>1
<1> QED BY <1>1, <1>2, <1>3, <1>4

LEMMA FewerRequests ==
    ASSUME TurnInv, OneInv, t_asked # <<>>, t_asked' = Tail(t_asked), t_running' = t_running,
           UNCHANGED <<t_attached, t_active, t_cur, t_pc, t_res>>
    PROVE Requests'
<1>1. PICK r : r = Head(t_asked)
  OBVIOUS
<1>2. /\ Len(t_asked') = Len(t_asked) - 1 /\ Len(t_asked) \in Nat
      /\ \A i \in 1..Len(t_asked') : t_asked'[i] = t_asked[i + 1] /\ i + 1 \in 1..Len(t_asked)
  BY <1>1, FewerAsked DEF TurnInv, TurnChannel
<1> SUFFICES ASSUME NEW i \in 1..Len(t_asked')
             PROVE /\ Asker(t_asked[i].call)'
                   /\ t_asked'[i].call = t_cur => t_asked'[i].kind = Awaited /\ i = Len(t_asked')
                   /\ t_asked'[i].kind = "resume" => ~t_attached /\ t_pc \notin Keeping
                   /\ t_asked'[i].kind = "start" /\ t_attached =>
                        /\ ~t_active.none /\ ~t_active.doubt /\ t_active.turn = 0 /\ t_running = 0
                        /\ \A j \in 1..Len(t_asked') : t_asked'[j].kind = "start" => i = j
  BY DEF Requests, Awaited
<1>3. i + 1 \in 1..Len(t_asked) /\ t_asked'[i] = t_asked[i + 1]
  BY <1>2
<1>4. Asker(t_asked[i].call)'
  BY <1>3 DEF OneInv, Requests, Asker
<1>5. ASSUME t_asked'[i].kind = "start", t_attached, NEW j \in 1..Len(t_asked'), t_asked'[j].kind = "start"
      PROVE i = j
  <2>1. j + 1 \in 1..Len(t_asked) /\ t_asked[j + 1].kind = "start" /\ t_asked[i + 1].kind = "start"
    BY <1>2, <1>5
  <2>2. i + 1 = j + 1
    BY <1>3, <1>5, <2>1 DEF OneInv, Requests
  <2> QED BY <2>2
<1>6. /\ t_asked[i + 1].call = t_cur => t_asked[i + 1].kind = Awaited /\ i + 1 = Len(t_asked)
      /\ t_asked[i + 1].kind = "resume" => ~t_attached /\ t_pc \notin Keeping
      /\ t_asked[i + 1].kind = "start" /\ t_attached =>
           ~t_active.none /\ ~t_active.doubt /\ t_active.turn = 0 /\ t_running = 0
  BY <1>3 DEF OneInv, Requests
<1>7. i + 1 = Len(t_asked) => i = Len(t_asked')
  <2>1. PICK k, l : k = Len(t_asked) /\ l = Len(t_asked')
    OBVIOUS
  <2>2. k \in Nat /\ l = k - 1 /\ i \in 1..l
    BY <1>2, <2>1
  <2> QED BY <2>1, <2>2
<1> QED BY <1>3, <1>4, <1>5, <1>6, <1>7

\* A snapshot, or a refusal.
LEMMA AnswerKeepsOne ==
    ASSUME TurnInv, OneInv, None \notin Asking, T!Handle, NEW r, r = Head(t_asked),
           UNCHANGED <<t_running, t_owner, t_ended>>,
           NEW m \in Posted, m.kind = r.kind, m.call = r.call, t_inbox' = Append(t_inbox, m),
           IF r.kind = "start" THEN m.turn = 0 ELSE m.turn = t_running /\ (m.open => t_running = 0),
           r.kind # "resume" => (t_loaded' <=> t_loaded) /\ (t_subscribed' <=> t_subscribed),
           r.kind = "resume" => t_loaded' /\ t_subscribed'
    PROVE OneInv'
<1>1. /\ UNCHANGED <<t_phase, t_attached, t_active, t_cur, t_pc, t_res>>
      /\ t_asked # <<>> /\ t_asked' = Tail(t_asked)
  BY DEF T!Handle, T!Asleep, T!client
<1>2. /\ r \in Asks /\ r = t_asked[1] /\ 1 \in 1..Len(t_asked) /\ t_phase = "open"
      /\ NoStart => NoStart'
      /\ \A x : One(x) => ~Own(x)
      /\ r.call = t_cur => t_asked' = <<>>
  BY <1>1, FewerAsked
<1>3. /\ Asker(r.call) /\ r.call \in Asking /\ (r.call = t_cur => r.kind = Awaited)
      /\ r.kind = "resume" => ~t_attached /\ t_pc \notin Keeping
      /\ r.kind = "start" /\ t_attached => t_running = 0
  BY <1>2 DEF OneInv, Requests, Asker
<1>4. Connection'
  BY <1>1, <1>2 DEF OneInv, Connection
<1>5. Server'
  BY <1>1 DEF OneInv, Server
<1>6. Entries'
  BY <1>1, <1>2, <1>3 DEF OneInv, Entries
<1>7. Requests'
  BY <1>1, FewerRequests
<1>8. ASSUME NEW x, One(x) PROVE One(x)'
  <2>1. ~Own(x)' /\ (Asker(x.call) => Asker(x.call)')
    BY <1>1, <1>2, <1>8 DEF Own, Asker
  <2>2. CASE r.kind = "resume"
    BY <1>1, <1>3, <1>8, <2>1, <2>2 DEF One
  <2>3. CASE r.kind # "resume"
    BY <1>1, <1>2, <1>8, <2>1, <2>3 DEF One
  <2> QED BY <2>2, <2>3
<1>9. ASSUME NEW x, NEW y, One(x), One(y), Two(x, y) PROVE Two(x, y)'
  BY <1>1, <1>2, <1>9 DEF Two, Own
<1>10. One(m)'
  <2>1. Asker(m.call)' /\ m.kind \in Replies
    BY <1>1, <1>2, <1>3 DEF Asker, Asks, Replies
  <2>2. ASSUME Own(m)' PROVE /\ m.kind = Awaited' /\ t_asked' = <<>>
                             /\ m.kind = "resume" => t_running \in {0, m.turn} /\ (m.open => m.turn = 0)
                             /\ m.kind = "read" /\ t_attached => m.turn = 0
                             /\ m.kind = "start" /\ t_attached => m.turn = 0 /\ t_running = 0
    <3>1. m.kind = Awaited' /\ t_asked' = <<>> /\ r.call = t_cur
      BY <1>1, <1>2, <1>3, <2>2 DEF Own, Awaited
    <3>2. m.kind = "read" /\ t_attached => t_running = 0
      BY <1>1, <3>1 DEF Awaited, OneInv, Entries
    <3> QED BY <1>3, <3>1, <3>2
  <2> QED BY <1>1, <2>1, <2>2 DEF One, Replies
<1>11. ASSUME NEW x \in Posted, One(x) PROVE Two(x, m)'
  <2>1. ~Own(x)' /\ m.kind \in Replies
    BY <1>1, <1>2, <1>11 DEF Own, Asks, Replies
  <2>2. m.kind = "start" /\ t_attached => x.kind # "started"
    BY <1>2, <1>11 DEF One, NoStart
  <2> QED BY <1>1, <2>1, <2>2 DEF Two, Replies
<1>12. Lined(t_inbox)'
  BY <1>8, <1>9, <1>10, <1>11, PostLine
<1> QED BY <1>4, <1>5, <1>6, <1>7, <1>12 DEF OneInv

\* A turn of the client's begins.
LEMMA BeginKeepsOne ==
    ASSUME TurnInv, OneInv, None \notin Asking, T!Handle, NEW r, r = Head(t_asked), r.kind = "start",
           ~(t_running # 0 \/ ~t_loaded \/ Len(t_owner) = ServerTurns)
    PROVE OneInv'
<1>1. /\ UNCHANGED <<t_phase, t_attached, t_active, t_cur, t_pc, t_res, t_loaded, t_subscribed>>
      /\ t_asked # <<>> /\ t_asked' = Tail(t_asked)
  BY DEF T!Handle, T!Asleep, T!client
<1>2. /\ r \in Asks /\ r = t_asked[1] /\ 1 \in 1..Len(t_asked) /\ t_phase = "open" /\ Len(t_asked) \in Nat
      /\ \A i \in 1..Len(t_asked') : t_asked'[i] = t_asked[i + 1] /\ i + 1 \in 1..Len(t_asked)
      /\ Len(t_asked') = Len(t_asked) - 1
      /\ \A x : One(x) => ~Own(x)
      /\ r.call = t_cur => t_asked' = <<>>
  BY <1>1, FewerAsked DEF TurnInv, TurnChannel
<1>3. /\ Asker(r.call) /\ r.call \in Asking /\ (r.call = t_cur => r.kind = Awaited)
      /\ t_attached => /\ ~t_active.none /\ ~t_active.doubt /\ t_active.turn = 0
                       /\ \A j \in 1..Len(t_asked) : t_asked[j].kind = "start" => j = 1
                       /\ t_pc # "reading"
  BY <1>2 DEF OneInv, Requests, Asker, Entries, NoStart
<1>4. t_attached => NoStart'
  <2> SUFFICES ASSUME t_attached, NEW i \in 1..Len(t_asked') PROVE t_asked'[i].kind # "start"
    BY DEF NoStart
  <2> QED BY <1>2, <1>3
<1>5. PICK t : t = Len(t_owner) + 1
  OBVIOUS
<1>6. PICK a : a = [kind |-> "start", turn |-> t, call |-> r.call]
  OBVIOUS
<1>7. PICK n : n = [kind |-> "started", turn |-> t]
  OBVIOUS
<1>8. /\ t_running' = t /\ t_owner' = Append(t_owner, r.call) /\ t_ended' = Append(t_ended, "no")
      /\ \/ t_inbox' = t_inbox \o <<a, n>>
         \/ t_inbox' = t_inbox \o <<n, a>>
         \/ t_inbox' = Append(t_inbox, a)
  BY <1>5, <1>6, <1>7 DEF T!Handle, T!Msg
<1>9. Older /\ Len(t_owner') = t /\ t \in Nat \ {0} /\ Len(t_owner) = t - 1
  BY <1>2, <1>5, <1>8, AnotherTurn DEF Asks, TurnInv, TurnServer
<1>10. Connection' /\ Server'
  BY <1>1, <1>2, <1>8, <1>9 DEF OneInv, Connection, Server
<1>11. \A x \in t_active.over : x \in 1..Len(t_owner) /\ x \in 1..Len(t_owner') /\ t_ended'[x] # "no"
  BY <1>9 DEF OneInv, Entries, Older
<1>12. Entries'
  BY <1>1, <1>3, <1>4, <1>8, <1>11 DEF OneInv, Entries
<1>13. Requests'
  <2> SUFFICES ASSUME NEW i \in 1..Len(t_asked')
               PROVE /\ Asker(t_asked[i].call)'
                     /\ t_asked'[i].call = t_cur => t_asked'[i].kind = Awaited /\ i = Len(t_asked')
                     /\ t_asked'[i].kind = "resume" => ~t_attached /\ t_pc \notin Keeping
                     /\ t_asked'[i].kind = "start" => ~t_attached
    BY <1>1 DEF Requests, Awaited
  <2>1. i + 1 \in 1..Len(t_asked) /\ t_asked'[i] = t_asked[i + 1] /\ i \in Nat
    BY <1>2
  <2>2. Asker(t_asked[i].call)'
    BY <1>1, <2>1 DEF OneInv, Requests, Asker
  <2> QED BY <1>2, <1>4, <2>1, <2>2 DEF OneInv, Requests, NoStart
<1>14. ASSUME NEW x, One(x) PROVE One(x)'
  <2>1. ~Own(x)' /\ (Asker(x.call) => Asker(x.call)')
    BY <1>1, <1>2, <1>14 DEF Own, Asker
  <2>2. t_attached => x.kind # "started"
    BY <1>2, <1>14 DEF One, NoStart
  <2> QED BY <1>1, <1>14, <2>1, <2>2 DEF One
<1>15. ASSUME NEW x, NEW y, One(x), One(y), Two(x, y) PROVE Two(x, y)'
  BY <1>1, <1>2, <1>15 DEF Two, Own
<1>16. a \in Posted /\ n \in Posted
  BY <1>2, <1>6, <1>7, <1>9 DEF Asks, Posted, Kinds
<1>17. One(a)' /\ One(n)'
  <2>1. Asker(a.call)' /\ ~Own(n)' /\ a.kind = "start" /\ a.turn = t
    BY <1>1, <1>3, <1>6, <1>7 DEF Asker, Own, Replies
  <2>2. Own(a)' => t_asked' = <<>> /\ a.kind = Awaited'
    BY <1>1, <1>2, <1>3, <1>6 DEF Own, Awaited
  <2>3. One(a)'
    BY <1>9, <2>1, <2>2 DEF One
  <2>4. n.kind = "started" /\ n.turn = t /\ t \notin t_active.over
    BY <1>7, <1>9, <1>11
  <2>5. One(n)'
    BY <1>1, <1>3, <1>4, <1>9, <2>1, <2>4 DEF One, Replies
  <2> QED BY <2>3, <2>5
<1>18. /\ \A x : One(x) /\ Says(x) => Two(x, a)' /\ Two(x, n)'
       /\ Two(a, n)' /\ Two(n, a)'
  <2>1. a.kind = "start" /\ a.turn = t /\ n.kind = "started" /\ n.turn = t /\ ~Own(n)'
    BY <1>6, <1>7 DEF Own, Replies
  <2>2. ASSUME NEW x, One(x), Says(x) PROVE Two(x, a)' /\ Two(x, n)'
    <3>1. ~Own(x)'
      BY <1>1, <1>2, <2>2 DEF Own
    <3>2. x.kind \in {"completed", "failed"} => x.turn # t
      BY <1>9, <2>2 DEF Says
    <3> QED BY <1>9, <2>1, <3>1, <3>2 DEF Two
  <2> QED BY <1>9, <2>1, <2>2 DEF Two
<1>19. PICK ms : ms = t_inbox
  OBVIOUS
<1>20. Heard(ms) /\ Lined(ms)
  BY <1>19 DEF TurnInv, TurnChannel, OneInv
<1>21. Lined(ms)'
  BY <1>14, <1>15, <1>20, LineStays
<1>22. ASSUME NEW i \in 1..Len(ms) PROVE Two(ms[i], a)' /\ Two(ms[i], n)'
  <2>1. PICK x : x = ms[i]
    OBVIOUS
  <2>2. One(x) /\ Says(x)
    BY <1>20, <2>1 DEF Heard, Lined
  <2>3. Two(x, a)' /\ Two(x, n)'
    BY <1>18, <2>2
  <2> QED BY <2>1, <2>3
<1>23. Lined(Append(ms, a))' /\ Lined(Append(ms, n))'
  BY <1>16, <1>17, <1>21, <1>22, LineGrows
<1>24. ASSUME NEW u, NEW v, u \in Posted, v \in Posted, Two(u, v)', One(v)', Lined(Append(ms, u))',
              \A i \in 1..Len(ms) : Two(ms[i], v)'
       PROVE Lined(Append(Append(ms, u), v))'
  <2>1. PICK us : us = Append(ms, u)
    OBVIOUS
  <2>2. ms \in Seq(Posted) /\ Len(us) = Len(ms) + 1 /\ Len(ms) \in Nat
        /\ us[Len(ms) + 1] = u /\ \A i \in 1..Len(ms) : us[i] = ms[i]
    BY <1>20, <1>24, <2>1 DEF Heard
  <2>3. ASSUME NEW i \in 1..Len(us) PROVE Two(us[i], v)'
    <3>1. CASE i = Len(ms) + 1
      BY <1>24, <2>2, <3>1
    <3>2. CASE i \in 1..Len(ms)
      BY <1>24, <2>2, <3>2
    <3> QED BY <2>2, <3>1, <3>2
  <2>4. Lined(us)'
    BY <1>24, <2>1
  <2>5. Lined(Append(us, v))'
    BY <1>24, <2>3, <2>4, LineGrows
  <2> QED BY <2>1, <2>5
<1>25. Lined(Append(Append(ms, a), n))' /\ Lined(Append(Append(ms, n), a))'
  BY <1>16, <1>17, <1>18, <1>22, <1>23, <1>24
<1>26. ms \o <<a, n>> = Append(Append(ms, a), n) /\ ms \o <<n, a>> = Append(Append(ms, n), a)
  <2>1. ms \in Seq(Posted)
    BY <1>20 DEF Heard
  <2> QED BY <1>16, <2>1
<1>27. Lined(t_inbox)'
  BY <1>8, <1>19, <1>23, <1>25, <1>26 DEF Lined
<1> QED BY <1>10, <1>12, <1>13, <1>27 DEF OneInv

LEMMA HandleKeepsOne == ASSUME TurnInv, OneInv, None \notin Asking, T!Handle PROVE OneInv'
<1>1. t_asked # <<>> /\ t_running \in Nat
  BY DEF T!Handle, TurnInv, TurnServer
<1>2. PICK r : r = Head(t_asked)
  OBVIOUS
<1>3. r \in Asks
  BY <1>1, <1>2 DEF TurnInv, TurnChannel
<1>4. CASE r.kind # "start"
  <2>1. /\ UNCHANGED <<t_running, t_owner, t_ended>>
        /\ t_loaded' = (t_loaded \/ r.kind = "resume") /\ t_subscribed' = (t_subscribed \/ r.kind = "resume")
    BY <1>2, <1>4 DEF T!Handle
  <2>2. PICK open \in {FALSE, t_running = 0} :
          t_inbox' = Append(t_inbox, [kind |-> r.kind, turn |-> t_running, call |-> r.call, open |-> open])
    BY <1>2, <1>4 DEF T!Handle
  <2>3. PICK m : m = [kind |-> r.kind, turn |-> t_running, call |-> r.call, open |-> open]
    OBVIOUS
  <2>4. m \in Posted
    BY <1>1, <1>3, <2>2, <2>3 DEF Asks, Posted, Kinds
  <2>5. m.kind = r.kind /\ m.call = r.call /\ m.turn = t_running /\ (m.open => t_running = 0)
    BY <2>2, <2>3
  <2> QED BY <1>2, <1>4, <2>1, <2>2, <2>3, <2>4, <2>5, AnswerKeepsOne
<1>5. CASE r.kind = "start" /\ (t_running # 0 \/ ~t_loaded \/ Len(t_owner) = ServerTurns)
  <2>1. PICK m : m = [kind |-> "start", turn |-> 0, call |-> r.call]
    OBVIOUS
  <2>2. UNCHANGED <<t_running, t_owner, t_ended, t_loaded, t_subscribed>> /\ t_inbox' = Append(t_inbox, m)
    BY <1>2, <1>5, <2>1 DEF T!Handle
  <2>3. m \in Posted
    BY <1>3, <2>1 DEF Asks, Posted, Kinds
  <2>4. m.kind = r.kind /\ m.call = r.call /\ m.turn = 0
    BY <1>5, <2>1
  <2> QED BY <1>2, <1>5, <2>2, <2>3, <2>4, AnswerKeepsOne
<1>6. CASE r.kind = "start" /\ ~(t_running # 0 \/ ~t_loaded \/ Len(t_owner) = ServerTurns)
  BY <1>2, <1>6, BeginKeepsOne
<1> QED BY <1>4, <1>5, <1>6

LEMMA OneInit == ASSUME T!TurnsAssumption, T!Init PROVE OneInv
<1>1. T!NoEntry \in Book
  BY DEF T!NoEntry, Book
<1>2. Connection /\ Server
  BY DEF T!Init, T!TurnsAssumption, Connection, Server, T!Waiting
<1>3. Entries
  BY <1>1 DEF T!Init, Entries, T!NoEntry, Keeping
<1>4. Requests
  BY DEF T!Init, Requests
<1> QED BY <1>2, <1>3, <1>4, NoneInLine DEF OneInv, T!Init

LEMMA OneKeeps ==
    ASSUME T!TurnsAssumption, ~Crowded, TurnInv, OneInv, [T!Next]_(T!vars) PROVE OneInv'
<1>1. None \notin Asking
  BY DEF T!TurnsAssumption
<1>2. CASE UNCHANGED T!vars
  BY <1>2 DEF T!vars, T!client, T!server, OneInv, Connection, Server, Entries, Requests, Lined, One, Two,
              Own, Asker, Awaited, NoStart
<1>3. CASE T!Client
  BY <1>1, <1>3, OpeningKeepsOne, AttachKeepsOne, StartKeepsOne, NoteKeepsOne, ReplyKeepsOne, ServeKeepsOne DEF T!Client
<1>4. CASE T!Drop \/ T!Close \/ T!Timeout \/ T!Release
  BY <1>1, <1>4, OpeningKeepsOne, TimeoutKeepsOne, ReleaseKeepsOne
<1>5. CASE \E c \in Asking : T!Take(c)
  BY <1>1, <1>5, TakeKeepsOne
<1>6. CASE T!Serving \/ T!Foreign \/ T!Overtake \/ T!Item \/ T!Request \/ T!Unload
  BY <1>1, <1>6, HandleKeepsOne, NotesKeepOne, ForeignKeepsOne, OvertakeKeepsOne DEF T!Serving
<1> QED BY <1>2, <1>3, <1>4, <1>5, <1>6 DEF T!Next

\* The invariant, over that of the answers.
THEOREM OneInvariance == T!TurnsAssumption /\ ~Crowded /\ T!Spec => [](TurnInv /\ OneInv)
<1> SUFFICES ASSUME T!TurnsAssumption, ~Crowded PROVE T!Spec => [](TurnInv /\ OneInv)
  OBVIOUS
<1>1. T!Init => OneInv
  BY OneInit
<1>2. T!Init => TurnInv
  BY TurnInit
<1>3. TurnInv /\ OneInv /\ [T!Next]_(T!vars) => (TurnInv /\ OneInv)'
  BY OneKeeps, TurnKeeps
<1> QED BY <1>1, <1>2, <1>3, PTL DEF T!Spec

\* Only Start asks for a turn, and then none of the client's runs.
LEMMA StartsAlone ==
    ASSUME TurnInv, OneInv, [T!Next]_(T!vars), t_pc = "attached", t_pc' = "starting"
    PROVE t_running = 0
<1>1. t_cur # None
  BY DEF TurnInv, TurnClient
<1>2. T!Start
  <2>1. ~UNCHANGED T!vars /\ ~T!Connect /\ ~T!Advance /\ ~T!Attach /\ ~T!Serve
    BY DEF T!vars, T!client, T!Connect, T!Advance, T!Attach, T!Serve
  <2>2. \A r : ~T!Finish(r)
    BY DEF T!Finish
  <2>3. ~T!Retry /\ ~T!Drop /\ ~T!Close /\ ~T!Timeout /\ ~T!Release
    BY <2>2 DEF T!Retry, T!Drop, T!Close, T!Disconnect, T!Stay, T!Timeout, T!Release
  <2>4. ~T!Note
    BY DEF T!Note, T!Stay
  <2>5. ~T!Reply
    <3>1. \A s, t : ~T!Settle(s, t)
      BY <2>2 DEF T!Settle
    <3>2. \A m : ~T!Reconcile(m)
      BY <2>2 DEF T!Reconcile
    <3> QED BY <2>2, <3>1, <3>2 DEF T!Reply, T!Stay
  <2>6. \A c \in Asking : ~T!Take(c)
    BY <1>1 DEF T!Take
  <2>7. ~T!Serving /\ ~T!Overtake /\ ~T!Foreign /\ ~T!Item /\ ~T!Request /\ ~T!Unload
    BY DEF T!Serving, T!Complete, T!Handle, T!Overtake, T!Foreign, T!Item, T!Request, T!Unload, T!Asleep, T!client
  <2> QED BY <2>1, <2>3, <2>4, <2>5, <2>6, <2>7 DEF T!Next, T!Client
<1>3. ~T!Refuses /\ t_phase = "open"
  <2>1. \A r : ~T!Finish(r)
    BY DEF T!Finish
  <2> QED BY <1>2, <2>1 DEF T!Start
<1>4. t_active.none
  BY <1>3 DEF T!Refuses, T!Busy
<1>5. CASE t_attached
  BY <1>4, <1>5 DEF OneInv, Entries
<1>6. CASE ~t_attached
  <2>1. ~t_loaded
    BY <1>3, <1>6 DEF OneInv, Entries, Keeping
  <2> QED BY <2>1 DEF OneInv, Server
<1> QED BY <1>5, <1>6

\* A call asks for a turn only when none runs that the client began: not after a timeout, a
\* lost acknowledgement, a reconnection or a snapshot taken while a turn was ending.  Other
\* clients begin theirs only while this one does not hold the thread.
THEOREM OneAtATime == T!TurnsAssumption /\ ~Crowded /\ T!Spec => T!OneTurn
<1> SUFFICES ASSUME T!TurnsAssumption, ~Crowded PROVE T!Spec => T!OneTurn
  OBVIOUS
<1>1. TurnInv /\ OneInv /\ [T!Next]_(T!vars) =>
        [t_pc = "attached" /\ t_pc' = "starting" => t_running = 0 \/ t_owner[t_running] = None]_(T!vars)
  BY StartsAlone
<1>2. T!Spec => [](TurnInv /\ OneInv)
  BY OneInvariance
<1> QED BY <1>1, <1>2, PTL DEF T!Spec, T!OneTurn

-----------------------------------------------------------------------------
(* The suite. *)

QP == INSTANCE ThreadQueueProofs WITH
    MaxCrashes <- QueueCrashes, phase <- q_phase,
    threadOperations <- q_threadOperations, past <- q_past, tries <- q_tries,
    dispatched <- q_dispatched, told <- q_told, receipt <- q_receipt, seen <- q_seen,
    written <- q_written, inflight <- q_inflight, got <- q_got, crashes <- q_crashes

\* The queue of the suite is the one ThreadQueueProofs is about: the two instances under
\* the same substitution agree in how they begin, step by step, and in what is said.
LEMMA SameQueue ==
    /\ Q!Init <=> QP!Init
    /\ (Q!Next <=> QP!Next) /\ Q!vars = QP!vars
    /\ Q!InspectionHolds <=> QP!InspectionHolds
<1>1. Q!Init <=> QP!Init
  BY
    DEF Q!Init, QP!Init
<1>2. (Q!Next <=> QP!Next) /\ Q!vars = QP!vars
  BY
    DEF Q!op, Q!answer, Q!task, Q!vars, Q!Set, Q!Holds, Q!Turn, Q!Goes, Q!Tell, Q!Leave,
       Q!Settle, Q!Failure, Q!Enter, Q!Tick, Q!OnDeadline, Q!Deadline, Q!Start, Q!Marked,
       Q!Create, Q!Fails, Q!Inspect, Q!Prepare, Q!Attempt, Q!Send, Q!Write, Q!Unreachable,
       Q!Refused, Q!Wake, Q!Acknowledged, Q!Declined, Q!Lost, Q!Answer, Q!Observe, Q!Deliver,
       Q!Crash, Q!Operate, Q!Next, QP!op, QP!answer, QP!task, QP!vars, QP!Set, QP!Holds,
       QP!Turn, QP!Goes, QP!Tell, QP!Leave, QP!Settle, QP!Failure, QP!Enter, QP!Tick,
       QP!OnDeadline, QP!Deadline, QP!Start, QP!Marked, QP!Create, QP!Fails, QP!Inspect,
       QP!Prepare, QP!Attempt, QP!Send, QP!Write, QP!Unreachable, QP!Refused, QP!Wake,
       QP!Acknowledged, QP!Declined, QP!Lost, QP!Answer, QP!Observe, QP!Deliver, QP!Crash,
       QP!Operate, QP!Next, Q!Range, QP!Range
<1>3. Q!InspectionHolds <=> QP!InspectionHolds
  BY
    DEF Q!InspectionHolds, QP!InspectionHolds
<1> QED BY <1>1, <1>2, <1>3

\* What is promised is the same in both.
LEMMA SamePromise ==
    /\ Q!Promise!Init <=> QP!Promise!Init
    /\ Q!Promise!Next <=> QP!Promise!Next
<1>1. Q!Promise!Init <=> QP!Promise!Init
  BY DEF Q!Promise!Init, QP!Promise!Init
<1>2. Q!Promise!Next <=> QP!Promise!Next
  BY DEF Q!Promise!Next, Q!Promise!Deliver, Q!Promise!Tell, Q!Promise!Answers, QP!Promise!Next,
     QP!Promise!Deliver, QP!Promise!Tell, QP!Promise!Answers
<1> QED BY <1>1, <1>2

-----------------------------------------------------------------------------

suiteVars == <<part, vars, qVars, dVars, wVars, tVars, kVars>>

\* Each component of the suite is one of the behaviours its theorems are about.
LEMMA SuiteCreation == SuiteSpec => Spec
<1>1. SuiteInit => Init
  BY DEF SuiteInit
<1>2. [SuiteNext]_suiteVars => [Next]_vars
  BY DEF SuiteNext, suiteVars, vars
<1> QED BY <1>1, <1>2, PTL DEF SuiteSpec, Spec, suiteVars

LEMMA SuiteQueue == SuiteSpec => QP!Spec
<1>1. SuiteInit => QP!Init
  BY SameQueue DEF SuiteInit
<1>2. [SuiteNext]_suiteVars => [QP!Next]_(QP!vars)
  <2>1. UNCHANGED qVars => UNCHANGED (QP!vars)
    BY DEF qVars, QP!op, QP!answer, QP!task, QP!vars
  <2> QED BY <2>1, SameQueue DEF SuiteNext, suiteVars
<1> QED BY <1>1, <1>2, PTL DEF SuiteSpec, QP!Spec, suiteVars

LEMMA SuiteDispatch == SuiteSpec => D!Spec
<1>1. SuiteInit => D!Init
  BY DEF SuiteInit
<1>2. [SuiteNext]_suiteVars => [D!Next]_(D!vars)
  <2>1. UNCHANGED dVars => UNCHANGED (D!vars)
    BY DEF dVars, D!bridge, D!link, D!work, D!native, D!lifecycle, D!vars
  <2> QED BY <2>1 DEF SuiteNext, suiteVars
<1> QED BY <1>1, <1>2, PTL DEF SuiteSpec, D!Spec, suiteVars

LEMMA SuiteWait == SuiteSpec => W!Spec
<1>1. SuiteInit => W!Init
  BY DEF SuiteInit
<1>2. [SuiteNext]_suiteVars => [W!Next]_(W!vars)
  <2>1. UNCHANGED wVars => UNCHANGED (W!vars)
    BY DEF wVars, W!desktop, W!calls, W!vars
  <2> QED BY <2>1 DEF SuiteNext, suiteVars
<1> QED BY <1>1, <1>2, PTL DEF SuiteSpec, W!Spec, suiteVars

LEMMA SuiteTurns == SuiteSpec => T!Spec
<1>1. SuiteInit => T!Init
  BY DEF SuiteInit
<1>2. [SuiteNext]_suiteVars => [T!Next]_(T!vars)
  <2>1. UNCHANGED tVars => UNCHANGED (T!vars)
    BY DEF tVars, T!client, T!server, T!vars
  <2> QED BY <2>1 DEF SuiteNext, suiteVars
<1> QED BY <1>1, <1>2, PTL DEF SuiteSpec, T!Spec, suiteVars

-----------------------------------------------------------------------------

\* Beside the other components of the suite too one key makes one task, and what is
\* said of it is true.
THEOREM TasksAreTold == SuiteSpec => [](CreatedOnce /\ TruthIsTold)
BY SuiteCreation, OneCreation, Truthfulness, PTL

\* Between the inspection of a task and the write of a prompt nothing else is written
\* to it.
THEOREM SuiteInspection == SuiteSpec => []InspectionHolds
BY SuiteQueue, QP!InspectionKept, SameQueue, PTL DEF InspectionHolds

\* A prompt keeps the promise of Delivery in the queue of its task and on its way to
\* one of the two backends.
THEOREM SuiteKeepsPromise == SuiteSpec => KeepsPromise
<1>1. SuiteSpec => Q!KeepsPromise
  BY SuiteQueue, QP!PromptsKeepPromise, SamePromise, PTL
  DEF Q!KeepsPromise, QP!KeepsPromise, Q!Promise!Spec, QP!Promise!Spec
<1>2. D!DispatchAssumption
  BY CodexAssumption DEF CodexAssumption
<1>3. SuiteSpec => D!KeepsPromise
  BY <1>2, SuiteDispatch, RequestsKeepPromise, PTL
<1> QED BY <1>1, <1>3, PTL DEF KeepsPromise

\* The reply a caller gets is that of its own prompt: the one the rollout records after
\* it, or that of the turn of the app-server which the call started.
THEOREM SuiteReplies == SuiteSpec => []OwnReply
<1>1. W!WaitAssumption /\ T!TurnsAssumption
  BY CodexAssumption DEF CodexAssumption
<1>2. SuiteSpec => [](W!OwnReply /\ W!NotShared)
  BY <1>1, SuiteWait, RepliesAreOwn, PTL
<1>3. SuiteSpec => []T!OwnAnswer
  BY <1>1, SuiteTurns, AnswersAreOwn, PTL
<1> QED BY <1>2, <1>3, PTL DEF OwnReply

\* And at the app-server a call asks for a turn only when none of the client's runs, as
\* long as other clients keep off a thread that this one holds.
THEOREM SuiteTakesTurns == ~Crowded /\ SuiteSpec => OneTurn
<1> SUFFICES ASSUME ~Crowded PROVE SuiteSpec => OneTurn
  OBVIOUS
<1>1. T!TurnsAssumption
  BY CodexAssumption DEF CodexAssumption
<1>2. SuiteSpec => T!OneTurn
  BY <1>1, SuiteTurns, OneAtATime, PTL
<1> QED BY <1>2 DEF OneTurn

=============================================================================
