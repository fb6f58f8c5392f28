----------------------------- MODULE HostProofs -----------------------------
(***************************************************************************)
(* Theorems about the components of Host, and about all of them in the     *)
(* suite, for every value of the constants.  The supervisor has a module   *)
(* of its own, SupervisorProofs, whose theorems are used here.             *)
(***************************************************************************)
EXTENDS Host, FiniteSetTheorems, WellFoundedInduction, TLAPS

(* The registration in the host's configuration (ConfigEdits) *)

Text   == [entries : SUBSET (Setups \cup Edits), id : Nat]
Labels == {"read", "plan", "check", "stage", "rename", "verify", "undo", "restore", "restored", "done"}

\* The types of what the argument is about; positions may be any value.
Typing ==
    /\ file \in [Files -> Text] /\ version \in Nat
    /\ pc \in [Setups -> Labels] /\ at = [p \in Setups |-> at[p]]
    /\ orig \in [Setups -> [Files -> Text]] /\ mine \in [Setups -> [Files -> Nat]]
    /\ made \in [Edits -> Files \cup {"nowhere"}] /\ missed \subseteq Edits

\* A file that is not there holds nothing, and neither does a snapshot of it.
AbsentIsEmpty ==
    \A f \in Files :
        /\ file[f].id = 0 => file[f].entries = {}
        /\ \A p \in Setups : orig[p][f].id = 0 => orig[p][f].entries = {}

\* An identity is given once: what has the identity of p's write is p's text.
IdsAreFresh ==
    \A f \in Files :
        /\ file[f].id <= version
        /\ \A p \in Setups : mine[p][f] <= version

OwnText ==
    \A p \in Setups, f \in Files :
        mine[p][f] # 0 /\ file[f].id = mine[p][f] => file[f].entries \subseteq orig[p][f].entries \cup {p}

\* A setup that still reads has written nothing.
ReadsFirst == \A p \in Setups : pc[p] = "read" => \A f \in Files : mine[p][f] = 0

\* The snapshot from which a setup is about to write holds every edit of the file,
\* but for those made since the check.
Has(p, f) == \A e \in Edits \ missed : made[e] = f => e \in orig[p][f].entries
SafeToWrite ==
    \A p \in Setups : pc[p] \in {"rename", "restore"} /\ Current(p) \in Files => Has(p, Current(p))

Books == AbsentIsEmpty /\ IdsAreFresh /\ OwnText
IInv == Typing /\ Books /\ ReadsFirst /\ SafeToWrite /\ EditsAreKept

data == <<file, version, orig, mine, made, missed>>

-----------------------------------------------------------------------------

\* The initial states satisfy it.
LEMMA InitIInv == Init => IInv
<1> SUFFICES ASSUME Init PROVE IInv
  OBVIOUS
<1>1. \A f \in Files : file[f].entries = {} /\ file[f].id \in {0, 1} /\ file[f] \in Text
  BY DEF Init, Text
<1>2. Typing
  <2>1. file \in [Files -> Text]
    BY <1>1 DEF Init
  <2>2. orig \in [Setups -> [Files -> Text]]
    BY DEF Init, Text
  <2> QED BY <2>1, <2>2 DEF Init, Typing, Labels
<1>3. Books
  BY <1>1 DEF Init, Books, AbsentIsEmpty, IdsAreFresh, OwnText
<1>4. ReadsFirst /\ SafeToWrite /\ EditsAreKept
  BY DEF Init, ReadsFirst, SafeToWrite, EditsAreKept
<1> QED BY <1>2, <1>3, <1>4 DEF IInv

\* A setup that moves on without writing, to a step that does not write, keeps it.
LEMMA MoveKeeps ==
    ASSUME IInv, UNCHANGED data, NEW p \in Setups, NEW l \in Labels \ {"read"}, NEW i, Goto(p, l, i),
           l \in {"rename", "restore"} /\ Order[i] \in Files => Has(p, Order[i])
    PROVE  IInv'
<1> USE DEF IInv, data
<1>1. Typing'
  BY DEF Goto, Typing
<1>2. Books'
  BY DEF Books, AbsentIsEmpty, IdsAreFresh, OwnText
<1>3. ReadsFirst'
  BY DEF Goto, Typing, ReadsFirst
<1>4. SafeToWrite'
  <2> SUFFICES ASSUME NEW q \in Setups, pc'[q] \in {"rename", "restore"}, Current(q)' \in Files
               PROVE  Has(q, Current(q))'
    BY DEF SafeToWrite
  <2>1. CASE q = p
    BY <2>1 DEF Goto, Typing, Current, Has
  <2>2. CASE q # p
    BY <2>2 DEF Goto, Typing, Current, Has, SafeToWrite
  <2> QED BY <2>1, <2>2
<1>5. EditsAreKept'
  BY DEF EditsAreKept
<1> QED BY <1>1, <1>2, <1>3, <1>4, <1>5

\* So does one that turns back.
LEMMA BackKeeps ==
    ASSUME IInv, UNCHANGED data, NEW p \in Setups, NEW Z, NEW r, Back(p, Z, r)
    PROVE  IInv'
<1>1. CASE Goto(p, "done", 1)
  BY <1>1, MoveKeeps DEF Labels
<1>2. CASE Goto(p, "undo", Last(Z))
  BY <1>2, MoveKeeps DEF Labels
<1> QED BY <1>1, <1>2 DEF Back

\* What a snapshot of a file holds.
LEMMA SnapshotTypes ==
    ASSUME Typing, NEW p \in Setups, NEW f \in Files
    PROVE  orig[p][f].entries \in SUBSET (Setups \cup Edits) /\ orig[p][f].id \in Nat
<1>1. orig[p][f] \in Text
  BY DEF Typing
<1> QED BY <1>1 DEF Text

\* Whatever file a setup replaced, it knows it by a number.
LEMMA MineTypes ==
    ASSUME Typing, NEW p \in Setups, NEW f, mine' = [mine EXCEPT ![p][f] = version + 1]
    PROVE  mine' \in [Setups -> [Files -> Nat]]
<1>1. mine \in [Setups -> [Files -> Nat]] /\ version + 1 \in Nat
  BY DEF Typing
<1> DEFINE row == [mine[p] EXCEPT ![f] = version + 1]
<1>2. row = [g \in Files |-> IF g = f THEN version + 1 ELSE mine[p][g]]
  BY <1>1
<1>3. row \in [Files -> Nat]
  BY ONLY <1>1, <1>2, p \in Setups
<1>4. mine' = [mine EXCEPT ![p] = row]
  OBVIOUS
<1> HIDE DEF row
<1> QED BY ONLY <1>1, <1>3, <1>4, p \in Setups

\* Whatever file is put, a text in it keeps the types.
LEMMA PutTypes ==
    ASSUME NEW f, NEW E, NEW id, file \in [Files -> Text], version \in Nat, Put(f, E, id),
           f \in Files => E \in SUBSET (Setups \cup Edits) /\ id \in Nat
    PROVE  file' \in [Files -> Text] /\ version' \in Nat
<1> DEFINE v == [entries |-> E, id |-> id]
<1>1. file' = [file EXCEPT ![f] = v] /\ version' = version + 1
  BY DEF Put
<1>2. f \in Files => v \in Text
  BY DEF Text
<1> HIDE DEF v
<1>3. file' = [g \in Files |-> IF g = f THEN v ELSE file[g]]
  BY <1>1
<1>4. file' \in [Files -> Text]
  BY ONLY <1>2, <1>3, file \in [Files -> Text]
<1> QED BY <1>1, <1>4

\* A write to f, whatever it is, keeps the books if nobody else is given its identity.
LEMMA NextIInv == IInv /\ [Next]_vars => IInv'
<1> SUFFICES ASSUME IInv, [Next]_vars PROVE IInv'
  OBVIOUS
<1> USE ConfigAssumption
<1>1. ASSUME NEW p \in Setups, Read(p) PROVE IInv'
  <2> USE <1>1 DEF IInv, Read
  <2>1. Typing'
    BY DEF Goto, Typing, Text, Labels
  <2>2. Books'
    BY DEF Typing, Text, Books, AbsentIsEmpty, IdsAreFresh, OwnText, ReadsFirst
  <2>3. ReadsFirst'
    BY DEF Goto, Typing, ReadsFirst
  <2>4. SafeToWrite'
    BY DEF Goto, Typing, Current, Has, SafeToWrite
  <2>5. EditsAreKept'
    BY DEF EditsAreKept
  <2> QED BY <2>1, <2>2, <2>3, <2>4, <2>5
<1>2. ASSUME NEW p \in Setups, Plan(p) PROVE IInv'
  <2>1. CASE Goto(p, "done", 1)
    BY <1>2, <2>1, MoveKeeps DEF Plan, data, Labels
  <2>2. CASE Goto(p, "check", FirstOf(Lacking(p)))
    BY <1>2, <2>2, MoveKeeps DEF Plan, data, Labels
  <2> QED BY <1>2, <2>1, <2>2 DEF Plan
<1>3. ASSUME NEW p \in Setups, Check(p) PROVE IInv'
  <2>1. CASE Back(p, {}, "changed")
    BY <1>3, <2>1, BackKeeps DEF Check, data
  <2>2. CASE \E i : Goto(p, "check", i)
    BY <1>3, <2>2, MoveKeeps DEF Check, data, Labels
  <2>3. CASE Goto(p, "stage", FirstOf(Lacking(p)))
    BY <1>3, <2>3, MoveKeeps DEF Check, data, Labels
  <2> QED BY <1>3, <2>1, <2>2, <2>3 DEF Check
<1>4. ASSUME NEW p \in Setups, Stage(p) PROVE IInv'
  <2>1. CASE Back(p, Replaced(p), "changed")
    BY <1>4, <2>1, BackKeeps DEF Stage, data
  <2>2. CASE UnchangedSince(p) /\ Goto(p, "rename", at[p])
    <3>1. Current(p) \in Files => Has(p, Current(p))
      BY <2>2, ConfigAssumption DEF IInv, EditsAreKept, UnchangedSince, Has
    <3> QED BY <1>4, <2>2, <3>1, MoveKeeps DEF Stage, data, Labels, Current
  <2> QED BY <1>4, <2>1, <2>2 DEF Stage
<1>5. ASSUME NEW p \in Setups, Verify(p) PROVE IInv'
  <2>1. CASE Back(p, Replaced(p), "changed")
    BY <1>5, <2>1, BackKeeps DEF Verify, data
  <2>2. CASE \E i : Goto(p, "stage", i)
    BY <1>5, <2>2, MoveKeeps DEF Verify, data, Labels
  <2>3. CASE Goto(p, "done", 1)
    BY <1>5, <2>3, MoveKeeps DEF Verify, data, Labels
  <2> QED BY <1>5, <2>1, <2>2, <2>3 DEF Verify
<1>6. ASSUME NEW p \in Setups, Undo(p) PROVE IInv'
  <2>1. CASE IsMine(p) /\ Goto(p, "restore", at[p])
    <3>1. Current(p) \in Files => Has(p, Current(p))
      <4> SUFFICES ASSUME Current(p) \in Files, NEW e \in Edits \ missed, made[e] = Current(p)
                   PROVE  e \in orig[p][Current(p)].entries
        BY DEF Has
      <4>1. e \in file[Current(p)].entries
        BY ConfigAssumption DEF IInv, EditsAreKept
      <4>2. file[Current(p)].id # 0
        BY <4>1 DEF IInv, Books, AbsentIsEmpty
      <4>3. file[Current(p)].entries \subseteq orig[p][Current(p)].entries \cup {p}
        BY <2>1, <4>2 DEF IInv, IsMine, Books, OwnText
      <4> QED BY <4>1, <4>3, ConfigAssumption
    <3> QED BY <1>6, <2>1, <3>1, MoveKeeps DEF Undo, data, Labels, Current
  <2>2. CASE Onward(p, FALSE)
    BY <1>6, <2>2, BackKeeps DEF Undo, Onward, data
  <2> QED BY <1>6, <2>1, <2>2 DEF Undo
<1>7. ASSUME NEW p \in Setups, Restored(p) PROVE IInv'
  BY <1>7, BackKeeps DEF Restored, Onward, data
<1>8. ASSUME NEW p \in Setups, Fail(p) PROVE IInv'
  BY <1>8, BackKeeps DEF Fail, Onward, data
<1>9. ASSUME NEW p \in Setups, Crash(p) PROVE IInv'
  BY <1>9, MoveKeeps DEF Crash, data, Labels
<1>10. ASSUME NEW p \in Setups, Rename(p) PROVE IInv'
  <2> USE <1>10 DEF IInv, Rename
  <2>1. Typing'
    <3>4. file' \in [Files -> Text] /\ version' \in Nat
      <4> DEFINE E == orig[p][Current(p)].entries \cup {p}
                 n == version + 1
      <4>1. Current(p) \in Files => E \in SUBSET (Setups \cup Edits) /\ n \in Nat
        BY SnapshotTypes DEF Typing
      <4>2. Put(Current(p), E, n) /\ file \in [Files -> Text] /\ version \in Nat
        BY DEF Typing
      <4> HIDE DEF E, n
      <4> QED BY <4>1, <4>2, PutTypes
    <3>2. mine' \in [Setups -> [Files -> Nat]]
      BY MineTypes
    <3>3. pc' \in [Setups -> Labels] /\ at' = [q \in Setups |-> at'[q]]
      BY DEF Goto, Typing, Labels
    <3> QED BY <3>2, <3>3, <3>4 DEF Typing
  <2>2. Books'
    BY DEF Put, Typing, Text, Books, AbsentIsEmpty, IdsAreFresh, OwnText
  <2>3. ReadsFirst'
    BY DEF Goto, Typing, ReadsFirst
  <2>4. SafeToWrite'
    BY DEF Goto, Typing, Current, Has, SafeToWrite
  <2>5. EditsAreKept'
    BY DEF Put, Typing, Text, Has, SafeToWrite, EditsAreKept
  <2> QED BY <2>1, <2>2, <2>3, <2>4, <2>5
<1>11. ASSUME NEW p \in Setups, Restore(p) PROVE IInv'
  <2> USE <1>11 DEF IInv, Restore
  <2>1. Typing'
    <3>4. file' \in [Files -> Text] /\ version' \in Nat
      <4> DEFINE E == orig[p][Current(p)].entries
                 n == IF orig[p][Current(p)].id = 0 THEN 0 ELSE version + 1
      <4>1. Current(p) \in Files => E \in SUBSET (Setups \cup Edits) /\ n \in Nat
        BY SnapshotTypes DEF Typing
      <4>2. Put(Current(p), E, n) /\ file \in [Files -> Text] /\ version \in Nat
        BY DEF Typing
      <4> HIDE DEF E, n
      <4> QED BY <4>1, <4>2, PutTypes
    <3>2. mine' \in [Setups -> [Files -> Nat]]
      BY MineTypes
    <3>3. pc' \in [Setups -> Labels] /\ at' = [q \in Setups |-> at'[q]]
      BY DEF Goto, Typing, Labels
    <3> QED BY <3>2, <3>3, <3>4 DEF Typing
  <2>2. Books'
    BY DEF Put, Typing, Text, Books, AbsentIsEmpty, IdsAreFresh, OwnText
  <2>3. ReadsFirst'
    BY DEF Goto, Typing, ReadsFirst
  <2>4. SafeToWrite'
    BY DEF Goto, Typing, Current, Has, SafeToWrite
  <2>5. EditsAreKept'
    BY DEF Put, Typing, Text, Has, SafeToWrite, EditsAreKept
  <2> QED BY <2>1, <2>2, <2>3, <2>4, <2>5
<1>12. ASSUME NEW e \in Edits, NEW f \in Files, Edit(e, f) PROVE IInv'
  <2> USE <1>12 DEF IInv, Edit, steps
  <2>1. Typing'
    BY DEF Put, Typing, Text
  <2>2. Books'
    BY DEF Put, Typing, Text, Books, AbsentIsEmpty, IdsAreFresh, OwnText
  <2>3. ReadsFirst'
    BY DEF ReadsFirst
  <2>4. SafeToWrite'
    BY DEF Typing, Current, Has, Writing, SafeToWrite
  <2>5. EditsAreKept'
    BY DEF Put, Typing, Text, EditsAreKept
  <2> QED BY <2>1, <2>2, <2>3, <2>4, <2>5
<1>13. CASE UNCHANGED vars
  BY <1>13 DEF vars, steps, IInv, Typing, Books, AbsentIsEmpty, IdsAreFresh, OwnText,
     ReadsFirst, SafeToWrite, Current, Has, EditsAreKept
<1> QED BY <1>1, <1>2, <1>3, <1>4, <1>5, <1>6, <1>7, <1>8, <1>9, <1>10, <1>11, <1>12, <1>13 DEF Next, Step

-----------------------------------------------------------------------------

\* The inductive invariant holds in every reachable state.
THEOREM Invariance == Spec => []IInv
BY InitIInv, NextIInv, PTL DEF Spec

\* Whatever setups run, meet, fail, roll back or die, an edit of a configuration file
\* stays in it, unless it was made between a check and the write it was for.
THEOREM EditsSurvive == Spec => []EditsAreKept
BY Invariance, PTL DEF IInv

-----------------------------------------------------------------------------
(* All or nothing.  The argument is relative to the invariant above, of which it needs the types. *)

forward  == {"check", "stage", "rename", "verify"}
backward == {"undo", "restore", "restored"}

\* Where a setup is: going forward, at a file it has to replace; back, at one it has replaced.
Places ==
    /\ at \in [Setups -> DOMAIN Order] /\ result = [p \in Setups |-> result[p]]
    /\ \A p \in Setups :
        /\ pc[p] \in forward => at[p] \in Lacking(p)
        /\ pc[p] \in backward => at[p] \in Replaced(p)

\* Nothing is replaced before everything has been checked.
WritesLate == \A p \in Setups : pc[p] \in {"read", "plan", "check"} => Replaced(p) = {}

\* A setup's entry is only in files that it has replaced.
Signed == \A p \in Setups, i \in DOMAIN Order : p \in file[Order[i]].entries => i \in Replaced(p)

\* It replaces only files in which it found no setup's entry, so that what it puts
\* back, or overwrites, brings no other setup's entry with it.
Clean == \A p \in Setups : Replaced(p) \subseteq Lacking(p)

\* A roll-back that has met no error has cleared the files that it has been over.
PutBack ==
    \A p \in Setups, j \in DOMAIN Order :
        /\ pc[p] \in backward /\ result[p] \in {"changed", "failed"}
        /\ j > at[p] \/ (pc[p] = "restored" /\ j = at[p])
        => p \notin file[Order[j]].entries

AInv == Places /\ WritesLate /\ Signed /\ Clean /\ PutBack /\ AllOrNothing

\* The positions of the files are the numbers from 1.
LEMMA Positions ==
    /\ DOMAIN Order = 1 .. Len(Order) /\ DOMAIN Order \subseteq Nat
    /\ 1 \in DOMAIN Order /\ Len(Order) \in DOMAIN Order
    /\ \A i \in DOMAIN Order : Order[i] \in Files
BY ConfigAssumption DEF Files

\* Among sets of positions one has no other as a proper subset.
LEMMA SmallestExists ==
    ASSUME NEW Z, Z # {}, NEW g \in [Z -> SUBSET DOMAIN Order]
    PROVE  \E j \in Z : \A k \in Z : g[k] \subseteq g[j] => g[k] = g[j]
<1> DEFINE F == {g[j] : j \in Z}
<1>1. IsFiniteSet(DOMAIN Order)
  <2>1. Len(Order) \in Int /\ 1 \in Int
    BY ConfigAssumption
  <2> QED BY <2>1, FS_Interval, Positions
<1>2. IsWellFoundedOn(StrictSubsetOrdering(DOMAIN Order), SUBSET DOMAIN Order)
  BY <1>1, FS_FiniteSubsetsOfFinite, FS_StrictSubsetOrderingWellFounded
<1>3. F \in SUBSET SUBSET DOMAIN Order /\ F # {}
  OBVIOUS
<1>4. \E A \in F : \A B \in F : ~ (<<B, A>> \in StrictSubsetOrdering(DOMAIN Order))
  <2> HIDE DEF F
  <2> QED BY <1>2, <1>3, WFMin
<1>5. PICK A \in F : \A B \in F : B \subseteq A => B = A
  <2> HIDE DEF F
  <2> QED BY <1>3, <1>4 DEF StrictSubsetOrdering
<1>6. PICK j \in Z : A = g[j]
  BY <1>5
<1>7. \A k \in Z : g[k] \in F
  OBVIOUS
<1> HIDE DEF F
<1> QED BY <1>5, <1>6, <1>7

\* A set of positions that is not empty has a first and a last.
LEMMA EndsExist ==
    ASSUME NEW Z \in SUBSET DOMAIN Order, Z # {}
    PROVE  FirstOf(Z) \in Z /\ Last(Z) \in Z /\ \A k \in Z : Last(Z) >= k
<1> USE Positions
<1>1. \E j \in Z : \A k \in Z : j <= k
  <2> DEFINE upTo == [j \in Z |-> {k \in Z : k <= j}]
  <2>1. upTo \in [Z -> SUBSET DOMAIN Order]
    OBVIOUS
  <2>2. \E j \in Z : \A k \in Z : upTo[k] \subseteq upTo[j] => upTo[k] = upTo[j]
    <3> HIDE DEF upTo
    <3> QED BY ONLY Z # {}, <2>1, SmallestExists
  <2>3. PICK j \in Z : \A k \in Z : upTo[k] \subseteq upTo[j] => upTo[k] = upTo[j]
    BY <2>2
  <2>4. ASSUME NEW k \in Z, k < j PROVE FALSE
    <3>1. upTo[k] \subseteq upTo[j] /\ j \in upTo[j] /\ j \notin upTo[k]
      BY <2>4
    <3> QED BY <2>3, <3>1
  <2> QED BY <2>4
<1>2. \E j \in Z : \A k \in Z : j >= k
  <2> DEFINE from == [j \in Z |-> {k \in Z : k >= j}]
  <2>1. from \in [Z -> SUBSET DOMAIN Order]
    OBVIOUS
  <2>2. \E j \in Z : \A k \in Z : from[k] \subseteq from[j] => from[k] = from[j]
    <3> HIDE DEF from
    <3> QED BY ONLY Z # {}, <2>1, SmallestExists
  <2>3. PICK j \in Z : \A k \in Z : from[k] \subseteq from[j] => from[k] = from[j]
    BY <2>2
  <2>4. ASSUME NEW k \in Z, k > j PROVE FALSE
    <3>1. from[k] \subseteq from[j] /\ j \in from[j] /\ j \notin from[k]
      BY <2>4
    <3> QED BY <2>3, <3>1
  <2> QED BY <2>4
<1> QED BY <1>1, <1>2 DEF FirstOf, Last

\* The initial states satisfy it.
LEMMA InitAInv == Init => AInv
BY Positions DEF Init, AInv, Places, WritesLate, Signed, Clean, PutBack, AllOrNothing, Replaced,
   forward, backward

\* A setup that goes on to the next file that it has to replace keeps it.
LEMMA ForwardKeeps ==
    ASSUME IInv, AInv, UNCHANGED <<data, result>>, NEW p \in Setups, NEW l \in forward, NEW i \in Lacking(p),
           Goto(p, l, i), l = "check" => Replaced(p) = {}
    PROVE  AInv'
<1> USE DEF data
<1>1. Places'
  BY DEF AInv, Places, IInv, Typing, Goto, Lacking, Replaced, forward, backward
<1>2. WritesLate'
  BY DEF AInv, WritesLate, IInv, Typing, Goto, Replaced, forward
<1>3. Signed' /\ Clean'
  BY DEF AInv, Signed, Clean, Lacking, Replaced
<1>4. PutBack' /\ AllOrNothing'
  BY DEF AInv, PutBack, AllOrNothing, Places, IInv, Typing, Goto, forward, backward
<1> QED BY <1>1, <1>2, <1>3, <1>4 DEF AInv

\* So does one that ends, if it has left nothing or says so.
LEMMA DoneKeeps ==
    ASSUME IInv, AInv, UNCHANGED data, NEW p \in Setups, NEW r, Goto(p, "done", 1), result' = [result EXCEPT ![p] = r],
           r \in {"changed", "failed"} => \A f \in Files : p \notin file[f].entries
    PROVE  AInv'
<1> USE DEF data
<1>1. Places'
  BY Positions DEF AInv, Places, IInv, Typing, Goto, Lacking, Replaced, forward, backward
<1>2. WritesLate'
  BY DEF AInv, WritesLate, IInv, Typing, Goto, Replaced
<1>3. Signed' /\ Clean'
  BY DEF AInv, Signed, Clean, Lacking, Replaced
<1>4. PutBack' /\ AllOrNothing'
  BY DEF AInv, PutBack, AllOrNothing, Places, IInv, Typing, Goto, backward
<1> QED BY <1>1, <1>2, <1>3, <1>4 DEF AInv

\* And one that turns back, or goes on back, if the files that it passes over are clear.
LEMMA TurnKeeps ==
    ASSUME IInv, AInv, UNCHANGED data, NEW p \in Setups, NEW Z \in SUBSET Replaced(p), NEW r, Back(p, Z, r),
           r \in {"changed", "failed"} => \A j \in DOMAIN Order \ Z : p \notin file[Order[j]].entries
    PROVE  AInv'
<1> USE DEF data
<1>1. CASE Z = {}
  BY <1>1, DoneKeeps DEF Back, Files
<1>2. CASE Z # {}
  <2>1. Last(Z) \in Z /\ \A k \in Z : Last(Z) >= k
    BY <1>2, EndsExist DEF Replaced
  <2>2. Goto(p, "undo", Last(Z)) /\ result' = [result EXCEPT ![p] = r]
    BY <1>2 DEF Back
  <2>3. Places'
    BY <2>1, <2>2 DEF AInv, Places, IInv, Typing, Goto, Lacking, Replaced, forward, backward
  <2>4. WritesLate'
    BY <2>2 DEF AInv, WritesLate, IInv, Typing, Goto, Replaced
  <2>5. Signed' /\ Clean'
    BY DEF AInv, Signed, Clean, Lacking, Replaced
  <2>6. \A j \in DOMAIN Order : j > Last(Z) => j \notin Z
    BY <2>1, Positions DEF Replaced
  <2>7. PutBack'
    BY <2>2, <2>6 DEF AInv, PutBack, Places, IInv, Typing, Goto, backward
  <2>8. AllOrNothing'
    BY <2>2 DEF AInv, AllOrNothing, Places, IInv, Typing, Goto
  <2> QED BY <2>3, <2>4, <2>5, <2>7, <2>8 DEF AInv
<1> QED BY <1>1, <1>2

\* Leaving the file at which it is, with what it found there.
LEMMA OnwardKeeps ==
    ASSUME IInv, AInv, UNCHANGED data, NEW p \in Setups, pc[p] \in backward, NEW ok \in BOOLEAN, Onward(p, ok),
           ok => pc[p] = "restored"
    PROVE  AInv'
<1> DEFINE Z == {i \in Replaced(p) : i < at[p]}
           r == IF ok THEN result[p] ELSE "incomplete"
<1>1. ASSUME r \in {"changed", "failed"}, NEW j \in DOMAIN Order \ Z
PROVE p \notin file[Order[j]].entries
  <2>1. ok /\ pc[p] = "restored" /\ result[p] \in {"changed", "failed"}
    BY <1>1
  <2>2. CASE j \in Replaced(p)
    BY <2>1, <2>2, Positions DEF AInv, Places, PutBack, backward
  <2>3. CASE j \notin Replaced(p)
    BY <2>3 DEF AInv, Signed
  <2> QED BY <2>2, <2>3
<1>2. Back(p, Z, r)
  BY DEF Onward
<1> HIDE DEF r
<1> QED BY <1>1, <1>2, TurnKeeps

\* The first turn, at which all that it has replaced is still to be put back.
LEMMA TurnBackKeeps ==
    ASSUME IInv, AInv, UNCHANGED data, NEW p \in Setups, NEW r, Back(p, Replaced(p), r)
    PROVE  AInv'
<1>1. \A j \in DOMAIN Order \ Replaced(p) : p \notin file[Order[j]].entries
  BY DEF AInv, Signed
<1> QED BY <1>1, TurnKeeps

\* A write of the file at which a setup is, with its own entry going forward and with
\* no setup's entry going back.
LEMMA WriteKeeps ==
    ASSUME IInv, AInv, UNCHANGED <<orig, result>>, NEW p \in Setups, at[p] \in Lacking(p),
           NEW E, NEW id, Put(Current(p), E, id), mine' = [mine EXCEPT ![p][Current(p)] = version + 1],
           \/ pc[p] = "rename" /\ Goto(p, "verify", at[p]) /\ E \cap Setups \subseteq {p}
           \/ pc[p] = "restore" /\ Goto(p, "restored", at[p]) /\ E \cap Setups = {}
    PROVE  AInv'
<1>1. at[p] \in DOMAIN Order /\ Current(p) \in Files /\ version + 1 # 0
  BY Positions DEF Lacking, Current, IInv, Typing
<1>2. \A f \in Files : file'[f].entries = IF f = Current(p) THEN E ELSE file[f].entries
  BY DEF Put, IInv, Typing
<1>3. \A q \in Setups, f \in Files :
          mine'[q][f] = IF q = p /\ f = Current(p) THEN version + 1 ELSE mine[q][f]
  BY <1>1 DEF IInv, Typing
<1>4. \A q \in Setups : Replaced(q)' = Replaced(q) \cup {i \in DOMAIN Order : q = p /\ Order[i] = Current(p)}
  BY <1>1, <1>3, Positions DEF Replaced
<1>5. \A q \in Setups : Lacking(q)' = Lacking(q)
  BY DEF Lacking
<1>6. pc' \in [Setups -> Labels] /\ at' = at /\ \A q \in Setups \ {p} : pc'[q] = pc[q]
  BY DEF Goto, IInv, Typing, AInv, Places, Labels
<1>7. \A i \in DOMAIN Order : Order[i] = Current(p) => i \in Lacking(p)
  BY DEF Lacking, Current
<1>8. Places'
  <2>1. at[p] \in Replaced(p)'
    BY <1>1, <1>4 DEF Current
  <2>2. pc'[p] \in {"verify", "restored"}
    BY DEF Goto, IInv, Typing
  <2> QED BY <1>4, <1>5, <1>6, <2>1, <2>2 DEF AInv, Places, forward, backward
<1>9. WritesLate'
  BY <1>4, <1>6 DEF AInv, WritesLate, Goto, IInv, Typing
<1>10. Signed'
  BY <1>2, <1>4, Positions DEF AInv, Signed
<1>11. Clean'
  BY <1>4, <1>5, <1>7 DEF AInv, Clean
<1>12. PutBack'
  <2> SUFFICES ASSUME NEW q \in Setups, NEW j \in DOMAIN Order, pc'[q] \in backward,
                      result[q] \in {"changed", "failed"}, j > at[q] \/ (pc'[q] = "restored" /\ j = at[q])
               PROVE  q \notin file'[Order[j]].entries
    BY <1>6 DEF PutBack
  <2>1. CASE q # p
    BY <1>2, <1>6, <2>1, Positions DEF AInv, PutBack
  <2>2. CASE q = p
    <3>1. pc[p] = "restore" /\ pc'[p] = "restored" /\ E \cap Setups = {}
      BY <2>2 DEF Goto, IInv, Typing, backward
    <3>2. CASE j = at[p]
      BY <1>2, <2>2, <3>1, <3>2, Positions DEF Current
    <3>3. CASE j # at[p]
      BY <1>2, <2>2, <3>1, <3>3, Positions DEF AInv, PutBack, backward
    <3> QED BY <3>2, <3>3
  <2> QED BY <2>1, <2>2
<1>13. AllOrNothing'
  BY <1>2, <1>6 DEF AInv, AllOrNothing, Goto, IInv, Typing
<1> QED BY <1>8, <1>9, <1>10, <1>11, <1>12, <1>13 DEF AInv

\* No step breaks it.
LEMMA NextAInv == IInv /\ AInv /\ [Next]_vars => AInv'
<1> SUFFICES ASSUME IInv, AInv, [Next]_vars PROVE AInv'
  OBVIOUS
<1>1. ASSUME NEW p \in Setups, Read(p) PROVE AInv'
  <2> USE <1>1 DEF Read
  <2>1. Replaced(p) = {} /\ Replaced(p)' = {}
    BY DEF AInv, WritesLate, Replaced
  <2>2. Places'
    BY Positions DEF AInv, Places, IInv, Typing, Goto, Lacking, Replaced, forward, backward
  <2>3. WritesLate'
    BY <2>1 DEF AInv, WritesLate, IInv, Typing, Goto, Replaced
  <2>4. Signed'
    BY DEF AInv, Signed, Replaced
  <2>5. Clean'
    BY <2>1 DEF AInv, Clean, Lacking, Replaced, IInv, Typing
  <2>6. PutBack' /\ AllOrNothing'
    BY DEF AInv, PutBack, AllOrNothing, Places, IInv, Typing, Goto, backward
  <2> QED BY <2>2, <2>3, <2>4, <2>5, <2>6 DEF AInv
<1>2. ASSUME NEW p \in Setups, Plan(p) PROVE AInv'
  <2>1. CASE Lacking(p) = {}
    BY <1>2, <2>1, DoneKeeps DEF Plan, data
  <2>2. CASE Lacking(p) # {}
    <3>1. FirstOf(Lacking(p)) \in Lacking(p)
      BY <2>2, EndsExist DEF Lacking
    <3>2. Replaced(p) = {}
      BY <1>2 DEF Plan, AInv, WritesLate
    <3> QED BY <1>2, <2>2, <3>1, <3>2, ForwardKeeps DEF Plan, data, forward
  <2> QED BY <2>1, <2>2
<1>3. ASSUME NEW p \in Setups, Check(p) PROVE AInv'
  <2>1. Replaced(p) = {}
    BY <1>3 DEF Check, AInv, WritesLate
  <2>2. CASE ~UnchangedSince(p)
    BY <1>3, <2>1, <2>2, TurnBackKeeps DEF Check, data
  <2>3. CASE UnchangedSince(p) /\ Above(Lacking(p), at[p]) # {}
    <3>1. FirstOf(Above(Lacking(p), at[p])) \in Lacking(p)
      BY <2>3, EndsExist DEF Lacking, Above
    <3> QED BY <1>3, <2>1, <2>3, <3>1, ForwardKeeps DEF Check, data, forward
  <2>4. CASE UnchangedSince(p) /\ Above(Lacking(p), at[p]) = {}
    <3>1. at[p] \in Lacking(p)
      BY <1>3 DEF Check, AInv, Places, forward
    <3>2. FirstOf(Lacking(p)) \in Lacking(p)
      BY <3>1, EndsExist DEF Lacking
    <3> QED BY <1>3, <2>4, <3>2, ForwardKeeps DEF Check, data, forward
  <2> QED BY <2>2, <2>3, <2>4
<1>4. ASSUME NEW p \in Setups, Stage(p) PROVE AInv'
  <2>1. CASE UnchangedSince(p)
    <3>1. at[p] \in Lacking(p)
      BY <1>4 DEF Stage, AInv, Places, forward
    <3> QED BY <1>4, <2>1, <3>1, ForwardKeeps DEF Stage, data, forward
  <2>2. CASE ~UnchangedSince(p)
    BY <1>4, <2>2, TurnBackKeeps DEF Stage, data
  <2> QED BY <2>1, <2>2
<1>5. ASSUME NEW p \in Setups, Verify(p) PROVE AInv'
  <2>1. CASE ~IsMine(p)
    BY <1>5, <2>1, TurnBackKeeps DEF Verify, data
  <2>2. CASE IsMine(p) /\ Above(Lacking(p), at[p]) # {}
    <3>1. FirstOf(Above(Lacking(p), at[p])) \in Lacking(p)
      BY <2>2, EndsExist DEF Lacking, Above
    <3> QED BY <1>5, <2>2, <3>1, ForwardKeeps DEF Verify, data, forward
  <2>3. CASE IsMine(p) /\ Above(Lacking(p), at[p]) = {}
    BY <1>5, <2>3, DoneKeeps DEF Verify, data
  <2> QED BY <2>1, <2>2, <2>3
<1>6. ASSUME NEW p \in Setups, Undo(p) PROVE AInv'
  <2>1. CASE IsMine(p)
    <3> USE <1>6, <2>1 DEF Undo
    <3>1. Places'
      BY DEF AInv, Places, IInv, Typing, Goto, Lacking, Replaced, forward, backward
    <3>2. WritesLate'
      BY DEF AInv, WritesLate, IInv, Typing, Goto, Replaced
    <3>3. Signed' /\ Clean'
      BY DEF AInv, Signed, Clean, Lacking, Replaced
    <3>4. PutBack' /\ AllOrNothing'
      BY DEF AInv, PutBack, AllOrNothing, Places, IInv, Typing, Goto, backward
    <3> QED BY <3>1, <3>2, <3>3, <3>4 DEF AInv
  <2>2. CASE ~IsMine(p)
    BY <1>6, <2>2, OnwardKeeps DEF Undo, data, backward
  <2> QED BY <2>1, <2>2
<1>7. ASSUME NEW p \in Setups, Restored(p) PROVE AInv'
  <2> DEFINE ok == IF orig[p][Current(p)].id = 0 THEN file[Current(p)].id = 0 ELSE IsMine(p)
  <2>1. ok \in BOOLEAN
    BY DEF IsMine
  <2>2. Onward(p, ok)
    BY <1>7 DEF Restored
  <2> HIDE DEF ok
  <2> QED BY <1>7, <2>1, <2>2, OnwardKeeps DEF Restored, data, backward
<1>8. ASSUME NEW p \in Setups, Fail(p) PROVE AInv'
  <2>1. CASE Back(p, Replaced(p), "failed")
    BY <1>8, <2>1, TurnBackKeeps DEF Fail, data
  <2>2. CASE pc[p] \in backward /\ Onward(p, FALSE)
    BY <1>8, <2>2, OnwardKeeps DEF Fail, data
  <2> QED BY <1>8, <2>1, <2>2 DEF Fail, backward
<1>9. ASSUME NEW p \in Setups, Crash(p) PROVE AInv'
  BY <1>9, DoneKeeps DEF Crash, data
<1>10. ASSUME NEW p \in Setups, Rename(p) PROVE AInv'
  <2> DEFINE E == orig[p][Current(p)].entries \cup {p}
  <2>1. at[p] \in Lacking(p)
    BY <1>10 DEF Rename, AInv, Places, forward
  <2>2. E \cap Setups \subseteq {p}
    BY <2>1 DEF Lacking, Current
  <2>3. Put(Current(p), E, version + 1)
    BY <1>10 DEF Rename
  <2> HIDE DEF E
  <2> QED BY <1>10, <2>1, <2>2, <2>3, WriteKeeps DEF Rename
<1>11. ASSUME NEW p \in Setups, Restore(p) PROVE AInv'
  <2> DEFINE E == orig[p][Current(p)].entries
             n == IF orig[p][Current(p)].id = 0 THEN 0 ELSE version + 1
  <2>1. at[p] \in Lacking(p)
    BY <1>11 DEF Restore, AInv, Places, Clean, backward
  <2>2. E \cap Setups = {}
    BY <2>1 DEF Lacking, Current
  <2>3. Put(Current(p), E, n)
    BY <1>11 DEF Restore
  <2> HIDE DEF E, n
  <2> QED BY <1>11, <2>1, <2>2, <2>3, WriteKeeps DEF Restore
<1>12. ASSUME NEW e \in Edits, NEW f \in Files, Edit(e, f) PROVE AInv'
  <2> USE <1>12 DEF Edit, steps
  <2>1. Places' /\ WritesLate' /\ Clean'
    BY DEF AInv, Places, WritesLate, Clean, Lacking, Replaced
  <2>2. \A p \in Setups, g \in Files : p \in file'[g].entries => p \in file[g].entries
    BY ConfigAssumption DEF Put, IInv, Typing, Text
  <2>3. Signed' /\ PutBack' /\ AllOrNothing'
    BY <2>2, Positions DEF AInv, Signed, PutBack, AllOrNothing, Replaced
  <2> QED BY <2>1, <2>3 DEF AInv
<1>13. CASE UNCHANGED vars
  BY <1>13 DEF vars, steps, AInv, Places, WritesLate, Signed, Clean, PutBack, AllOrNothing,
     Lacking, Replaced
<1> QED BY <1>1, <1>2, <1>3, <1>4, <1>5, <1>6, <1>7, <1>8, <1>9, <1>10, <1>11, <1>12, <1>13 DEF Next, Step

\* Setups that say they failed, or met a change, have left nothing of their own in either
\* file, whatever ran, failed and died beside them.
THEOREM NothingLeftBehind == Spec => []AllOrNothing
<1>1. Spec => [](IInv /\ AInv)
  BY InitIInv, NextIInv, InitAInv, NextAInv, PTL DEF Spec
<1> QED BY <1>1, PTL DEF AInv

-----------------------------------------------------------------------------
(* The wire to the relay (RelayWire) *)

WireEarly == {"off", "connecting", "hello"}

\* Before the operation is written nobody can handle it, and there is no answer.
WireNotYet == \A c \in Calls :
    /\ w_phase[c] \in WireEarly => /\ w_up[c] # "operation" /\ w_handled[c] = 0
                                   /\ w_down[c] \in {"none", "challenge", "forged"}
    /\ w_phase[c] # "done" => w_result[c] = "none"

\* An operation is read once, and reading a receipt makes no job.
OneReading == \A c \in Calls :
    /\ w_handled[c] <= 1 /\ w_accepted[c] <= w_handled[c]
    /\ w_up[c] = "operation" => w_handled[c] = 0
    /\ w_method[c] = "read" => w_accepted[c] = 0

\* A challenge is the relay's, and made and answered once.
ToRelay == \A c \in Calls :
    /\ w_srv[c] # "none" => w_peer[c] = "relay"
    /\ w_down[c] = "challenge" \/ w_phase[c] = "sent" => w_peer[c] = "relay"
    /\ w_srv[c] = "fresh" \/ w_phase[c] = "sent" => w_down[c] # "challenge"
    /\ w_srv[c] = "fresh" => w_phase[c] # "sent"

\* Whoever says "not sent" of a job says it of one that is not accepted, nor to be read,
\* unless its write was late.
WireNotSent == \A c \in Calls :
    w_method[c] = "send" /\ "not_sent" \in {w_down[c], w_result[c]}
        => w_up[c] # "operation" /\ (w_accepted[c] = 0 \/ c \in w_late)

\* The receipt file is that of one operation which was handled.  An accepted job is that
\* of the file, and the relay knows it while it runs; a file that is not accepted is late.
OneJob ==
    /\ \A b, c \in w_job : b = c
    /\ \A c \in w_job : /\ w_handled[c] = 1 /\ w_method[c] = "send"
                        /\ w_accepted[c] = 0 => c \in w_late
    /\ \A c \in Calls : w_accepted[c] > 0 => c \in w_job /\ (w_relay => w_known)
    /\ \A c \in Calls : w_srv[c] # "none" => w_relay

WireInv == W!TypeOK /\ WireNotYet /\ OneReading /\ ToRelay /\ WireNotSent /\ OneJob

-----------------------------------------------------------------------------

\* The call of the job's receipt file.
LEMMA WireJob ==
    ASSUME WireInv, NEW b \in w_job
    PROVE  /\ b \in Calls /\ w_handled[b] = 1 /\ w_method[b] = "send"
           /\ w_accepted[b] = 0 => b \in w_late
           /\ w_job = {b}
<1>1. b \in Calls
  BY Zenon DEF WireInv, W!TypeOK
<1>2. w_handled[b] = 1 /\ w_method[b] = "send" /\ (w_accepted[b] = 0 => b \in w_late)
  BY DEF WireInv, OneJob
<1>3. \A c \in w_job : c = b
  BY DEF WireInv, OneJob
<1> QED BY <1>1, <1>2, <1>3

\* A call begins.
LEMMA WireBeginKeeps ==
    ASSUME W!WireAssumption, WireInv, NEW c \in Calls, W!Begin(c)
    PROVE  WireInv'
<1> USE DEF WireInv, W!client, W!pipes, W!server
<1>1. W!TypeOK'
  BY DEF W!TypeOK, W!Begin, W!Set
<1>2. WireNotYet'
  BY DEF WireEarly, WireNotYet, W!Begin, W!Set
<1>3. OneReading'
  BY DEF W!TypeOK, WireEarly, WireNotYet, OneReading, W!Begin, W!Set
<1>4. ToRelay'
  BY DEF ToRelay, W!Begin, W!Set
<1>5. WireNotSent'
  BY DEF WireEarly, WireNotYet, WireNotSent, W!Begin, W!Set
<1>6. OneJob'
  BY DEF W!TypeOK, WireEarly, WireNotYet, OneJob, W!Begin, W!Set
<1> QED BY <1>1, <1>2, <1>3, <1>4, <1>5, <1>6

\* The relay takes its connection.
LEMMA WireConnectKeeps ==
    ASSUME W!WireAssumption, WireInv, NEW c \in Calls, W!Connect(c)
    PROVE  WireInv'
<1> USE DEF WireInv, W!client, W!pipes, W!server
<1>1. W!TypeOK'
  BY DEF W!WireAssumption, W!TypeOK, W!Connect, W!Open, W!Set
<1>2. WireNotYet'
  BY DEF WireEarly, WireNotYet, W!Connect, W!Open, W!Set
<1>3. OneReading'
  BY DEF OneReading, W!Connect, W!Open, W!Set
<1>4. ToRelay'
  BY DEF W!TypeOK, ToRelay, W!Connect, W!Open, W!Set
<1>5. WireNotSent'
  BY DEF WireNotSent, W!Connect, W!Open, W!Set
<1>6. OneJob'
  BY DEF OneJob, W!Connect, W!Open
<1> QED BY <1>1, <1>2, <1>3, <1>4, <1>5, <1>6

\* The relay has no room for it.
LEMMA WireFullKeeps == ASSUME W!WireAssumption, WireInv, NEW c \in Calls, W!Full(c) PROVE WireInv'
<1> USE DEF WireInv, W!client, W!pipes, W!server
<1>1. W!TypeOK'
  BY DEF W!WireAssumption, W!TypeOK, W!Full, W!Open, W!Set
<1>2. WireNotYet'
  BY DEF WireEarly, WireNotYet, W!Full, W!Open, W!Set
<1>3. OneReading'
  BY DEF OneReading, W!Full, W!Open, W!Set
<1>4. ToRelay'
  BY DEF ToRelay, W!Full, W!Open, W!Set
<1>5. WireNotSent'
  BY DEF WireNotSent, W!Full, W!Open, W!Set
<1>6. OneJob'
  BY DEF OneJob, W!Full, W!Open
<1> QED BY <1>1, <1>2, <1>3, <1>4, <1>5, <1>6

\* Another program takes it.
LEMMA WireOtherKeeps ==
    ASSUME W!WireAssumption, WireInv, NEW c \in Calls, W!Other(c)
    PROVE  WireInv'
<1> USE DEF WireInv, W!client, W!pipes, W!server
<1>1. W!TypeOK'
  BY DEF W!WireAssumption, W!TypeOK, W!Other, W!Open, W!Set
<1>2. WireNotYet'
  BY DEF WireEarly, WireNotYet, W!Other, W!Open, W!Set
<1>3. OneReading'
  BY DEF OneReading, W!Other, W!Open, W!Set
<1>4. ToRelay'
  BY DEF W!TypeOK, ToRelay, W!Other, W!Open, W!Set
<1>5. WireNotSent'
  BY DEF WireNotSent, W!Other, W!Open, W!Set
<1>6. OneJob'
  BY DEF W!TypeOK, OneJob, W!Other, W!Open, W!Set
<1> QED BY <1>1, <1>2, <1>3, <1>4, <1>5, <1>6

\* Nobody does.
LEMMA WireRefusedKeeps ==
    ASSUME W!WireAssumption, WireInv, NEW c \in Calls, W!Refused(c)
    PROVE  WireInv'
<1> USE DEF WireInv, W!client, W!pipes, W!server
<1>1. W!TypeOK'
  BY DEF W!WireAssumption, W!TypeOK, W!Refused, W!Finish, W!Set
<1>2. WireNotYet'
  BY DEF W!TypeOK, WireEarly, WireNotYet, W!Refused, W!Finish, W!Set
<1>3. OneReading'
  BY DEF OneReading, W!Refused, W!Finish
<1>4. ToRelay'
  BY DEF W!TypeOK, ToRelay, W!Refused, W!Finish, W!Set
<1>5. WireNotSent'
  BY DEF W!TypeOK, WireEarly, WireNotYet, OneReading, WireNotSent, W!Refused, W!Finish, W!Set
<1>6. OneJob'
  BY DEF OneJob, W!Refused, W!Finish
<1> QED BY <1>1, <1>2, <1>3, <1>4, <1>5, <1>6

\* The challenge arrives, and the operation is sent or not.
LEMMA WireAnswerKeeps ==
    ASSUME W!WireAssumption, WireInv, NEW c \in Calls, W!Answer(c)
    PROVE  WireInv'
<1> USE DEF WireInv, W!client, W!pipes, W!server
<1>1. W!TypeOK'
  BY DEF W!TypeOK, WireEarly, WireNotYet, W!Answer, W!Finish, W!Set
<1>2. WireNotYet'
  BY DEF W!TypeOK, WireEarly, WireNotYet, W!Answer, W!Finish, W!Set
<1>3. OneReading'
  BY DEF W!TypeOK, WireEarly, WireNotYet, OneReading, W!Answer, W!Finish, W!Set
<1>4. ToRelay'
  BY DEF W!TypeOK, ToRelay, W!Answer, W!Finish, W!Proven, W!Set
<1>5. WireNotSent'
  BY DEF W!TypeOK, WireEarly, WireNotYet, OneReading, WireNotSent, W!Answer, W!Finish, W!Set
<1>6. OneJob'
  BY DEF OneJob, W!Answer, W!Finish
<1> QED BY <1>1, <1>2, <1>3, <1>4, <1>5, <1>6

\* The answer arrives.
LEMMA WireReceiveKeeps ==
    ASSUME W!WireAssumption, WireInv, NEW c \in Calls, W!Receive(c)
    PROVE  WireInv'
<1> USE DEF WireInv, W!client, W!pipes, W!server
<1>1. W!TypeOK'
  BY DEF W!TypeOK, ToRelay, W!Receive, W!Finish, W!State, W!Set
<1>2. WireNotYet'
  BY DEF W!TypeOK, WireEarly, WireNotYet, W!Receive, W!Finish, W!Set
<1>3. OneReading'
  BY DEF OneReading, W!Receive, W!Finish
<1>4. ToRelay'
  BY DEF ToRelay, W!Receive, W!Finish, W!Set
<1>5. WireNotSent'
  BY DEF WireNotSent, W!Receive, W!Finish, W!State, W!Set
<1>6. OneJob'
  BY DEF OneJob, W!Receive, W!Finish
<1> QED BY <1>1, <1>2, <1>3, <1>4, <1>5, <1>6

\* The connection was closed.
LEMMA WireClosedKeeps ==
    ASSUME W!WireAssumption, WireInv, NEW c \in Calls, W!Closed(c)
    PROVE  WireInv'
<1> USE DEF WireInv, W!client, W!pipes, W!server
<1>1. W!TypeOK'
  BY DEF W!TypeOK, W!Closed, W!Disconnect, W!Again, W!Finish, W!State, W!Set
<1>2. WireNotYet'
  BY DEF W!TypeOK, WireEarly, WireNotYet, W!Closed, W!Disconnect, W!MayRetry, W!Again, W!Finish,
     W!Set
<1>3. OneReading'
  BY DEF OneReading, W!Closed, W!Disconnect, W!Again, W!Finish
<1>4. ToRelay'
  BY DEF W!TypeOK, ToRelay, W!Closed, W!Disconnect, W!Again, W!Finish, W!Set
<1>5. WireNotSent'
  BY DEF W!TypeOK, WireEarly, WireNotYet, OneReading, WireNotSent, W!Closed, W!Disconnect,
     W!Again, W!Finish, W!State, W!Set
<1>6. OneJob'
  BY DEF OneJob, W!Closed, W!Disconnect, W!Again, W!Finish
<1> QED BY <1>1, <1>2, <1>3, <1>4, <1>5, <1>6

\* The time of the call is over.
LEMMA WireTimeoutKeeps ==
    ASSUME W!WireAssumption, WireInv, NEW c \in Calls, W!Timeout(c)
    PROVE  WireInv'
<1> USE DEF WireInv, W!client, W!pipes, W!server
<1>1. W!TypeOK'
  BY DEF W!TypeOK, W!Timeout, W!Finish, W!State, W!Set
<1>2. WireNotYet'
  BY DEF W!TypeOK, WireEarly, WireNotYet, W!Timeout, W!Finish, W!Set
<1>3. OneReading'
  BY DEF OneReading, W!Timeout, W!Finish
<1>4. ToRelay'
  BY DEF ToRelay, W!Timeout, W!Finish, W!Set
<1>5. WireNotSent'
  BY DEF W!TypeOK, WireEarly, WireNotYet, OneReading, WireNotSent, W!Timeout, W!Finish, W!State,
     W!Set
<1>6. OneJob'
  BY DEF OneJob, W!Timeout, W!Finish
<1> QED BY <1>1, <1>2, <1>3, <1>4, <1>5, <1>6

\* The relay proves that it knows the secret.
LEMMA WireGreetKeeps ==
    ASSUME W!WireAssumption, WireInv, NEW c \in Calls, W!Greet(c)
    PROVE  WireInv'
<1> USE DEF WireInv, W!client, W!pipes, W!server
<1>1. W!TypeOK'
  BY DEF W!TypeOK, W!Greet, W!Reply, W!Set
<1>2. WireNotYet'
  BY DEF WireNotYet, W!Greet, W!Reply, W!Set
<1>3. OneReading'
  BY DEF OneReading, W!Greet, W!Set
<1>4. ToRelay'
  BY DEF W!TypeOK, ToRelay, W!Greet, W!Reply, W!Set
<1>5. WireNotSent'
  BY DEF WireNotSent, W!Greet, W!Reply, W!Set
<1>6. OneJob'
  BY DEF OneJob, W!Greet
<1> QED BY <1>1, <1>2, <1>3, <1>4, <1>5, <1>6

\* It handles the operation.
LEMMA WireHandleKeeps ==
    ASSUME W!WireAssumption, WireInv, NEW c \in Calls, W!Handle(c)
    PROVE  WireInv'
<1> USE DEF WireInv, W!client, W!pipes, W!server
<1>0. w_known' \in BOOLEAN
  BY Zenon DEF W!TypeOK, W!Handle, W!Enqueue, W!Show, W!Refuse
<1>1. W!TypeOK'
  BY <1>0 DEF W!TypeOK, W!Handle, W!Enqueue, W!Show, W!Refuse, W!Reply, W!Set
<1>2. WireNotYet'
  BY DEF W!TypeOK, WireNotYet, W!Handle, W!Enqueue, W!Show, W!Refuse, W!Reply, W!Set
<1>3. OneReading'
  BY DEF W!TypeOK, OneReading, W!Handle, W!Enqueue, W!Show, W!Refuse, W!Set
<1>4. ToRelay'
  BY DEF W!TypeOK, ToRelay, W!Handle, W!Enqueue, W!Show, W!Refuse, W!Reply, W!Set
<1>5. WireNotSent'
  BY DEF W!TypeOK, OneReading, WireNotSent, OneJob, W!Handle, W!Enqueue, W!Show, W!Refuse,
     W!Reply, W!Known, W!Set
<1>6. OneJob'
  <2>1. /\ w_srv' = [w_srv EXCEPT ![c] = "handled"] /\ w_relay' = w_relay
        /\ w_handled' = [w_handled EXCEPT ![c] = w_handled[c] + 1] /\ w_method' = w_method
        /\ w_srv[c] = "challenged" /\ w_up[c] = "operation"
    BY DEF W!Handle, W!Set
  <2>2. w_handled[c] = 0 /\ w_handled'[c] = 1 /\ w_relay /\ c \notin w_job
    <3>1. w_handled[c] = 0 /\ w_handled'[c] = 1
      BY <2>1 DEF W!TypeOK, OneReading
    <3>2. w_relay
      BY <2>1 DEF OneJob
    <3>3. c \notin w_job
      BY <3>1, WireJob
    <3> QED BY <3>1, <3>2, <3>3
  <2>3. w_relay' /\ \A b \in Calls : w_srv'[b] # "none" => w_relay'
    BY <2>1, <2>2, Zenon
  <2>4. CASE UNCHANGED <<w_job, w_known, w_late, w_accepted>>
    BY <2>1, <2>2, <2>3, <2>4 DEF W!TypeOK, OneJob
  <2>5. CASE W!Enqueue(c)
    <3>1. w_method[c] = "send" /\ w_job' = {c} /\ ~w_known
      BY <2>5 DEF W!Enqueue, W!Known
    <3>2. \A b \in Calls : w_accepted[b] = 0
      BY <2>2, <3>1 DEF W!TypeOK, OneJob
    <3>3. \/ w_known' /\ w_accepted' = [w_accepted EXCEPT ![c] = 1]
          \/ c \in w_late' /\ w_accepted' = w_accepted
      BY <2>5, <3>2 DEF W!Enqueue
    <3> QED BY <2>1, <2>2, <2>3, <3>1, <3>2, <3>3 DEF W!TypeOK, OneJob
  <2> QED BY <2>4, <2>5 DEF W!Handle, W!Show, W!Refuse
<1> QED BY <1>1, <1>2, <1>3, <1>4, <1>5, <1>6

\* It closes a connection.
LEMMA WireDropKeeps == ASSUME W!WireAssumption, WireInv, NEW c \in Calls, W!Drop(c) PROVE WireInv'
<1> USE DEF WireInv, W!client, W!pipes, W!server
<1>1. W!TypeOK'
  BY DEF W!TypeOK, W!Drop, W!Set
<1>2. WireNotYet'
  BY DEF WireNotYet, W!Drop, W!Set
<1>3. OneReading'
  BY DEF OneReading, W!Drop, W!Set
<1>4. ToRelay'
  BY DEF ToRelay, W!Drop, W!Set
<1>5. WireNotSent'
  BY DEF WireNotSent, W!Drop, W!Set
<1>6. OneJob'
  BY DEF OneJob, W!Drop
<1> QED BY <1>1, <1>2, <1>3, <1>4, <1>5, <1>6

\* Another program says something.
LEMMA WireForgeKeeps ==
    ASSUME W!WireAssumption, WireInv, NEW c \in Calls, W!Forge(c)
    PROVE  WireInv'
<1> USE DEF WireInv, W!client, W!pipes, W!server
<1>1. W!TypeOK'
  BY DEF W!TypeOK, W!Forge, W!Set
<1>2. WireNotYet'
  BY DEF WireNotYet, W!Forge, W!Set
<1>3. OneReading'
  BY DEF OneReading, W!Forge
<1>4. ToRelay'
  BY DEF ToRelay, W!Forge, W!Set
<1>5. WireNotSent'
  BY DEF WireNotSent, W!Forge, W!Set
<1>6. OneJob'
  BY DEF OneJob, W!Forge
<1> QED BY <1>1, <1>2, <1>3, <1>4, <1>5, <1>6

\* The relay stops, and some answers are lost.
LEMMA WireStopKeeps == ASSUME W!WireAssumption, WireInv, W!Stop PROVE WireInv'
<1> USE DEF WireInv, W!client, W!pipes, W!server
<1>0. w_relay' \in BOOLEAN /\ w_known' \in BOOLEAN
  BY Zenon DEF W!TypeOK, W!Stop
<1>1. W!TypeOK'
  BY <1>0 DEF W!WireAssumption, W!TypeOK, W!Stop
<1>2. WireNotYet'
  BY DEF WireNotYet, W!Stop
<1>3. OneReading'
  BY DEF OneReading, W!Stop
<1>4. ToRelay'
  BY DEF ToRelay, W!Stop
<1>5. WireNotSent'
  BY DEF WireNotSent, W!Stop
<1>6. OneJob'
  BY DEF OneJob, W!Stop
<1> QED BY <1>1, <1>2, <1>3, <1>4, <1>5, <1>6

\* It starts.
LEMMA WireStartKeeps == ASSUME W!WireAssumption, WireInv, W!Start PROVE WireInv'
<1> USE DEF WireInv, W!client, W!pipes, W!server
<1>0. w_relay' /\ w_relay' \in BOOLEAN /\ w_known' \in BOOLEAN /\ (w_job # {} => w_known')
  BY Zenon DEF W!TypeOK, W!Start
<1>1. W!TypeOK'
  BY <1>0 DEF W!TypeOK, W!Start
<1>2. WireNotYet'
  BY DEF WireNotYet, W!Start
<1>4. ToRelay'
  BY DEF ToRelay, W!Start
<1>7. /\ UNCHANGED <<w_job, w_late, w_handled, w_method, w_srv, w_up, w_down, w_result>>
      /\ \A b \in Calls : \/ w_accepted'[b] = w_accepted[b]
                          \/ b \in w_job /\ w_accepted[b] = 0 /\ w_accepted'[b] = 1
  BY DEF W!TypeOK, W!Start
<1>8. \A b \in w_job : b \in Calls /\ w_handled[b] = 1 /\ w_method[b] = "send"
                        /\ (w_accepted[b] = 0 => b \in w_late)
  BY WireJob
<1>3. OneReading'
  <2> SUFFICES ASSUME NEW b \in Calls
               PROVE  /\ w_handled'[b] <= 1 /\ w_accepted'[b] <= w_handled'[b]
                      /\ w_up'[b] = "operation" => w_handled'[b] = 0
                      /\ w_method'[b] = "read" => w_accepted'[b] = 0
    BY DEF OneReading
  <2> QED BY <1>7, <1>8 DEF W!TypeOK, OneReading
<1>5. WireNotSent'
  <2> SUFFICES ASSUME NEW b \in Calls, w_method'[b] = "send",
                      "not_sent" \in {w_down'[b], w_result'[b]}
               PROVE  w_up'[b] # "operation" /\ (w_accepted'[b] = 0 \/ b \in w_late')
    BY DEF WireNotSent
  <2> QED BY <1>7, <1>8 DEF WireNotSent
<1>6. OneJob'
  <2>1. \A b \in Calls : w_accepted'[b] > 0 => b \in w_job
    BY <1>7, <1>8 DEF W!TypeOK, OneJob
  <2>2. \A b \in w_job : w_accepted'[b] = 0 => b \in w_late
    BY <1>7, <1>8 DEF W!TypeOK
  <2> QED BY <1>0, <1>7, <1>8, <2>1, <2>2 DEF OneJob
<1> QED BY <1>1, <1>2, <1>3, <1>4, <1>5, <1>6

\* What every step keeps.
LEMMA WireStepKeeps == ASSUME W!WireAssumption, WireInv, [W!Next]_W!vars PROVE WireInv'
<1>1. CASE UNCHANGED W!vars
  BY <1>1 DEF W!vars, W!client, W!pipes, W!server, WireInv, W!TypeOK, WireNotYet, OneReading,
     ToRelay, WireNotSent, OneJob
<1>2. ASSUME NEW c \in Calls,
             \/ W!Begin(c) \/ W!Connect(c) \/ W!Full(c) \/ W!Other(c) \/ W!Refused(c)
             \/ W!Answer(c) \/ W!Receive(c) \/ W!Closed(c) \/ W!Timeout(c)
      PROVE  WireInv'
  BY <1>2, WireBeginKeeps, WireConnectKeeps, WireFullKeeps, WireOtherKeeps, WireRefusedKeeps,
     WireAnswerKeeps, WireReceiveKeeps, WireClosedKeeps, WireTimeoutKeeps
<1>3. ASSUME NEW c \in Calls, W!Greet(c) \/ W!Handle(c) \/ W!Drop(c) \/ W!Forge(c)
      PROVE  WireInv'
  BY <1>3, WireGreetKeeps, WireHandleKeeps, WireDropKeeps, WireForgeKeeps
<1>4. CASE W!Stop \/ W!Start
  BY <1>4, WireStopKeeps, WireStartKeeps
<1> QED BY <1>1, <1>2, <1>3, <1>4 DEF W!Next

\* No call is under way at first.
LEMMA WireInitHolds == ASSUME W!WireAssumption, W!Init PROVE WireInv
<1>0. w_known \in BOOLEAN
  BY Zenon DEF W!Init
<1>1. W!TypeOK
  BY <1>0 DEF W!WireAssumption, W!Init, W!TypeOK
<1>2. WireNotYet /\ OneReading /\ ToRelay /\ WireNotSent /\ OneJob
  BY DEF W!Init, WireNotYet, OneReading, ToRelay, WireNotSent, OneJob
<1> QED BY <1>1, <1>2 DEF WireInv

\* What becomes of a call on its way to the relay and back.
THEOREM WireInvariance == W!WireAssumption /\ W!Spec => []WireInv
<1> SUFFICES ASSUME W!WireAssumption PROVE W!Spec => []WireInv
  OBVIOUS
<1>1. W!Init => WireInv
  BY WireInitHolds
<1>2. WireInv /\ [W!Next]_W!vars => WireInv'
  BY WireStepKeeps
<1> QED BY <1>1, <1>2, PTL DEF W!Spec

\* A call that is repeated after a lost connection is handled once, and whatever calls
\* carry the same request ID, and whenever they are read, one of them makes the job:
\* callBackgroundRelay() and the connection handler of serveBackgroundRelay().
THEOREM JobOnce == W!WireAssumption /\ W!Spec => [](W!HandledOnce /\ W!AcceptedOnce)
<1>1. WireInv => W!HandledOnce /\ W!AcceptedOnce
  BY DEF WireInv, W!TypeOK, OneReading, OneJob, W!HandledOnce, W!AcceptedOnce
<1> QED BY <1>1, WireInvariance, PTL

\* A job that its caller is told was not sent is not accepted, and never will be, unless
\* the relay's own write of its receipt threw after the rename (state() of
\* callBackgroundRelay(), enqueue()).
THEOREM JobNotSent == W!WireAssumption /\ W!Spec => []W!NotSentUnlessLate
<1>1. WireInv => W!NotSentUnlessLate
  BY DEF WireInv, W!TypeOK, OneReading, WireNotSent, W!NotSentUnlessLate
<1> QED BY <1>1, WireInvariance, PTL

\* The operation, which holds the prompt, goes to who has proved to know the secret,
\* and to no other program that listens at the relay's address.
THEOREM JobToRelay == W!WireAssumption /\ W!Spec => []W!OnlyToRelay
<1>1. WireInv => W!OnlyToRelay
  BY DEF WireInv, ToRelay, W!OnlyToRelay
<1> QED BY <1>1, WireInvariance, PTL

\* What a call says to its caller in the words of Delivery.
WireSaid == [c \in Calls |-> W!Told(c)]

\* A step that makes a job of one call, or answers it.
LEMMA OneCalls ==
    ASSUME NEW c \in Calls, W!TypeOK,
           w_accepted' = w_accepted \/ /\ w_accepted[c] = 0 /\ WireSaid[c] # "not_sent"
                                       /\ w_accepted' = [w_accepted EXCEPT ![c] = 1],
           WireSaid' = WireSaid \/ \E what \in {"not_sent", "unknown"} :
               /\ WireSaid[c] = "none" /\ WireSaid' = [WireSaid EXCEPT ![c] = what]
               /\ what = "not_sent" => w_accepted'[c] = 0
    PROVE  W!Promise!Next \/ UNCHANGED <<w_accepted, WireSaid>>
<1>1. CASE UNCHANGED <<w_accepted, WireSaid>>
  BY <1>1
<1>2. CASE ~UNCHANGED <<w_accepted, WireSaid>>
  <2>1. w_accepted' = w_accepted \/ W!Promise!Deliver(c)
    BY DEF W!Promise!Deliver, WireSaid
  <2>2. WireSaid' = WireSaid \/ \E what \in W!Promise!Answers : W!Promise!Tell(c, what)
    <3>1. CASE WireSaid' = WireSaid
      BY <3>1
    <3>2. CASE WireSaid' # WireSaid
      <4>1. PICK what \in {"not_sent", "unknown"} :
                /\ WireSaid[c] = "none" /\ WireSaid' = [WireSaid EXCEPT ![c] = what]
                /\ what = "not_sent" => w_accepted'[c] = 0
        BY <3>2
      <4>2. W!Promise!Tell(c, what) /\ what \in W!Promise!Answers
        BY <4>1 DEF W!Promise!Tell, W!Promise!Answers, WireSaid
      <4> QED BY <4>2
    <3> QED BY <3>1, <3>2
  <2>3. w_accepted'[c] # w_accepted[c] \/ WireSaid'[c] # WireSaid[c]
    BY <1>2 DEF WireSaid, W!TypeOK
  <2> QED BY <2>1, <2>2, <2>3 DEF W!Promise!Next, WireSaid
<1> QED BY <1>1, <1>2

\* A step of a call, by what it changes.
LEMMA WireStepPromises ==
    ASSUME WireInv, WireInv', [W!Next]_W!vars
    PROVE  W!Promise!Next \/ UNCHANGED <<w_accepted, WireSaid>>
<1> USE DEF W!client, W!pipes, W!server
<1>1. CASE UNCHANGED <<w_accepted, w_result, w_late>>
  BY <1>1 DEF WireSaid, W!Told
<1>2. ASSUME NEW c \in Calls,
             W!Refused(c) \/ W!Answer(c) \/ W!Receive(c) \/ W!Closed(c) \/ W!Timeout(c)
      PROVE  W!Promise!Next \/ UNCHANGED <<w_accepted, WireSaid>>
  <2>1. /\ w_accepted' = w_accepted /\ w_late' = w_late
        /\ w_result' = w_result \/ \E told \in {"receipt", "not_sent", "unknown"} :
              w_phase[c] # "done" /\ w_result' = [w_result EXCEPT ![c] = told]
    BY <1>2 DEF W!Refused, W!Answer, W!Receive, W!Closed, W!Timeout, W!Disconnect, W!MayRetry,
       W!Again, W!Finish, W!State, W!Set, WireInv, W!TypeOK, ToRelay
  <2>2. w_result'[c] = "not_sent" => w_accepted'[c] = 0 \/ c \in w_late
    BY <2>1 DEF WireInv, W!TypeOK, OneReading, WireNotSent
  <2>3. w_phase[c] # "done" => WireSaid[c] = "none"
    BY DEF WireInv, WireNotYet, WireSaid, W!Told
  <2>4. WireSaid' = WireSaid \/ \E what \in {"not_sent", "unknown"} :
               /\ WireSaid[c] = "none" /\ WireSaid' = [WireSaid EXCEPT ![c] = what]
               /\ what = "not_sent" => w_accepted'[c] = 0
    <3>1. CASE w_result' = w_result
      BY <2>1, <3>1 DEF WireSaid, W!Told
    <3>2. CASE w_result' # w_result
      <4>1. PICK told \in {"receipt", "not_sent", "unknown"} :
                w_phase[c] # "done" /\ w_result' = [w_result EXCEPT ![c] = told]
        BY <2>1, <3>2
      <4> DEFINE what == IF told = "receipt" \/ (told = "not_sent" /\ c \in w_late)
                         THEN "unknown" ELSE told
      <4>2. WireSaid' = [WireSaid EXCEPT ![c] = what]
        <5>1. \A b \in Calls : w_result'[b] = IF b = c THEN told ELSE w_result[b]
          BY <4>1 DEF WireInv, W!TypeOK
        <5>2. \A b \in Calls : WireSaid'[b] = IF b = c THEN what ELSE WireSaid[b]
          BY <2>1, <5>1 DEF WireSaid, W!Told
        <5>3. WireSaid' = [b \in Calls |-> WireSaid'[b]] /\ WireSaid = [b \in Calls |-> WireSaid[b]]
          BY DEF WireSaid
        <5> HIDE DEF what
        <5> QED BY <5>2, <5>3
      <4>3. what \in {"not_sent", "unknown"} /\ (what = "not_sent" => w_accepted'[c] = 0)
        BY <2>2, <4>1 DEF WireInv, W!TypeOK
      <4> HIDE DEF what
      <4> QED BY <2>3, <4>1, <4>2, <4>3
    <3> QED BY <3>1, <3>2
  <2> QED BY <2>1, <2>4, OneCalls DEF WireInv
<1>3. ASSUME NEW c \in Calls, W!Handle(c)
      PROVE  W!Promise!Next \/ UNCHANGED <<w_accepted, WireSaid>>
  <2>1. w_result' = w_result /\ w_up[c] = "operation"
    BY <1>3 DEF W!Handle
  <2>2. CASE w_late' = w_late /\ w_accepted' = w_accepted
    BY <2>1, <2>2 DEF WireSaid, W!Told
  <2>3. CASE W!Enqueue(c)
    <3>1. w_method[c] = "send" /\ ~w_known /\ w_relay
      BY <1>3, <2>3 DEF W!Enqueue, W!Known, W!Handle, WireInv, OneJob
    <3>2. w_result[c] # "not_sent" /\ w_accepted[c] = 0
      BY <2>1, <3>1 DEF WireInv, W!TypeOK, WireNotSent, OneJob
    <3>3. w_accepted' = w_accepted \/ w_accepted' = [w_accepted EXCEPT ![c] = 1]
      BY <2>3, <3>2 DEF W!Enqueue
    <3>4. w_late' = w_late \/ w_late' = w_late \cup {c}
      BY <2>3 DEF W!Enqueue
    <3>5. WireSaid' = WireSaid
      BY <2>1, <3>2, <3>4 DEF WireSaid, W!Told
    <3>6. WireSaid[c] # "not_sent"
      BY <3>2 DEF WireSaid, W!Told
    <3> QED BY <3>2, <3>3, <3>5, <3>6, OneCalls DEF WireInv
  <2> QED BY <1>3, <2>2, <2>3 DEF W!Handle, W!Show, W!Refuse
<1>4. CASE W!Start
  <2>1. w_result' = w_result /\ w_late' = w_late
    BY <1>4 DEF W!Start
  <2>2. WireSaid' = WireSaid
    BY <2>1 DEF WireSaid, W!Told
  <2>3. CASE w_accepted' = w_accepted
    BY <2>2, <2>3
  <2>4. CASE w_accepted' # w_accepted
    <3>1. PICK c \in w_job : w_accepted[c] = 0
      BY <1>4, <2>4 DEF W!Start, WireInv, W!TypeOK
    <3>2. c \in Calls /\ c \in w_late /\ w_job = {c}
      BY <3>1, WireJob
    <3>3. w_accepted' = [w_accepted EXCEPT ![c] = 1]
      BY <1>4, <3>1, <3>2 DEF W!Start, WireInv, W!TypeOK
    <3>4. WireSaid[c] # "not_sent"
      BY <3>2 DEF WireSaid, W!Told
    <3> QED BY <2>2, <3>1, <3>2, <3>3, <3>4, OneCalls DEF WireInv
  <2> QED BY <2>3, <2>4
<1> QED
  BY <1>1, <1>2, <1>3, <1>4
  DEF W!Next, W!vars, W!Begin, W!Connect, W!Full, W!Other, W!Open, W!Greet, W!Drop, W!Forge,
     W!Stop

\* A job keeps the promise of Delivery on the wire, whatever is lost, repeated, forged or
\* read late, and however often the relay stops.
THEOREM JobsKeepPromise == W!WireAssumption /\ W!Spec => W!KeepsPromise
<1>1. W!Init => W!Promise!Init
  BY DEF W!Init, W!Promise!Init, W!Told
<1>2. WireInv /\ WireInv' /\ [W!Next]_W!vars => [W!Promise!Next]_<<w_accepted, WireSaid>>
  BY WireStepPromises
<1> QED BY <1>1, <1>2, WireInvariance, PTL DEF W!Spec, W!KeepsPromise, W!Promise!Spec, WireSaid

-----------------------------------------------------------------------------
(* The update (RelayUpdate) *)

\* Where an updater is while it is at work.
UPlaces == {"query", "register", "prepare", "start", "poll", "npm"}
URecords == [root : Nat, ver : Nat]
UUpdater == [pc : UPlaces \cup {"idle", "updated", "refused", "failed"},
             phase : {"none", "migration", "setup", "verification"}, tgt : Nat, want : Nat,
             seen : URecords, enabled : BOOLEAN, ready : BOOLEAN]

\* The types of what the argument is about.
UType ==
    /\ u_pkg \in Nat /\ u_caches \subseteq Nat /\ u_rt \in URecords /\ u_relay \in URecords
    /\ u_task \in [enabled : BOOLEAN, root : Nat] /\ u_cfg \in BOOLEAN
    /\ u_updater \in [Updaters -> UUpdater]

Active(u) == u_updater[u].pc \in UPlaces

\* Updaters do not overlap.
UOne == \A u, w \in Updaters : Active(u) /\ Active(w) => u = w

\* What the root of a record holds now.
Holds(root) == IF root = 0 THEN u_pkg ELSE root

\* The record names the version of a copy, or one that is not newer than the global
\* package, and the relay is not newer than what the record leads to.
URecord ==
    /\ IF u_rt.root = 0 THEN u_rt.ver <= u_pkg ELSE u_rt.ver = u_rt.root
    /\ u_relay.ver <= Holds(u_rt.root)

\* An updater that goes on found nothing newer than itself, and nobody else made it.
UNewer == \A u \in Updaters : Active(u) =>
    u_pkg <= V[u] /\ Holds(u_rt.root) <= V[u]

\* What the installer makes the record name is the updater's version.
UTarget == \A u \in Updaters :
    u_updater[u].pc \in {"query", "register", "prepare"} => Holds(u_updater[u].tgt) = V[u]

UInv == UType /\ UOne /\ URecord /\ UNewer /\ UTarget

\* What the module assumes of its constants, of U.
LEMMA UAssumed == First \in Nat \ {0} /\ V \in [Updaters -> Nat \ {0}]
BY HostAssumption DEF HostAssumption, U!UpdateAssumption

\* The initial states satisfy it.
LEMMA UInitial == U!Init => UInv
BY UAssumed DEF U!Init, U!Idle, U!NoRelay, UInv, UType, UPlaces, URecords, UUpdater, UOne,
   URecord, Holds, UNewer, UTarget, Active

\* An updater begins: what is newer than itself it refuses.
LEMMA UPreflightKeeps ==
  ASSUME UInv, NEW u \in Updaters, U!Preflight(u) PROVE UInv'
<1> USE UAssumed DEF UInv
<1>1. UType'
  BY DEF U!Preflight, U!Downgrade, U!Staged, U!Available, U!Idle, UType, UPlaces, URecords,
     UUpdater, U!world, U!ghosts, U!bounds, U!Set, U!Go, U!At, U!Terminal, U!packageVersion,
     U!Running, U!NoRelay, U!Loaded
<1>2. UOne'
  BY DEF U!Preflight, U!Downgrade, U!Staged, U!Available, U!Idle, UType, UPlaces, URecords,
     UUpdater, UOne, URecord, Holds, UNewer, UTarget, Active, U!world, U!ghosts, U!bounds,
     U!Set, U!Go, U!At, U!Terminal, U!packageVersion, U!Running, U!NoRelay, U!Loaded
<1>3. URecord'
  BY DEF U!Preflight, U!Downgrade, U!Staged, U!Available, U!Idle, UType, UPlaces, URecords,
     UUpdater, UOne, URecord, Holds, UNewer, UTarget, Active, U!world, U!ghosts, U!bounds,
     U!Set, U!Go, U!At, U!Terminal, U!packageVersion, U!Running, U!NoRelay, U!Loaded
<1>4. UNewer'
  <2>1. u_updater'[u].pc \in UPlaces => ~U!Downgrade(u)
    BY DEF U!Preflight, U!Set, U!Idle, UType, UPlaces
  <2>2. \A w \in Updaters : w # u => u_updater'[w] = u_updater[w] /\ ~Active(w)
    BY DEF U!Preflight, U!Set, U!Terminal, UType, Active, UPlaces
  <2>3. UNCHANGED <<u_pkg, u_rt>>
    BY DEF U!Preflight
  <2> QED BY <2>1, <2>2, <2>3 DEF U!Downgrade, UType, URecords, URecord, UNewer, Active, Holds
<1>5. UTarget'
  BY DEF U!Preflight, U!Downgrade, U!Staged, U!Available, U!Idle, UType, UPlaces, URecords,
     UUpdater, Holds, UTarget, UOne, Active, U!world, U!ghosts, U!bounds, U!Set, U!Go, U!At,
     U!Terminal, U!packageVersion, U!Running, U!NoRelay, U!Loaded
<1> QED BY <1>1, <1>2, <1>3, <1>4, <1>5

\* npm replaces the global package.
LEMMA UNpmKeeps ==
  ASSUME UInv, NEW u \in Updaters, U!Npm(u) PROVE UInv'
<1> USE UAssumed DEF UInv
<1>0. /\ u_updater' = [u_updater EXCEPT ![u] = u_updater'[u]]
      /\ u_updater'[u] \in UUpdater /\ u_updater'[u].pc \in {"failed", "query"}
      /\ u_updater'[u].tgt = IF u_updater'[u].pc = "query" THEN 0 ELSE u_updater[u].tgt
  <2>0. /\ u_updater \in [Updaters -> UUpdater] /\ u_updater[u] \in UUpdater /\ u_rt \in URecords
        /\ V[u] \in Nat
    BY DEF UType
  <2>1. CASE U!Running /\ u_relay.root = 0 /\ u_relay.ver \in Legacy
    <3> DEFINE y == [u_updater[u] EXCEPT !.pc = "failed"]
    <3>1. u_updater' = [u_updater EXCEPT ![u] = y]
      BY <2>1 DEF U!Npm, U!Set, U!Go
    <3>3. y \in UUpdater /\ y.pc \in {"failed"} /\ y.tgt = u_updater[u].tgt
      BY <2>0 DEF UUpdater, UPlaces, URecords
    <3> HIDE DEF y
    <3> QED BY <2>0, <3>1, <3>3
  <2>2. CASE ~(U!Running /\ u_relay.root = 0 /\ u_relay.ver \in Legacy)
    <3> DEFINE y == [u_updater[u] EXCEPT !.pc = "query", !.phase = "setup", !.tgt = 0, !.want = V[u]]
    <3>1. u_updater' = [u_updater EXCEPT ![u] = y]
      BY <2>2 DEF U!Npm, U!Set, U!Go
    <3>3. y \in UUpdater /\ y.pc \in {"query"} /\ y.tgt = 0
      BY <2>0 DEF UUpdater, UPlaces, URecords
    <3> HIDE DEF y
    <3> QED BY <2>0, <3>1, <3>3
  <2> QED BY <2>1, <2>2
<1>1. UType'
  <2>1. /\ u_pkg' \in Nat /\ u_caches' \subseteq Nat /\ u_rt' \in URecords /\ u_relay' \in URecords
        /\ u_task' \in [enabled : BOOLEAN, root : Nat] /\ u_cfg' \in BOOLEAN
    BY DEF U!Npm, U!Terminal, UType, URecords, U!world, U!ghosts, U!bounds, U!Set, U!Go, U!At,
       U!Terminal, U!packageVersion, U!Running, U!NoRelay, U!Loaded
  <2> QED BY <1>0, <2>1 DEF UType
<1>2. UOne'
  BY <1>0 DEF U!Npm, UType, UOne, Active, U!At, UPlaces
<1>3. URecord'
  BY DEF U!Npm, U!Terminal, UType, URecords, URecord, UNewer, Holds, UTarget, Active, UPlaces,
     U!At, U!world, U!ghosts, U!bounds, U!Set, U!Go, U!At, U!Terminal, U!packageVersion,
     U!Running, U!NoRelay, U!Loaded
<1>4. UNewer'
  BY <1>0 DEF U!Npm, UType, URecords, UNewer, UTarget, Holds, Active, UPlaces, U!At,
     U!packageVersion, U!world, UOne
<1>5. UTarget'
  <2>1. u_updater'[u].pc = "query" => u_pkg' = V[u]
    BY DEF U!Npm, U!Go, U!Set, UType, UUpdater
  <2> QED
  
  BY <2>1, <1>0 DEF U!Npm, UType, UTarget, UNewer, UOne, Holds, Active, UPlaces, U!At, U!world
<1> QED BY <1>1, <1>2, <1>3, <1>4, <1>5

\* The installer reads the record and the task.
LEMMA UQueryKeeps ==
  ASSUME UInv, NEW u \in Updaters, U!Query(u) PROVE UInv'
<1> USE UAssumed DEF UInv
<1>0. /\ u_updater' = [u_updater EXCEPT ![u] = u_updater'[u]]
      /\ u_updater'[u] \in UUpdater /\ u_updater'[u].pc \in {"prepare", "register", "failed"}
      /\ u_updater'[u].tgt = u_updater[u].tgt
  <2>0. /\ u_updater \in [Updaters -> UUpdater] /\ u_updater[u] \in UUpdater /\ u_rt \in URecords
        /\ V[u] \in Nat
    BY DEF UType
  <2>1. CASE U!Available(u_updater[u].tgt)
    <3> DEFINE b == u_cfg /\ u_task.enabled
             x == IF u_task = [enabled |-> b, root |-> u_updater[u].tgt] THEN "prepare"
                  ELSE "register"
    <3> DEFINE y == [u_updater[u] EXCEPT !.seen = u_rt, !.enabled = b, !.pc = x]
    <3>1. u_updater' = [u_updater EXCEPT ![u] = y]
      BY <2>1 DEF U!Query, U!Set, U!Go
    <3>2. b \in BOOLEAN /\ x \in {"prepare", "register"}
      BY DEF UType
    <3> HIDE DEF b, x
    <3>3. y \in UUpdater /\ y.pc \in {"prepare", "register"} /\ y.tgt = u_updater[u].tgt
      BY <2>0, <3>2 DEF UUpdater, UPlaces, URecords
    <3> HIDE DEF y
    <3> QED BY <2>0, <3>1, <3>3
  <2>2. CASE ~U!Available(u_updater[u].tgt)
    <3> DEFINE y == [u_updater[u] EXCEPT !.pc = "failed"]
    <3>1. u_updater' = [u_updater EXCEPT ![u] = y]
      BY <2>2 DEF U!Query, U!Set, U!Go
    <3>3. y \in UUpdater /\ y.pc \in {"failed"} /\ y.tgt = u_updater[u].tgt
      BY <2>0 DEF UUpdater, UPlaces, URecords
    <3> HIDE DEF y
    <3> QED BY <2>0, <3>1, <3>3
  <2> QED BY <2>1, <2>2
<1>1. UType'
  <2>1. /\ u_pkg' \in Nat /\ u_caches' \subseteq Nat /\ u_rt' \in URecords /\ u_relay' \in URecords
        /\ u_task' \in [enabled : BOOLEAN, root : Nat] /\ u_cfg' \in BOOLEAN
    BY DEF U!Query, U!Available, UType, URecords, U!world, U!ghosts, U!bounds, U!Set, U!Go,
       U!At, U!Terminal, U!packageVersion, U!Running, U!NoRelay, U!Loaded
  <2> QED BY <1>0, <2>1 DEF UType
<1>2. UOne'
  BY <1>0 DEF U!Query, UType, UOne, Active, U!At, UPlaces
<1>3. URecord'
  BY DEF U!Query, U!Available, UType, URecords, URecord, UNewer, Holds, UTarget, Active,
     UPlaces, U!At, U!world, U!ghosts, U!bounds, U!Set, U!Go, U!At, U!Terminal,
     U!packageVersion, U!Running, U!NoRelay, U!Loaded
<1>4. UNewer'
  BY <1>0 DEF U!Query, UType, URecords, UNewer, UTarget, Holds, Active, UPlaces, U!At,
     U!packageVersion, U!world, UOne
<1>5. UTarget'
  BY <1>0 DEF U!Query, UType, UTarget, UNewer, UOne, Holds, Active, UPlaces, U!At, U!world
<1> QED BY <1>1, <1>2, <1>3, <1>4, <1>5

\* It registers the task.
LEMMA URegisterKeeps ==
  ASSUME UInv, NEW u \in Updaters, U!Register(u) PROVE UInv'
<1> USE UAssumed DEF UInv
<1>1. UType'
  BY DEF U!Register, U!Wanted, UType, UPlaces, URecords, UUpdater, U!world, U!ghosts, U!bounds,
     U!Set, U!Go, U!At, U!Terminal, U!packageVersion, U!Running, U!NoRelay, U!Loaded
<1>2. UOne'
  BY DEF U!Register, U!Wanted, UType, UPlaces, URecords, UUpdater, UOne, URecord, Holds, UNewer,
     UTarget, Active, U!world, U!ghosts, U!bounds, U!Set, U!Go, U!At, U!Terminal,
     U!packageVersion, U!Running, U!NoRelay, U!Loaded
<1>3. URecord'
  BY DEF U!Register, U!Wanted, UType, UPlaces, URecords, UUpdater, UOne, URecord, Holds, UNewer,
     UTarget, Active, U!world, U!ghosts, U!bounds, U!Set, U!Go, U!At, U!Terminal,
     U!packageVersion, U!Running, U!NoRelay, U!Loaded
<1>4. UNewer'
  BY DEF U!Register, U!Wanted, UType, UPlaces, URecords, UUpdater, UOne, URecord, Holds, UNewer,
     UTarget, Active, U!world, U!ghosts, U!bounds, U!Set, U!Go, U!At, U!Terminal,
     U!packageVersion, U!Running, U!NoRelay, U!Loaded
<1>5. UTarget'
  BY DEF U!Register, U!Wanted, UType, UPlaces, URecords, UUpdater, Holds, UTarget, UOne, Active,
     U!world, U!ghosts, U!bounds, U!Set, U!Go, U!At, U!Terminal, U!packageVersion, U!Running,
     U!NoRelay, U!Loaded
<1> QED BY <1>1, <1>2, <1>3, <1>4, <1>5

\* It replaces the record.
LEMMA UPrepareKeeps ==
  ASSUME UInv, NEW u \in Updaters, U!Prepare(u) PROVE UInv'
<1> USE UAssumed DEF UInv
<1>0. /\ u_updater' = [u_updater EXCEPT ![u] = u_updater'[u]]
      /\ u_updater'[u] \in UUpdater /\ u_updater'[u].pc \in {"start", "failed"}
      /\ u_updater'[u].tgt = u_updater[u].tgt
  <2>0. /\ u_updater \in [Updaters -> UUpdater] /\ u_updater[u] \in UUpdater /\ u_rt \in URecords
        /\ V[u] \in Nat
    BY DEF UType
  <2>1. CASE u_task = U!Wanted(u) /\ u_rt = u_updater[u].seen
    <3> DEFINE y == [u_updater[u] EXCEPT !.pc = "start"]
    <3>1. u_updater' = [u_updater EXCEPT ![u] = y]
      BY <2>1 DEF U!Prepare, U!Set, U!Go
    <3>3. y \in UUpdater /\ y.pc \in {"start"} /\ y.tgt = u_updater[u].tgt
      BY <2>0 DEF UUpdater, UPlaces, URecords
    <3> HIDE DEF y
    <3> QED BY <2>0, <3>1, <3>3
  <2>2. CASE ~(u_task = U!Wanted(u) /\ u_rt = u_updater[u].seen)
    <3> DEFINE y == [u_updater[u] EXCEPT !.pc = "failed"]
    <3>1. u_updater' = [u_updater EXCEPT ![u] = y]
      BY <2>2 DEF U!Prepare, U!Set, U!Go
    <3>3. y \in UUpdater /\ y.pc \in {"failed"} /\ y.tgt = u_updater[u].tgt
      BY <2>0 DEF UUpdater, UPlaces, URecords
    <3> HIDE DEF y
    <3> QED BY <2>0, <3>1, <3>3
  <2> QED BY <2>1, <2>2
<1>1. UType'
  <2>1. /\ u_pkg' \in Nat /\ u_caches' \subseteq Nat /\ u_rt' \in URecords /\ u_relay' \in URecords
        /\ u_task' \in [enabled : BOOLEAN, root : Nat] /\ u_cfg' \in BOOLEAN
    BY DEF U!Prepare, U!Wanted, UUpdater, UType, URecords, U!world, U!ghosts, U!bounds, U!Set,
       U!Go, U!At, U!Terminal, U!packageVersion, U!Running, U!NoRelay, U!Loaded
  <2> QED BY <1>0, <2>1 DEF UType
<1>2. UOne'
  BY <1>0 DEF U!Prepare, UType, UOne, Active, U!At, UPlaces
<1>3. URecord'
  BY DEF U!Prepare, U!Wanted, UUpdater, UType, URecords, URecord, UNewer, Holds, UTarget,
     Active, UPlaces, U!At, U!world, U!ghosts, U!bounds, U!Set, U!Go, U!At, U!Terminal,
     U!packageVersion, U!Running, U!NoRelay, U!Loaded
<1>4. UNewer'
  BY <1>0 DEF U!Prepare, UType, URecords, UNewer, UTarget, Holds, Active, UPlaces, U!At,
     U!packageVersion, U!world, UOne
<1>5. UTarget'
  BY <1>0 DEF U!Prepare, UType, UTarget, UNewer, UOne, Holds, Active, UPlaces, U!At, U!world
<1> QED BY <1>1, <1>2, <1>3, <1>4, <1>5

\* It starts the service.
LEMMA UStartKeeps ==
  ASSUME UInv, NEW u \in Updaters, U!Start(u) PROVE UInv'
<1> USE UAssumed DEF UInv
<1>0. /\ u_updater' = [u_updater EXCEPT ![u] = u_updater'[u]]
      /\ u_updater'[u] \in UUpdater /\ u_updater'[u].pc \in {"poll", "failed"}
      /\ u_updater'[u].tgt = u_updater[u].tgt
  <2>0. /\ u_updater \in [Updaters -> UUpdater] /\ u_updater[u] \in UUpdater /\ u_rt \in URecords
        /\ V[u] \in Nat
    BY DEF UType
  <2>1. CASE u_updater[u].enabled /\ ~U!Running /\ ~u_task.enabled
    <3> DEFINE y == [u_updater[u] EXCEPT !.pc = "failed"]
    <3>1. u_updater' = [u_updater EXCEPT ![u] = y]
      BY <2>1 DEF U!Start, U!Set, U!Go
    <3>3. y \in UUpdater /\ y.pc \in {"failed"} /\ y.tgt = u_updater[u].tgt
      BY <2>0 DEF UUpdater, UPlaces, URecords
    <3> HIDE DEF y
    <3> QED BY <2>0, <3>1, <3>3
  <2>2. CASE ~(u_updater[u].enabled /\ ~U!Running /\ ~u_task.enabled)
    <3> DEFINE ph == IF u_updater[u].phase = "setup" THEN "verification" ELSE u_updater[u].phase
    <3> DEFINE y == [u_updater[u] EXCEPT !.pc = "poll", !.phase = ph]
    <3>1. u_updater' = [u_updater EXCEPT ![u] = y]
      BY <2>2 DEF U!Start, U!Set, U!Go
    <3>2. ph \in {"none", "migration", "setup", "verification"}
      BY <2>0 DEF UUpdater
    <3> HIDE DEF ph
    <3>3. y \in UUpdater /\ y.pc \in {"poll"} /\ y.tgt = u_updater[u].tgt
      BY <2>0, <3>2 DEF UUpdater, UPlaces, URecords
    <3> HIDE DEF y
    <3> QED BY <2>0, <3>1, <3>3
  <2> QED BY <2>1, <2>2
<1>1. UType'
  <2>1. /\ u_pkg' \in Nat /\ u_caches' \subseteq Nat /\ u_rt' \in URecords /\ u_relay' \in URecords
        /\ u_task' \in [enabled : BOOLEAN, root : Nat] /\ u_cfg' \in BOOLEAN
    BY DEF U!Start, U!Startable, U!Available, UType, URecords, U!world, U!ghosts, U!bounds,
       U!Set, U!Go, U!At, U!Terminal, U!packageVersion, U!Running, U!NoRelay, U!Loaded
  <2> QED BY <1>0, <2>1 DEF UType
<1>2. UOne'
  BY <1>0 DEF U!Start, UType, UOne, Active, U!At, UPlaces
<1>3. URecord'
  BY DEF U!Start, U!Startable, U!Available, UType, URecords, URecord, UNewer, Holds, UTarget,
     Active, UPlaces, U!At, U!world, U!ghosts, U!bounds, U!Set, U!Go, U!At, U!Terminal,
     U!packageVersion, U!Running, U!NoRelay, U!Loaded
<1>4. UNewer'
  BY <1>0 DEF U!Start, UType, URecords, UNewer, UTarget, Holds, Active, UPlaces, U!At,
     U!packageVersion, U!world, UOne
<1>5. UTarget'
  BY <1>0 DEF U!Start, UType, UTarget, UNewer, UOne, Holds, Active, UPlaces, U!At, U!world
<1> QED BY <1>1, <1>2, <1>3, <1>4, <1>5

\* It waits for the relay.
LEMMA UPollKeeps ==
  ASSUME UInv, NEW u \in Updaters, U!Poll(u) PROVE UInv'
<1> USE UAssumed DEF UInv
<1>0. /\ u_updater' = [u_updater EXCEPT ![u] = u_updater'[u]]
      /\ u_updater'[u] \in UUpdater /\ u_updater'[u].pc \in {"failed", "npm", "updated"}
      /\ u_updater'[u].tgt = u_updater[u].tgt
  <2>0. /\ u_updater \in [Updaters -> UUpdater] /\ u_updater[u] \in UUpdater /\ u_rt \in URecords
        /\ V[u] \in Nat
    BY DEF UType
  <2>1. CASE U!Go(u, "failed")
    <3> DEFINE y == [u_updater[u] EXCEPT !.pc = "failed"]
    <3>1. u_updater' = [u_updater EXCEPT ![u] = y]
      BY <2>1 DEF U!Poll, U!Set, U!Go
    <3>3. y \in UUpdater /\ y.pc \in {"failed"} /\ y.tgt = u_updater[u].tgt
      BY <2>0 DEF UUpdater, UPlaces, URecords
    <3> HIDE DEF y
    <3> QED BY <2>0, <3>1, <3>3
  <2>2. CASE \E ready \in BOOLEAN : U!Done(u, ready)
    <3> DEFINE b == CHOOSE ready \in BOOLEAN : U!Done(u, ready)
           x == IF u_updater[u].phase = "migration" THEN "npm" ELSE "updated"
    <3> DEFINE y == [u_updater[u] EXCEPT !.ready = b, !.pc = x]
    <3>1. u_updater' = [u_updater EXCEPT ![u] = y]
      BY <2>2 DEF U!Done, U!Set, U!Go
    <3>2. b \in BOOLEAN /\ x \in {"npm", "updated"}
      BY <2>2
    <3> HIDE DEF b, x
    <3>3. y \in UUpdater /\ y.pc \in {"npm", "updated"} /\ y.tgt = u_updater[u].tgt
      BY <2>0, <3>2 DEF UUpdater, UPlaces, URecords
    <3> HIDE DEF y
    <3> QED BY <2>0, <3>1, <3>3
  <2> QED BY <2>1, <2>2 DEF U!Poll
<1>1. UType'
  <2>1. /\ u_pkg' \in Nat /\ u_caches' \subseteq Nat /\ u_rt' \in URecords /\ u_relay' \in URecords
        /\ u_task' \in [enabled : BOOLEAN, root : Nat] /\ u_cfg' \in BOOLEAN
    BY DEF U!Poll, U!Available, UType, URecords, U!world, U!ghosts, U!bounds, U!Set, U!Go,
       U!At, U!Terminal, U!packageVersion, U!Running, U!NoRelay, U!Loaded
  <2> QED BY <1>0, <2>1 DEF UType
<1>2. UOne'
  BY <1>0 DEF U!Poll, UType, UOne, Active, U!At, UPlaces
<1>3. URecord'
  BY DEF U!Poll, U!Available, UType, URecords, URecord, UNewer, Holds, UTarget, Active, UPlaces,
     U!At, U!world, U!ghosts, U!bounds, U!Set, U!Go, U!At, U!Terminal, U!packageVersion,
     U!Running, U!NoRelay, U!Loaded
<1>4. UNewer'
  BY <1>0 DEF U!Poll, UType, URecords, UNewer, UTarget, Holds, Active, UPlaces, U!At,
     U!packageVersion, U!world, UOne
<1>5. UTarget'
  BY <1>0 DEF U!Poll, UType, UTarget, UNewer, UOne, Holds, Active, UPlaces, U!At, U!world
<1> QED BY <1>1, <1>2, <1>3, <1>4, <1>5

\* An updater is killed, or its deadline passes.
LEMMA UFailsKeeps ==
  ASSUME UInv, NEW u \in Updaters, U!Fails(u) PROVE UInv'
<1> USE UAssumed DEF UInv
<1>1. UType'
  BY DEF U!Fails, UType, UPlaces, URecords, UUpdater, U!world, U!ghosts, U!bounds, U!Set, U!Go,
     U!At, U!Terminal, U!packageVersion, U!Running, U!NoRelay, U!Loaded
<1>2. UOne'
  BY DEF U!Fails, UType, UPlaces, URecords, UUpdater, UOne, URecord, Holds, UNewer, UTarget,
     Active, U!world, U!ghosts, U!bounds, U!Set, U!Go, U!At, U!Terminal, U!packageVersion,
     U!Running, U!NoRelay, U!Loaded
<1>3. URecord'
  BY DEF U!Fails, UType, UPlaces, URecords, UUpdater, UOne, URecord, Holds, UNewer, UTarget,
     Active, U!world, U!ghosts, U!bounds, U!Set, U!Go, U!At, U!Terminal, U!packageVersion,
     U!Running, U!NoRelay, U!Loaded
<1>4. UNewer'
  BY DEF U!Fails, UType, UPlaces, URecords, UUpdater, UOne, URecord, Holds, UNewer, UTarget,
     Active, U!world, U!ghosts, U!bounds, U!Set, U!Go, U!At, U!Terminal, U!packageVersion,
     U!Running, U!NoRelay, U!Loaded
<1>5. UTarget'
  BY DEF U!Fails, UType, UPlaces, URecords, UUpdater, Holds, UTarget, UOne, Active, U!world,
     U!ghosts, U!bounds, U!Set, U!Go, U!At, U!Terminal, U!packageVersion, U!Running, U!NoRelay,
     U!Loaded
<1> QED BY <1>1, <1>2, <1>3, <1>4, <1>5

\* It is run again.
LEMMA URerunKeeps ==
  ASSUME UInv, NEW u \in Updaters, U!Rerun(u) PROVE UInv'
<1> USE UAssumed DEF UInv
<1>1. UType'
  BY DEF U!Rerun, UType, UPlaces, URecords, UUpdater, U!world, U!ghosts, U!bounds, U!Set, U!Go,
     U!At, U!Terminal, U!packageVersion, U!Running, U!NoRelay, U!Loaded
<1>2. UOne'
  BY DEF U!Rerun, UType, UPlaces, URecords, UUpdater, UOne, URecord, Holds, UNewer, UTarget,
     Active, U!world, U!ghosts, U!bounds, U!Set, U!Go, U!At, U!Terminal, U!packageVersion,
     U!Running, U!NoRelay, U!Loaded
<1>3. URecord'
  BY DEF U!Rerun, UType, UPlaces, URecords, UUpdater, UOne, URecord, Holds, UNewer, UTarget,
     Active, U!world, U!ghosts, U!bounds, U!Set, U!Go, U!At, U!Terminal, U!packageVersion,
     U!Running, U!NoRelay, U!Loaded
<1>4. UNewer'
  BY DEF U!Rerun, UType, UPlaces, URecords, UUpdater, UOne, URecord, Holds, UNewer, UTarget,
     Active, U!world, U!ghosts, U!bounds, U!Set, U!Go, U!At, U!Terminal, U!packageVersion,
     U!Running, U!NoRelay, U!Loaded
<1>5. UTarget'
  BY DEF U!Rerun, UType, UPlaces, URecords, UUpdater, Holds, UTarget, UOne, Active, U!world,
     U!ghosts, U!bounds, U!Set, U!Go, U!At, U!Terminal, U!packageVersion, U!Running, U!NoRelay,
     U!Loaded
<1> QED BY <1>1, <1>2, <1>3, <1>4, <1>5

\* The service ends and starts, the user and npm's cache change.
LEMMA UOtherKeeps ==
  ASSUME UInv, U!Follow \/ U!Stop \/ U!Exit \/ U!Launch \/ U!Toggle \/ U!Prune PROVE UInv'
<1> USE UAssumed DEF UInv
<1>1. UType'
  <2>1. u_pkg' \in Nat /\ u_caches' \subseteq Nat /\ u_rt' \in URecords /\ u_cfg' \in BOOLEAN
    BY Zenon DEF U!Follow, U!Stop, U!Exit, U!Launch, U!Toggle, U!Prune, UType
  <2>2. u_task' \in [enabled : BOOLEAN, root : Nat]
    BY Zenon DEF U!Follow, U!Stop, U!Exit, U!Launch, U!Toggle, U!Prune, UType
  <2>3. u_relay' \in {u_relay, U!NoRelay, U!Loaded}
    BY Zenon DEF U!Follow, U!Stop, U!Exit, U!Launch, U!Toggle, U!Prune
  <2>4. {u_relay, U!NoRelay, U!Loaded} \subseteq URecords
    BY DEF U!NoRelay, U!Loaded, U!packageVersion, UType, URecords
  <2>5. u_updater' = u_updater
    BY DEF U!Follow, U!Stop, U!Exit, U!Launch, U!Toggle, U!Prune
  <2> QED BY <2>1, <2>2, <2>3, <2>4, <2>5 DEF UType
<1>2. UOne'
  BY DEF U!Follow, U!Stop, U!Exit, U!Launch, U!Toggle, U!Prune, U!Startable, U!Available, UType,
     UPlaces, URecords, UUpdater, UOne, URecord, Holds, UNewer, UTarget, Active, U!world,
     U!ghosts, U!bounds, U!Set, U!Go, U!At, U!Terminal, U!packageVersion, U!Running, U!NoRelay,
     U!Loaded
<1>3. URecord'
  BY DEF U!Follow, U!Stop, U!Exit, U!Launch, U!Toggle, U!Prune, U!Startable, U!Available, UType,
     UPlaces, URecords, UUpdater, UOne, URecord, Holds, UNewer, UTarget, Active, U!world,
     U!ghosts, U!bounds, U!Set, U!Go, U!At, U!Terminal, U!packageVersion, U!Running, U!NoRelay,
     U!Loaded
<1>4. UNewer'
  BY DEF U!Follow, U!Stop, U!Exit, U!Launch, U!Toggle, U!Prune, U!Startable, U!Available, UType,
     UPlaces, URecords, UUpdater, UOne, URecord, Holds, UNewer, UTarget, Active, U!world,
     U!ghosts, U!bounds, U!Set, U!Go, U!At, U!Terminal, U!packageVersion, U!Running, U!NoRelay,
     U!Loaded
<1>5. UTarget'
  BY DEF U!Follow, U!Stop, U!Exit, U!Launch, U!Toggle, U!Prune, U!Startable, U!Available, UType,
     UPlaces, URecords, UUpdater, Holds, UTarget, UOne, Active, U!world, U!ghosts, U!bounds,
     U!Set, U!Go, U!At, U!Terminal, U!packageVersion, U!Running, U!NoRelay, U!Loaded
<1> QED BY <1>1, <1>2, <1>3, <1>4, <1>5

\* Every step keeps it.
LEMMA UNext == UInv /\ [U!Next]_uVars => UInv'
<1> SUFFICES ASSUME UInv, [U!Next]_uVars PROVE UInv'
  OBVIOUS
<1>1. CASE UNCHANGED uVars
  BY <1>1 DEF uVars, UInv, UType, UPlaces, URecords, UUpdater, UOne, URecord, Holds, UNewer,
     UTarget, Active
<1>2. CASE U!Next
  BY <1>2, UPreflightKeeps, UNpmKeeps, UQueryKeeps, URegisterKeeps, UPrepareKeeps, UStartKeeps,
     UPollKeeps, UFailsKeeps, URerunKeeps, UOtherKeeps DEF U!Next, U!Work
<1> QED BY <1>1, <1>2

\* What a step may do to the three versions.
UStep ==
    /\ u_pkg' >= u_pkg /\ u_rt'.ver >= u_rt.ver
    /\ U!Running /\ U!Running' => u_relay'.ver >= u_relay.ver

\* No step brings an older version back.
LEMMA UForward == UInv /\ [U!Next]_uVars => [UStep]_(U!vars)
<1> SUFFICES ASSUME UInv, U!Next PROVE UStep
  BY DEF uVars, U!vars, U!world, U!ghosts, U!bounds
<1> USE UAssumed DEF UInv, UStep, U!world, U!ghosts, U!bounds, UType, UPlaces, URecords, UUpdater,
   UOne, URecord, Holds, UNewer, UTarget, Active
<1>1. ASSUME NEW u \in Updaters, U!Work(u) \/ U!Fails(u) \/ U!Rerun(u) PROVE UStep
  <2>1. CASE U!Preflight(u)
    BY <2>1 DEF U!Preflight
  <2>2. CASE U!Npm(u)
    BY <2>2 DEF U!Npm, U!At, U!Go
  <2>3. CASE U!Query(u) \/ U!Register(u) \/ U!Poll(u)
    <3>1. UNCHANGED <<u_pkg, u_rt, u_relay>>
      BY <2>3 DEF U!Query, U!Register, U!Poll
    <3> QED BY <3>1
  <2>4. CASE U!Prepare(u)
    BY <2>4 DEF U!Prepare, U!packageVersion, U!At
  <2>5. CASE U!Start(u)
    BY <2>5 DEF U!Start, U!Loaded, U!packageVersion
  <2>6. CASE U!Fails(u) \/ U!Rerun(u)
    BY <2>6 DEF U!Fails, U!Rerun
  <2> QED BY <1>1, <2>1, <2>2, <2>3, <2>4, <2>5, <2>6 DEF U!Work
<1>2. CASE U!Follow \/ U!Launch
  BY <1>2 DEF U!Follow, U!Launch, U!Loaded, U!packageVersion
<1>3. CASE U!Stop \/ U!Exit \/ U!Toggle \/ U!Prune
  BY <1>3 DEF U!Stop, U!Exit, U!Toggle, U!Prune, U!Running, U!NoRelay
<1> QED BY <1>1, <1>2, <1>3 DEF U!Next

-----------------------------------------------------------------------------
(* The cache of snapshots (Snapshots) *)

Holding == {"leased", "found", "verified", "preparing", "taken", "using"}
Removing == {"next", "check", "rename", "again"}
\* Where users and pruners are; no pruner was killed.
NType ==
    /\ n_dir \subseteq Keys
    /\ n_at \in [Users -> Holding \cup {"off", "ended", "dead"}]
    /\ n_key \in [Users -> Keys \cup {None}]
    /\ n_lease \subseteq Users /\ n_orphan \subseteq Users
    /\ n_pr \in [Pruners -> Removing \cup {"off", "lock", "relock", "move", "compare", "list",
                                           "processes", "unlock"}]
    /\ n_todo \in [Pruners -> SUBSET Keys]
    /\ n_now \in [Pruners -> Keys \cup {None}] /\ n_retired \in [Pruners -> Keys \cup {None}]
    /\ n_dead \in [{"user", "pruner"} -> Nat] /\ n_dead["pruner"] = 0
\* Who has a lease has its file, was alive within the hour, and is at a key.
NHeld ==
    /\ \A u \in Users : n_at[u] \in Holding =>
          u \in n_lease /\ u \in n_recent /\ n_key[u] \in Keys
    /\ \A u \in n_orphan : n_at[u] = "dead" /\ n_key[u] \in Keys
\* What a pruner may still move away.
Targets(p) == n_todo[p] \cup IF n_pr[p] = "next" THEN {} ELSE {n_now[p]}
\* A worker whose process was killed during a pass that may take its snapshot is
\* covered by that process's lease, which is not stale before the pass has ended.
NGuarded == \A p \in Pruners, u \in n_orphan :
    n_pr[p] \in Removing /\ n_key[u] \in Targets(p) => u \in n_lease /\ u \in n_recent
\* What a pruner has moved away is what it works on.
NAgain == \A p \in Pruners :
    /\ n_pr[p] \in {"check", "rename", "again"} => n_now[p] \in Keys
    /\ n_pr[p] = "again" => n_retired[p] = n_now[p]
\* A snapshot that is used is in place, or in the hands of a pruner that looks again.
NPlaced == \A u \in Users : n_at[u] \in {"verified", "using"} \/ u \in n_orphan =>
    n_key[u] \in n_dir \/ \E p \in Pruners : n_pr[p] = "again" /\ n_now[p] = n_key[u]
NInv == NType /\ NHeld /\ NGuarded /\ NAgain /\ NPlaced

\* The initial states satisfy it.
LEMMA NInitial ==
  N!Init => NInv
BY HostAssumption DEF HostAssumption, N!SnapshotAssumption, N!Init, NInv, NType, NHeld, NGuarded,
   NAgain, NPlaced, Targets, Holding, Removing

\* The lease is written.
LEMMA NLeaseKeeps ==
  ASSUME NInv, NEW u \in Users, N!Lease(u) PROVE NInv'
<1> USE DEF NInv, NType, NHeld, NGuarded, NAgain, NPlaced, Targets, Holding, Removing, N!vars,
   N!cache, N!users, N!locks, N!passes, N!UserRest, N!To, N!Pass, N!PassRest, N!LockRest,
   N!Failed, N!Touched
<1>1. NType'
  BY DEF N!Lease
<1>2. NHeld'
  BY DEF N!Lease
<1>3. NGuarded'
  BY DEF N!Lease
<1>4. NAgain'
  BY DEF N!Lease
<1>5. NPlaced'
  BY DEF N!Lease
<1> QED BY <1>1, <1>2, <1>3, <1>4, <1>5

\* The directory is looked at.
LEMMA NLookKeeps ==
  ASSUME NInv, NEW u \in Users, N!Look(u) PROVE NInv'
<1> USE DEF NInv, NType, NHeld, NGuarded, NAgain, NPlaced, Targets, Holding, Removing, N!vars,
   N!cache, N!users, N!locks, N!passes, N!UserRest, N!To, N!Pass, N!PassRest, N!LockRest,
   N!Failed, N!Touched
<1>1. NType'
  BY DEF N!Look
<1>2. NHeld'
  BY DEF N!Look
<1>3. NGuarded'
  BY DEF N!Look
<1>4. NAgain'
  BY DEF N!Look
<1>5. NPlaced'
  BY DEF N!Look
<1> QED BY <1>1, <1>2, <1>3, <1>4, <1>5

\* The snapshot is read, and is there.
LEMMA NValidateKeeps ==
  ASSUME NInv, NEW u \in Users, N!Validate(u) PROVE NInv'
<1> USE DEF NInv, NType, NHeld, NGuarded, NAgain, NPlaced, Targets, Holding, Removing, N!vars,
   N!cache, N!users, N!locks, N!passes, N!UserRest, N!To, N!Pass, N!PassRest, N!LockRest,
   N!Failed, N!Touched
<1>1. NType'
  BY DEF N!Validate
<1>2. NHeld'
  BY DEF N!Validate
<1>3. NGuarded'
  BY DEF N!Validate
<1>4. NAgain'
  BY DEF N!Validate
<1>5. NPlaced'
  BY DEF N!Validate
<1> QED BY <1>1, <1>2, <1>3, <1>4, <1>5

\* It was moved away under the reader.
LEMMA NVanishedKeeps ==
  ASSUME NInv, NEW u \in Users, N!Vanished(u) PROVE NInv'
<1> USE DEF NInv, NType, NHeld, NGuarded, NAgain, NPlaced, Targets, Holding, Removing, N!vars,
   N!cache, N!users, N!locks, N!passes, N!UserRest, N!To, N!Pass, N!PassRest, N!LockRest,
   N!Failed, N!Touched
<1>1. NType'
  BY DEF N!Vanished
<1>2. NHeld'
  BY DEF N!Vanished
<1>3. NGuarded'
  BY DEF N!Vanished
<1>4. NAgain'
  BY DEF N!Vanished
<1>5. NPlaced'
  BY DEF N!Vanished
<1> QED BY <1>1, <1>2, <1>3, <1>4, <1>5

\* There is none: one is made.
LEMMA NPrepareKeeps ==
  ASSUME NInv, NEW u \in Users, N!Prepare(u) PROVE NInv'
<1> USE DEF NInv, NType, NHeld, NGuarded, NAgain, NPlaced, Targets, Holding, Removing, N!vars,
   N!cache, N!users, N!locks, N!passes, N!UserRest, N!To, N!Pass, N!PassRest, N!LockRest,
   N!Failed, N!Touched
<1>1. NType'
  BY DEF N!Prepare
<1>2. NHeld'
  BY DEF N!Prepare
<1>3. NGuarded'
  BY DEF N!Prepare
<1>4. NAgain'
  BY DEF N!Prepare
<1>5. NPlaced'
  BY DEF N!Prepare
<1> QED BY <1>1, <1>2, <1>3, <1>4, <1>5

\* Making it fails.
LEMMA NUnpreparedKeeps ==
  ASSUME NInv, NEW u \in Users, N!Unprepared(u) PROVE NInv'
<1> USE DEF NInv, NType, NHeld, NGuarded, NAgain, NPlaced, Targets, Holding, Removing, N!vars,
   N!cache, N!users, N!locks, N!passes, N!UserRest, N!To, N!Pass, N!PassRest, N!LockRest,
   N!Failed, N!Touched
<1>1. NType'
  BY DEF N!Unprepared
<1>2. NHeld'
  BY DEF N!Unprepared
<1>3. NGuarded'
  BY DEF N!Unprepared
<1>4. NAgain'
  BY DEF N!Unprepared
<1>5. NPlaced'
  BY DEF N!Unprepared
<1> QED BY <1>1, <1>2, <1>3, <1>4, <1>5

\* It is put in place.
LEMMA NPlaceKeeps ==
  ASSUME NInv, NEW u \in Users, N!Place(u) PROVE NInv'
<1> USE DEF NInv, NType, NHeld, NGuarded, NAgain, NPlaced, Targets, Holding, Removing, N!vars,
   N!cache, N!users, N!locks, N!passes, N!UserRest, N!To, N!Pass, N!PassRest, N!LockRest,
   N!Failed, N!Touched
<1>1. NType'
  BY DEF N!Place
<1>2. NHeld'
  BY DEF N!Place
<1>3. NGuarded'
  BY DEF N!Place
<1>4. NAgain'
  BY DEF N!Place
<1>5. NPlaced'
  BY DEF N!Place
<1> QED BY <1>1, <1>2, <1>3, <1>4, <1>5

\* Another was first.
LEMMA NOccupiedKeeps ==
  ASSUME NInv, NEW u \in Users, N!Occupied(u) PROVE NInv'
<1> USE DEF NInv, NType, NHeld, NGuarded, NAgain, NPlaced, Targets, Holding, Removing, N!vars,
   N!cache, N!users, N!locks, N!passes, N!UserRest, N!To, N!Pass, N!PassRest, N!LockRest,
   N!Failed, N!Touched
<1>1. NType'
  BY DEF N!Occupied
<1>2. NHeld'
  BY DEF N!Occupied
<1>3. NGuarded'
  BY DEF N!Occupied
<1>4. NAgain'
  BY DEF N!Occupied
<1>5. NPlaced'
  BY DEF N!Occupied
<1> QED BY <1>1, <1>2, <1>3, <1>4, <1>5

\* That one is taken.
LEMMA NYieldKeeps ==
  ASSUME NInv, NEW u \in Users, N!Yield(u) PROVE NInv'
<1> USE DEF NInv, NType, NHeld, NGuarded, NAgain, NPlaced, Targets, Holding, Removing, N!vars,
   N!cache, N!users, N!locks, N!passes, N!UserRest, N!To, N!Pass, N!PassRest, N!LockRest,
   N!Failed, N!Touched
<1>1. NType'
  BY DEF N!Yield
<1>2. NHeld'
  BY DEF N!Yield
<1>3. NGuarded'
  BY DEF N!Yield
<1>4. NAgain'
  BY DEF N!Yield
<1>5. NPlaced'
  BY DEF N!Yield
<1> QED BY <1>1, <1>2, <1>3, <1>4, <1>5

\* The worker starts from the snapshot.
LEMMA NFinishKeeps ==
  ASSUME NInv, NEW u \in Users, N!Finish(u) PROVE NInv'
<1> USE DEF NInv, NType, NHeld, NGuarded, NAgain, NPlaced, Targets, Holding, Removing, N!vars,
   N!cache, N!users, N!locks, N!passes, N!UserRest, N!To, N!Pass, N!PassRest, N!LockRest,
   N!Failed, N!Touched
<1>1. NType'
  BY DEF N!Finish
<1>2. NHeld'
  BY DEF N!Finish
<1>3. NGuarded'
  BY DEF N!Finish
<1>4. NAgain'
  BY DEF N!Finish
<1>5. NPlaced'
  BY DEF N!Finish
<1> QED BY <1>1, <1>2, <1>3, <1>4, <1>5

\* It has ended.
LEMMA NReleaseKeeps ==
  ASSUME NInv, NEW u \in Users, N!Release(u) PROVE NInv'
<1> USE DEF NInv, NType, NHeld, NGuarded, NAgain, NPlaced, Targets, Holding, Removing, N!vars,
   N!cache, N!users, N!locks, N!passes, N!UserRest, N!To, N!Pass, N!PassRest, N!LockRest,
   N!Failed, N!Touched
<1>1. NType'
  BY DEF N!Release
<1>2. NHeld'
  BY DEF N!Release
<1>3. NGuarded'
  BY DEF N!Release
<1>4. NAgain'
  BY DEF N!Release
<1>5. NPlaced'
  BY DEF N!Release
<1> QED BY <1>1, <1>2, <1>3, <1>4, <1>5

\* A process is killed, and may leave its worker.
LEMMA NKillKeeps ==
  ASSUME NInv, NEW u \in Users, N!Kill(u) PROVE NInv'
<1> USE DEF NInv, NType, NHeld, NGuarded, NAgain, NPlaced, Targets, Holding, Removing, N!vars,
   N!cache, N!users, N!locks, N!passes, N!UserRest, N!To, N!Pass, N!PassRest, N!LockRest,
   N!Failed, N!Touched
<1>1. NType'
  BY DEF N!Kill
<1>2. NHeld'
  BY DEF N!Kill
<1>3. NGuarded'
  BY DEF N!Kill
<1>4. NAgain'
  BY DEF N!Kill
<1>5. NPlaced'
  BY DEF N!Kill
<1> QED BY <1>1, <1>2, <1>3, <1>4, <1>5

\* Such a worker ends.
LEMMA NOrphanEndsKeeps ==
  ASSUME NInv, NEW u \in Users, N!OrphanEnds(u) PROVE NInv'
<1> USE DEF NInv, NType, NHeld, NGuarded, NAgain, NPlaced, Targets, Holding, Removing, N!vars,
   N!cache, N!users, N!locks, N!passes, N!UserRest, N!To, N!Pass, N!PassRest, N!LockRest,
   N!Failed, N!Touched
<1>1. NType'
  BY DEF N!OrphanEnds
<1>2. NHeld'
  BY DEF N!OrphanEnds
<1>3. NGuarded'
  BY DEF N!OrphanEnds
<1>4. NAgain'
  BY DEF N!OrphanEnds
<1>5. NPlaced'
  BY DEF N!OrphanEnds
<1> QED BY <1>1, <1>2, <1>3, <1>4, <1>5

\* What a pruner does before it has chosen anything, or after its pass.
LEMMA NLockKeeps ==
  ASSUME NInv, NEW p \in Pruners, N!Begin(p) \/ N!Take(p) \/ N!FindStale(p) \/ N!GiveUp(p) \/ N!Move(p) \/ N!Compare(p) \/ N!Unlock(p) \/ N!TooSoon(p)
  PROVE NInv'
<1> USE DEF NInv, NType, NHeld, NGuarded, NAgain, NPlaced, Targets, Holding, Removing, N!vars,
   N!cache, N!users, N!locks, N!passes, N!UserRest, N!To, N!Pass, N!PassRest, N!LockRest,
   N!Failed, N!Touched
<1>1. NType'
  BY DEF N!Begin, N!Take, N!FindStale, N!GiveUp, N!Move, N!Compare, N!Unlock, N!TooSoon
<1>2. NHeld'
  BY DEF N!Begin, N!Take, N!FindStale, N!GiveUp, N!Move, N!Compare, N!Unlock, N!TooSoon
<1>3. NGuarded'
  BY DEF N!Begin, N!Take, N!FindStale, N!GiveUp, N!Move, N!Compare, N!Unlock, N!TooSoon
<1>4. NAgain'
  BY DEF N!Begin, N!Take, N!FindStale, N!GiveUp, N!Move, N!Compare, N!Unlock, N!TooSoon
<1>5. NPlaced'
  BY DEF N!Begin, N!Take, N!FindStale, N!GiveUp, N!Move, N!Compare, N!Unlock, N!TooSoon
<1> QED BY <1>1, <1>2, <1>3, <1>4, <1>5

\* Stale leases go, and candidates are chosen.
LEMMA NListKeeps ==
  ASSUME NInv, NEW p \in Pruners, N!List(p) PROVE NInv'
<1> USE DEF NInv, NType, NHeld, NGuarded, NAgain, NPlaced, Targets, Holding, Removing, N!vars,
   N!cache, N!users, N!locks, N!passes, N!UserRest, N!To, N!Pass, N!PassRest, N!LockRest,
   N!Failed, N!Touched
<1>1. NType'
  <2>1. \A C \in N!Candidates : C \subseteq Keys
    BY DEF N!Candidates
  <2> QED
    BY <2>1 DEF N!List, N!Stale, N!Alive
<1>2. NHeld'
  BY DEF N!List, N!Stale, N!Alive
<1>3. NGuarded'
  BY DEF N!List, N!Stale, N!Alive
<1>4. NAgain'
  BY DEF N!List, N!Stale, N!Alive
<1>5. NPlaced'
  BY DEF N!List, N!Stale, N!Alive
<1> QED BY <1>1, <1>2, <1>3, <1>4, <1>5

\* What a process runs from is taken off the list.
LEMMA NProcessesKeeps ==
  ASSUME NInv, NEW p \in Pruners, N!Processes(p) PROVE NInv'
<1> USE DEF NInv, NType, NHeld, NGuarded, NAgain, NPlaced, Targets, Holding, Removing, N!vars,
   N!cache, N!users, N!locks, N!passes, N!UserRest, N!To, N!Pass, N!PassRest, N!LockRest,
   N!Failed, N!Touched
<1>1. NType'
  BY DEF N!Processes, N!Running
<1>2. NHeld'
  BY DEF N!Processes, N!Running
<1>3. NGuarded'
  BY DEF N!Processes, N!Running
<1>4. NAgain'
  BY DEF N!Processes, N!Running
<1>5. NPlaced'
  BY DEF N!Processes, N!Running
<1> QED BY <1>1, <1>2, <1>3, <1>4, <1>5

\* The processes cannot be listed.
LEMMA NUnlistedKeeps ==
  ASSUME NInv, NEW p \in Pruners, N!Unlisted(p) PROVE NInv'
<1> USE DEF NInv, NType, NHeld, NGuarded, NAgain, NPlaced, Targets, Holding, Removing, N!vars,
   N!cache, N!users, N!locks, N!passes, N!UserRest, N!To, N!Pass, N!PassRest, N!LockRest,
   N!Failed, N!Touched
<1>1. NType'
  BY DEF N!Unlisted
<1>2. NHeld'
  BY DEF N!Unlisted
<1>3. NGuarded'
  BY DEF N!Unlisted
<1>4. NAgain'
  BY DEF N!Unlisted
<1>5. NPlaced'
  BY DEF N!Unlisted
<1> QED BY <1>1, <1>2, <1>3, <1>4, <1>5

\* The next candidate.
\* Every step keeps it.
LEMMA NNextKeyKeeps ==
  ASSUME NInv, NEW p \in Pruners, N!NextKey(p) PROVE NInv'
<1> USE DEF NInv, NType, NHeld, NGuarded, NAgain, NPlaced, Targets, Holding, Removing, N!vars,
   N!cache, N!users, N!locks, N!passes, N!UserRest, N!To, N!Pass, N!PassRest, N!LockRest,
   N!Failed, N!Touched
<1>1. NType'
  BY DEF N!NextKey
<1>2. NHeld'
  BY DEF N!NextKey
<1>3. NGuarded'
  BY DEF N!NextKey
<1>4. NAgain'
  BY DEF N!NextKey
<1>5. NPlaced'
  BY DEF N!NextKey
<1> QED BY <1>1, <1>2, <1>3, <1>4, <1>5

\* Is it still unused and without a lease?
LEMMA NCheckKeeps ==
  ASSUME NInv, NEW p \in Pruners, N!Check(p) PROVE NInv'
<1> USE DEF NInv, NType, NHeld, NGuarded, NAgain, NPlaced, Targets, Holding, Removing, N!vars,
   N!cache, N!users, N!locks, N!passes, N!UserRest, N!To, N!Pass, N!PassRest, N!LockRest,
   N!Failed, N!Touched
<1>1. NType'
  BY DEF N!Check, N!Spared, N!Leased, N!Stale
<1>2. NHeld'
  BY DEF N!Check, N!Spared, N!Leased, N!Stale
<1>3. NGuarded'
  BY DEF N!Check, N!Spared, N!Leased, N!Stale
<1>4. NAgain'
  BY DEF N!Check, N!Spared, N!Leased, N!Stale
<1>5. NPlaced'
  BY DEF N!Check, N!Spared, N!Leased, N!Stale
<1> QED BY <1>1, <1>2, <1>3, <1>4, <1>5

\* It is moved away.
LEMMA NRetireKeeps ==
  ASSUME NInv, NEW p \in Pruners, N!Retire(p) PROVE NInv'
<1> USE DEF NInv, NType, NHeld, NGuarded, NAgain, NPlaced, Targets, Holding, Removing, N!vars,
   N!cache, N!users, N!locks, N!passes, N!UserRest, N!To, N!Pass, N!PassRest, N!LockRest,
   N!Failed, N!Touched
<1>1. NType'
  BY DEF N!Retire
<1>2. NHeld'
  BY DEF N!Retire
<1>3. NGuarded'
  BY DEF N!Retire
<1>4. NAgain'
  BY DEF N!Retire
<1>5. NPlaced'
  BY DEF N!Retire
<1> QED BY <1>1, <1>2, <1>3, <1>4, <1>5

\* The leases are looked at once more, and it is put back or deleted.
LEMMA NAgainKeeps ==
  ASSUME NInv, NEW p \in Pruners, N!Again(p) PROVE NInv'
<1> USE DEF NInv, NType, NHeld, NGuarded, NAgain, NPlaced, Targets, Holding, Removing, N!vars,
   N!cache, N!users, N!locks, N!passes, N!UserRest, N!To, N!Pass, N!PassRest, N!LockRest,
   N!Failed, N!Touched
<1>1. NType'
  BY DEF N!Again, N!Leased, N!Stale
<1>2. NHeld'
  BY DEF N!Again, N!Leased, N!Stale
<1>3. NGuarded'
  BY DEF N!Again, N!Leased, N!Stale
<1>4. NAgain'
  BY DEF N!Again, N!Leased, N!Stale
<1>5. NPlaced'
  BY DEF N!Again, N!Leased, N!Stale
<1> QED BY <1>1, <1>2, <1>3, <1>4, <1>5

\* An hour passes, in no pass.
LEMMA NHourKeeps ==
  ASSUME NInv, N!Hour PROVE NInv'
<1> USE DEF NInv, NType, NHeld, NGuarded, NAgain, NPlaced, Targets, Holding, Removing, N!vars,
   N!cache, N!users, N!locks, N!passes, N!UserRest, N!To, N!Pass, N!PassRest, N!LockRest,
   N!Failed, N!Touched
<1>1. NType'
  BY DEF N!Hour, N!Busy, N!Alive
<1>2. NHeld'
  BY DEF N!Hour, N!Busy, N!Alive
<1>3. NGuarded'
  BY DEF N!Hour, N!Busy, N!Alive
<1>4. NAgain'
  BY DEF N!Hour, N!Busy, N!Alive
<1>5. NPlaced'
  BY DEF N!Hour, N!Busy, N!Alive
<1> QED BY <1>1, <1>2, <1>3, <1>4, <1>5

\* So does a day.
LEMMA NDayKeeps ==
  ASSUME NInv, NEW k \in Keys, N!Day(k) PROVE NInv'
<1> USE DEF NInv, NType, NHeld, NGuarded, NAgain, NPlaced, Targets, Holding, Removing, N!vars,
   N!cache, N!users, N!locks, N!passes, N!UserRest, N!To, N!Pass, N!PassRest, N!LockRest,
   N!Failed, N!Touched
<1>1. NType'
  BY DEF N!Day
<1>2. NHeld'
  BY DEF N!Day
<1>3. NGuarded'
  BY DEF N!Day
<1>4. NAgain'
  BY DEF N!Day
<1>5. NPlaced'
  BY DEF N!Day
<1> QED BY <1>1, <1>2, <1>3, <1>4, <1>5

\* Every step keeps it.
LEMMA NNext ==
  ASSUME NInv, [N!Next]_nVars PROVE NInv'
<1>1. CASE UNCHANGED nVars
  BY <1>1 DEF nVars, NInv, NType, NHeld, NGuarded, NAgain, NPlaced, Targets, Holding, Removing
<1>2. CASE N!Next
  <2>1. ASSUME NEW p \in Pruners, N!KillPruner(p) PROVE NInv'
    BY <2>1 DEF NInv, NType, N!KillPruner
  <2> QED
    BY <1>2, <2>1, NLeaseKeeps, NLookKeeps, NValidateKeeps, NVanishedKeeps, NPrepareKeeps,
       NUnpreparedKeeps, NPlaceKeeps, NOccupiedKeeps, NYieldKeeps, NFinishKeeps, NReleaseKeeps,
       NKillKeeps, NOrphanEndsKeeps, NLockKeeps, NListKeeps, NProcessesKeeps, NUnlistedKeeps,
       NNextKeyKeeps, NCheckKeeps, NRetireKeeps, NAgainKeeps, NHourKeeps, NDayKeeps
       DEF N!Next, N!UserStep, N!PassStep
<1> QED BY <1>1, <1>2

\* What the runtime of a worker needs follows.
LEMMA NPromise ==
  NInv => UsedIsKept
BY DEF UsedIsKept, N!UsedIsKept, N!Running, N!Leased, N!Stale, NInv, NType, NHeld, NGuarded,
   NAgain, NPlaced, Targets, Holding, Removing

-----------------------------------------------------------------------------
(* The supervisor (Supervisor) *)

SP == INSTANCE SupervisorProofs WITH
    Calls <- Requests, MaxUpdates <- Releases, MaxFaults <- WorkerFaults,
    active <- s_active, ready <- s_ready, failure <- s_failure, stopping <- s_stopping,
    attempts <- s_attempts, pc <- s_pc, previous <- s_previous, candidate <- s_candidate,
    quiesced <- s_quiesced, reply <- s_reply, queue <- s_queue, pending <- s_pending,
    proc <- s_proc, phase <- s_phase, cmds <- s_cmds, closed <- s_closed,
    retiring <- s_retiring, rev <- s_rev, installed <- s_installed, at <- s_at,
    aborted <- s_aborted, sent <- s_sent, cancelled <- s_cancelled, answer <- s_answer,
    faults <- s_faults

\* The supervisor of the suite is the one SupervisorProofs is about: its two instances
\* under the same substitution are the same, definition by definition.
LEMMA SameInit == S!Init <=> SP!Init
BY
   DEF S!Reqs, S!Workers, S!Nobody, S!Init, SP!Reqs, SP!Workers, SP!Nobody, SP!Init

\* So are their steps,
LEMMA SameNext == (S!Next <=> SP!Next) /\ S!vars = SP!vars
BY
   DEF S!Reqs, S!Workers, S!Nobody, S!own, S!check, S!worker, S!client, S!calls, S!vars,
   S!Switching, S!CanRecover, S!Running, S!Fault, S!SomeFault, S!QueuedReqs, S!Told,
   S!Forward, S!Pass, S!Without, S!ClientSends, S!ClientCancels, S!Disconnect, S!Begin, S!End,
   S!Replies, S!Reloadable, S!Control, S!Dies, S!Send, S!Awaited, S!StillOwed, S!Message,
   S!Boot, S!Fail, S!Timeout, S!Forked, S!Unforked, S!MayFork, S!Spawn, S!Flushed, S!Kept,
   S!Finish, S!FinishRecovery, S!Wait, S!Stop, S!Stopped, S!Stuck, S!GivenUp, S!NothingOwed,
   S!CheckReload, S!Inspected, S!Introduced, S!HandOver, S!Switch, S!Retired, S!RejectedFirst,
   S!Rejected, S!ResumedFails, S!Resumed, S!MayRecover, S!CheckRecovery, S!MustStop,
   S!StoppedFailed, S!Reintroduced, S!Reactivated, S!RejectedAgain, S!Install, S!Check,
   S!Next, SP!Reqs, SP!Workers, SP!Nobody, SP!own, SP!check, SP!worker, SP!client, SP!calls,
   SP!vars, SP!Switching, SP!CanRecover, SP!Running, SP!Fault, SP!SomeFault, SP!QueuedReqs,
   SP!Told, SP!Forward, SP!Pass, SP!Without, SP!ClientSends, SP!ClientCancels, SP!Disconnect,
   SP!Begin, SP!End, SP!Replies, SP!Reloadable, SP!Control, SP!Dies, SP!Send, SP!Awaited,
   SP!StillOwed, SP!Message, SP!Boot, SP!Fail, SP!Timeout, SP!Forked, SP!Unforked, SP!MayFork,
   SP!Spawn, SP!Flushed, SP!Kept, SP!Finish, SP!FinishRecovery, SP!Wait, SP!Stop, SP!Stopped,
   SP!Stuck, SP!GivenUp, SP!NothingOwed, SP!CheckReload, SP!Inspected, SP!Introduced,
   SP!HandOver, SP!Switch, SP!Retired, SP!RejectedFirst, SP!Rejected, SP!ResumedFails,
   SP!Resumed, SP!MayRecover, SP!CheckRecovery, SP!MustStop, SP!StoppedFailed,
   SP!Reintroduced, SP!Reactivated, SP!RejectedAgain, SP!Install, SP!Check, SP!Next

\* and what is said of them.
LEMMA SameSupervised == S!Supervised <=> SP!Supervised
BY
   DEF S!Reqs, S!Workers, S!AnsweredOnce, S!NotSentIsTrue, S!NeverReplayed, S!OneActive,
   S!NoOrphans, S!Supervised, SP!Reqs, SP!Workers, SP!AnsweredOnce, SP!NotSentIsTrue,
   SP!NeverReplayed, SP!OneActive, SP!NoOrphans, SP!Supervised, S!Cardinality, SP!Cardinality

\* The assumption is the same as well.
LEMMA SupervisorAssumed == SP!SupervisorAssumption
BY HostAssumption
   DEF HostAssumption, S!SupervisorAssumption, SP!SupervisorAssumption

\* And the calls that a worker is busy with.
LEMMA SameRunning == \A w : S!Running(w) = SP!Running(w)
BY
   DEF S!Reqs, S!Running, SP!Reqs, SP!Running

\* A reload that takes no worker from a call in the one takes none in the other.
LEMMA SameHands == SP!HandsOverIdle => S!HandsOverIdle
<1>1. [s_active' # s_active /\ ~s_failure =>
          SP!Running(s_active) = {} /\ s_pending[s_active] = {}]_(SP!vars)
      => [s_active' # s_active /\ ~s_failure =>
          S!Running(s_active) = {} /\ s_pending[s_active] = {}]_(S!vars)
  BY SameRunning
    DEF S!vars, S!own, S!check, S!worker, S!client, S!calls,
       SP!vars, SP!own, SP!check, SP!worker, SP!client, SP!calls
<1> QED BY <1>1, PTL DEF S!HandsOverIdle, SP!HandsOverIdle

-----------------------------------------------------------------------------
(* The suite *)

hostVars == <<part, vars, sVars, rVars, wVars, uVars, nVars>>

\* In the suite the supervisor behaves as its module says.
LEMMA SuiteSupervisor == SuiteSpec => SP!Spec
<1>1. SuiteInit => SP!Init
  BY SameInit DEF SuiteInit
<1>2. [SuiteNext]_hostVars => [SP!Next]_(SP!vars)
  <2>1. UNCHANGED sVars => UNCHANGED (SP!vars)
    BY DEF sVars, SP!vars, SP!own, SP!check, SP!worker, SP!client, SP!calls
  <2> QED BY <2>1, SameNext DEF SuiteNext, hostVars
<1> QED BY <1>1, <1>2, PTL DEF SuiteSpec, SP!Spec, hostVars

\* So does the wire.
LEMMA SuiteWire == SuiteSpec => W!Spec
<1>1. SuiteInit => W!Init
  BY DEF SuiteInit
<1>2. [SuiteNext]_hostVars => [W!Next]_(W!vars)
  <2>1. UNCHANGED wVars => UNCHANGED (W!vars)
    BY DEF wVars, W!vars, W!client, W!pipes, W!server
  <2> QED BY <2>1 DEF SuiteNext, hostVars
<1> QED BY <1>1, <1>2, PTL DEF SuiteSpec, W!Spec, hostVars

HostInv == UInv /\ NInv

\* The invariants of the update and of the cache hold in every behaviour of the suite.
THEOREM HostInvariance == SuiteSpec => []HostInv
<1>1. SuiteInit => HostInv
  BY UInitial, NInitial DEF SuiteInit, HostInv
<1>2. HostInv /\ [SuiteNext]_hostVars => HostInv'
  BY UNext, NNext DEF SuiteNext, hostVars, HostInv
<1> QED BY <1>1, <1>2, PTL DEF SuiteSpec, hostVars

\* One worker at a time is at work and none is left over, and every request is with
\* one worker only and is answered once and truthfully (src/src/mcp-supervisor.mjs).
THEOREM WorkersAreSupervised == SuiteSpec => []Supervised
BY SuiteSupervisor, SP!Supervision, SameSupervised, SupervisorAssumed, PTL DEF Supervised

\* A reload takes no worker from a call that runs, and updaters that do not overlap
\* never take the package, the record or the relay back to an older version, whatever
\* fails, is repeated or is switched off in between (scripts/update.mjs).
THEOREM HandsOverForward == SuiteSpec => HandsOver
<1>1. SuiteSpec => S!HandsOverIdle
  BY SuiteSupervisor, SP!HandsOver, SameHands, SupervisorAssumed, PTL
<1>2. HostInv /\ [SuiteNext]_hostVars => [UStep]_(U!vars)
  <2>1. UNCHANGED uVars => UNCHANGED (U!vars)
    BY DEF uVars, U!vars, U!world, U!ghosts, U!bounds
  <2> QED BY <2>1, UForward DEF SuiteNext, hostVars, HostInv
<1>3. SuiteSpec => [][UStep]_(U!vars)
  BY <1>2, HostInvariance, PTL DEF SuiteSpec, hostVars
<1>4. SuiteSpec => U!NeverBack
  BY <1>3, PTL DEF U!NeverBack, UStep
<1> QED BY <1>1, <1>4, PTL DEF HandsOver

\* A job keeps the promise of Delivery on its way to the relay, in every behaviour of
\* the suite.
THEOREM SuiteKeepsPromise == SuiteSpec => KeepsPromise
<1>1. W!WireAssumption
  BY HostAssumption DEF HostAssumption
<1> QED BY <1>1, SuiteWire, JobsKeepPromise, PTL DEF KeepsPromise

\* The runtime a worker was started from stays in place while the worker runs, although
\* pruners remove what is unused beside it, and although the process that leased it was
\* killed (retireSnapshot() of src/src/release-snapshot.mjs).
THEOREM RuntimeIsKept == SuiteSpec => []UsedIsKept
BY HostInvariance, NPromise, PTL DEF HostInv

=============================================================================
