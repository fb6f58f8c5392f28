------------------------------ MODULE ConfigEdits ------------------------------
(***************************************************************************)
(* Setup writes its registration into two configuration files of           *)
(* Antigravity, which other programs edit too, or into neither:            *)
(* configureBackgroundWorkerMcp() of                                       *)
(* src/src/background-relay-registration.mjs.                              *)
(*                                                                         *)
(* A file's text is the set of entries in it and every write gives the     *)
(* file an identity of its own, which the checks compare.  No file system  *)
(* replaces a file only if it is unchanged, so something may be written    *)
(* between the last check and the rename; the model keeps that window.     *)
(*                                                                         *)
(* Operators whose names end in Mutant are wrong versions of the operator  *)
(* that follows them, for the model checker to tell apart.                 *)
(***************************************************************************)
EXTENDS Naturals, Sequences

CONSTANTS
    Setups,     \* runs of setup, each known by the entry that it adds
    Edits,      \* edits by others, each an entry
    Order,      \* the files, in the order in which they are replaced
    MaxFailures, MaxCrashes  \* bounds

Files == {Order[i] : i \in DOMAIN Order}

ASSUME ConfigAssumption ==
    /\ Order \in Seq(STRING) /\ Order # <<>> /\ "nowhere" \notin Files
    /\ Setups \cap Edits = {} /\ {MaxFailures, MaxCrashes} \subseteq Nat

VARIABLES
    file,       \* of each file, its entries and its identity; 0 when there is none
    version,    \* the last identity given
    pc, at,     \* of each setup: its step, and the position of its file in Order
    orig,       \* the snapshots it works from
    mine,       \* the identities of the files that it replaced, 0 for the others
    result,     \* what it returned, or will return after the roll-back
    made,       \* the edits made so far, and where
    missed,     \* those made between a check and the write that it was for
    failures, crashes

steps == <<pc, at, orig, mine, result>>
vars  == <<file, version, steps, made, missed, failures, crashes>>

Current(p) == Order[at[p]]
Goto(p, l, i) == pc' = [pc EXCEPT ![p] = l] /\ at' = [at EXCEPT ![p] = i]

\* The files that lack the entry, which are those it replaces.
Lacking(p) == {i \in DOMAIN Order : orig[p][Order[i]].entries \cap Setups = {}}
Above(S, i) == {j \in S : j > i}
FirstOf(S) == CHOOSE j \in S : \A k \in S : j <= k
Last(S)  == CHOOSE j \in S : \A k \in S : j >= k

Put(f, E, id) ==
    /\ file' = [file EXCEPT ![f] = [entries |-> E, id |-> id]] /\ version' = version + 1

-----------------------------------------------------------------------------
(* Forward *)

\* snapshot() of each file; without a change to make, setup is done.
Read(p) ==
    /\ pc[p] = "read" /\ orig' = [orig EXCEPT ![p][Current(p)] = file[Current(p)]]
    /\ Goto(p, IF at[p] = Len(Order) THEN "plan" ELSE "read", IF at[p] = Len(Order) THEN 1 ELSE at[p] + 1)
    /\ UNCHANGED <<file, version, mine, result, made, missed, failures, crashes>>

Plan(p) ==
    /\ pc[p] = "plan"
    /\ IF Lacking(p) = {} THEN Goto(p, "done", 1) /\ result' = [result EXCEPT ![p] = "configured"]
       ELSE Goto(p, "check", FirstOf(Lacking(p))) /\ UNCHANGED result
    /\ UNCHANGED <<file, version, orig, mine, made, missed, failures, crashes>>

\* An error sends apply() back over the files it has replaced, the last one first.
Back(p, S, r) ==
    IF S = {} THEN Goto(p, "done", 1) /\ result' = [result EXCEPT ![p] = r]
    ELSE Goto(p, "undo", Last(S)) /\ result' = [result EXCEPT ![p] = r]

Replaced(p) == {i \in DOMAIN Order : mine[p][Order[i]] # 0}

\* assertCurrent()
UnchangedSinceMutant(p) == TRUE
UnchangedSince(p) == file[Current(p)] = orig[p][Current(p)]

\* All files are checked before the first is replaced ...
Check(p) ==
    /\ pc[p] = "check"
    /\ IF ~UnchangedSince(p) THEN Back(p, {}, "changed")
       ELSE /\ IF Above(Lacking(p), at[p]) # {} THEN Goto(p, "check", FirstOf(Above(Lacking(p), at[p])))
               ELSE Goto(p, "stage", FirstOf(Lacking(p)))
            /\ UNCHANGED result
    /\ UNCHANGED <<file, version, orig, mine, made, missed, failures, crashes>>

\* ... and each again when its new text lies beside it, just before the rename.
Stage(p) ==
    /\ pc[p] = "stage"
    /\ IF UnchangedSince(p) THEN Goto(p, "rename", at[p]) /\ UNCHANGED result
       ELSE Back(p, Replaced(p), "changed")
    /\ UNCHANGED <<file, version, orig, mine, made, missed, failures, crashes>>

Rename(p) ==
    /\ pc[p] = "rename" /\ Goto(p, "verify", at[p])
    /\ Put(Current(p), orig[p][Current(p)].entries \cup {p}, version + 1)
    /\ mine' = [mine EXCEPT ![p][Current(p)] = version + 1]
    /\ UNCHANGED <<orig, result, made, missed, failures, crashes>>

IsMine(p) == file[Current(p)].id = mine[p][Current(p)]

VerifyMutant(p) ==
    /\ pc[p] = "verify"
    /\ IF ~IsMine(p) THEN Back(p, Replaced(p), "changed")
       ELSE Goto(p, "done", 1) /\ result' = [result EXCEPT ![p] = "configured"]
    /\ UNCHANGED <<file, version, orig, mine, made, missed, failures, crashes>>

Verify(p) ==
    /\ pc[p] = "verify"
    /\ IF ~IsMine(p) THEN Back(p, Replaced(p), "changed")
       ELSE IF Above(Lacking(p), at[p]) # {} THEN Goto(p, "stage", FirstOf(Above(Lacking(p), at[p]))) /\ UNCHANGED result
       ELSE Goto(p, "done", 1) /\ result' = [result EXCEPT ![p] = "configured"]
    /\ UNCHANGED <<file, version, orig, mine, made, missed, failures, crashes>>

-----------------------------------------------------------------------------
(* Back *)

\* The next file to restore; one that could not be is remembered.
Onward(p, ok) ==
    Back(p, {i \in Replaced(p) : i < at[p]}, IF ok THEN result[p] ELSE "incomplete")

Undo(p) ==
    /\ pc[p] = "undo"
    /\ IF IsMine(p) THEN Goto(p, "restore", at[p]) /\ UNCHANGED result ELSE Onward(p, FALSE)
    /\ UNCHANGED <<file, version, orig, mine, made, missed, failures, crashes>>

\* The previous text is renamed into place; a file that setup created is removed.
RestoreMutant(p) ==
    /\ pc[p] = "restore" /\ Goto(p, "restored", at[p])
    /\ UNCHANGED <<file, version, orig, mine, result, made, missed, failures, crashes>>

Restore(p) ==
    /\ pc[p] = "restore" /\ Goto(p, "restored", at[p])
    /\ LET old == orig[p][Current(p)]
           id  == IF old.id = 0 THEN 0 ELSE version + 1
       IN  Put(Current(p), old.entries, id) /\ mine' = [mine EXCEPT ![p][Current(p)] = version + 1]
    /\ UNCHANGED <<orig, result, made, missed, failures, crashes>>

\* What was put back must still be there.
Restored(p) ==
    /\ pc[p] = "restored"
    /\ Onward(p, IF orig[p][Current(p)].id = 0 THEN file[Current(p)].id = 0 ELSE IsMine(p))
    /\ UNCHANGED <<file, version, orig, mine, made, missed, failures, crashes>>

-----------------------------------------------------------------------------

\* A call of the file system fails.
Fail(p) ==
    /\ failures < MaxFailures /\ failures' = failures + 1
    /\ \/ pc[p] \in {"read", "check", "stage", "rename", "verify"} /\ Back(p, Replaced(p), "failed")
       \/ pc[p] \in {"undo", "restore", "restored"} /\ Onward(p, FALSE)
    /\ UNCHANGED <<file, version, orig, mine, made, missed, crashes>>

Crash(p) ==
    /\ crashes < MaxCrashes /\ crashes' = crashes + 1
    /\ pc[p] # "done" /\ Goto(p, "done", 1) /\ result' = [result EXCEPT ![p] = "died"]
    /\ UNCHANGED <<file, version, orig, mine, made, missed, failures>>

\* Somebody adds an entry to what the file holds then.
Writing(f) == \E p \in Setups : pc[p] \in {"rename", "restore"} /\ Current(p) = f

Edit(e, f) ==
    /\ made[e] = "nowhere" /\ made' = [made EXCEPT ![e] = f]
    /\ Put(f, file[f].entries \cup {e}, version + 1)
    /\ missed' = IF Writing(f) THEN missed \cup {e} ELSE missed
    /\ UNCHANGED <<steps, failures, crashes>>

Init ==
    /\ file \in [Files -> {[entries |-> {}, id |-> n] : n \in {0, 1}}] /\ version = 1
    /\ pc = [p \in Setups |-> "read"] /\ at = [p \in Setups |-> 1] /\ result = [p \in Setups |-> "none"]
    /\ orig = [p \in Setups |-> [f \in Files |-> [entries |-> {}, id |-> 0]]]
    /\ mine = [p \in Setups |-> [f \in Files |-> 0]]
    /\ made = [e \in Edits |-> "nowhere"] /\ missed = {} /\ failures = 0 /\ crashes = 0

Step(p) ==
    \/ Read(p) \/ Plan(p) \/ Check(p) \/ Stage(p) \/ Rename(p) \/ Verify(p)
    \/ Undo(p) \/ Restore(p) \/ Restored(p) \/ Fail(p) \/ Crash(p)

Next == (\E p \in Setups : Step(p)) \/ \E e \in Edits, f \in Files : Edit(e, f)

Spec == Init /\ [][Next]_vars

-----------------------------------------------------------------------------

\* However setups and others' edits interleave, fail and roll back, an edit is
\* lost only if it was made in the window between a check and the write it was for.
EditsAreKept == \A e \in Edits \ missed : made[e] # "nowhere" => e \in file[made[e]].entries

\* A setup that says it failed, or met a change, has left nothing of its own behind
\* in either file.
AllOrNothing ==
    \A p \in Setups : pc[p] = "done" /\ result[p] \in {"changed", "failed"}
        => \A f \in Files : p \notin file[f].entries

\* A lone setup that says it is configured is: both files have the entry.
ConfiguredIsTrue ==
    \A p \in Setups : result[p] = "configured"
        => \A f \in Files : file[f].entries \cap Setups # {}

\* What the message says of a setup that met a change: concurrent changes were
\* preserved.
ChangesPreserved ==
    \A p \in Setups : pc[p] = "done" /\ result[p] = "changed"
        => \A e \in Edits : made[e] # "nowhere" => e \in file[made[e]].entries

=============================================================================
