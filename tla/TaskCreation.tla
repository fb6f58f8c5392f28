---------------------------- MODULE TaskCreation ----------------------------
(***************************************************************************)
(* Creation of a Codex Desktop task: create(), reuseReceipt() and          *)
(* resolveCreation() of src/src/thread-delivery.mjs, the receipt and lock  *)
(* files of desktop-task-receipts.mjs, handleDesktopRequest() of           *)
(* native-relay-companion.mjs with native-creation-receipts.mjs, and the   *)
(* reply receipt that lets a later call observe the creation.              *)
(*                                                                         *)
(* All calls carry the same key; each runs in a bridge process of its own, *)
(* which may be killed.  The companion is one process, which may be killed *)
(* and started again.  Desktop acts on what it was asked when it likes,    *)
(* also after everybody has stopped waiting.  Files are replaced by a      *)
(* rename, except the native receipt and the signing key, which are        *)
(* written in place when they are created.                                 *)
(***************************************************************************)
EXTENDS Naturals, FiniteSets

CONSTANTS
    Calls, NoCall,
    Accounts,
    MaxKills,       \* bound on killed bridges and companions
    MaxSwitches     \* bound on changes of the signed-in accounts

ASSUME CreationAssumption == NoCall \notin Calls /\ {MaxKills, MaxSwitches} \subseteq Nat

VARIABLES
    pc,         \* of each call, see Active
    acct,       \* the accounts the call was made under
    result,     \* what it answers, see Results
    told,       \* the creation whose delivery ID the answer carries
    lock,       \* the call whose token the lock file holds
    task,       \* the Desktop creation receipt
    reply,      \* the creations with a reply receipt
    pipe,       \* the call's connection to the companion
    native,     \* the companion's receipt of each creation
    key,        \* the signing key file: "none", "partial", "whole"
    waiting,    \* the creations a handler of the companion waits for
    desk,       \* what Desktop made of each creation
    up,         \* the companion runs
    account,    \* the accounts signed in
    observed,   \* the creations resolveCreation() has confirmed
    kills, switches

bridge  == <<pc, acct, result, told>>
files   == <<lock, task, reply>>
host    == <<native, key, waiting, up>>
world   == <<desk, account, switches>>
vars    == <<bridge, files, pipe, host, world, observed, kills>>

Section == {"locked", "prepared", "send", "wait", "release"}
Active  == {"begun", "listed"} \cup Section
Results == {"none", "created", "reused", "unconfirmed", "blocked", "nothing"}
NoTask  == [state |-> "none", by |-> NoCall]

TypeOK ==
    /\ pc \in [Calls -> {"off", "done", "dead"} \cup Active]
    /\ acct \in [Calls -> Accounts] /\ result \in [Calls -> Results]
    /\ told \in [Calls -> Calls \cup {NoCall}]
    /\ lock \in Calls \cup {NoCall}
    /\ task \in [state : {"none", "pending", "unknown", "known"}, by : Calls \cup {NoCall}]
    /\ reply \subseteq Calls
    /\ pipe \in [Calls -> {"none", "frame", "taken", "closed", "ok", "unknown", "error"}]
    /\ native \in [Calls -> {"missing", "partial", "pending", "completed", "doubtful", "failed"}]
    /\ key \in {"none", "partial", "whole"} /\ waiting \subseteq Calls
    /\ desk \in [Calls -> {"none", "asked", "made", "refused"}]
    /\ up \in BOOLEAN /\ account \in Accounts /\ observed \subseteq Calls
    /\ kills \in 0..MaxKills /\ switches \in 0..MaxSwitches

Set(f, c, v) == [f EXCEPT ![c] = v]

-----------------------------------------------------------------------------
(* The bridge. *)

\* reuseReceipt(): what a call answers when a receipt exists.
Reuse(c, r, id) ==
    \/ /\ task.state = "unknown" /\ acct[c] = acct[task.by]
       /\ r = "unconfirmed" /\ id = task.by
    \/ /\ task.state = "known" /\ acct[c] = acct[task.by]
       /\ up /\ r = "reused" /\ id = task.by
    \/ r = "blocked" /\ id = NoCall
       /\ (task.state = "unknown" => acct[c] # acct[task.by])

Say(c, to, r, id) ==
    /\ pc' = Set(pc, c, to)
    /\ result' = Set(result, c, r)
    /\ told' = Set(told, c, id)

\* create(): the accounts, the receipt, the saved project, the lock.
Begin(c) ==
    /\ pc[c] = "off"
    /\ acct' = Set(acct, c, account)
    /\ pc' = Set(pc, c, "begun")
    /\ UNCHANGED <<result, told, files, pipe, host, world, observed, kills>>

Read(c) ==
    /\ pc[c] = "begun"
    /\ \/ task = NoTask /\ Say(c, "listed", "none", NoCall)
       \/ /\ task # NoTask
          /\ \E r \in Results, id \in Calls \cup {NoCall} : Reuse(c, r, id) /\ Say(c, "done", r, id)
    /\ UNCHANGED <<acct, files, pipe, host, world, observed, kills>>

\* The list of projects may fail, and the lock file may exist.
Lock(c) ==
    /\ pc[c] = "listed"
    /\ \/ UNCHANGED lock /\ Say(c, "done", "nothing", NoCall)
       \/ lock # NoCall /\ UNCHANGED lock /\ Say(c, "done", "blocked", NoCall)
       \/ lock = NoCall /\ up /\ lock' = c /\ Say(c, "locked", "none", NoCall)
    /\ UNCHANGED <<acct, task, reply, pipe, host, world, observed, kills>>

\* Operators whose names end in Mutant are wrong versions of the operator
\* that follows them, kept to show that the properties notice.
ExistingMutant == FALSE
Existing == task # NoTask

\* Under the lock: the receipt again, the deadline, the companion's probe,
\* onPrepared().
Check(c) ==
    /\ pc[c] = "locked"
    /\ \/ /\ Existing
          /\ \E r \in Results, id \in Calls \cup {NoCall} : Reuse(c, r, id) /\ Say(c, "release", r, id)
          /\ UNCHANGED reply
       \/ /\ ~Existing
          /\ Say(c, "release", "nothing", NoCall)
          /\ UNCHANGED reply
       \/ /\ ~Existing /\ up /\ account = acct[c]
          /\ reply' = reply \cup {c}
          /\ Say(c, "prepared", "none", NoCall)
    /\ UNCHANGED <<acct, lock, task, pipe, host, world, observed, kills>>

PendingMutant(c) == UNCHANGED task
Pending(c) == task' = [state |-> "pending", by |-> c]

Record(c) ==
    /\ pc[c] = "prepared"
    /\ \/ Pending(c) /\ Say(c, "send", "none", NoCall)
       \/ UNCHANGED task /\ Say(c, "release", "blocked", NoCall)
    /\ UNCHANGED <<acct, lock, reply, pipe, host, world, observed, kills>>

\* What the catch clause of create() leaves; the write itself may fail.
DoubtMutant == task' = NoTask
Doubt == \/ task' = [task EXCEPT !.state = "unknown"]
         \/ UNCHANGED task

Send(c) ==
    /\ pc[c] = "send"
    /\ \/ up /\ pipe' = Set(pipe, c, "frame") /\ UNCHANGED task /\ Say(c, "wait", "none", NoCall)
       \/ ~up /\ UNCHANGED pipe /\ Doubt /\ Say(c, "release", "blocked", NoCall)
    /\ UNCHANGED <<acct, lock, reply, host, world, observed, kills>>

ConfirmsMutant == {"ok", "unknown"}
Confirms == {"ok"}

\* The answer of the companion, a lost connection, or the deadline.
Hear(c) ==
    /\ pc[c] = "wait"
    /\ \/ /\ pipe[c] \in Confirms
          /\ task' = [task EXCEPT !.state = "known"]
          /\ \/ Say(c, "release", "created", c)
             \/ Say(c, "release", "blocked", NoCall)  \* its first turn was not accepted
       \/ /\ pipe[c] \in {"ok", "unknown", "error"}
          /\ Doubt
          /\ Say(c, "release", "blocked", NoCall)
    /\ UNCHANGED <<acct, lock, reply, pipe, host, world, observed, kills>>

GiveUp(c) ==
    /\ pc[c] = "wait"
    /\ Doubt
    /\ Say(c, "release", "unconfirmed", c)
    /\ UNCHANGED <<acct, lock, reply, pipe, host, world, observed, kills>>

\* The end of withLock().
ReleaseMutant(c) == UNCHANGED lock
Release(c) == lock' = IF lock = c THEN NoCall ELSE lock

Finish(c) ==
    /\ pc[c] = "release"
    /\ Release(c)
    /\ pc' = Set(pc, c, "done")
    /\ UNCHANGED <<acct, result, told, task, reply, pipe, host, world, observed, kills>>

Kill(c) ==
    /\ pc[c] \in Active
    /\ kills < MaxKills /\ kills' = kills + 1
    /\ pc' = Set(pc, c, "dead")
    /\ UNCHANGED <<acct, result, told, files, pipe, host, world, observed>>

\* A person removes the lock a dead bridge left.
Repair ==
    /\ lock # NoCall /\ pc[lock] = "dead"
    /\ lock' = NoCall
    /\ UNCHANGED <<bridge, task, reply, pipe, host, world, observed, kills>>

\* resolveCreation(), for a delivery ID that was answered.
Reachable(c) ==
    /\ c \in reply /\ up /\ account = acct[c]
    /\ \E d \in Calls : pc[d] = "done" /\ told[d] = c
    /\ task.by = c

Observe(c) ==
    /\ Reachable(c) /\ native[c] = "completed"
    /\ observed' = observed \cup {c}
    /\ UNCHANGED <<bridge, files, pipe, host, world, kills>>

-----------------------------------------------------------------------------
(* The companion and Desktop. *)

\* handleDesktopRequest(): accounts, the exclusive receipt, the dispatch.
Take(c) ==
    /\ up /\ pipe[c] = "frame"
    /\ \/ /\ account = acct[c] /\ key # "partial" /\ native[c] = "missing"
          /\ key' = "whole" /\ native' = Set(native, c, "pending")
          /\ desk' = Set(desk, c, "asked")
          /\ waiting' = waiting \cup {c}
          /\ pipe' = Set(pipe, c, "taken")
       \/ /\ account # acct[c] \/ key = "partial"
          /\ pipe' = Set(pipe, c, "error")
          /\ UNCHANGED <<native, key, desk, waiting>>
    /\ UNCHANGED <<bridge, files, up, account, switches, observed, kills>>

\* What the tool answered, and whether the accounts are still the same.
Outcome(c, n, p) ==
    \/ desk[c] = "made" /\ account = acct[c] /\ n = "completed" /\ p = "ok"
    \/ desk[c] \in {"asked", "made"} /\ account = acct[c] /\ n = "doubtful" /\ p = "unknown"
    \/ n = "failed" /\ p = "error"

Return(c) ==
    /\ c \in waiting
    /\ waiting' = waiting \ {c}
    /\ \E n \in {"completed", "doubtful", "failed"}, p \in {"ok", "unknown", "error"} :
         /\ Outcome(c, n, p)
         /\ native' = Set(native, c, n)
         /\ pipe' = Set(pipe, c, p)
    /\ UNCHANGED <<bridge, files, key, up, world, observed, kills>>

Desktop(c) ==
    /\ desk[c] = "asked"
    /\ \E d \in {"made", "refused"} : desk' = Set(desk, c, d)
    /\ UNCHANGED <<bridge, files, pipe, host, account, switches, observed, kills>>

\* Killed, perhaps while reserve() writes the key or the receipt.
Die ==
    /\ up /\ kills < MaxKills
    /\ up' = FALSE /\ kills' = kills + 1
    /\ waiting' = {}
    /\ pipe' = [c \in Calls |-> IF pipe[c] \in {"frame", "taken"} THEN "closed" ELSE pipe[c]]
    /\ \/ UNCHANGED <<native, key>>
       \/ \E c \in Calls :
            /\ pipe[c] = "frame" /\ account = acct[c] /\ key # "partial"
            /\ \/ key = "none" /\ key' = "partial" /\ UNCHANGED native
               \/ key' = "whole" /\ native' = Set(native, c, "partial")
    /\ UNCHANGED <<bridge, files, world, observed>>

Boot ==
    /\ ~up /\ up' = TRUE
    /\ UNCHANGED <<bridge, files, pipe, native, key, waiting, world, observed, kills>>

Switch ==
    /\ switches < MaxSwitches /\ switches' = switches + 1
    /\ \E a \in Accounts \ {account} : account' = a
    /\ UNCHANGED <<bridge, files, pipe, host, desk, observed, kills>>

-----------------------------------------------------------------------------
Init ==
    /\ account \in Accounts
    /\ pc = [c \in Calls |-> "off"] /\ acct = [c \in Calls |-> account]
    /\ result = [c \in Calls |-> "none"] /\ told = [c \in Calls |-> NoCall]
    /\ lock = NoCall /\ task = NoTask /\ reply = {} /\ observed = {}
    /\ pipe = [c \in Calls |-> "none"] /\ native = [c \in Calls |-> "missing"]
    /\ key = "none" /\ waiting = {} /\ up = TRUE
    /\ desk = [c \in Calls |-> "none"]
    /\ kills = 0 /\ switches = 0

Work(c) == Read(c) \/ Lock(c) \/ Check(c) \/ Record(c) \/ Send(c) \/ Hear(c) \/ GiveUp(c) \/ Finish(c)

Next ==
    \/ \E c \in Calls : \/ Begin(c) \/ Work(c) \/ Kill(c) \/ Observe(c)
                        \/ Take(c) \/ Return(c) \/ Desktop(c)
    \/ Repair \/ Die \/ Boot \/ Switch

Fairness ==
    /\ \A c \in Calls : WF_vars(Work(c)) /\ WF_vars(Observe(c))
    /\ WF_vars(Boot) /\ WF_vars(Repair)

Spec == Init /\ [][Next]_vars
FairSpec == Spec /\ Fairness

-----------------------------------------------------------------------------
\* All the calls with one key make at most one task, whichever process is
\* killed and whatever answer is lost or late.
CreatedOnce == Cardinality({c \in Calls : desk[c] = "made"}) <= 1

\* As long as a creation may still reach Desktop, or has, the receipt that
\* stops every other call names it.
Guarded ==
    \A c \in Calls : pipe[c] # "none" \/ desk[c] # "none" => task # NoTask /\ task.by = c

\* A receipt says "known", a call says "created", and an observation is
\* confirmed, only of a task that exists; and a call that says that nothing
\* was created has made nothing.
TruthIsTold ==
    /\ task.state = "known" => desk[task.by] = "made"
    /\ \A c \in Calls :
         /\ result[c] \in {"created", "reused"} => desk[told[c]] = "made"
         /\ c \in observed => desk[c] = "made"
         /\ result[c] = "nothing" => desk[c] = "none" /\ pipe[c] = "none"

\* Every call ends or dies, and the lock does not outlive it but for a death.
Ends == \A c \in Calls : (pc[c] = "begun") ~> (pc[c] \in {"done", "dead"} /\ lock # c)

\* A creation that completed is confirmed to whoever holds its delivery ID,
\* as long as the accounts are those that made it.
Recovers ==
    \A c \in Calls :
      (native[c] = "completed" /\ \E d \in Calls : pc[d] = "done" /\ told[d] = c)
        ~> (c \in observed \/ account # acct[c])
=============================================================================
