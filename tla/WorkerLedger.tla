---------------------------- MODULE WorkerLedger ----------------------------
(***************************************************************************)
(* What the background relay promises its clients about one request ID:    *)
(* work is accepted once, handed to a worker at most once, and, once       *)
(* settled, stays settled.  How the promise survives lost writes, crashes, *)
(* retries and restarts is the business of BackgroundRelay, which          *)
(* implements this module.                                                 *)
(***************************************************************************)
EXTENDS Naturals

CONSTANT Ids        \* request IDs chosen by the clients

VARIABLES
    work,           \* how far each request has got
    runs            \* how often each request was handed to a worker

Stages == {"absent", "owed", "started", "settled"}

TypeOK ==
    /\ work \in [Ids -> Stages]
    /\ runs \in [Ids -> Nat]

Init ==
    /\ work = [i \in Ids |-> "absent"]
    /\ runs = [i \in Ids |-> 0]

\* The relay takes responsibility for request i.
Accept(i) ==
    /\ work[i] = "absent"
    /\ work' = [work EXCEPT ![i] = "owed"]
    /\ UNCHANGED runs

\* The relay hands the owed request i to a worker.
Start(i) ==
    /\ work[i] = "owed"
    /\ work' = [work EXCEPT ![i] = "started"]
    /\ runs' = [runs EXCEPT ![i] = @ + 1]

\* The requests in S get their final receipt (several at once when a daemon
\* that was interrupted comes back), whether or not a worker saw them.
Settle(S) ==
    /\ \A i \in S : work[i] \in {"owed", "started"}
    /\ work' = [i \in Ids |-> IF i \in S THEN "settled" ELSE work[i]]
    /\ UNCHANGED runs

Next ==
    \/ \E i \in Ids : Accept(i) \/ Start(i)
    \/ \E S \in SUBSET Ids : Settle(S)

Spec == Init /\ [][Next]_<<work, runs>>
=============================================================================
