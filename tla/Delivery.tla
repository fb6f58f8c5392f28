------------------------------ MODULE Delivery ------------------------------
(***************************************************************************)
(* What every way of sending promises whoever sends: a message is          *)
(* delivered at most once, its sender gets one answer, "delivered" is said *)
(* of what was delivered, and what is said not to be sent never will be.   *)
(* A message of which nothing is known may still be delivered, for as long *)
(* as it takes.                                                            *)
(*                                                                         *)
(* NativeDispatch, ThreadQueue, PeerDelivery and RelayWire implement it:   *)
(* how the promise survives deadlines, lost connections, repetitions and   *)
(* reloads is their business.                                              *)
(***************************************************************************)
EXTENDS Naturals

CONSTANT Sends

VARIABLES
    delivered,      \* how often each message was delivered
    told            \* what its sender was told

Answers == {"not_sent", "unknown", "delivered"}

TypeOK == delivered \in [Sends -> Nat] /\ told \in [Sends -> Answers \cup {"none"}]

Init == delivered = [s \in Sends |-> 0] /\ told = [s \in Sends |-> "none"]

Deliver(s) ==
    /\ delivered[s] = 0 /\ told[s] # "not_sent"
    /\ delivered' = [delivered EXCEPT ![s] = 1]

Tell(s, what) ==
    /\ told[s] = "none"
    /\ what = "not_sent" => delivered'[s] = 0
    /\ what = "delivered" => delivered'[s] = 1
    /\ told' = [told EXCEPT ![s] = what]

\* A step is about one message: it is delivered, or its sender is told, or both.
Next ==
    \E s \in Sends :
        /\ delivered'[s] # delivered[s] \/ told'[s] # told[s]
        /\ UNCHANGED delivered \/ Deliver(s)
        /\ UNCHANGED told \/ \E what \in Answers : Tell(s, what)

Spec == Init /\ [][Next]_<<delivered, told>>
=============================================================================
