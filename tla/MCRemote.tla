------------------------------ MODULE MCRemote ------------------------------
(***************************************************************************)
(* Instances of Remote for TLC.                                            *)
(***************************************************************************)
EXTENDS Remote, TLC

CONSTANTS r1, r2

TheKey(x) == "job"      \* 1 and 2 are one request ID in two spellings
Symmetry == Permutations({r1, r2})

\* Everything for Antigravity Desktop is for one conversation, every prompt of its
\* command line for the first session, and two of three requests have one sender.
OneConversation == [r \in Prompts |-> "c"]
FirstSession == [p \in Sends |-> 1]
TwoSenders == <<11, 12, 11>>

=============================================================================
