------------------------------ MODULE MCClaude ------------------------------
(***************************************************************************)
(* Instances of Claude for TLC, with one more component: the transcript    *)
(* that a reply is read from (T).  Every text is for the session m1;       *)
(* drains that are not in Elsewhere run inside it.                         *)
(***************************************************************************)
EXTENDS Claude, TLC

CONSTANTS
    a1, a2, a3, a4, t,  \* entries and a task of a transcript
    x1, x2,     \* drains, or messages
    m1, m2,
    Elsewhere   \* drains in processes of another session

MCTo == [x \in Texts |-> m1]
MCSoloTo == [x \in SoloTexts |-> m1]
MCHome == [d \in Drains |-> IF d \in Elsewhere THEN m2 ELSE m1]
Entry(id, parent, kind, task) == [id |-> id, parent |-> parent, kind |-> kind, task |-> task]
\* A task has been started for the message.
Background == {<<Entry("root", None, "root", None), Entry(a1, "root", "call", None),
                 Entry(a2, a1, "started", t)>>}
Symmetry == Permutations({x1, x2})

VARIABLES t_file
tVars == <<t_file>>
T == INSTANCE TranscriptOutcome WITH
    Ids <- {a1, a2, a3, a4}, Root <- "root", None <- None,
    Kinds <- {"call", "done", "inline", "end", "prompt", "other", "result", "note", "side", "partial"},
    Tasks <- {t}, Seeds <- Background, MaxLines <- 5, file <- t_file

ASSUME T!TranscriptAssumption

MCInit == SuiteInit /\ T!Init

MCNext ==
    \/ SuiteNext /\ UNCHANGED tVars
    \/ part = "transcript" /\ T!Next /\ UNCHANGED <<part, vars, qVars, pVars, fVars>>

MCSpec == MCInit /\ [][MCNext]_<<part, vars, qVars, pVars, fVars, tVars>>

FairSuite == MCSpec /\ SuiteFairness

-----------------------------------------------------------------------------

\* A reply that is read from a transcript ends the message's own branch, and a
\* complete one is found whatever order the lines were written in (TranscriptOutcome).
ReplyIsRight == T!ReplyIsOwn /\ T!ReplyIsFound

=============================================================================
