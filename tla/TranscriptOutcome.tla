--------------------------- MODULE TranscriptOutcome ---------------------------
(***************************************************************************)
(* What the bridge reads out of a Claude transcript about one message:     *)
(* readTranscriptOutcome() of src/src/peer-protocol.mjs, on transcripts    *)
(* that grow line by line, in any order and with lines that are cut off.   *)
(*                                                                         *)
(* A line names its parent; the parents form a tree below the entry that   *)
(* injected the message.  The kinds are those the code tells apart:        *)
(*   root    the entry that holds the message                              *)
(*   call    the assistant calls a tool     result  what a tool returned   *)
(*   started a tool went on in the background, as a task                   *)
(*   done    the system says, as a user entry, that a task has ended       *)
(*   inline  the same as an attachment      note    another attachment     *)
(*   prompt  the user, or another peer, says something                     *)
(*   other   a user entry that is none of these                            *)
(*   end     the assistant ends its turn with a text                       *)
(*   compact, summary   the conversation was compacted                     *)
(*   partial a line that cannot be parsed                                  *)
(* Monitors and the companions of images are left out.                     *)
(***************************************************************************)
EXTENDS Naturals, Sequences, FiniteSets, SequencesExt

CONSTANTS
    Ids,        \* uuids of entries other than the message's own
    Root, None,
    Kinds,      \* the kinds a run uses
    Tasks,      \* background tasks
    Seeds,      \* what is in the transcript at first
    MaxLines    \* bound on the lines

TranscriptAssumption ==
    /\ Root \notin Ids /\ None \notin Ids \cup {Root} \cup Tasks /\ MaxLines \in Nat
    /\ Kinds \subseteq {"call", "result", "started", "done", "inline", "note", "prompt",
                        "other", "end", "compact", "summary", "partial", "side"}

VARIABLE file   \* the lines of the transcript

Line(id, parent, kind, task) == [id |-> id, parent |-> parent, kind |-> kind, task |-> task]
RootLine == Line(Root, None, "root", None)

-----------------------------------------------------------------------------
(* The first pass: entries in an order in which parents come first.        *)

Entries(f) == SelectSeq(f, LAMBDA x : x.kind \notin {"partial", "side"})

Ambiguous(f) ==
    \/ \E x \in Range(f) : x.kind = "partial"
    \/ \E i, j \in DOMAIN Entries(f) : i # j /\ Entries(f)[i].id = Entries(f)[j].id

\* entriesById: the last entry of that name
ById(f, id) == LET S == {i \in DOMAIN f : f[i].id = id}
               IN  IF S = {} THEN <<>> ELSE <<f[CHOOSE i \in S : \A j \in S : j <= i]>>

\* An entry behind those of its ancestors that were not visited yet.  A cycle
\* gives a list that is longer than the transcript.
RECURSIVE Ancestry(_, _, _, _)
Ancestry(f, x, visited, n) ==
    IF x \in visited \/ n > Len(f) THEN <<>>
    ELSE LET up == IF x.parent = None THEN <<>> ELSE ById(f, x.parent)
         IN  (IF up = <<>> THEN <<>> ELSE Ancestry(f, up[1], visited, n + 1)) \o <<x>>

\* Operators whose names end in Mutant are wrong versions of the operator that
\* follows them, for the model checker to tell apart.
OrderedMutant(f) == f
Ordered(f) == FoldLeft(LAMBDA done, x : done \o Ancestry(f, x, Range(done), 0), <<>>, f)

Cyclic(f) == \E x \in Range(f) : Len(Ancestry(f, x, {}, 0)) > Len(f)

-----------------------------------------------------------------------------
(* The second pass.                                                        *)

\* compactContinuation(): a compact boundary takes the place of the child of an
\* entry; the message itself must be among the entries that were preserved.
ContinuesMutant(f, x, r) == x.kind = "compact" /\ ~r.cut /\ x.task \in r.open
Continues(f, x, r) ==
    /\ x.kind = "compact" /\ ~r.cut /\ ~Ambiguous(f)
    /\ x.task \in r.open
    /\ \E y \in Range(f) : y.kind = "summary" /\ y.parent = x.id
    /\ LET chain == Ancestry(f, ById(f, x.task)[1], {}, 0)
       IN  \E i \in DOMAIN chain : chain[i].id = Root

\* What is under an entry: added to the open leaves in the place of its parent.
Grow(r, x, parent, tasks) ==
    [r EXCEPT !.own = [id \in DOMAIN @ \cup {x.id} |-> IF id = x.id THEN tasks ELSE @[id]],
              !.open = (@ \ {parent}) \cup {x.id}]

KindOf(f, id) == LET e == ById(f, id) IN IF e = <<>> THEN "none" ELSE e[1].kind

\* Whether a task notification ends a task that this branch waits for.
EndsTaskMutant(x, waits) == TRUE
EndsTask(x, waits) == x.task \in waits

\* A user's input, wherever it is queued, is a boundary.
IsInputMutant(x) == FALSE
IsInput(x) == x.kind = "prompt"

Below(f, r, x, parent) ==
    LET waits == r.own[parent]
        on(tasks) == Grow(r, x, parent, tasks)
        quiet(s) == [s EXCEPT !.passive = @ \cup {x.id}]
    IN  CASE IsInput(x) -> [r EXCEPT !.cut = TRUE, !.open = @ \ {x.parent}]
          [] x.kind = "other" -> r
          [] x.kind = "summary" -> IF \E y \in Range(f) : y.id = parent /\ y.id \in r.joined THEN on(waits) ELSE r
          [] x.kind = "done" -> IF EndsTask(x, waits) THEN on(waits \ {x.task}) ELSE r
          [] x.kind = "inline" -> on(waits \ {x.task})
          [] x.kind = "started" -> on(IF KindOf(f, parent) = "call" THEN waits \cup {x.task} ELSE waits)
          [] x.kind = "result" -> IF KindOf(f, parent) = "call" THEN quiet(on(waits)) ELSE on(waits)
          [] x.kind = "note" -> quiet(on(waits))
          [] x.kind = "end" -> [on(waits) EXCEPT !.reply = IF waits = {} THEN x.id ELSE None]
          [] OTHER -> on(waits)

Visit(f, r, x) ==
    IF r.reply # None THEN r
    ELSE IF x.kind = "root" THEN Grow(r, x, None, {})
    ELSE IF Continues(f, x, r) THEN Below(f, [r EXCEPT !.joined = @ \cup {x.id}], x, x.task)
    ELSE IF x.parent \in DOMAIN r.own THEN Below(f, r, x, x.parent) ELSE r

Start == [own |-> <<>>, open |-> {}, passive |-> {}, joined |-> {}, cut |-> FALSE, reply |-> None]

\* An interruption is reported when no branch is left on which the message may
\* still be answered.
QuietMutant(r) == r.cut
Quiet(r) == r.cut /\ r.open \subseteq r.passive

Outcome(g) ==
    LET f == Entries(g)
        none == [status |-> "none", reply |-> None]
    IN  IF Cardinality({i \in DOMAIN f : f[i].kind = "root"}) # 1 \/ (~Ambiguous(g) /\ Cyclic(f)) THEN none
        ELSE LET r == FoldLeft(LAMBDA s, x : Visit(f, s, x), Start, IF Ambiguous(g) THEN f ELSE Ordered(f))
             IN  IF r.reply # None THEN [status |-> "reply", reply |-> r.reply]
                 ELSE IF ~Ambiguous(g) /\ Quiet(r) THEN [status |-> "interrupted", reply |-> None]
                 ELSE none

-----------------------------------------------------------------------------
Init == file \in Seeds

\* Claude Desktop writes a line, a line is cut off in the middle, or a partial
\* line is completed.
Append1(x) == Len(file) < MaxLines /\ file' = Append(file, x)

Write ==
    \E id \in Ids, p \in Ids \cup {Root, None}, k \in Kinds \ {"partial"}, t \in Tasks \cup Ids \cup {Root, None} :
        /\ (k \in {"started", "done", "inline"}) = (t \in Tasks)
        /\ k = "compact" => p = None /\ t \in Ids \cup {Root}
        /\ k \notin {"started", "done", "inline", "compact"} => t = None
        /\ \A y \in Range(file) : y.id # id
        /\ Append1(Line(id, p, k, t))
WriteRoot == RootLine \notin Range(file) /\ Append1(RootLine)
Repeat == \E x \in Range(file) : Append1(x)
CutOff == "partial" \in Kinds /\ Append1(Line(None, None, "partial", None))
Completed ==
    /\ file # <<>> /\ Last(file).kind = "partial"
    /\ file' = Front(file)

Next == Write \/ WriteRoot \/ Repeat \/ CutOff \/ Completed
Spec == Init /\ [][Next]_file

-----------------------------------------------------------------------------
(* The same question, asked of the tree as a whole.                        *)

\* The entries from the message down to x, or <<>> when x is not under it.  A
\* compaction is below the entry it continues.
RECURSIVE Chain(_, _, _)
Chain(f, x, n) ==
    LET above == ById(f, IF x.kind = "compact" THEN x.task ELSE x.parent)
    IN  IF above = <<>> \/ n > Len(f) THEN <<x>> ELSE Chain(f, above[1], n + 1) \o <<x>>
Path(f, x) ==
    LET chain == Chain(f, x, 0) IN IF chain[1].kind = "root" THEN chain ELSE <<>>

\* The tasks a branch waits for at its end.
Waits(chain) ==
    {t \in Tasks : \E i \in 2..Len(chain) :
        /\ chain[i].kind = "started" /\ chain[i].task = t /\ chain[i - 1].kind = "call"
        /\ \A j \in i..Len(chain) : chain[j].kind \in {"done", "inline"} => chain[j].task # t}

\* The branch is the message's own: nobody else said anything on it, and a task
\* that was said to have ended was one it waited for.
Unbroken(chain) ==
    \A i \in DOMAIN chain :
        /\ chain[i].kind \notin {"prompt", "other"}
        /\ chain[i].kind = "done" => chain[i].task \in Waits(SubSeq(chain, 1, i - 1))
        /\ chain[i].kind = "summary" => chain[i - 1].kind = "compact"
        /\ chain[i].kind = "compact" => ~\E j \in 1..(i - 1) : chain[j].kind = "compact"

Closing(f, x) ==
    /\ x.kind = "end" /\ Path(f, x) # <<>> /\ Unbroken(Path(f, x)) /\ Waits(Path(f, x)) = {}

\* A reply that is reported ends the message's own branch: no input of the user
\* or of another peer lies between, and no task that was started on it is still
\* running.  It is found whatever order the lines were written in, unless a
\* line is cut off or repeated (readTranscriptOutcome).
ReplyIsOwn ==
    LET o == Outcome(file) IN
    o.reply # None => \E x \in Range(file) : x.id = o.reply /\ Closing(Entries(file), x)

ReplyIsFound ==
    LET f == Entries(file) IN
    /\ ~Ambiguous(file) /\ ~Cyclic(f) /\ \E x \in Range(f) : Closing(f, x)
    => Outcome(file).status = "reply"

\* An interruption is reported only when someone did say something under the
\* message, and no branch of its own ends in an entry that Claude would go on
\* from (readTranscriptOutcome, the open and the passive leaves).
InterruptedIsOver ==
    Outcome(file).status = "interrupted" =>
        LET f == Entries(file)
            mine == {x \in Range(f) : Path(f, x) # <<>> /\ Unbroken(Path(f, x))}
            said == {y \in Range(f) : y.kind = "prompt" /\ \E x \in mine : y.parent = x.id}
        IN  /\ said # {}
            /\ \A x \in mine : x.kind \in {"call", "started", "inline", "end", "root"} =>
                 \E y \in mine \cup said : y.parent = x.id
=============================================================================
