--------------------------- MODULE SupervisorProofs ---------------------------
(***************************************************************************)
(* Theorems about Supervisor, for any number of requests, workers, updates *)
(* and faults.  Whatever dies, is replaced or answers late, no call is     *)
(* answered twice, handed to two workers, or with a worker after it was    *)
(* said not to be sent; two workers never accept calls at once; a reload   *)
(* takes no worker away from a call; and none is left over.                *)
(***************************************************************************)
EXTENDS Supervisor, FiniteSetTheorems, SequenceTheorems, TLAPS

Command == [do : Commands, heard : BOOLEAN]

\* The types of what the argument is about.
Typing ==
    /\ active \in Workers /\ failure \in BOOLEAN /\ pc \in Awaits
    /\ previous \in Workers \cup {Nobody} /\ candidate \in Workers \cup {Nobody}
    /\ reply \in {"none", "ok", "no"} /\ queue \in Seq(Reqs) /\ sent \subseteq Reqs
    /\ pending \in [Workers -> SUBSET Reqs] /\ answer \in [Reqs -> Answers]
    /\ at \in [Workers \X Reqs -> Places]
    /\ proc \in [Workers -> {"unborn", "up", "stuck", "down"}]
    /\ phase \in [Workers -> {"staged", "active", "quiescing", "quiesced"}]
    /\ cmds \in [Workers -> Seq(Command)]

-----------------------------------------------------------------------------
(* Requests. *)

Untouched(r) == answer[r] = "none" /\ \A w \in Workers : at[<<w, r>>] = "none"

\* What the client has not sent, and what the queue holds, is with nobody.
Fresh == \A r \in Reqs \ sent : Untouched(r) /\ r \notin QueuedReqs
Held ==
    /\ \A r \in QueuedReqs : Untouched(r)
    /\ \A i, j \in DOMAIN queue : queue[i] = queue[j] => i = j

\* An answer is owed only for a request that a worker has and that got none yet.
Owed == \A w \in Workers : \A r \in pending[w] : answer[r] = "none" /\ at[<<w, r>>] # "none"

OneWorker == \A w, v \in Workers, r \in Reqs :
    at[<<w, r>>] # "none" /\ at[<<v, r>>] # "none" => w = v

Recovery == {"stopFailed", "reintroduce", "reactivate", "rejectAgain"}

\* Only a reload holds requests back; a recovery has the failure that it is for.
Stages ==
    /\ pc \in {"idle", "boot"} \cup Recovery => queue = <<>>
    /\ pc \in Recovery => failure
    /\ pc \notin {"idle", "boot"} => ready = TRUE

\* The answer to initialize is given once, by the first worker, before anything else
\* can happen to the workers.
Greeted ==
    /\ ready = TRUE => answer[Hello] # "none"
    /\ ready # TRUE => \A w \in Workers \ {active} : pending[w] = {}
    /\ pc = "boot" =>
          /\ answer[Hello] = "none" /\ Hello \in sent
          /\ \A w \in Workers : Hello \notin pending[w]

Requests == Fresh /\ Held /\ Owed /\ OneWorker /\ AnsweredOnce /\ NotSentIsTrue
RInv == Requests /\ Stages /\ Greeted

-----------------------------------------------------------------------------
(* Workers. *)

\* A worker that has, or was told to enter, the phase in which it accepts calls.
Wakes(w) == \E k \in DOMAIN cmds[w] : cmds[w][k].do \in {"activate", "resume"}
Awake(w) == phase[w] = "active" \/ Wakes(w)

Reload == {"inspect", "introduce", "quiesce", "restore", "activate", "reject", "retire"}
Trying == {"introduce", "quiesce", "restore", "activate", "reject",
           "reintroduce", "reactivate", "rejectAgain"}

\* The workers that run are the active one, the candidate, and the one that retires.
Known ==
    \A w \in Workers : proc[w] = "up" =>
        w = active \/ (w = candidate /\ pc \in Trying) \/ (w = previous /\ pc = "retire")

Roles ==
    /\ proc[active] # "unborn"
    /\ pc \in Awaits \ {"idle", "boot", "retire"} => previous = active
    /\ pc = "retire" => previous \in Workers \ {active}
    /\ pc \in Trying => candidate \in Workers \ {active} /\ proc[candidate] # "unborn"
    /\ pc \in {"reintroduce", "reactivate", "rejectAgain"} => proc[previous] # "up"

Unborn == \A w \in Workers : proc[w] = "unborn" => phase[w] = "staged" /\ cmds[w] = <<>>

\* Until the handover the candidate is asleep, and from then on the previous worker.
\* No command of an earlier reload that could wake the active worker is left over,
\* unless that has failed.
Asleep ==
    /\ pc \in {"introduce", "quiesce", "restore", "reintroduce"} => ~Awake(candidate)
    /\ pc \in {"restore", "activate", "retire"} => ~Awake(previous)
    /\ pc = "reject" => ~(Awake(previous) /\ Awake(candidate))
    /\ pc \in Reload \/ (pc = "idle" /\ ~failure) => ~Wakes(active)

Expected ==
    CASE pc \in {"boot", "activate", "reactivate"} -> "activate"
      [] pc \in {"inspect", "quiesce", "restore", "resume"} -> pc
      [] OTHER -> "none"

\* The supervisor waits for one command, the last that it sent to that worker.
Heard ==
    \A w \in Workers : \A k \in DOMAIN cmds[w] : cmds[w][k].heard =>
        w = Awaited /\ k = Len(cmds[w]) /\ cmds[w][k].do = Expected /\ reply = "none"

\* When it hears that this has been done, the worker has no other to do.
Obeyed ==
    reply = "ok" /\ Awaited # Nobody =>
        cmds[Awaited] = <<>> /\ (pc = "quiesce" => phase[previous] = "quiesced")

WInv == Known /\ Roles /\ Unborn /\ Asleep /\ Heard /\ Obeyed

IInv == Typing /\ RInv /\ WInv

-----------------------------------------------------------------------------
(* Lemmas about the operators of the model. *)

\* Who is told, and that an answer given is not changed.
LEMMA ToldIs ==
    ASSUME Typing, NEW S, NEW kind \in Answers
    PROVE  /\ Told(S, kind) \in [Reqs -> Answers]
           /\ \A r \in Reqs : r \notin S => Told(S, kind)[r] = answer[r]
           /\ \A r \in Reqs : r \in S /\ answer[r] = "none" => Told(S, kind)[r] = kind
BY DEF Told, Typing, Answers

\* A set with no two members has at most one.
LEMMA AtMostOne ==
    ASSUME NEW S, \A x, y \in S : x = y
    PROVE  Cardinality(S) <= 1
<1>1. CASE S = {}
  BY <1>1, FS_EmptySet
<1>2. CASE S # {}
  <2>1. PICK x \in S : TRUE
    BY <1>2
  <2>2. S = {x}
    BY <2>1
  <2>3. Cardinality({x}) = 1
    BY FS_Singleton
  <2> QED BY <2>2, <2>3
<1> QED BY <1>1, <1>2

\* What the removal of a request leaves in the queue.
LEMMA WithoutIs ==
    ASSUME Typing, Held, NEW r
    PROVE  /\ Without(r) \in Seq(Reqs)
           /\ \A i \in DOMAIN Without(r) : Without(r)[i] \in QueuedReqs \ {r}
           /\ \A i, j \in DOMAIN Without(r) : Without(r)[i] = Without(r)[j] => i = j
           /\ Len(Without(r)) <= Len(queue)
<1> DEFINE n == Len(queue)
<1>1. queue \in Seq(Reqs) /\ n \in Nat /\ DOMAIN queue = 1 .. n
  BY DEF Typing
<1>2. CASE r \notin QueuedReqs
  BY <1>1, <1>2 DEF Without, QueuedReqs, Held
<1>3. CASE r \in QueuedReqs
  <2> DEFINE k == CHOOSE j \in DOMAIN queue : queue[j] = r
             s == [i \in 1 .. n - 1 |-> queue[IF i < k THEN i ELSE i + 1]]
  <2>1. k \in 1 .. n /\ queue[k] = r
    BY <1>1, <1>3 DEF QueuedReqs
  <2>2. Without(r) = s
    BY <1>3 DEF Without
  <2> HIDE DEF k
  <2>3. \A i, j \in 1 .. n : queue[i] = queue[j] => i = j
    BY <1>1 DEF Held
  <2>4. \A i \in 1 .. n - 1 : s[i] \in Reqs /\ s[i] \in QueuedReqs \ {r}
    BY <1>1, <2>1, <2>3 DEF QueuedReqs
  <2>5. \A i, j \in 1 .. n - 1 : s[i] = s[j] => i = j
    BY <1>1, <2>1, <2>3
  <2>6. s \in [1 .. n - 1 -> Reqs] /\ n - 1 \in Nat
    BY <1>1, <2>1, <2>4
  <2> HIDE DEF s
  <2>7. s \in Seq(Reqs)
    BY <2>6, SeqDef
  <2>8. DOMAIN s = 1 .. n - 1 /\ Len(s) = n - 1
    BY <2>6, <2>7
  <2> QED BY <1>1, <2>2, <2>4, <2>5, <2>7, <2>8
<1> QED BY <1>2, <1>3

\* Commands given up on stay in the chain, unheard.
LEMMA UnheardIs ==
    ASSUME NEW s \in Seq(Command), NEW t, t = [k \in DOMAIN s |-> [s[k] EXCEPT !.heard = FALSE]]
    PROVE  /\ t \in Seq(Command) /\ Len(t) = Len(s) /\ DOMAIN t = DOMAIN s
           /\ \A k \in DOMAIN s : t[k].do = s[k].do /\ ~t[k].heard
<1>1. Len(s) \in Nat /\ DOMAIN s = 1 .. Len(s) /\ \A k \in 1 .. Len(s) : s[k] \in Command
  BY ElementOfSeq
<1>2. \A k \in 1 .. Len(s) : t[k] \in Command /\ t[k].do = s[k].do /\ ~t[k].heard
  BY <1>1 DEF Command
<1>3. t \in [1 .. Len(s) -> Command]
  BY <1>1, <1>2
<1>4. t \in Seq(Command)
  BY <1>1, <1>3, SeqDef
<1> QED BY <1>1, <1>2, <1>3, <1>4

\* One worker's commands are given up on.
LEMMA GivenUpOn ==
    ASSUME Typing, NEW w \in Workers,
           cmds' = [cmds EXCEPT ![w] = [k \in DOMAIN @ |-> [@[k] EXCEPT !.heard = FALSE]]]
    PROVE  /\ cmds' \in [Workers -> Seq(Command)]
           /\ \A v \in Workers :
                  /\ DOMAIN cmds'[v] = DOMAIN cmds[v] /\ Len(cmds'[v]) = Len(cmds[v])
                  /\ \A k \in DOMAIN cmds[v] :
                         /\ cmds'[v][k].do = cmds[v][k].do
                         /\ cmds'[v][k].heard => cmds[v][k].heard /\ v # w
           /\ \A v \in Workers : cmds[v] = <<>> => cmds'[v] = <<>>
<1> DEFINE t == [k \in DOMAIN cmds[w] |-> [cmds[w][k] EXCEPT !.heard = FALSE]]
<1>1. cmds[w] \in Seq(Command)
  BY DEF Typing
<1>2. /\ t \in Seq(Command) /\ Len(t) = Len(cmds[w]) /\ DOMAIN t = DOMAIN cmds[w]
      /\ \A k \in DOMAIN cmds[w] : t[k].do = cmds[w][k].do /\ ~t[k].heard
  BY <1>1, UnheardIs
<1>3. cmds' = [cmds EXCEPT ![w] = t]
  OBVIOUS
<1> HIDE DEF t
<1>4. /\ cmds' \in [Workers -> Seq(Command)]
      /\ \A v \in Workers : cmds'[v] = IF v = w THEN t ELSE cmds[v]
  BY <1>2, <1>3 DEF Typing
<1>5. cmds[w] = <<>> => t = <<>>
  BY <1>1, <1>2, EmptySeq
<1> QED BY <1>2, <1>4, <1>5

\* A command is the last of its worker's chain, or there is no answer to wait for.
LEMMA SendIs ==
    ASSUME Typing, NEW w \in Workers, NEW do \in Commands, Send(w, do)
    PROVE  /\ cmds' \in [Workers -> Seq(Command)] /\ reply' \in {"none", "no"}
           /\ \A v \in Workers : v # w => cmds'[v] = cmds[v]
           /\ \A v \in Workers : proc[v] = "unborn" => cmds'[v] = cmds[v]
           /\ \/ cmds' = cmds /\ reply' = "no"
              \/ /\ reply' = "none" /\ Len(cmds'[w]) = Len(cmds[w]) + 1
                 /\ DOMAIN cmds'[w] = 1 .. Len(cmds[w]) + 1
                 /\ DOMAIN cmds[w] = 1 .. Len(cmds[w])
                 /\ \A k \in 1 .. Len(cmds[w]) : cmds'[w][k] = cmds[w][k]
                 /\ cmds'[w][Len(cmds[w]) + 1] = [do |-> do, heard |-> TRUE]
<1> DEFINE c == [do |-> do, heard |-> TRUE]
<1>1. c \in Command /\ cmds[w] \in Seq(Command)
  BY DEF Command, Typing
<1> HIDE DEF c
<1>2. CASE proc[w] = "up" /\ ~retiring[w]
  <2>1. cmds' = [cmds EXCEPT ![w] = Append(@, c)] /\ reply' = "none"
    BY <1>2 DEF Send, c
  <2>2. Append(cmds[w], c) \in Seq(Command) /\ Len(Append(cmds[w], c)) = Len(cmds[w]) + 1
        /\ DOMAIN Append(cmds[w], c) = 1 .. Len(cmds[w]) + 1
        /\ DOMAIN cmds[w] = 1 .. Len(cmds[w])
        /\ (\A k \in 1 .. Len(cmds[w]) : Append(cmds[w], c)[k] = cmds[w][k])
        /\ Append(cmds[w], c)[Len(cmds[w]) + 1] = c
    BY <1>1
  <2>3. cmds' \in [Workers -> Seq(Command)]
        /\ \A v \in Workers : cmds'[v] = IF v = w THEN Append(cmds[w], c) ELSE cmds[v]
    BY <2>1, <2>2 DEF Typing
  <2> QED BY <1>2, <2>1, <2>2, <2>3 DEF c
<1>3. CASE ~(proc[w] = "up" /\ ~retiring[w])
  BY <1>3 DEF Send, Typing
<1> QED BY <1>2, <1>3

\* What a dispatch of the requests S does.
LEMMA PassIs ==
    ASSUME Typing, NEW S \in SUBSET Reqs, active' \in Workers, Pass(S)
    PROVE  /\ pending' \in [Workers -> SUBSET Reqs]
           /\ at' \in [Workers \X Reqs -> Places]
           /\ answer' \in [Reqs -> Answers]
           /\ \/ pending' = pending /\ at' = at /\ answer' = answer
              \/ /\ pending' = pending /\ at' = at
                 /\ \A r \in Reqs : r \notin S => answer'[r] = answer[r]
                 /\ \A r \in Reqs : r \in S /\ answer[r] = "none" => answer'[r] = "not_sent"
              \/ /\ answer' = answer
                 /\ \A w \in Workers : pending'[w] = IF w = active' THEN pending[w] \cup S ELSE pending[w]
                 /\ \A w \in Workers, r \in Reqs :
                        at'[<<w, r>>] = IF w = active' /\ r \in S THEN "inbox" ELSE at[<<w, r>>]
<1>1. CASE stopping
  BY <1>1 DEF Pass, Typing
<1>2. CASE ~stopping /\ failure'
  <2>1. answer' = Told(S, "not_sent") /\ UNCHANGED <<pending, at>>
    BY <1>2 DEF Pass
  <2>2. "not_sent" \in Answers
    BY DEF Answers
  <2>3. answer' \in [Reqs -> Answers]
        /\ (\A r \in Reqs : r \notin S => answer'[r] = answer[r])
        /\ \A r \in Reqs : r \in S /\ answer[r] = "none" => answer'[r] = "not_sent"
    BY <2>1, <2>2, ToldIs
  <2> QED BY <2>1, <2>3 DEF Typing
<1>3. CASE ~stopping /\ ~failure'
  <2>1. Forward(active', S)
    BY <1>3 DEF Pass
  <2>2. pending' \in [Workers -> SUBSET Reqs]
        /\ \A w \in Workers : pending'[w] = IF w = active' THEN pending[w] \cup S ELSE pending[w]
    BY <2>1 DEF Forward, Typing
  <2>3. at' \in [Workers \X Reqs -> Places]
    BY <2>1 DEF Forward, Typing, Places
  <2>4. \A w \in Workers, r \in Reqs :
            at'[<<w, r>>] = IF w = active' /\ r \in S THEN "inbox" ELSE at[<<w, r>>]
    BY <2>1 DEF Forward, Typing
  <2>5. answer' = answer
    BY <2>1 DEF Forward
  <2> QED BY <2>2, <2>3, <2>4, <2>5 DEF Typing
<1> QED BY <1>1, <1>2, <1>3

\* The queue holds requests.
LEMMA QueueIs == Typing => QueuedReqs \in SUBSET Reqs /\ <<>> \in Seq(Reqs)
BY DEF Typing, QueuedReqs

-----------------------------------------------------------------------------

\* The initial states satisfy the invariant.
LEMMA InitIInv == SupervisorAssumption /\ Init => IInv
<1> SUFFICES ASSUME SupervisorAssumption, Init PROVE IInv
  OBVIOUS
<1>1. Typing
  <2>1. <<>> \in Seq(Reqs) /\ <<>> \in Seq(Command)
    BY EmptySeq
  <2>2. 1 \in Workers
    BY DEF SupervisorAssumption, Workers
  <2> QED BY <2>1, <2>2 DEF Init, Typing, Awaits, Answers, Places
<1>2. RInv
  <2>0. Len(queue) = 0 /\ DOMAIN queue = {}
    BY DEF Init
  <2>1. QueuedReqs = {}
    BY <2>0 DEF QueuedReqs
  <2>5. \A r \in Reqs : Untouched(r)
    BY DEF Init, Untouched
  <2>2. Fresh /\ Held /\ Owed /\ OneWorker
    BY <2>0, <2>1, <2>5 DEF Init, Fresh, Held, Owed, OneWorker, Untouched
  <2>3. AnsweredOnce /\ NotSentIsTrue
    BY <2>5 DEF Untouched, Reqs, AnsweredOnce, NotSentIsTrue
  <2>4. Stages /\ Greeted
    BY DEF Init, Stages, Greeted, Recovery
  <2> QED BY <2>2, <2>3, <2>4 DEF RInv, Requests
<1>3. WInv
  BY DEF SupervisorAssumption, Init, WInv, Known, Roles, Unborn, Asleep, Awake, Wakes, Heard,
     Obeyed, Awaited, Workers, Nobody, Reload, Trying
<1> QED BY <1>1, <1>2, <1>3 DEF IInv

\* The end of a reload keeps the types.
LEMMA FinishTypes ==
    ASSUME Typing, active' \in Workers, Finish
    PROVE  /\ pc' = "idle" /\ queue' = <<>> /\ queue' \in Seq(Reqs)
           /\ pending' \in [Workers -> SUBSET Reqs] /\ at' \in [Workers \X Reqs -> Places]
           /\ answer' \in [Reqs -> Answers]
BY QueueIs, PassIs DEF Finish, Flushed, Kept

\* Every step does.
LEMMA NextTyping ==
    ASSUME SupervisorAssumption, IInv, [Next]_vars
    PROVE  Typing'
<1>0. Typing /\ Held /\ Roles /\ active \in Workers
  BY DEF IInv, RInv, Requests, WInv, Typing
<1> USE <1>0 DEF Typing, vars, own, check, worker, client, calls
<1>1. ASSUME NEW r \in Reqs, ClientSends(r) PROVE Typing'
  <2>1. CASE failure \/ ~Switching
    BY <1>1, <2>1, PassIs DEF ClientSends
  <2>2. CASE ~failure /\ Switching
    <3>1. Told({r}, "not_sent") \in [Reqs -> Answers] /\ Append(queue, r) \in Seq(Reqs)
      BY ToldIs DEF Answers
    <3>2. answer' \in [Reqs -> Answers] /\ queue' \in Seq(Reqs) /\ sent' \subseteq Reqs
      BY <1>1, <2>2, <3>1 DEF ClientSends
    <3> QED BY <1>1, <2>2, <3>2 DEF ClientSends
  <2> QED BY <2>1, <2>2
<1>2. ASSUME NEW r \in Calls, ClientCancels(r) PROVE Typing'
  <2>1. Told({r} \cap QueuedReqs, "cancelled") \in [Reqs -> Answers]
    BY ToldIs DEF Answers
  <2> QED BY <1>2, <2>1, WithoutIs DEF ClientCancels
<1>3. CASE Disconnect \/ Install
  BY <1>3 DEF Disconnect, Install
<1>4. ASSUME NEW w \in Workers, NEW r \in Reqs, Begin(w, r) \/ End(w, r) PROVE Typing'
  BY <1>4 DEF Begin, End, Places
<1>5. ASSUME NEW w \in Workers, NEW r \in Reqs, Message(w, r) PROVE Typing'
  <2>1. pending' \in [Workers -> SUBSET Reqs]
    BY <1>5 DEF Message, StillOwed
  <2>2. CASE r = Hello
    BY <1>5, <2>1, <2>2, SendIs DEF Message, Awaits, Commands
  <2>3. CASE r # Hello
    <3> DEFINE kind == IF at[<<w, r>>] = "done" THEN "result" ELSE "not_sent"
    <3>1. kind \in Answers /\ answer' = Told({r}, kind)
      BY <1>5, <2>3 DEF Message, Answers
    <3> HIDE DEF kind
    <3>2. answer' \in [Reqs -> Answers]
      BY <3>1, ToldIs
    <3> QED BY <1>5, <2>1, <2>3, <3>2 DEF Message
  <2> QED BY <2>2, <2>3
<1>6. ASSUME NEW w \in Workers, Control(w) PROVE Typing'
  <2>1. CASE UNCHANGED <<cmds, reply>>
    BY <1>6, <2>1 DEF Control
  <2>2. CASE \E x \in {"ok", "no"} : Replies(w, x)
    <3>1. Tail(cmds[w]) \in Seq(Command)
      BY <1>6 DEF Control
    <3>2. cmds' \in [Workers -> Seq(Command)] /\ reply' \in {"none", "ok", "no"}
      BY <2>2, <3>1 DEF Replies
    <3> QED BY <1>6, <3>2 DEF Control
  <2> QED BY <1>6, <2>1, <2>2 DEF Control
<1>7. ASSUME NEW w \in Workers, Dies(w) PROVE Typing'
  BY <1>7 DEF Dies
<1>8. ASSUME NEW w \in Workers, Fail(w) PROVE Typing'
  <2>1. cmds' \in [Workers -> Seq(Command)]
    BY <1>8, GivenUpOn DEF Fail
  <2>2. answer' \in [Reqs -> Answers]
    BY <1>8, ToldIs DEF Fail, Answers
  <2> QED BY <1>8, <2>1, <2>2 DEF Fail
<1>9. CASE Boot
  <2>1. answer' \in [Reqs -> Answers]
    BY <1>9, ToldIs DEF Boot, Answers
  <2> QED BY <1>9, <2>1 DEF Boot, Awaits
<1>10. CASE Timeout
  <2>1. Awaited \in Workers
    BY <1>10 DEF Timeout, Awaited
  <2>2. cmds' \in [Workers -> Seq(Command)]
    BY <1>10, <2>1, GivenUpOn DEF Timeout
  <2> QED BY <1>10, <2>2 DEF Timeout
<1>11. CASE CheckReload
  BY <1>11, SendIs DEF CheckReload, Wait, Awaits, Commands
<1>12. CASE Inspected
  <2>1. CASE Finish /\ UNCHANGED <<candidate, worker>>
    BY <1>12, <2>1, FinishTypes DEF Inspected, Awaits
  <2>2. CASE Wait("introduce") /\ \E w \in Workers : Spawn(w)
    BY <1>12, <2>2 DEF Inspected, Wait, Spawn, Awaits
  <2> QED BY <1>12, <2>1, <2>2 DEF Inspected
<1>13. CASE Introduced
  <2>1. CASE Wait("quiesce") /\ Send(previous, "quiesce") /\ UNCHANGED worker
    <3>1. previous \in Workers
      BY <1>13 DEF Introduced, Roles, Awaits
    <3> QED BY <1>13, <2>1, <3>1, SendIs DEF Introduced, Wait, Awaits, Commands
  <2>2. CASE Stop(candidate) /\ Wait("reject") /\ UNCHANGED <<reply, cmds>>
    BY <1>13, <2>2 DEF Introduced, Stop, Wait, Awaits
  <2> QED BY <1>13, <2>1, <2>2 DEF Introduced
<1>14. CASE HandOver
  <2>1. CASE reply = "ok"
    <3>1. candidate \in Workers
      BY <1>14 DEF HandOver, Roles, Trying
    <3>2. \E do \in {"restore", "activate"} : Send(candidate, do) /\ Wait(do)
      BY <1>14, <2>1 DEF HandOver
    <3> QED BY <1>14, <2>1, <3>1, <3>2, SendIs DEF HandOver, Wait, Awaits, Commands
  <2>2. CASE reply # "ok"
    BY <1>14, <2>2 DEF HandOver, Stop, Wait, Awaits
  <2> QED BY <2>1, <2>2
<1>15. CASE Switch
  <2>1. candidate \in Workers
    BY <1>15 DEF Switch, Roles, Trying
  <2> QED BY <1>15, <2>1 DEF Switch, Stop, Wait, Awaits, Nobody
<1>16. CASE Retired
  BY <1>16, FinishTypes DEF Retired, Stopped, GivenUp, Stuck, Awaits
<1>17. CASE Rejected
  <2>1. proc' \in [Workers -> {"unborn", "up", "stuck", "down"}]
    BY <1>17 DEF Rejected, RejectedFirst, Stopped, GivenUp, Stuck
  <2>2. CASE Send(previous, "resume") /\ Wait("resume")
    <3>1. previous \in Workers
      BY <1>17 DEF Rejected, Roles, Awaits
    <3> QED BY <1>17, <2>1, <2>2, <3>1, SendIs DEF Rejected, Wait, Awaits, Commands
  <2>3. CASE Finish /\ UNCHANGED <<reply, cmds>>
    BY <1>17, <2>1, <2>3, FinishTypes DEF Rejected, Awaits
  <2> QED BY <1>17, <2>2, <2>3 DEF Rejected
<1>18. CASE Resumed
  BY <1>18, FinishTypes DEF Resumed, ResumedFails, Awaits
<1>19. CASE CheckRecovery
  BY <1>19 DEF CheckRecovery, Stop, Wait, Awaits
<1>20. CASE StoppedFailed
  BY <1>20 DEF StoppedFailed, FinishRecovery, GivenUp, Stuck, Spawn, Wait, Awaits
<1>21. CASE Reintroduced
  <2>1. candidate \in Workers
    BY <1>21 DEF Reintroduced, Roles, Trying
  <2> QED BY <1>21, <2>1, SendIs DEF Reintroduced, Stop, Wait, Awaits, Commands
<1>22. CASE Reactivated
  <2>1. candidate \in Workers
    BY <1>22 DEF Reactivated, Roles, Trying
  <2> QED BY <1>22, <2>1 DEF Reactivated, FinishRecovery, Stop, Wait, Awaits, Nobody
<1>23. CASE RejectedAgain
  BY <1>23 DEF RejectedAgain, FinishRecovery, Stopped, GivenUp, Stuck, Awaits, Nobody
<1>24. CASE UNCHANGED vars
  BY <1>24
<1> QED
  BY <1>1, <1>2, <1>3, <1>4, <1>5, <1>6, <1>7, <1>8, <1>9, <1>10, <1>11, <1>12, <1>13, <1>14,
     <1>15, <1>16, <1>17, <1>18, <1>19, <1>20, <1>21, <1>22, <1>23, <1>24 DEF Next, Check

-----------------------------------------------------------------------------
(* Requests. *)

\* What a worker owes an answer for is a request.
LEMMA PendingIs == Typing => \A w \in Workers : \A r \in pending[w] : r \in Reqs
BY DEF Typing

\* Passing on requests that are with nobody keeps the requests' part.
LEMMA PassKeeps ==
    ASSUME Typing, Requests, NEW S \in SUBSET Reqs, \A r \in S : Untouched(r),
           active' \in Workers, Pass(S),
           QueuedReqs' \subseteq QueuedReqs \ S, sent \cup S \subseteq sent',
               sent' \subseteq Reqs,
           \A i, j \in DOMAIN queue' : queue'[i] = queue'[j] => i = j
    PROVE  Requests'
<1>1. CASE pending' = pending /\ at' = at /\ answer' = answer
  BY <1>1 DEF Requests, Fresh, Untouched, Held, Owed, OneWorker, AnsweredOnce, NotSentIsTrue
<1>2. CASE /\ pending' = pending /\ at' = at
           /\ \A r \in Reqs : r \notin S => answer'[r] = answer[r]
           /\ \A r \in Reqs : r \in S /\ answer[r] = "none" => answer'[r] = "not_sent"
  <2>1. \A r \in S : answer'[r] = "not_sent" /\ \A w \in Workers : at[<<w, r>>] = "none" /\
            r \notin pending[w]
    BY <1>2 DEF Untouched, Requests, Owed
  <2>2. Fresh' /\ Held'
    <3>1. \A r \in Reqs \ S : Untouched(r) => Untouched(r)'
      BY <1>2 DEF Untouched
    <3> QED BY <3>1, QueueIs DEF Requests, Fresh, Held
  <2>3. Owed' /\ OneWorker'
    BY <1>2, <2>1 DEF Typing, Requests, Owed, OneWorker
  <2>4. AnsweredOnce'
    BY <1>2, <2>1 DEF Requests, AnsweredOnce
  <2>5. NotSentIsTrue'
    BY <1>2, <2>1 DEF Requests, NotSentIsTrue, Reqs
  <2> QED BY <2>2, <2>3, <2>4, <2>5 DEF Requests
<1>3. CASE /\ answer' = answer
           /\ \A w \in Workers : pending'[w] = IF w = active' THEN pending[w] \cup S ELSE pending[w]
           /\ \A w \in Workers, r \in Reqs :
                  at'[<<w, r>>] = IF w = active' /\ r \in S THEN "inbox" ELSE at[<<w, r>>]
  <2>1. Fresh' /\ Held'
    <3>1. \A r \in Reqs \ S : Untouched(r) => Untouched(r)'
      BY <1>3 DEF Untouched
    <3> QED BY <3>1, QueueIs DEF Requests, Fresh, Held
  <2>2. Owed'
    <3> SUFFICES ASSUME NEW w \in Workers, NEW r \in pending'[w]
                 PROVE  answer'[r] = "none" /\ at'[<<w, r>>] # "none"
      BY DEF Owed
    <3>1. CASE r \in pending[w]
      BY <1>3, <3>1, PendingIs DEF Requests, Owed
    <3>2. CASE r \notin pending[w]
      BY <1>3, <3>2 DEF Untouched
    <3> QED BY <3>1, <3>2
  <2>3. OneWorker'
    BY <1>3 DEF Requests, OneWorker, Untouched
  <2>4. AnsweredOnce'
    BY <1>3 DEF Requests, AnsweredOnce
  <2>5. NotSentIsTrue'
    BY <1>3 DEF Requests, NotSentIsTrue, Untouched, Reqs
  <2> QED BY <2>1, <2>2, <2>3, <2>4, <2>5 DEF Requests
<1> QED BY <1>1, <1>2, <1>3, PassIs

\* The end of a reload, which dispatches the queue.
LEMMA FinishKeeps ==
    ASSUME Typing, RInv, Finish, pc \notin {"idle", "boot"}, active' \in Workers,
           UNCHANGED <<sent, ready>>
    PROVE  RInv'
<1>1. Pass(QueuedReqs) /\ queue' = <<>> /\ pc' = "idle"
  BY DEF Finish, Flushed, Kept
<1>2. QueuedReqs' = {} /\ DOMAIN queue' = {}
  <2>1. Len(queue') = 0 /\ DOMAIN queue' = {}
    BY <1>1
  <2> QED BY <2>1 DEF QueuedReqs
<1>3. Requests'
  <2>1. QueuedReqs \subseteq sent /\ \A r \in QueuedReqs : Untouched(r)
    BY QueueIs DEF RInv, Requests, Fresh, Held
  <2>2. sent \subseteq Reqs
    BY DEF Typing
  <2> QED BY <1>1, <1>2, <2>1, <2>2, PassKeeps, QueueIs DEF RInv
<1>4. Stages'
  BY <1>1 DEF RInv, Stages, Recovery
<1>5. Greeted'
  <2>1. answer[Hello] # "none" /\ ready = TRUE
    BY DEF RInv, Stages, Greeted
  <2>2. Hello \notin QueuedReqs /\ Hello \in Reqs
    BY <2>1 DEF RInv, Requests, Held, Untouched, Reqs
  <2>3. answer'[Hello] = answer[Hello]
    BY <1>1, <2>2, PassIs, QueueIs
  <2> QED BY <1>1, <2>1, <2>3 DEF Greeted
<1> QED BY <1>3, <1>4, <1>5 DEF RInv

\* The steps of a reload or a recovery that await something, and the end of a recovery.
LEMMA WaitKeeps ==
    ASSUME RInv, UNCHANGED <<queue, pending, at, answer, sent, ready>>, ready = TRUE,
           pc' # "boot",
           pc' \in {"idle"} \cup Recovery => queue = <<>>, pc' \in Recovery => failure'
    PROVE  RInv'
<1>1. Requests'
  BY DEF RInv, Requests, Fresh, Untouched, Held, QueuedReqs, Owed, OneWorker, AnsweredOnce,
     NotSentIsTrue
<1>2. Stages' /\ Greeted'
  BY DEF RInv, Stages, Greeted, Recovery
<1> QED BY <1>1, <1>2 DEF RInv

\* What changes nothing of it.
LEMMA OthersKeep ==
    ASSUME RInv, UNCHANGED <<queue, pending, at, answer, sent, ready, pc, active>>,
           failure => failure'
    PROVE  RInv'
<1>1. Requests'
  BY DEF RInv, Requests, Fresh, Untouched, Held, QueuedReqs, Owed, OneWorker, AnsweredOnce,
     NotSentIsTrue
<1>2. Stages' /\ Greeted'
  BY DEF RInv, Stages, Greeted, Recovery
<1> QED BY <1>1, <1>2 DEF RInv

\* The client sends a request, and leaves.
LEMMA ClientKeeps ==
    ASSUME IInv, NEW r \in Reqs, ClientSends(r)
    PROVE  RInv'
<1> USE DEF own, check
<1>1. Typing /\ RInv /\ active \in Workers /\ failure \in BOOLEAN
  BY DEF IInv, Typing
<1>2. r \notin sent /\ sent' = sent \cup {r} /\ Untouched(r) /\ r \notin QueuedReqs
      /\ UNCHANGED <<pc, ready, active, failure>>
  BY <1>1 DEF ClientSends, RInv, Requests, Fresh
<1>3. sent' \subseteq Reqs
  BY <1>1, <1>2 DEF Typing
<1>4. ready = TRUE => r # Hello
  BY <1>1, <1>2 DEF RInv, Greeted, Untouched
<1>5. pc = "boot" => r # Hello
  BY <1>1, <1>2 DEF RInv, Greeted
<1>6. CASE failure \/ ~Switching
  <2>1. Pass({r}) /\ queue' = queue
    BY <1>6 DEF ClientSends
  <2>2. Requests'
    <3>1. QueuedReqs' \subseteq QueuedReqs \ {r}
      BY <1>2, <2>1 DEF QueuedReqs
    <3>2. \A i, j \in DOMAIN queue' : queue'[i] = queue'[j] => i = j
      BY <1>1, <2>1 DEF RInv, Requests, Held
    <3>3. /\ {r} \in SUBSET Reqs
          /\ \A q \in {r} : Untouched(q)
          /\ active' \in Workers /\ sent \cup {r} \subseteq sent'
      BY <1>1, <1>2
    <3>4. Requests
      BY <1>1 DEF RInv
    <3> HIDE <1>2
    <3> QED BY <1>1, <1>3, <2>1, <3>1, <3>2, <3>3, <3>4, PassKeeps
  <2>3. Stages'
    BY <1>1, <1>2, <2>1 DEF RInv, Stages, Recovery
  <2>4. Greeted'
    <3>1. Hello \in Reqs /\ {r} \in SUBSET Reqs /\ active' \in Workers
      BY <1>1, <1>2 DEF Reqs
    <3>2. /\ r # Hello => answer'[Hello] = answer[Hello] /\
              \A w \in Workers : Hello \in pending'[w] => Hello \in pending[w]
          /\ \A w \in Workers \ {active} : pending'[w] = pending[w]
      <4>1. CASE pending' = pending /\ at' = at /\ answer' = answer
        BY <4>1
      <4>2. CASE pending' = pending /\ \A q \in Reqs : q \notin {r} => answer'[q] = answer[q]
        BY <3>1, <4>2
      <4>3. CASE /\ answer' = answer
                 /\ \A w \in Workers : pending'[w] = IF w = active' THEN pending[w] \cup {r} ELSE pending[w]
        BY <1>2, <4>3
      <4> QED BY <1>1, <2>1, <3>1, <4>1, <4>2, <4>3, PassIs
    <3> QED BY <1>1, <1>2, <1>4, <1>5, <3>1, <3>2 DEF RInv, Greeted
  <2> QED BY <2>2, <2>3, <2>4 DEF RInv
<1>7. CASE ~failure /\ Switching
  <2>1. UNCHANGED <<pending, at>>
    BY <1>7 DEF ClientSends
  <2>2. CASE Len(queue) >= MaxQueue
    <3>1. answer' = Told({r}, "not_sent") /\ queue' = queue
      BY <1>7, <2>2 DEF ClientSends
    <3>2. /\ \A q \in Reqs : q # r => answer'[q] = answer[q]
          /\ answer'[r] = "not_sent"
      BY <1>1, <1>2, <3>1, ToldIs DEF Answers, Untouched
    <3>3. \A w \in Workers : at[<<w, r>>] = "none" /\ r \notin pending[w]
      BY <1>1, <1>2 DEF Untouched, RInv, Requests, Owed
    <3>4. \A q \in Reqs \ {r} : Untouched(q) => Untouched(q)'
      BY <2>1, <3>2 DEF Untouched
    <3>5. Fresh' /\ Held'
      BY <1>1, <1>2, <3>1, <3>4, QueueIs DEF RInv, Requests, Fresh, Held, QueuedReqs
    <3>6. Owed' /\ OneWorker'
      BY <1>1, <2>1, <3>2, <3>3 DEF Typing, RInv, Requests, Owed, OneWorker
    <3>7. AnsweredOnce' /\ NotSentIsTrue'
      BY <1>1, <2>1, <3>2, <3>3 DEF RInv, Requests, AnsweredOnce, NotSentIsTrue, Reqs
    <3>8. Stages' /\ Greeted'
      BY <1>1, <1>2, <1>4, <1>7, <2>1, <3>1, <3>2 DEF RInv, Stages, Greeted, Recovery, Reqs,
         Switching
    <3> QED BY <3>5, <3>6, <3>7, <3>8 DEF RInv, Requests
  <2>3. CASE ~(Len(queue) >= MaxQueue)
    <3>1. queue' = Append(queue, r) /\ answer' = answer
      BY <1>7, <2>3 DEF ClientSends
    <3>2. queue \in Seq(Reqs) /\ DOMAIN queue = 1 .. Len(queue) /\ Len(queue) \in Nat
      BY <1>1 DEF Typing
    <3>3. /\ DOMAIN queue' = 1 .. Len(queue) + 1 /\ Len(queue') = Len(queue) + 1
          /\ \A i \in 1 .. Len(queue) : queue'[i] = queue[i]
          /\ queue'[Len(queue) + 1] = r
      BY <3>1, <3>2
    <3>4. \A q \in QueuedReqs' : q = r \/ q \in QueuedReqs
      BY <3>2, <3>3 DEF QueuedReqs
    <3>5. \A q : Untouched(q) => Untouched(q)'
      BY <2>1, <3>1 DEF Untouched
    <3>6. Fresh'
      BY <1>1, <1>2, <3>4, <3>5 DEF RInv, Requests, Fresh
    <3>7. Held'
      <4>1. \A i \in 1 .. Len(queue) : queue[i] # r
        BY <1>2 DEF QueuedReqs
      <4>2. \A i, j \in DOMAIN queue' : queue'[i] = queue'[j] => i = j
        BY <1>1, <3>2, <3>3, <4>1 DEF RInv, Requests, Held
      <4> QED BY <1>1, <1>2, <3>4, <3>5, <4>2 DEF RInv, Requests, Held
    <3>8. Owed' /\ OneWorker' /\ AnsweredOnce' /\ NotSentIsTrue'
      BY <1>1, <2>1, <3>1 DEF RInv, Requests, Owed, OneWorker, AnsweredOnce, NotSentIsTrue
    <3>9. Stages' /\ Greeted'
      BY <1>1, <1>2, <1>7, <2>1, <3>1 DEF RInv, Stages, Greeted, Recovery, Switching
    <3> QED BY <3>6, <3>7, <3>8, <3>9 DEF RInv, Requests
  <2> QED BY <2>2, <2>3
<1> QED BY <1>6, <1>7

\* The client withdraws one.
LEMMA CancelKeeps ==
    ASSUME IInv, NEW r \in Calls, ClientCancels(r), Hello \notin Calls
    PROVE  RInv'
<1>1. Typing /\ RInv /\ Held
  BY DEF IInv, RInv, Requests
<1>2. UNCHANGED <<pending, at, sent, pc, ready, active, failure>> /\ queue' = Without(r)
      /\ answer' = Told({r} \cap QueuedReqs, "cancelled")
  BY DEF ClientCancels, own, check
<1>3. /\ \A i \in DOMAIN queue' : queue'[i] \in QueuedReqs \ {r}
      /\ \A i, j \in DOMAIN queue' : queue'[i] = queue'[j] => i = j
      /\ queue' \in Seq(Reqs) /\ Len(queue') <= Len(queue)
  BY <1>1, <1>2, WithoutIs
<1>4. \A q \in QueuedReqs' : q \in QueuedReqs /\ q # r
  BY <1>3 DEF QueuedReqs
<1>5. /\ \A q \in Reqs : q # r \/ r \notin QueuedReqs => answer'[q] = answer[q]
      /\ r \in QueuedReqs => answer'[r] = "cancelled" /\ Untouched(r)
  BY <1>1, <1>2, ToldIs DEF Answers, Held, Untouched, Reqs
<1>6. \A q \in Reqs \ {r} : Untouched(q) => Untouched(q)'
  BY <1>2, <1>5 DEF Untouched
<1>7. Fresh'
  BY <1>1, <1>2, <1>4, <1>5, <1>6 DEF RInv, Requests, Fresh, Untouched
<1>8. Held'
  BY <1>1, <1>3, <1>4, <1>6, QueueIs DEF Held
<1>9. Owed' /\ OneWorker'
  <2>1. \A v \in Workers : \A q \in pending[v] : q # r \/ r \notin QueuedReqs
    BY <1>1, <1>5, PendingIs DEF RInv, Requests, Owed, Untouched
  <2> QED BY <1>1, <1>2, <1>5, <2>1, PendingIs DEF RInv, Requests, Owed, OneWorker
<1>10. AnsweredOnce' /\ NotSentIsTrue'
  BY <1>1, <1>2, <1>5 DEF RInv, Requests, AnsweredOnce, NotSentIsTrue, Untouched, Reqs
<1>11. Stages'
  <2>1. queue = <<>> => queue' = <<>>
    BY <1>1, <1>3, EmptySeq DEF Typing
  <2> QED BY <1>1, <1>2, <2>1 DEF RInv, Stages, Recovery
<1>12. Greeted'
  BY <1>1, <1>2, <1>5 DEF RInv, Greeted, Reqs
<1> QED BY <1>7, <1>8, <1>9, <1>10, <1>11, <1>12 DEF RInv, Requests

\* Work on a request stays where it is.
LEMMA WorkKeeps ==
    ASSUME IInv, NEW w \in Workers, NEW r \in Reqs, Begin(w, r) \/ End(w, r)
    PROVE  RInv'
<1>1. Typing /\ RInv
  BY DEF IInv
<1>2. UNCHANGED <<queue, pending, answer, sent, pc, ready, active, failure>>
  BY DEF Begin, End, own, check, client
<1>3. at[<<w, r>>] \in {"inbox", "running"} /\ \E p \in {"running", "done", "refused", "gone"} :
          /\ at'[<<w, r>>] = p
          /\ \A v \in Workers, q \in Reqs : <<v, q>> # <<w, r>> => at'[<<v, q>>] = at[<<v, q>>]
  BY <1>1 DEF Begin, End, Typing
<1>4. \A q \in Reqs : Untouched(q) => q # r /\ Untouched(q)'
  BY <1>2, <1>3 DEF Untouched
<1>5. Fresh' /\ Held'
  BY <1>1, <1>2, <1>4, QueueIs DEF RInv, Requests, Fresh, Held, QueuedReqs
<1>6. Owed'
  BY <1>1, <1>2, <1>3 DEF Typing, RInv, Requests, Owed
<1>7. OneWorker'
  BY <1>1, <1>3 DEF RInv, Requests, OneWorker
<1>8. AnsweredOnce' /\ NotSentIsTrue'
  BY <1>1, <1>2, <1>3 DEF RInv, Requests, AnsweredOnce, NotSentIsTrue, Reqs
<1>9. Stages' /\ Greeted'
  BY <1>1, <1>2 DEF RInv, Stages, Greeted, Recovery
<1> QED BY <1>5, <1>6, <1>7, <1>8, <1>9 DEF RInv, Requests

\* An answer is owed once.
LEMMA MessageKeeps ==
    ASSUME IInv, NEW w \in Workers, NEW r \in Reqs, Message(w, r)
    PROVE  RInv'
<1>1. Typing /\ RInv
  BY DEF IInv
<1>2. /\ UNCHANGED <<queue, at, sent, ready, active, failure>> /\ r \in pending[w]
      /\ at[<<w, r>>] \in {"done", "refused"}
      /\ \A v \in Workers : pending'[v] = IF v = w THEN pending[v] \ {r} ELSE pending[v]
  BY <1>1 DEF Message, StillOwed, own, client, Typing
<1>3. answer[r] = "none" /\ r \in sent /\ ~Untouched(r) /\ r \notin QueuedReqs
  BY <1>1, <1>2 DEF RInv, Requests, Owed, Fresh, Held, Untouched
<1>4. \A v \in Workers : r \notin pending'[v]
  BY <1>1, <1>2 DEF RInv, Requests, Owed, OneWorker
<1>5. CASE r = Hello
  <2>1. pc' = "boot" /\ answer' = answer
    BY <1>5 DEF Message
  <2>2. Requests'
    <3>1. Owed' /\ OneWorker'
      BY <1>1, <1>2, <2>1 DEF RInv, Requests, Owed, OneWorker
    <3>2. Fresh' /\ Held' /\ AnsweredOnce' /\ NotSentIsTrue'
      BY <1>1, <1>2, <2>1 DEF RInv, Requests, Fresh, Untouched, Held, QueuedReqs, AnsweredOnce,
         NotSentIsTrue
    <3> QED BY <3>1, <3>2 DEF Requests
  <2>3. ready # TRUE /\ pc \in {"idle", "boot"}
    BY <1>1, <1>3, <1>5 DEF RInv, Greeted, Stages
  <2>4. Stages'
    BY <1>1, <1>2, <2>1, <2>3 DEF RInv, Stages, Recovery
  <2>5. Greeted'
    BY <1>1, <1>2, <1>3, <1>4, <1>5, <2>1, <2>3 DEF RInv, Greeted
  <2> QED BY <2>2, <2>4, <2>5 DEF RInv
<1>6. CASE r # Hello
  <2> DEFINE kind == IF at[<<w, r>>] = "done" THEN "result" ELSE "not_sent"
  <2>1. /\ kind \in Answers /\ kind \in {"result", "not_sent"} /\ answer' = Told({r}, kind)
        /\ pc' = pc
        /\ (kind = "not_sent" => at[<<w, r>>] = "refused")
    BY <1>2, <1>6 DEF Message, Answers
  <2> HIDE DEF kind
  <2>2. answer'[r] = kind /\ \A q \in Reqs : q # r => answer'[q] = answer[q]
    BY <1>1, <1>3, <2>1, ToldIs
  <2>3. \A q \in Reqs : Untouched(q) => q # r /\ Untouched(q)'
    BY <1>2, <1>3, <2>2 DEF Untouched
  <2>4. Fresh' /\ Held'
    BY <1>1, <1>2, <2>3, QueueIs DEF RInv, Requests, Fresh, Held, QueuedReqs
  <2>5. Owed' /\ OneWorker'
    <3>1. \A v \in Workers : \A q \in pending'[v] : q \in pending[v] /\ q # r /\ q \in Reqs
      BY <1>1, <1>2, <1>4, PendingIs
    <3> QED BY <1>1, <1>2, <2>2, <3>1 DEF RInv, Requests, Owed, OneWorker
  <2>6. AnsweredOnce'
    BY <1>1, <2>1, <2>2 DEF RInv, Requests, AnsweredOnce
  <2>7. NotSentIsTrue'
    <3>1. kind = "not_sent" => \A v \in Workers : at[<<v, r>>] \in {"none", "refused"}
      BY <1>1, <2>1 DEF RInv, Requests, OneWorker
    <3> QED BY <1>1, <1>2, <2>1, <2>2, <3>1 DEF RInv, Requests, NotSentIsTrue, Reqs
  <2>8. Stages' /\ Greeted'
    BY <1>1, <1>2, <1>6, <2>1, <2>2 DEF RInv, Stages, Greeted, Recovery, Reqs
  <2> QED BY <2>4, <2>5, <2>6, <2>7, <2>8 DEF RInv, Requests
<1> QED BY <1>5, <1>6

\* A worker that is gone owes nothing more.
LEMMA FailKeeps ==
    ASSUME IInv, NEW w \in Workers, Fail(w)
    PROVE  RInv'
<1>1. Typing /\ RInv
  BY DEF IInv
<1>2. UNCHANGED <<queue, at, sent, ready, active, pc>> /\ (failure => failure')
      /\ answer' = Told(pending[w], "unknown")
      /\ \A v \in Workers : pending'[v] = IF v = w THEN {} ELSE pending[v]
  BY <1>1 DEF Fail, client, Typing
<1>3. pending[w] \subseteq Reqs /\ \A r \in pending[w] :
          answer[r] = "none" /\ ~Untouched(r) /\ \A v \in Workers : r \notin pending'[v]
  <2> SUFFICES ASSUME NEW r \in pending[w]
               PROVE  /\ r \in Reqs /\ answer[r] = "none" /\ ~Untouched(r)
                      /\ \A v \in Workers : r \notin pending'[v]
    OBVIOUS
  <2>1. r \in Reqs /\ answer[r] = "none" /\ at[<<w, r>>] # "none"
    BY <1>1, PendingIs DEF RInv, Requests, Owed
  <2>2. \A v \in Workers : r \in pending[v] => v = w
    BY <1>1, <2>1 DEF RInv, Requests, Owed, OneWorker
  <2> QED BY <1>2, <2>1, <2>2 DEF Untouched
<1>4. /\ \A r \in Reqs \ pending[w] : answer'[r] = answer[r]
      /\ \A r \in pending[w] : answer'[r] = "unknown"
  BY <1>1, <1>2, <1>3, ToldIs DEF Answers
<1>5. \A r \in Reqs : Untouched(r) => Untouched(r)'
  BY <1>2, <1>3, <1>4 DEF Untouched
<1>6. Fresh' /\ Held'
  BY <1>1, <1>2, <1>5, QueueIs DEF RInv, Requests, Fresh, Held, QueuedReqs
<1>7. Owed' /\ OneWorker'
  <2>1. \A v \in Workers : \A r \in pending'[v] : r \in pending[v] /\ r \notin pending[w] /\
            r \in Reqs
    BY <1>1, <1>2, <1>3, PendingIs
  <2> QED BY <1>1, <1>2, <1>4, <2>1 DEF RInv, Requests, Owed, OneWorker
<1>8. AnsweredOnce' /\ NotSentIsTrue'
  BY <1>1, <1>2, <1>4 DEF RInv, Requests, AnsweredOnce, NotSentIsTrue, Reqs
<1>9. Stages' /\ Greeted'
  BY <1>1, <1>2, <1>3, <1>4 DEF RInv, Stages, Greeted, Recovery, Reqs
<1> QED BY <1>6, <1>7, <1>8, <1>9 DEF RInv, Requests

\* The answer to initialize is the last thing to happen before the workers are ready.
LEMMA BootKeeps ==
    ASSUME IInv, Boot
    PROVE  RInv'
<1>1. Typing /\ RInv /\ pc = "boot" /\ Hello \in Reqs
  BY DEF IInv, Boot, Reqs
<1>2. UNCHANGED <<queue, at, sent, pending, active>> /\ (failure => failure') /\ pc' = "idle"
  BY DEF Boot, client
<1>3. \E kind \in {"result", "unknown"} : answer' = Told({Hello}, kind)
  BY DEF Boot
<1>4. PICK kind \in {"result", "unknown"} : answer' = Told({Hello}, kind)
  BY <1>3
<1>5. /\ answer[Hello] = "none" /\ Hello \in sent /\ queue = <<>>
      /\ \A v \in Workers : Hello \notin pending[v]
  BY <1>1 DEF RInv, Greeted, Stages
<1>6. answer'[Hello] = kind /\ \A r \in Reqs \ {Hello} : answer'[r] = answer[r]
  BY <1>1, <1>4, <1>5, ToldIs DEF Answers
<1>7. Len(queue) = 0 /\ DOMAIN queue = {} /\ QueuedReqs' = {}
  BY <1>2, <1>5 DEF QueuedReqs
<1>8. Fresh' /\ Held'
  BY <1>1, <1>2, <1>5, <1>6, <1>7 DEF RInv, Requests, Fresh, Untouched, Held
<1>9. Owed' /\ OneWorker'
  BY <1>1, <1>2, <1>5, <1>6 DEF Typing, RInv, Requests, Owed, OneWorker
<1>10. AnsweredOnce' /\ NotSentIsTrue'
  BY <1>1, <1>2, <1>6 DEF RInv, Requests, AnsweredOnce, NotSentIsTrue, Reqs
<1>11. Stages' /\ Greeted'
  BY <1>1, <1>2, <1>5, <1>6 DEF RInv, Stages, Greeted, Recovery, Boot
<1> QED BY <1>8, <1>9, <1>10, <1>11 DEF RInv, Requests

\* No step breaks the requests' part.
LEMMA NextRInv ==
    ASSUME SupervisorAssumption, IInv, [Next]_vars
    PROVE  RInv'
<1>0. Typing /\ RInv /\ Stages /\ active \in Workers /\ Hello \notin Calls
  BY DEF IInv, RInv, Typing, SupervisorAssumption
<1>1. ASSUME NEW r \in Reqs, ClientSends(r) PROVE RInv'
  BY <1>1, ClientKeeps
<1>2. ASSUME NEW r \in Calls, ClientCancels(r) PROVE RInv'
  BY <1>0, <1>2, CancelKeeps
<1>3. CASE Disconnect \/ Install
  BY <1>0, <1>3, OthersKeep DEF Disconnect, Install, own, check, client, calls
<1>4. ASSUME NEW w \in Workers, NEW r \in Reqs, Begin(w, r) \/ End(w, r) PROVE RInv'
  BY <1>4, WorkKeeps
<1>5. ASSUME NEW w \in Workers, NEW r \in Reqs, Message(w, r) PROVE RInv'
  BY <1>5, MessageKeeps
<1>6. ASSUME NEW w \in Workers, Control(w) \/ Dies(w) PROVE RInv'
  BY <1>0, <1>6, OthersKeep DEF Control, Dies, own, check, client, calls
<1>7. ASSUME NEW w \in Workers, Fail(w) PROVE RInv'
  BY <1>7, FailKeeps
<1>8. CASE Boot
  BY <1>8, BootKeeps
<1>9. CASE Timeout
  BY <1>0, <1>9, OthersKeep DEF Timeout, own, client, calls
<1>10. CASE CheckReload
  BY <1>0, <1>10, WaitKeeps DEF CheckReload, Wait, own, client, calls, Recovery
<1>11. CASE Inspected \/ Introduced \/ HandOver \/ Switch \/ Retired \/ Rejected \/ Resumed
  <2>1. pc \notin {"idle", "boot"} /\ UNCHANGED <<sent, ready>> /\ active' \in Workers
    BY <1>0, <1>11 DEF Inspected, Introduced, HandOver, Switch, Retired, Rejected, Resumed,
       own, client, IInv, WInv, Roles, Trying
  <2>2. CASE Finish
    BY <1>0, <2>1, <2>2, FinishKeeps
  <2>3. CASE \E l \in {"introduce", "quiesce", "restore", "activate", "reject", "retire",
            "resume"} : Wait(l)
    BY <1>0, <2>1, <2>3, WaitKeeps DEF Wait, Stages, Recovery
  <2> QED BY <1>11, <2>2, <2>3 DEF Inspected, Introduced, HandOver, Switch, Retired, Rejected,
          Resumed
<1>12. CASE CheckRecovery
  BY <1>0, <1>12, WaitKeeps DEF CheckRecovery, Wait, client, Stages, Recovery
<1>13. CASE StoppedFailed \/ Reintroduced \/ Reactivated \/ RejectedAgain
  <2>1. pc \in Recovery /\ UNCHANGED <<sent, ready>> /\ (UNCHANGED failure \/ pc' = "idle")
    BY <1>13 DEF StoppedFailed, Reintroduced, Reactivated, RejectedAgain, own, client,
       Recovery, FinishRecovery
  <2>2. CASE FinishRecovery
    BY <1>0, <2>1, <2>2, WaitKeeps DEF FinishRecovery, Stages, Recovery
  <2>3. CASE UNCHANGED failure /\ \E l \in Recovery : Wait(l)
    BY <1>0, <2>1, <2>3, WaitKeeps DEF Wait, Stages, Recovery
  <2> QED BY <1>13, <2>2, <2>3 DEF StoppedFailed, Reintroduced, Reactivated, RejectedAgain,
          own, Recovery
<1>14. CASE UNCHANGED vars
  BY <1>0, <1>14, OthersKeep DEF vars, own, check, client, calls
<1> QED
  BY <1>1, <1>2, <1>3, <1>4, <1>5, <1>6, <1>7, <1>8, <1>9, <1>10, <1>11, <1>12, <1>13, <1>14
  DEF Next, Check

-----------------------------------------------------------------------------
(* Workers. *)

\* A worker that was told nothing to wake it wakes no more than before.
LEMMA SendWakes ==
    ASSUME Typing, NEW w \in Workers, NEW do \in Commands, Send(w, do), NEW v \in Workers,
           Wakes(v)'
    PROVE  Wakes(v) \/ (v = w /\ do \in {"activate", "resume"})
<1>1. PICK k \in DOMAIN cmds'[v] : cmds'[v][k].do \in {"activate", "resume"}
  BY DEF Wakes
<1>2. CASE cmds'[v] = cmds[v]
  BY <1>1, <1>2 DEF Wakes
<1>3. CASE v = w /\ cmds' # cmds
  <2>1. /\ DOMAIN cmds'[w] = 1 .. Len(cmds[w]) + 1 /\ DOMAIN cmds[w] = 1 .. Len(cmds[w])
        /\ \A j \in 1 .. Len(cmds[w]) : cmds'[w][j] = cmds[w][j]
        /\ cmds'[w][Len(cmds[w]) + 1] = [do |-> do, heard |-> TRUE]
    BY <1>3, SendIs
  <2>2. Len(cmds[w]) \in Nat
    BY DEF Typing
  <2>3. CASE k = Len(cmds[w]) + 1
    BY <1>1, <1>3, <2>1, <2>3
  <2>4. CASE k # Len(cmds[w]) + 1
    <3>1. k \in DOMAIN cmds[w] /\ cmds'[w][k] = cmds[w][k]
      BY <1>3, <2>1, <2>2, <2>4
    <3> QED BY <1>1, <1>3, <3>1 DEF Wakes
  <2> QED BY <2>3, <2>4
<1> QED BY <1>2, <1>3, SendIs

NoneHeard == \A w \in Workers : \A k \in DOMAIN cmds[w] : ~cmds[w][k].heard

\* The supervisor waits for nothing while it decides what to do next.
LEMMA Decides ==
    ASSUME Typing, Heard, reply # "none" \/
           pc \notin {"boot", "inspect", "quiesce", "resume", "restore", "activate",
               "reactivate"}
    PROVE  NoneHeard
<1>1. pc \notin {"boot", "inspect", "quiesce", "resume", "restore", "activate",
          "reactivate"} => Awaited \notin Workers
  BY DEF Awaited, Workers, Nobody
<1> QED BY <1>1 DEF Heard, NoneHeard

\* After a command is sent, that is the one the supervisor waits for.
LEMMA SendHeard ==
    ASSUME Typing, NEW w \in Workers, NEW do \in Commands, Send(w, do), NoneHeard,
           (Awaited = w)', (Expected = do)'
    PROVE  Heard' /\ Obeyed'
<1>1. Obeyed'
  BY SendIs DEF Obeyed
<1>2. Heard'
  <2> SUFFICES ASSUME NEW v \in Workers, NEW k \in DOMAIN cmds'[v], cmds'[v][k].heard
               PROVE  v = w /\ k = Len(cmds'[v]) /\ cmds'[v][k].do = do /\ reply' = "none"
    BY DEF Heard
  <2>1. v = w /\ cmds' # cmds
    BY SendIs DEF NoneHeard
  <2>2. /\ reply' = "none" /\ Len(cmds'[w]) = Len(cmds[w]) + 1
        /\ DOMAIN cmds'[w] = 1 .. Len(cmds[w]) + 1 /\ DOMAIN cmds[w] = 1 .. Len(cmds[w])
        /\ \A j \in 1 .. Len(cmds[w]) : cmds'[w][j] = cmds[w][j]
        /\ cmds'[w][Len(cmds[w]) + 1] = [do |-> do, heard |-> TRUE]
    BY <2>1, SendIs
  <2>3. Len(cmds[w]) \in Nat
    BY DEF Typing
  <2>4. k = Len(cmds[w]) + 1
    BY <2>1, <2>2, <2>3 DEF NoneHeard
  <2> QED BY <2>1, <2>2, <2>4
<1> QED BY <1>1, <1>2

\* Where nothing is heard, nothing is while the supervisor moves on.
LEMMA MoveHeard ==
    ASSUME NoneHeard, cmds' = cmds, (Awaited = Nobody)'
    PROVE  Heard' /\ Obeyed'
BY DEF NoneHeard, Heard, Obeyed

\* What does not touch the workers, their commands or the reload.
LEMMA QuietKeeps ==
    ASSUME WInv, UNCHANGED <<proc, phase, cmds, pc, active, previous, candidate, reply>>,
           failure => failure'
    PROVE  WInv'
<1>1. Known' /\ Roles' /\ Unborn'
  BY DEF WInv, Known, Roles, Unborn
<1>2. Asleep'
  BY DEF WInv, Asleep, Awake, Wakes
<1>3. Heard' /\ Obeyed'
  BY DEF WInv, Heard, Obeyed, Awaited, Expected
<1> QED BY <1>1, <1>2, <1>3 DEF WInv

\* A worker that is gone.
LEMMA DiesKeeps ==
    ASSUME IInv, NEW w \in Workers, Dies(w)
    PROVE  WInv'
<1>1. Typing /\ WInv /\ UNCHANGED <<phase, cmds, pc, active, previous, candidate, reply,
          failure>>
      /\ \A v \in Workers : proc'[v] = IF v = w THEN "down" ELSE proc[v]
  BY DEF IInv, Dies, own, check, Typing
<1>2. Known' /\ Roles' /\ Unborn'
  BY <1>1 DEF Typing, WInv, Known, Roles, Unborn, Trying
<1>3. Asleep' /\ Heard' /\ Obeyed'
  BY <1>1 DEF WInv, Asleep, Awake, Wakes, Heard, Obeyed, Awaited, Expected
<1> QED BY <1>2, <1>3 DEF WInv

\* Commands are given up on, when the worker is gone or the time is over.
LEMMA GiveUpKeeps ==
    ASSUME IInv, NEW w \in Workers, UNCHANGED <<proc, phase, pc, active, previous, candidate>>,
           failure => failure',
           cmds' = [cmds EXCEPT ![w] = [k \in DOMAIN @ |-> [@[k] EXCEPT !.heard = FALSE]]],
           reply' = IF Awaited = w THEN "no" ELSE reply
    PROVE  WInv'
<1>1. Typing /\ WInv
  BY DEF IInv
<1>2. /\ \A v \in Workers :
             /\ DOMAIN cmds'[v] = DOMAIN cmds[v] /\ Len(cmds'[v]) = Len(cmds[v])
             /\ \A k \in DOMAIN cmds[v] :
                    /\ cmds'[v][k].do = cmds[v][k].do
                    /\ cmds'[v][k].heard => cmds[v][k].heard /\ v # w
      /\ \A v \in Workers : cmds[v] = <<>> => cmds'[v] = <<>>
  BY <1>1, GivenUpOn
<1>3. Known' /\ Roles' /\ Unborn'
  BY <1>1, <1>2 DEF WInv, Known, Roles, Unborn
<1>4. \A v \in Workers : Wakes(v)' => Wakes(v)
  BY <1>2 DEF Wakes
<1>5. Asleep'
  BY <1>1, <1>4 DEF Typing, WInv, Roles, Asleep, Awake, Trying, Reload, Awaits
<1>6. Awaited' = Awaited /\ Expected' = Expected
  BY DEF Awaited, Expected
<1>7. Heard'
  <2> SUFFICES ASSUME NEW v \in Workers, NEW k \in DOMAIN cmds'[v], cmds'[v][k].heard
               PROVE  /\ v = Awaited /\ k = Len(cmds'[v]) /\ cmds'[v][k].do = Expected
                      /\ reply' = "none"
    BY <1>6 DEF Heard
  <2>1. k \in DOMAIN cmds[v] /\ cmds[v][k].heard /\ v # w /\ Len(cmds'[v]) = Len(cmds[v])
        /\ cmds'[v][k].do = cmds[v][k].do
    BY <1>2
  <2>2. v = Awaited /\ k = Len(cmds[v]) /\ cmds[v][k].do = Expected /\ reply = "none"
    BY <1>1, <2>1 DEF WInv, Heard
  <2> QED BY <2>1, <2>2
<1>8. Obeyed'
  <2>1. Awaited \in Workers \cup {Nobody}
    BY <1>1 DEF Awaited, Typing
  <2> QED BY <1>1, <1>2, <1>6, <2>1 DEF WInv, Obeyed
<1> QED BY <1>3, <1>5, <1>7, <1>8 DEF WInv

\* A worker does its oldest command, or begins to.
LEMMA ControlKeeps ==
    ASSUME IInv, NEW w \in Workers, Control(w)
    PROVE  WInv'
<1> DEFINE do == Head(cmds[w]).do
           heard == Head(cmds[w]).heard
<1>1. Typing /\ WInv /\ UNCHANGED <<proc, pc, active, previous, candidate, failure>>
      /\ proc[w] = "up" /\ cmds[w] # <<>>
  BY DEF IInv, Control, own
<1>2. /\ Len(cmds[w]) \in Nat \ {0} /\ DOMAIN cmds[w] = 1 .. Len(cmds[w])
      /\ do = cmds[w][1].do /\ heard = cmds[w][1].heard
      /\ Tail(cmds[w]) \in Seq(Command) /\ Len(Tail(cmds[w])) = Len(cmds[w]) - 1
      /\ DOMAIN Tail(cmds[w]) = 1 .. Len(cmds[w]) - 1
      /\ \A k \in 1 .. Len(cmds[w]) - 1 : Tail(cmds[w])[k] = cmds[w][k + 1]
  <2>1. cmds[w] \in Seq(Command)
    BY <1>1 DEF Typing
  <2> QED BY <1>1, <2>1
<1>3. \E p \in {"staged", "active", "quiescing", "quiesced"} :
         /\ phase' = [phase EXCEPT ![w] = p]
         /\ p = "active" => phase[w] = "active" \/ do \in {"activate", "resume"}
         /\ \/ UNCHANGED <<cmds, reply>> /\ do = "quiesce"
            \/ Replies(w, "no")
            \/ Replies(w, "ok") /\ (do = "quiesce" => p = "quiesced")
  <2>1. phase[w] \in {"staged", "active", "quiescing", "quiesced"}
    BY <1>1 DEF Typing
  <2> QED BY <2>1 DEF Control
<1>4. PICK p \in {"staged", "active", "quiescing", "quiesced"} :
         /\ phase' = [phase EXCEPT ![w] = p]
         /\ p = "active" => phase[w] = "active" \/ do \in {"activate", "resume"}
         /\ \/ UNCHANGED <<cmds, reply>> /\ do = "quiesce"
            \/ Replies(w, "no")
            \/ Replies(w, "ok") /\ (do = "quiesce" => p = "quiesced")
  BY <1>3
<1>5. /\ \A v \in Workers : phase'[v] = IF v = w THEN p ELSE phase[v]
      /\ \/ UNCHANGED <<cmds, reply>> /\ do = "quiesce"
         \/ /\ \A v \in Workers : cmds'[v] = IF v = w THEN Tail(cmds[w]) ELSE cmds[v]
            /\ \/ reply' = reply /\ (~heard \/ retiring[w])
               \/ heard /\ (reply' = "no" \/
                   (reply' = "ok" /\ (do = "quiesce" => p = "quiesced")))
  BY <1>1, <1>4 DEF Replies, Typing
<1> HIDE DEF do, heard
<1>6. \A v \in Workers : Wakes(v)' => Wakes(v)
  <2> SUFFICES ASSUME NEW v \in Workers, NEW k \in DOMAIN cmds'[v],
                      cmds'[v][k].do \in {"activate", "resume"}, cmds' # cmds
               PROVE  \E j \in DOMAIN cmds[v] : cmds[v][j].do \in {"activate", "resume"}
    BY DEF Wakes
  <2>1. CASE v = w
    <3>1. k \in 1 .. Len(cmds[w]) - 1 /\ cmds'[v][k] = cmds[w][k + 1]
      BY <1>2, <1>5, <2>1
    <3>2. k + 1 \in DOMAIN cmds[w]
      BY <1>2, <3>1
    <3> QED BY <2>1, <3>1, <3>2
  <2>2. CASE v # w
    BY <1>5, <2>2
  <2> QED BY <2>1, <2>2
<1>7. \A v \in Workers : Awake(v)' => Awake(v)
  BY <1>2, <1>4, <1>5, <1>6 DEF Awake, Wakes
<1>8. Known' /\ Roles' /\ Unborn'
  BY <1>1, <1>5 DEF WInv, Known, Roles, Unborn
<1>9. Asleep'
  BY <1>1, <1>6, <1>7 DEF Typing, WInv, Roles, Asleep, Trying, Reload, Awaits
<1>10. Awaited' = Awaited /\ Expected' = Expected
  BY <1>1 DEF Awaited, Expected
<1>11. heard => w = Awaited /\ Len(cmds[w]) = 1 /\ do = Expected /\ reply = "none"
  <2>1. 1 \in DOMAIN cmds[w]
    BY <1>2
  <2>2. cmds[w][1].heard => w = Awaited /\ 1 = Len(cmds[w]) /\ cmds[w][1].do = Expected /\
            reply = "none"
    BY <1>1, <2>1 DEF WInv, Heard
  <2> QED BY <1>2, <2>2
<1>12. Heard'
  <2> SUFFICES ASSUME NEW v \in Workers, NEW k \in DOMAIN cmds'[v], cmds'[v][k].heard
               PROVE  /\ v = Awaited /\ k = Len(cmds'[v]) /\ cmds'[v][k].do = Expected
                      /\ reply' = "none"
    BY <1>10 DEF Heard
  <2>1. CASE UNCHANGED <<cmds, reply>>
    BY <1>1, <2>1 DEF WInv, Heard
  <2>2. CASE \A u \in Workers : cmds'[u] = IF u = w THEN Tail(cmds[w]) ELSE cmds[u]
    <3>1. CASE v = w
      <4>0. cmds'[v] = Tail(cmds[w]) /\ k \in 1 .. Len(cmds[w]) - 1
        BY <1>2, <2>2, <3>1
      <4>1. /\ Len(cmds[w]) # 1 /\ k \in 1 .. Len(cmds[w]) - 1 /\ k + 1 \in DOMAIN cmds[w]
            /\ cmds[w][k + 1].heard
            /\ cmds'[v][k] = cmds[w][k + 1]
        BY <1>2, <4>0
      <4>2. /\ w = Awaited /\ k + 1 = Len(cmds[w]) /\ cmds[w][k + 1].do = Expected
            /\ reply = "none" /\ ~heard
        BY <1>1, <1>11, <4>1 DEF WInv, Heard
      <4>3. reply' = reply
        BY <1>5, <4>2
      <4>4. k = Len(cmds'[v])
        BY <1>2, <4>0, <4>2
      <4> QED BY <3>1, <4>1, <4>2, <4>3, <4>4
    <3>2. CASE v # w
      <4>1. cmds'[v] = cmds[v]
        BY <2>2, <3>2
      <4>2. v = Awaited /\ k = Len(cmds[v]) /\ cmds[v][k].do = Expected /\ reply = "none"
        BY <1>1, <4>1 DEF WInv, Heard
      <4>3. ~heard
        BY <1>11, <3>2, <4>2
      <4> QED BY <1>5, <4>1, <4>2, <4>3
    <3> QED BY <3>1, <3>2
  <2> QED BY <1>5, <2>1, <2>2
<1>13. Obeyed'
  <2> SUFFICES ASSUME reply' = "ok", Awaited # Nobody
               PROVE  cmds'[Awaited] = <<>> /\ (pc = "quiesce" => phase'[previous] = "quiesced")
    BY <1>1, <1>10 DEF Obeyed
  <2>1. Awaited \in Workers /\ (pc = "quiesce" => previous = Awaited)
    BY <1>1 DEF Awaited, Typing
  <2>2. CASE reply = "ok"
    <3>1. cmds[Awaited] = <<>> /\ (pc = "quiesce" => phase[previous] = "quiesced")
      BY <1>1, <2>2 DEF WInv, Obeyed
    <3>2. w # Awaited
      BY <1>1, <3>1
    <3> QED BY <1>5, <2>1, <3>1, <3>2
  <2>3. CASE reply # "ok"
    <3>1. heard /\ (do = "quiesce" => p = "quiesced")
          /\ \A v \in Workers : cmds'[v] = IF v = w THEN Tail(cmds[w]) ELSE cmds[v]
      BY <1>5, <2>3
    <3>2. w = Awaited /\ Len(Tail(cmds[w])) = 0
      BY <1>2, <1>11, <3>1
    <3>3. Tail(cmds[w]) = <<>>
      BY <1>2, <3>2, EmptySeq
    <3>4. pc = "quiesce" => do = "quiesce"
      BY <1>11, <3>1 DEF Expected
    <3> QED BY <1>5, <2>1, <3>1, <3>2, <3>3, <3>4
  <2> QED BY <2>2, <2>3
<1> QED BY <1>8, <1>9, <1>12, <1>13 DEF WInv

\* The answer to initialize: the first worker, which is the only one, is told to begin.
LEMMA BeginsKeeps ==
    ASSUME IInv, NEW w \in Workers, NEW r \in Reqs, Message(w, r)
    PROVE  WInv'
<1>1. Typing /\ WInv /\ UNCHANGED <<proc, phase, active, previous, candidate, failure>>
  BY DEF IInv, Message, own, worker
<1>2. CASE r # Hello
  BY <1>1, <1>2, QuietKeeps DEF Message
<1>3. CASE r = Hello
  <2>1. ready # TRUE /\ pc \in {"idle", "boot"} /\ w = active /\ pc # "boot"
    BY <1>3 DEF IInv, RInv, Requests, Owed, Greeted, Stages, Message
  <2>2. NoneHeard
    BY <1>1, <2>1, Decides DEF WInv
  <2>3. pc' = "boot" /\ Send(w, "activate")
    BY <1>3 DEF Message
  <2>4. /\ cmds' \in [Workers -> Seq(Command)]
        /\ \A v \in Workers : proc[v] = "unborn" => cmds'[v] = cmds[v]
    BY <1>1, <2>3, SendIs DEF Commands
  <2>5. Known' /\ Roles' /\ Unborn'
    BY <1>1, <2>1, <2>3, <2>4 DEF WInv, Known, Roles, Unborn, Trying, Awaits
  <2>6. Asleep'
    BY <2>3 DEF Asleep, Reload
  <2>7. (Awaited = w)' /\ (Expected = "activate")'
    BY <1>1, <2>1, <2>3 DEF Awaited, Expected
  <2>8. Heard' /\ Obeyed'
    BY <1>1, <2>2, <2>3, <2>7, SendHeard DEF Commands
  <2> QED BY <2>5, <2>6, <2>8 DEF WInv
<1> QED BY <1>2, <1>3

\* The workers are ready.
LEMMA BegunKeeps ==
    ASSUME IInv, Boot
    PROVE  WInv'
<1>1. /\ Typing /\ WInv /\ UNCHANGED <<proc, phase, cmds, active, previous, candidate>>
      /\ pc = "boot" /\ pc' = "idle"
      /\ reply # "none" /\ active \in Workers
  BY DEF IInv, Boot, worker, Typing
<1>2. NoneHeard
  BY <1>1, Decides DEF WInv
<1>3. Known' /\ Roles' /\ Unborn'
  BY <1>1 DEF WInv, Known, Roles, Unborn, Trying, Awaits
<1>4. Asleep'
  <2>1. CASE reply = "ok"
    <3>1. cmds[active] = <<>>
      BY <1>1, <2>1 DEF WInv, Obeyed, Awaited, Workers, Nobody
    <3>2. ~Wakes(active)
      BY <3>1 DEF Wakes
    <3> QED BY <1>1, <3>2 DEF Asleep, Reload, Wakes
  <2>2. CASE reply # "ok"
    <3>1. failure' = TRUE
      BY <2>2 DEF Boot
    <3> QED BY <1>1, <3>1 DEF Asleep, Reload
  <2> QED BY <2>1, <2>2
<1>5. Heard' /\ Obeyed'
  BY <1>1, <1>2, MoveHeard DEF Awaited
<1> QED BY <1>3, <1>4, <1>5 DEF WInv

\* A reload or a recovery is over.
LEMMA OverKeeps ==
    ASSUME Typing, WInv, NoneHeard, pc' = "idle", UNCHANGED <<phase, cmds, active>>,
           \A w \in Workers : proc'[w] = proc[w] \/ (proc[w] = "up" /\ proc'[w] # "unborn"),
           \A w \in Workers : proc'[w] = "up" => w = active,
           ~failure' => ~Wakes(active)
    PROVE  WInv'
<1>1. active \in Workers /\ (Awaited = Nobody)'
  BY DEF Typing, Awaited
<1>2. Known' /\ Roles' /\ Unborn'
  BY <1>1 DEF WInv, Known, Roles, Unborn, Trying
<1>3. Asleep'
  BY DEF Asleep, Reload, Wakes
<1>4. Heard' /\ Obeyed'
  BY <1>1, MoveHeard
<1> QED BY <1>2, <1>3, <1>4 DEF WInv

\* A candidate is started.
LEMMA SpawnKeeps ==
    ASSUME Typing, WInv, NoneHeard, NEW w \in Workers, Spawn(w),
           UNCHANGED <<cmds, active, previous>>,
           \/ pc = "inspect" /\ pc' = "introduce"
           \/ pc = "stopFailed" /\ pc' = "reintroduce" /\ proc[previous] # "up"
    PROVE  WInv'
<1>1. /\ proc[w] = "unborn" /\ w # active /\ candidate' = w /\ phase' = phase
      /\ active \in Workers /\ previous = active
      /\ \A v \in Workers : proc'[v] = IF v = w THEN "up" ELSE proc[v]
  BY DEF Spawn, Unforked, Forked, WInv, Roles, Typing, Awaits
<1>2. ~Awake(w)
  BY <1>1 DEF WInv, Unborn, Awake, Wakes
<1>3. Known' /\ Roles' /\ Unborn'
  BY <1>1 DEF WInv, Known, Roles, Unborn, Trying, Awaits
<1>4. Asleep'
  <2>1. pc = "inspect" => ~Wakes(active)
    BY DEF WInv, Asleep, Reload
  <2> QED BY <1>1, <1>2, <2>1 DEF Asleep, Reload, Awake, Wakes
<1>5. Heard' /\ Obeyed'
  BY MoveHeard DEF Awaited
<1> QED BY <1>3, <1>4, <1>5 DEF WInv

\* The candidate is told to stop.
LEMMA RejectKeeps ==
    ASSUME Typing, WInv, NoneHeard,
           UNCHANGED <<proc, phase, cmds, active, previous, candidate>>,
           \/ pc \in {"introduce", "quiesce", "restore", "activate"} /\ pc' = "reject"
           \/ pc \in {"reintroduce", "reactivate"} /\ pc' = "rejectAgain"
    PROVE  WInv'
<1>1. Known' /\ Roles' /\ Unborn'
  BY DEF WInv, Known, Roles, Unborn, Trying, Awaits
<1>2. Asleep'
  BY DEF WInv, Asleep, Reload, Awake, Wakes
<1>3. Heard' /\ Obeyed'
  BY MoveHeard DEF Awaited
<1> QED BY <1>1, <1>2, <1>3 DEF WInv

\* A reload ends where the supervisor is idle.
LEMMA FinishIs == Finish => pc' = "idle"
BY DEF Finish

\* No step of a reload or of a recovery breaks the workers' part.
LEMMA CheckKeeps ==
    ASSUME IInv, Check
    PROVE  WInv'
<1> USE DEF own, check, worker
<1>0. /\ Typing /\ WInv /\ Known /\ Roles /\ Unborn /\ Asleep /\ Heard /\ Obeyed
      /\ active \in Workers
      /\ failure \in BOOLEAN
  BY DEF IInv, WInv, Typing
<1>1. CASE CheckReload
  <2>1. /\ pc = "idle" /\ pc' = "inspect" /\ ~failure /\ previous' = active
        /\ UNCHANGED <<active, failure, proc, phase>>
        /\ Send(active, "inspect")
    BY <1>0, <1>1 DEF CheckReload, Wait
  <2>2. NoneHeard
    BY <1>0, <2>1, Decides
  <2>3. /\ cmds' \in [Workers -> Seq(Command)]
        /\ \A v \in Workers : proc[v] = "unborn" => cmds'[v] = cmds[v]
    BY <1>0, <2>1, SendIs DEF Commands
  <2>4. Known' /\ Roles' /\ Unborn'
    BY <1>0, <2>1, <2>3 DEF Known, Roles, Unborn, Trying
  <2>5. Asleep'
    <3>1. ~Wakes(active)
      BY <1>0, <2>1 DEF Asleep
    <3>2. ~Wakes(active)'
      BY <1>0, <2>1, <3>1, SendWakes DEF Commands
    <3> QED BY <2>1, <3>2 DEF Asleep
  <2>6. Heard' /\ Obeyed'
    <3>1. (Awaited = active)' /\ active' = active /\ (Expected = "inspect")'
      BY <2>1 DEF Awaited, Expected
    <3> QED BY <1>0, <2>1, <2>2, <3>1, SendHeard DEF Commands
  <2> QED BY <2>4, <2>5, <2>6 DEF WInv
<1>2. CASE Inspected
  <2>1. NoneHeard /\ pc = "inspect" /\ UNCHANGED <<active, previous, cmds, failure>>
    BY <1>0, <1>2, Decides DEF Inspected
  <2>2. CASE Finish /\ UNCHANGED worker
    <3>1. ~Wakes(active) /\ \A w \in Workers : proc[w] = "up" => w = active
      BY <1>0, <2>1 DEF Asleep, Known, Reload, Trying
    <3> QED BY <1>0, <2>1, <2>2, <3>1, OverKeeps, FinishIs
  <2>3. CASE Wait("introduce") /\ \E w \in Workers : Spawn(w)
    BY <1>0, <2>1, <2>3, SpawnKeeps DEF Wait
  <2> QED BY <1>2, <2>2, <2>3 DEF Inspected
<1>3. CASE Introduced
  <2>1. /\ NoneHeard /\ pc = "introduce" /\ UNCHANGED <<active, previous, candidate, failure>>
        /\ previous = active
        /\ candidate \in Workers \ {active}
    BY <1>0, <1>3, Decides DEF Introduced, Roles, Awaits, Trying
  <2>2. CASE Stop(candidate) /\ Wait("reject") /\ UNCHANGED cmds
    BY <1>0, <2>1, <2>2, RejectKeeps DEF Stop, Wait
  <2>3. CASE Send(previous, "quiesce") /\ Wait("quiesce") /\ UNCHANGED worker
    <3>1. /\ cmds' \in [Workers -> Seq(Command)]
          /\ \A v \in Workers : proc[v] = "unborn" => cmds'[v] = cmds[v]
      BY <1>0, <2>1, <2>3, SendIs DEF Commands
    <3>2. Known' /\ Roles' /\ Unborn'
      BY <1>0, <2>1, <2>3, <3>1 DEF Wait, Known, Roles, Unborn, Trying, Awaits
    <3>3. \A v \in Workers : Wakes(v)' => Wakes(v)
      BY <1>0, <2>1, <2>3, SendWakes DEF Commands
    <3>4. Asleep'
      BY <1>0, <2>1, <2>3, <3>3 DEF Wait, Asleep, Awake, Reload
    <3>5. (Awaited = previous)' /\ previous' = previous /\ (Expected = "quiesce")'
      BY <2>1, <2>3 DEF Wait, Awaited, Expected
    <3>6. Heard' /\ Obeyed'
      BY <1>0, <2>1, <2>3, <3>5, SendHeard DEF Commands
    <3> QED BY <3>2, <3>4, <3>6 DEF WInv
  <2> QED BY <1>3, <2>2, <2>3 DEF Introduced
<1>4. CASE HandOver
  <2>1. /\ NoneHeard /\ pc \in {"quiesce", "restore"}
        /\ UNCHANGED <<active, previous, candidate, failure>>
        /\ previous = active /\ candidate \in Workers \ {active}
    BY <1>0, <1>4, Decides DEF HandOver, Roles, Awaits, Trying
  <2>2. CASE reply # "ok"
    BY <1>0, <1>4, <2>1, <2>2, RejectKeeps DEF HandOver, Stop, Wait
  <2>3. CASE reply = "ok"
    <3>1. UNCHANGED worker /\ \E do \in {"restore", "activate"} :
              /\ pc' = do /\ Send(candidate, do)
              /\ do = (IF pc = "quiesce" THEN "restore" ELSE "activate")
      BY <1>4, <2>1, <2>3 DEF HandOver, Wait
    <3>2. PICK do \in {"restore", "activate"} :
              /\ pc' = do /\ Send(candidate, do)
              /\ do = (IF pc = "quiesce" THEN "restore" ELSE "activate")
      BY <3>1
    <3>3. do \in Commands
      BY DEF Commands
    <3>4. /\ cmds' \in [Workers -> Seq(Command)]
          /\ \A v \in Workers : proc[v] = "unborn" => cmds'[v] = cmds[v]
          /\ \A v \in Workers : v # candidate => cmds'[v] = cmds[v]
      BY <1>0, <2>1, <3>2, <3>3, SendIs
    <3>5. Known' /\ Roles' /\ Unborn'
      BY <1>0, <2>1, <3>1, <3>2, <3>4 DEF Known, Roles, Unborn, Trying, Awaits
    <3>6. ~Awake(previous)
      <4>1. CASE pc = "quiesce"
        <5>1. cmds[previous] = <<>> /\ phase[previous] = "quiesced"
          BY <1>0, <2>1, <2>3, <4>1 DEF Obeyed, Awaited, Workers, Nobody
        <5> QED BY <5>1 DEF Awake, Wakes
      <4>2. CASE pc = "restore"
        BY <1>0, <4>2 DEF Asleep
      <4> QED BY <2>1, <4>1, <4>2
    <3>7. ~Awake(previous)'
      <4>1. previous \in Workers /\ previous # candidate
        BY <1>0, <2>1 DEF Roles, Trying, Awaits
      <4>2. cmds'[previous] = cmds[previous] /\ previous' = previous /\ phase' = phase
        BY <2>1, <3>1, <3>4, <4>1
      <4>3. Awake(previous)' => Awake(previous)
        BY <4>2 DEF Awake, Wakes
      <4> QED BY <3>6, <4>3
    <3>8. do = "restore" => ~Awake(candidate)'
      <4>1. ~Awake(candidate)
        BY <1>0, <2>1 DEF Asleep
      <4>2. do = "restore" => (Wakes(candidate)' => Wakes(candidate))
        BY <1>0, <2>1, <3>2, <3>3, SendWakes
      <4> QED BY <2>1, <3>1, <4>1, <4>2 DEF Awake
    <3>9. Asleep'
      BY <2>1, <3>2, <3>7, <3>8 DEF Asleep, Awake
    <3>10. (Awaited = candidate)' /\ candidate' = candidate /\ (Expected = do)'
      BY <2>1, <3>2 DEF Awaited, Expected
    <3>11. Heard' /\ Obeyed'
      BY <1>0, <2>1, <3>2, <3>3, <3>10, SendHeard
    <3> QED BY <3>5, <3>9, <3>11 DEF WInv
  <2> QED BY <2>2, <2>3
<1>5. CASE Switch
  <2>1. /\ NoneHeard /\ pc = "activate" /\ UNCHANGED <<previous, cmds, proc, phase>>
        /\ previous = active
        /\ candidate \in Workers \ {active} /\ ~Awake(previous)
    BY <1>0, <1>5, Decides DEF Switch, Stop, Roles, Awaits, Trying, Asleep
  <2>2. CASE pc' = "reject"
    BY <1>0, <1>5, <2>1, <2>2, RejectKeeps DEF Switch, Wait
  <2>3. CASE pc' # "reject"
    <3>1. reply = "ok" /\ active' = candidate /\ candidate' = Nobody /\ pc' = "retire"
      BY <1>5, <2>3 DEF Switch, Wait
    <3>2. cmds[candidate] = <<>>
      BY <1>0, <2>1, <3>1 DEF Obeyed, Awaited, Workers, Nobody
    <3>3. Known' /\ Roles' /\ Unborn'
      BY <1>0, <2>1, <3>1 DEF Known, Roles, Unborn, Trying
    <3>4. ~Wakes(active)' /\ ~Awake(previous)'
      BY <2>1, <3>1, <3>2 DEF Wakes, Awake
    <3>5. Asleep'
      BY <3>1, <3>4 DEF Asleep
    <3>6. Heard' /\ Obeyed'
      BY <2>1, <3>1, MoveHeard DEF Awaited
    <3> QED BY <3>3, <3>5, <3>6 DEF WInv
  <2> QED BY <2>2, <2>3
<1>6. CASE Retired
  <2>1. NoneHeard /\ pc = "retire" /\ pc' = "idle" /\ UNCHANGED <<active, cmds, phase, failure>>
        /\ previous \in Workers \ {active} /\ ~Wakes(active)
    BY <1>0, <1>6, Decides, FinishIs DEF Retired, Roles, Asleep, Reload
  <2>2. \A w \in Workers : /\ proc'[w] = proc[w] \/ (proc[w] = "up" /\ proc'[w] # "unborn")
                           /\ proc'[w] = "up" => w # previous /\ proc[w] = "up"
    BY <1>0, <1>6, <2>1 DEF Retired, Stopped, GivenUp, Stuck, Typing
  <2>3. \A w \in Workers : proc'[w] = "up" => w = active
    BY <1>0, <2>1, <2>2 DEF Known, Trying
  <2> QED BY <1>0, <2>1, <2>2, <2>3, OverKeeps
<1>7. CASE Rejected
  <2>1. /\ NoneHeard /\ pc = "reject" /\ UNCHANGED <<active, previous, phase, failure>>
        /\ previous = active
        /\ candidate \in Workers \ {active} /\ ~Wakes(active) /\ candidate' = Nobody
    BY <1>0, <1>7, Decides DEF Rejected, Roles, Awaits, Trying, Asleep, Reload
  <2>2. \A w \in Workers : /\ proc'[w] = proc[w] \/ (proc[w] = "up" /\ proc'[w] # "unborn")
                           /\ proc'[w] = "up" => w # candidate /\ proc[w] = "up"
    BY <1>0, <1>7, <2>1 DEF Rejected, RejectedFirst, Stopped, GivenUp, Stuck, Typing
  <2>3. \A w \in Workers : proc'[w] = "up" => w = active
    BY <1>0, <2>1, <2>2 DEF Known, Trying
  <2>4. CASE Finish /\ UNCHANGED <<reply, cmds>>
    BY <1>0, <2>1, <2>2, <2>3, <2>4, OverKeeps, FinishIs
  <2>5. CASE Send(previous, "resume") /\ pc' = "resume"
    <3>1. /\ cmds' \in [Workers -> Seq(Command)]
          /\ \A v \in Workers : proc[v] = "unborn" => cmds'[v] = cmds[v]
      BY <1>0, <2>1, <2>5, SendIs DEF Commands
    <3>2. Known' /\ Roles' /\ Unborn'
      BY <1>0, <2>1, <2>2, <2>3, <2>5, <3>1 DEF Known, Roles, Unborn, Trying, Awaits
    <3>3. Asleep'
      BY <2>5 DEF Asleep, Reload
    <3>4. (Awaited = previous)' /\ previous' = previous /\ (Expected = "resume")'
      BY <2>1, <2>5 DEF Awaited, Expected
    <3>5. Heard' /\ Obeyed'
      BY <1>0, <2>1, <2>5, <3>4, SendHeard DEF Commands
    <3> QED BY <3>2, <3>3, <3>5 DEF WInv
  <2> QED BY <1>7, <2>4, <2>5 DEF Rejected, Wait
<1>8. CASE Resumed
  <2>1. /\ NoneHeard /\ pc = "resume" /\ pc' = "idle"
        /\ UNCHANGED <<active, cmds, phase, proc>> /\ previous = active
    BY <1>0, <1>8, Decides, FinishIs DEF Resumed, Roles, Awaits
  <2>2. \A w \in Workers : proc[w] = "up" => w = active
    BY <1>0, <2>1 DEF Known, Trying
  <2>3. ~failure' => ~Wakes(active)
    <3>1. ~failure' => reply = "ok"
      BY <1>0, <1>8 DEF Resumed, ResumedFails, Typing
    <3>2. reply = "ok" => cmds[active] = <<>>
      BY <1>0, <2>1 DEF Obeyed, Awaited, Workers, Nobody
    <3> QED BY <3>1, <3>2 DEF Wakes
  <2> QED BY <1>0, <2>1, <2>2, <2>3, OverKeeps
<1>9. CASE CheckRecovery
  <2>1. /\ NoneHeard /\ pc = "idle" /\ pc' = "stopFailed"
        /\ UNCHANGED <<active, cmds, phase, proc>> /\ previous' = active
    BY <1>0, <1>9, Decides DEF CheckRecovery, Stop, Wait
  <2>2. Known' /\ Roles' /\ Unborn'
    BY <1>0, <2>1 DEF Known, Roles, Unborn, Trying
  <2>3. Asleep'
    BY <2>1 DEF Asleep, Reload
  <2>4. Heard' /\ Obeyed'
    BY <2>1, MoveHeard DEF Awaited
  <2> QED BY <2>2, <2>3, <2>4 DEF WInv
<1>10. CASE StoppedFailed
  <2>1. /\ NoneHeard /\ pc = "stopFailed" /\ UNCHANGED <<active, previous, cmds, failure>>
        /\ previous = active /\ failure
    BY <1>0, <1>10, Decides DEF StoppedFailed, Roles, Awaits, IInv, RInv, Stages, Recovery
  <2>2. CASE FinishRecovery /\ UNCHANGED phase /\ (GivenUp(previous) \/ UNCHANGED proc)
    <3>1. \A w \in Workers : proc'[w] = proc[w] \/ (proc[w] = "up" /\ proc'[w] # "unborn")
      BY <1>0, <2>1, <2>2 DEF GivenUp, Stuck, Typing
    <3>2. \A w \in Workers : proc'[w] = "up" => w = active
      BY <1>0, <2>1, <2>2, <3>1 DEF Known, Trying
    <3> QED BY <1>0, <2>1, <2>2, <3>1, <3>2, OverKeeps DEF FinishRecovery
  <2>3. CASE MustStop /\ Wait("reintroduce") /\ \E w \in Workers : Spawn(w)
    BY <1>0, <2>1, <2>3, SpawnKeeps DEF Wait, MustStop
  <2> QED BY <1>10, <2>2, <2>3 DEF StoppedFailed
<1>11. CASE Reintroduced
  <2>1. /\ NoneHeard /\ pc = "reintroduce"
        /\ UNCHANGED <<active, previous, candidate, failure>> /\ previous = active
        /\ candidate \in Workers \ {active} /\ proc[previous] # "up"
    BY <1>0, <1>11, Decides DEF Reintroduced, Roles, Awaits, Trying
  <2>2. CASE Stop(candidate) /\ Wait("rejectAgain") /\ UNCHANGED <<reply, cmds>>
    BY <1>0, <2>1, <2>2, RejectKeeps DEF Stop, Wait
  <2>3. CASE UNCHANGED worker /\ Wait("reactivate") /\ Send(candidate, "activate")
    <3>1. /\ cmds' \in [Workers -> Seq(Command)]
          /\ \A v \in Workers : proc[v] = "unborn" => cmds'[v] = cmds[v]
      BY <1>0, <2>1, <2>3, SendIs DEF Commands
    <3>2. Known' /\ Roles' /\ Unborn'
      BY <1>0, <2>1, <2>3, <3>1 DEF Wait, Known, Roles, Unborn, Trying, Awaits
    <3>3. Asleep'
      BY <2>3 DEF Wait, Asleep, Reload
    <3>4. (Awaited = candidate)' /\ candidate' = candidate /\ (Expected = "activate")'
      BY <2>1, <2>3 DEF Wait, Awaited, Expected
    <3>5. Heard' /\ Obeyed'
      BY <1>0, <2>1, <2>3, <3>4, SendHeard DEF Commands
    <3> QED BY <3>2, <3>3, <3>5 DEF WInv
  <2> QED BY <1>11, <2>2, <2>3 DEF Reintroduced
<1>12. CASE Reactivated
  <2>1. /\ NoneHeard /\ pc = "reactivate" /\ UNCHANGED <<previous, cmds, phase, proc>>
        /\ previous = active
        /\ candidate \in Workers \ {active} /\ proc[previous] # "up"
    BY <1>0, <1>12, Decides DEF Reactivated, Stop, Roles, Awaits, Trying
  <2>2. CASE pc' = "rejectAgain"
    BY <1>0, <1>12, <2>1, <2>2, RejectKeeps DEF Reactivated, FinishRecovery, Wait
  <2>3. CASE pc' # "rejectAgain"
    <3>1. reply = "ok" /\ active' = candidate /\ candidate' = Nobody /\ pc' = "idle"
      BY <1>12, <2>3 DEF Reactivated, FinishRecovery, Wait
    <3>2. cmds[candidate] = <<>>
      BY <1>0, <2>1, <3>1 DEF Obeyed, Awaited, Workers, Nobody
    <3>3. Known' /\ Roles' /\ Unborn'
      BY <1>0, <2>1, <3>1 DEF Known, Roles, Unborn, Trying
    <3>4. ~Wakes(active)'
      BY <2>1, <3>1, <3>2 DEF Wakes
    <3>5. Asleep'
      BY <3>1, <3>4 DEF Asleep
    <3>6. Heard' /\ Obeyed'
      BY <2>1, <3>1, MoveHeard DEF Awaited
    <3> QED BY <3>3, <3>5, <3>6 DEF WInv
  <2> QED BY <2>2, <2>3
<1>13. CASE RejectedAgain
  <2>1. /\ NoneHeard /\ pc = "rejectAgain" /\ pc' = "idle"
        /\ UNCHANGED <<active, cmds, phase, failure>> /\ failure
        /\ candidate \in Workers \ {active} /\ previous = active
    BY <1>0, <1>13, Decides DEF RejectedAgain, FinishRecovery, Roles, Awaits, Trying, IInv,
       RInv, Stages, Recovery
  <2>2. \A w \in Workers : /\ proc'[w] = proc[w] \/ (proc[w] = "up" /\ proc'[w] # "unborn")
                           /\ proc'[w] = "up" => w # candidate /\ proc[w] = "up"
    BY <1>0, <1>13, <2>1 DEF RejectedAgain, Stopped, GivenUp, Stuck, Typing
  <2>3. \A w \in Workers : proc'[w] = "up" => w = active
    BY <1>0, <2>1, <2>2 DEF Known, Trying
  <2> QED BY <1>0, <2>1, <2>2, <2>3, OverKeeps
<1> QED
  BY <1>1, <1>2, <1>3, <1>4, <1>5, <1>6, <1>7, <1>8, <1>9, <1>10, <1>11, <1>12, <1>13 DEF Check

\* No step breaks the workers' part.
LEMMA NextWInv ==
    ASSUME IInv, [Next]_vars
    PROVE  WInv'
<1>0. WInv
  BY DEF IInv
<1>1. ASSUME NEW r \in Reqs, ClientSends(r) \/ ClientCancels(r) PROVE WInv'
  BY <1>0, <1>1, QuietKeeps DEF ClientSends, ClientCancels, own, check, worker
<1>2. CASE Disconnect \/ Install
  BY <1>0, <1>2, QuietKeeps DEF Disconnect, Install, own, check, worker
<1>3. ASSUME NEW w \in Workers, NEW r \in Reqs, Begin(w, r) \/ End(w, r) PROVE WInv'
  BY <1>0, <1>3, QuietKeeps DEF Begin, End, own, check, worker
<1>4. ASSUME NEW w \in Workers, NEW r \in Reqs, Message(w, r) PROVE WInv'
  BY <1>4, BeginsKeeps
<1>5. ASSUME NEW w \in Workers, Control(w) PROVE WInv'
  BY <1>5, ControlKeeps
<1>6. ASSUME NEW w \in Workers, Dies(w) PROVE WInv'
  BY <1>6, DiesKeeps
<1>7. ASSUME NEW w \in Workers, Fail(w) PROVE WInv'
  BY <1>7, GiveUpKeeps DEF Fail
<1>8. CASE Boot
  BY <1>8, BegunKeeps
<1>9. CASE Timeout
  <2>1. Awaited \in Workers
    BY <1>9 DEF Timeout, Awaited, IInv, Typing
  <2> QED BY <1>9, <2>1, GiveUpKeeps DEF Timeout, own, worker
<1>10. CASE Check
  BY <1>10, CheckKeeps
<1>11. CASE UNCHANGED vars
  BY <1>0, <1>11, QuietKeeps DEF vars, own, check, worker
<1> QED
  BY <1>1, <1>2, <1>3, <1>4, <1>5, <1>6, <1>7, <1>8, <1>9, <1>10, <1>11 DEF Next, Reqs

-----------------------------------------------------------------------------
(* Handovers. *)

Calm    == {"inspect", "introduce", "quiesce", "restore", "activate"}
Handing == pc \in {"restore", "activate"} \/ (pc = "quiesce" /\ reply = "ok")

\* From its check on a reload owes nothing of the active worker, and once that has
\* quiesced it does nothing, has nothing to do and gets nothing.
Drained ==
    /\ pc \in Calm => pending[active] = {}
    /\ Handing => phase[active] = "quiesced" /\ cmds[active] = <<>> /\ Running(active) = {}

\* What leaves the active worker as it is.
LEMMA AsItIs ==
    ASSUME Drained, UNCHANGED <<pc, active, phase, at>>, reply' \in {reply, "none", "no"},
           cmds[active] = <<>> => cmds'[active] = <<>>,
           pc \in Calm => pending'[active] \subseteq pending[active]
    PROVE  Drained'
BY DEF Drained, Calm, Handing, Running

\* Work begins in no worker that has quiesced.
LEMMA WorkDrained ==
    ASSUME IInv, Drained, NEW w \in Workers, NEW r \in Reqs, Begin(w, r) \/ End(w, r)
    PROVE  Drained'
<1>1. /\ UNCHANGED <<pc, active, phase, reply, cmds, pending>>
      /\ at[<<w, r>>] \in {"inbox", "running"}
      /\ \E p \in Places : /\ at' = [at EXCEPT ![<<w, r>>] = p]
                           /\ p = "running" => phase[w] = "active"
  BY DEF Begin, End, own, check, worker, Places
<1>2. PICK p \in Places : /\ at' = [at EXCEPT ![<<w, r>>] = p]
                          /\ p = "running" => phase[w] = "active"
  BY <1>1
<1>3. \A v \in Workers, q \in Reqs :
          at'[<<v, q>>] = IF <<v, q>> = <<w, r>> THEN p ELSE at[<<v, q>>]
  BY <1>2 DEF IInv, Typing
<1>4. active \in Workers
  BY DEF IInv, Typing
<1>5. Handing' => Running(active)' = {}
  BY <1>1, <1>2, <1>3, <1>4 DEF Drained, Handing, Running
<1> QED BY <1>1, <1>5 DEF Drained, Calm, Handing

\* What the supervisor hears of a quiesce is that nothing runs.
LEMMA ControlDrained ==
    ASSUME IInv, WInv', Drained, NEW w \in Workers, Control(w)
    PROVE  Drained'
<1>1. Typing /\ WInv /\ UNCHANGED <<pc, active, previous, pending, at>> /\ cmds[w] # <<>>
  BY DEF IInv, Control, own, calls
<1>2. \A v \in Workers \ {w} : phase'[v] = phase[v] /\ cmds'[v] = cmds[v]
  BY <1>1 DEF Control, Replies, Typing
<1>3. CASE Handing
  <2>1. w # active
    BY <1>1, <1>3 DEF Drained
  <2>2. phase'[active] = phase[active] /\ cmds'[active] = cmds[active]
    BY <1>1, <1>2, <2>1 DEF Typing
  <2> QED BY <1>1, <1>3, <2>2 DEF Drained, Running
<1>4. CASE ~Handing /\ Handing'
  <2>1. pc = "quiesce" /\ reply # "ok" /\ reply' = "ok" /\ previous = active
    BY <1>1, <1>4 DEF Handing, WInv, Roles, Awaits
  <2>2. Head(cmds[w]).heard /\ Replies(w, "ok")
    BY <2>1 DEF Control, Replies
  <2>3. cmds[w] \in Seq(Command) /\ Head(cmds[w]) = cmds[w][1] /\ 1 \in DOMAIN cmds[w]
    BY <1>1 DEF Typing
  <2>4. w = Awaited /\ cmds[w][1].do = Expected
    BY <1>1, <2>2, <2>3 DEF WInv, Heard
  <2>5. w = active /\ Head(cmds[w]).do = "quiesce"
    BY <2>1, <2>3, <2>4 DEF Awaited, Expected
  <2>6. Running(active) = {}
    BY <2>1, <2>5 DEF Control, Replies
  <2>7. cmds'[active] = <<>> /\ phase'[active] = "quiesced"
    BY <1>1, <2>1, <2>4, <2>5 DEF WInv, Obeyed, Awaited, Workers, Nobody
  <2> QED BY <1>1, <2>6, <2>7 DEF Drained, Running
<1>5. CASE ~Handing /\ ~Handing'
  BY <1>1, <1>5 DEF Drained
<1> QED BY <1>3, <1>4, <1>5

\* No step of a reload gives the quiesced worker anything to do.
LEMMA CheckDrained ==
    ASSUME IInv, Drained, Check
    PROVE  Drained'
<1>0. Typing /\ WInv /\ active \in Workers
  BY DEF IInv, Typing
<1>1. CASE CheckReload
  BY <1>1 DEF CheckReload, NothingOwed, Wait, own, Drained, Handing
<1>2. CASE Inspected
  BY <1>2 DEF Inspected, Finish, Wait, own, Drained, Calm, Handing
<1>3. CASE Introduced
  <2>1. CASE pc' = "quiesce" /\ Wait("quiesce") /\ Send(previous, "quiesce")
    BY <1>3, <2>1 DEF Introduced, Wait, Send, own, Drained, Calm, Handing
  <2>2. CASE pc' = "reject"
    BY <2>2 DEF Drained, Calm, Handing
  <2> QED BY <1>3, <2>1, <2>2 DEF Introduced, Wait
<1>4. CASE HandOver
  <2>1. UNCHANGED <<active, previous, candidate>> /\ pc \in {"quiesce", "restore"}
        /\ candidate \in Workers /\ candidate # active
    BY <1>0, <1>4 DEF HandOver, own, WInv, Roles, Trying
  <2>2. CASE reply = "ok"
    <3>1. PICK do \in {"restore", "activate"} :
              UNCHANGED <<phase, at, pending>> /\ pc' = do /\ Send(candidate, do)
      BY <1>4, <2>2 DEF HandOver, Wait, worker
    <3>2. cmds'[active] = cmds[active]
      BY <1>0, <2>1, <3>1, SendIs DEF Commands
    <3> QED BY <2>1, <2>2, <3>1, <3>2 DEF Drained, Calm, Handing, Running
  <2>3. CASE reply # "ok"
    BY <1>4, <2>3 DEF HandOver, Wait, Drained, Calm, Handing
  <2> QED BY <2>2, <2>3
<1>5. CASE Switch \/ Retired \/ Rejected \/ Resumed \/ CheckRecovery \/ StoppedFailed
           \/ Reintroduced \/ Reactivated \/ RejectedAgain
  <2>1. pc' \notin Calm
    BY <1>5 DEF Switch, Retired, Rejected, Resumed, CheckRecovery, StoppedFailed, Reintroduced,
       Reactivated, RejectedAgain, Finish, FinishRecovery, Wait, Calm
  <2> QED BY <2>1 DEF Drained, Calm, Handing
<1> QED BY <1>1, <1>2, <1>3, <1>4, <1>5 DEF Check

\* Every step keeps it.
LEMMA NextDrained ==
    ASSUME IInv, WInv', Drained, [Next]_vars
    PROVE  Drained'
<1>0. Typing /\ active \in Workers
  BY DEF IInv, Typing
<1>1. ASSUME NEW r \in Reqs, ClientSends(r) PROVE Drained'
  <2>1. UNCHANGED <<pc, active, phase, reply, cmds, failure, at>> \/ pc \notin Calm
    BY <1>1 DEF ClientSends, Pass, Switching, Calm, own, check, worker
  <2>2. pc' = pc /\ (pc \in Calm => UNCHANGED <<active, phase, reply, cmds, at, pending>>)
    BY <1>1 DEF ClientSends, Pass, Switching, Calm, own, check, worker
  <2> QED BY <2>2 DEF Drained, Calm, Handing, Running
<1>2. ASSUME NEW r \in Calls, ClientCancels(r) PROVE Drained'
  BY <1>2, AsItIs DEF ClientCancels, own, check, worker
<1>3. CASE Disconnect \/ Install
  BY <1>3, AsItIs DEF Disconnect, Install, own, check, worker, calls
<1>4. ASSUME NEW w \in Workers, NEW r \in Reqs, Begin(w, r) \/ End(w, r) PROVE Drained'
  BY <1>4, WorkDrained
<1>5. ASSUME NEW w \in Workers, NEW r \in Reqs, Message(w, r) PROVE Drained'
  <2>1. CASE r = Hello
    BY <1>5, <2>1 DEF Message, Drained, Calm, Handing
  <2>2. CASE r # Hello
    BY <1>0, <1>5, <2>2, AsItIs DEF Message, StillOwed, own, worker, Typing
  <2> QED BY <2>1, <2>2
<1>6. ASSUME NEW w \in Workers, Control(w) PROVE Drained'
  BY <1>6, ControlDrained
<1>7. ASSUME NEW w \in Workers, Dies(w) PROVE Drained'
  BY <1>7, AsItIs DEF Dies, own, check, calls
<1>8. ASSUME NEW w \in Workers, Fail(w) PROVE Drained'
  <2>1. pending'[active] \subseteq pending[active] /\ reply' \in {reply, "no"}
    BY <1>0, <1>8 DEF Fail, Typing
  <2>2. cmds[active] = <<>> => cmds'[active] = <<>>
    BY <1>0, <1>8 DEF Fail, Typing
  <2> QED BY <1>8, <2>1, <2>2, AsItIs DEF Fail
<1>9. CASE Boot
  BY <1>9 DEF Boot, Drained, Calm, Handing
<1>10. CASE Timeout
  <2>1. cmds[active] = <<>> => cmds'[active] = <<>>
    BY <1>0, <1>10 DEF Timeout, Typing
  <2> QED BY <1>10, <2>1, AsItIs DEF Timeout, own, worker, calls
<1>11. CASE Check
  BY <1>11, CheckDrained
<1>12. CASE UNCHANGED vars
  BY <1>12, AsItIs DEF vars, own, check, worker, calls
<1> QED
  BY <1>1, <1>2, <1>3, <1>4, <1>5, <1>6, <1>7, <1>8, <1>9, <1>10, <1>11, <1>12 DEF Next

\* Which steps change the active worker, and when.
LEMMA HandsIdle ==
    ASSUME IInv, Drained, [Next]_vars, active' # active, ~failure
    PROVE  Running(active) = {} /\ pending[active] = {}
<1>1. Switch \/ Reactivated
  BY DEF Next, Check, vars, own, check, worker, calls, ClientSends, ClientCancels, Disconnect,
     Install, Begin, End, Message, Control, Dies, Fail, Boot, Timeout, CheckReload, Inspected,
     Introduced, HandOver, Retired, Rejected, Resumed, CheckRecovery, StoppedFailed,
     Reintroduced, RejectedAgain
<1>2. ~Reactivated
  BY DEF Reactivated, IInv, RInv, Stages, Recovery
<1>3. pc = "activate"
  BY <1>1, <1>2 DEF Switch
<1> QED BY <1>3 DEF Drained, Calm, Handing

-----------------------------------------------------------------------------

\* The inductive invariant holds in every reachable state.
THEOREM Invariance == SupervisorAssumption /\ Spec => []IInv
<1> SUFFICES ASSUME SupervisorAssumption PROVE Spec => []IInv
  OBVIOUS
<1>1. Init => IInv
  BY InitIInv
<1>2. IInv /\ [Next]_vars => IInv'
  BY NextTyping, NextRInv, NextWInv DEF IInv
<1> QED BY <1>1, <1>2, PTL DEF Spec

\* What the invariant says of one worker at a time.
LEMMA OneAtATime ==
    ASSUME IInv
    PROVE  NeverReplayed /\ OneActive
<1>1. NeverReplayed
  <2> SUFFICES ASSUME NEW r \in Reqs
               PROVE  Cardinality({w \in Workers : at[<<w, r>>] # "none"}) <= 1
    BY DEF NeverReplayed
  <2>1. \A x, y \in {w \in Workers : at[<<w, r>>] # "none"} : x = y
    BY DEF IInv, RInv, Requests, OneWorker
  <2> QED BY <2>1, AtMostOne
<1>2. OneActive
  <2>1. ASSUME NEW w \in Workers, NEW v \in Workers, proc[w] = "up", proc[v] = "up",
               phase[w] = "active", phase[v] = "active", w # v
        PROVE  FALSE
    <3>1. Awake(w) /\ Awake(v)
      BY <2>1 DEF Awake
    <3> QED BY <2>1, <3>1 DEF IInv, Typing, WInv, Known, Roles, Asleep, Trying, Awaits
  <2>2. \A x, y \in {w \in Workers : proc[w] = "up" /\ phase[w] = "active"} : x = y
    BY <2>1
  <2> QED BY <2>2, AtMostOne DEF OneActive
<1> QED BY <1>1, <1>2

\* A request gets one answer, for any number of requests, reloads and recoveries:
\* its worker may die, and its answer, its cancellation and the flush of the queue
\* may cross (handlers.message, handlers.exit, dispatch()).
THEOREM OneAnswer == SupervisorAssumption /\ Spec => []AnsweredOnce
BY Invariance, PTL DEF IInv, RInv, Requests

\* What was answered "not sent", or withdrawn before it was dispatched, is with no
\* worker and never will be (dispatch()).
THEOREM NotSentForGood == SupervisorAssumption /\ Spec => []NotSentIsTrue
BY Invariance, PTL DEF IInv, RInv, Requests

\* No request reaches a second worker: neither the flush of the queue nor a recovery
\* replays one (dispatch(), check()).
THEOREM NothingReplayed == SupervisorAssumption /\ Spec => []NeverReplayed
BY Invariance, OneAtATime, PTL

\* Two live workers never accept calls at the same time, whatever timed out,
\* failed or came late in a reload or a recovery (check(), the control of a worker).
THEOREM OneAtWork == SupervisorAssumption /\ Spec => []OneActive
BY Invariance, OneAtATime, PTL

\* A reload takes no worker away from a call that still runs, or from an answer that
\* is still to come (check(), the quiesce of the worker).
THEOREM HandsOver == SupervisorAssumption /\ Spec => HandsOverIdle
<1> SUFFICES ASSUME SupervisorAssumption PROVE Spec => HandsOverIdle
  OBVIOUS
<1>1. Init => Drained
  BY DEF Init, Drained, Calm, Handing
<1>2. IInv /\ IInv' /\ Drained /\ [Next]_vars => Drained'
  BY NextDrained DEF IInv
<1>3. IInv /\ Drained /\ [Next]_vars =>
          [active' # active /\ ~failure => Running(active) = {} /\ pending[active] = {}]_vars
  BY HandsIdle
<1> QED BY <1>1, <1>2, <1>3, Invariance, PTL DEF Spec, HandsOverIdle

\* Once the client is gone, no worker runs that was not told to stop, also if it is
\* forked by a reload or a recovery that was under way (shutdown(), spawn()).
THEOREM NothingLeftRunning == Spec => []NoOrphans
<1> DEFINE Inv == /\ proc \in [Workers -> {"unborn", "up", "stuck", "down"}]
                  /\ retiring \in [Workers -> BOOLEAN]
                  /\ NoOrphans
<1>1. Init => Inv
  BY DEF Init, NoOrphans
<1>2. Inv /\ [Next]_vars => Inv'
  <2> SUFFICES ASSUME Inv, [Next]_vars PROVE Inv'
    OBVIOUS
  <2> USE DEF NoOrphans
  <2>1. CASE Disconnect
    BY <2>1 DEF Disconnect
  <2>2. CASE UNCHANGED <<stopping, proc, retiring>>
    BY <2>2
  <2>3. CASE /\ UNCHANGED <<stopping, retiring>>
             /\ \E w : \/ proc' = [proc EXCEPT ![w] = "stuck"]
                       \/ proc' = [proc EXCEPT ![w] = "down"]
    BY <2>3
  <2>4. CASE UNCHANGED <<stopping, proc>> /\ \E w : retiring' = [retiring EXCEPT ![w] = TRUE]
    BY <2>4
  <2>5. CASE ~stopping /\ UNCHANGED <<stopping, retiring>>
             /\ \E w : proc' = [proc EXCEPT ![w] = "up"]
    BY <2>5
  <2>6. CASE Inspected \/ StoppedFailed
    BY <2>2, <2>3, <2>5, <2>6
    DEF Inspected, StoppedFailed, Spawn, MayFork, GivenUp, Stuck, MustStop, own, worker
  <2>7. CASE Introduced \/ HandOver \/ Switch \/ CheckRecovery \/ Reintroduced \/ Reactivated
    BY <2>2, <2>4, <2>7
    DEF Introduced, HandOver, Switch, CheckRecovery, Reintroduced, Reactivated, Stop, own,
       worker
  <2>8. CASE Retired \/ Rejected \/ RejectedAgain
    BY <2>2, <2>3, <2>8
    DEF Retired, Rejected, RejectedAgain, RejectedFirst, Stopped, GivenUp, Stuck, own
  <2>9. ASSUME NEW w \in Workers, Dies(w) PROVE Inv'
    BY <2>3, <2>9 DEF Dies, own
  <2>10. CASE \/ CheckReload \/ Resumed \/ Boot \/ Timeout \/ Install \/ UNCHANGED vars
              \/ \E r \in Reqs : ClientSends(r)
              \/ \E r \in Calls : ClientCancels(r)
              \/ \E w \in Workers, r \in Reqs : Begin(w, r) \/ End(w, r) \/ Message(w, r)
              \/ \E w \in Workers : Control(w) \/ Fail(w)
    BY <2>2, <2>10
    DEF CheckReload, Resumed, Boot, Timeout, Install, vars, ClientSends, ClientCancels, Begin,
        End, Message, Control, Fail, own, worker
  <2> QED BY <2>1, <2>6, <2>7, <2>8, <2>9, <2>10 DEF Next, Check
<1> QED BY <1>1, <1>2, PTL DEF Spec

\* All that the supervisor promises of its workers and of the requests it passes on.
THEOREM Supervision == SupervisorAssumption /\ Spec => []Supervised
<1>1. IInv /\ NoOrphans => Supervised
  BY OneAtATime DEF IInv, RInv, Requests, Supervised
<1> QED BY <1>1, Invariance, NothingLeftRunning, PTL

=============================================================================
