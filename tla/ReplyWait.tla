------------------------------ MODULE ReplyWait ------------------------------
(***************************************************************************)
(* Which answer a caller gets.  A prompt is sent into a Codex task that    *)
(* other people and bridges use too, and its reply is then looked for in   *)
(* the rollout file Codex Desktop appends to: send() and wait() of         *)
(* src/src/thread-delivery.mjs, the readers of                             *)
(* src/src/codex-native-response.mjs and the receipts that let             *)
(* wait_codex_reply go on with an earlier send.                            *)
(*                                                                         *)
(* Every delivery belongs to a bridge process of its own.  The rollout is  *)
(* one segment; records of no consequence to the readers are left out, and *)
(* so are the checks of account, workspace and file identity, which only   *)
(* withhold.  Desktop knows its turns before the file shows them.          *)
(***************************************************************************)
EXTENDS Naturals, Sequences, FiniteSets

CONSTANTS
    Deliveries,
    Created,    \* the deliveries that create the task instead of sending to it
    Twins,      \* deliveries whose executor and prompt are the same
    Blind,      \* deliveries whose watermark cannot be taken
    Waited,     \* deliveries whose caller waits for the reply
    None,
    Grace,      \* polls before an unmatched idle task is given up
    MaxTurns, MaxLog, MaxUsers  \* bounds on turns, records and human inputs

WaitAssumption ==
    /\ {Created, Twins, Blind, Waited} \subseteq SUBSET Deliveries
    /\ Cardinality(Created) <= 1 /\ Created \cap Twins = {}
    /\ Grace \in Nat \ {0} /\ {MaxTurns, MaxLog, MaxUsers} \subseteq Nat /\ None \notin Nat

VARIABLES
    log, flushed,   \* the rollout as Desktop holds it, and how much is in the file
    turn, running,  \* the latest turn, and whether it is running
    left,           \* turns superseded before their completion was recorded
    flight,         \* prompts on their way to the task
    landed,         \* where in the log each prompt arrived; 0: nowhere
    bind,           \* each delivery's receipt: watermark and previous turn
    pc, at,         \* where each call is, and what the last answer of Desktop said
    first, got, unmatched, deferred,    \* wait()'s locals
    out             \* what the caller was last told

desktop == <<log, flushed, turn, running, left, flight, landed>>
calls   == <<bind, pc, at, first, got, unmatched, deferred, out>>
vars    == <<desktop, calls>>

Rec(k, t, d) == [kind |-> k, turn |-> t, of |-> d]
Is(k, t, s)  == {i \in DOMAIN s : s[i].kind = k /\ s[i].turn = t}
Same(d, e)   == d = e \/ {d, e} \subseteq Twins
Out(o, t, w) == [is |-> o, turn |-> t, scope |-> w]
NoPoll       == [turn |-> 0, idle |-> FALSE, asks |-> FALSE]

-----------------------------------------------------------------------------
(* Codex Desktop and the people in front of it. *)

Write(r) == Len(log) + Len(r) <= MaxLog /\ log' = log \o r

Begin(r) ==
    /\ turn < MaxTurns
    /\ turn' = turn + 1 /\ running' = TRUE
    /\ left' = IF running THEN left \cup {turn} ELSE left
    /\ Write(<<Rec("start", turn + 1, None), r>>)

Users == Cardinality({i \in DOMAIN log : log[i].kind = "user"})

\* The task is there for people and other bridges once its creation was dispatched.
Exists == \A c \in Created : landed[c] # 0

Human ==
    /\ Users < MaxUsers /\ Exists
    /\ \/ Begin(Rec("user", turn + 1, None))
       \/ running /\ Write(<<Rec("user", turn, None)>>) /\ UNCHANGED <<turn, running, left>>
    /\ UNCHANGED <<flushed, flight, landed>>

Land(d) ==
    /\ d \in flight
    /\ IF running
       THEN Write(<<Rec("dispatch", turn, d)>>) /\ UNCHANGED <<turn, running, left>>
       ELSE Begin(Rec("dispatch", turn + 1, d))
    /\ landed' = [landed EXCEPT ![d] = Len(log')]
    /\ flight' = flight \ {d} /\ UNCHANGED flushed

Answer ==
    /\ running /\ Is("final", turn, log) = {}
    /\ Write(<<Rec("final", turn, None)>>)
    /\ UNCHANGED <<flushed, turn, running, left, flight, landed>>

Finish ==
    /\ \/ /\ running /\ running' = FALSE /\ left' = left
          /\ \E k \in {"done", "fail"} : Write(<<Rec(k, turn, None)>>)
       \/ \E t \in left :
             left' = left \ {t} /\ Write(<<Rec("done", t, None)>>) /\ UNCHANGED running
    /\ UNCHANGED <<flushed, turn, flight, landed>>

Flush ==
    /\ flushed < Len(log) /\ flushed' = Len(log)
    /\ UNCHANGED <<log, turn, running, left, flight, landed>>

Desktop == Human \/ (\E d \in Deliveries : Land(d)) \/ Answer \/ Finish \/ Flush

-----------------------------------------------------------------------------
(* Reading the rollout.  s is what the file holds.  Operators whose names  *)
(* end in Mutant are wrong versions of the operator that follows them, for *)
(* the model checker to tell apart.                                        *)

File == SubSeq(log, 1, flushed)

\* Another turn began, or a person typed into the active turn, after the dispatch.
SupersededMutant(t, hit, end, existing, s) == FALSE
EverMutant(t, hit, end, existing, s) ==
    \E i \in hit + 1..Len(s) : s[i].kind = "start" /\ s[i].turn # t
Superseded(t, hit, end, existing, s) ==
    \/ \E i \in hit + 1..end - 1 : s[i].kind = "start" /\ s[i].turn # t
    \/ existing /\ \E i \in Is("user", t, s) : i > hit

\* The dispatches that must be the only one of their turn: creations for a creation,
\* sends for a send, and of these in a turn that ran already the ones that look the same.
RivalsMutant(d, t, existing, s) == {i \in Is("dispatch", t, s) : Same(s[i].of, d)}
Rivals(d, t, existing, s) ==
    {i \in Is("dispatch", t, s) : /\ s[i].of \in Created <=> d \in Created
                                  /\ existing => Same(s[i].of, d)}

\* inspectTurnRecords(): the reply of turn t to delivery d, sent at mark.
TurnReply(d, t, mark, existing, s) ==
    LET hits == Rivals(d, t, existing, s)
        hit  == CHOOSE i \in hits : TRUE
        begun == CHOOSE i \in Is("start", t, s) : TRUE
        end  == CHOOSE i \in Is("done", t, s) : TRUE
        finals == Is("final", t, s)
        scope == IF existing THEN "same_turn_final" ELSE "turn"
    IN  IF Is("fail", t, s) # {} \/ Cardinality(Is("start", t, s)) # 1
        THEN Out("unavailable", t, None)
        ELSE IF Is("done", t, s) = {} THEN Out("incomplete", t, None)
        ELSE IF \/ Cardinality(hits) # 1 \/ ~Same(s[hit].of, d) \/ hit <= mark
                \/ existing /\ begun > mark
                \/ end < hit
                \/ d \notin Created /\ Superseded(t, hit, end, existing, s)
                \/ \E i \in finals : i < hit \/ i > end
             THEN Out("unavailable", t, None)
             ELSE Out(IF finals = {} THEN "no_reply" ELSE "reply", t, scope)

\* readCodexNativeTurnResponse()
ReadTurn(d, t, s) ==
    LET b == bind[d]
        hits == {i \in b.mark + 1..Len(s) : s[i].kind = "dispatch" /\ Same(s[i].of, d)}
    IN  IF \/ t # b.prev /\ \E i \in 1..b.mark : s[i].turn = t
           \/ Cardinality(hits) # 1 \/ \E i \in hits : s[i].turn # t
        THEN Out("unavailable", t, None)
        ELSE TurnReply(d, t, b.mark, t = b.prev, s)

\* resolveCodexNativeDispatchResponse()
Resolve(d, s) ==
    LET hits == {i \in bind[d].mark + 1..Len(s) : s[i].kind = "dispatch" /\ Same(s[i].of, d)}
        hit  == CHOOSE i \in hits : TRUE
        r    == ReadTurn(d, s[hit].turn, s)
    IN  IF hits = {} THEN Out("pending", 0, None)
        ELSE IF Cardinality(hits) > 1 THEN Out("unavailable", 0, None)
        ELSE IF r.is = "incomplete" THEN Out("pending", r.turn, None) ELSE r

ReadReleasedMutant(d, t, s) ==
    IF Is("done", t, s) # {} THEN Out("reply", t, "turn") ELSE Out("unavailable", t, None)

\* readCodexNativeCreationResponse(), and the reader of a send without a watermark.
ReadReleased(d, t, s) ==
    LET r == TurnReply(d, t, 0, FALSE, s)
    IN  IF d \notin Created \/ Is("start", t, s) = {} \/ r.is = "incomplete"
        THEN Out("unavailable", t, None) ELSE r

Matched(d) == bind[d].mark # None

-----------------------------------------------------------------------------
(* The calls. *)

Go(d, l) == pc' = [pc EXCEPT ![d] = l]
NoTurn == [turn |-> 0, polls |-> 0]
Fresh(f, d, v) == f' = [f EXCEPT ![d] = v]
Clear(d) == Fresh(at, d, NoPoll) /\ Fresh(first, d, 0) /\ Fresh(got, d, Out("none", 0, None))

End(d, o) ==
    Go(d, "end") /\ Fresh(out, d, o) /\ Fresh(unmatched, d, NoTurn) /\ Fresh(deferred, d, 0)

\* A caller sends the same prompt again only once it has its reply.
Inspect(d) ==
    /\ pc[d] = "new" /\ (d \in Created \/ Exists)
    /\ \A e \in Deliveries \ {d} : Same(d, e) => pc[e] = "new" \/ out[e].is = "reply"
    /\ at' = [at EXCEPT ![d].turn = turn] /\ Go(d, "inspected")
    /\ UNCHANGED <<desktop, bind, first, got, unmatched, deferred, out>>

\* captureCodexRolloutWatermark(): how long the file is before anything is sent.
WatermarkMutant == 0
Watermark == flushed

Prepare(d) ==
    /\ pc[d] = "inspected"
    /\ bind' = [bind EXCEPT ![d] =
                  [mark |-> IF d \in Blind \cup Created THEN None ELSE Watermark,
                   prev |-> IF d \in Created THEN 0 ELSE at[d].turn]]
    /\ Go(d, "sending") /\ Fresh(at, d, NoPoll)
    /\ UNCHANGED <<desktop, first, got, unmatched, deferred, out>>

\* The request reaches Desktop, is acknowledged or not, or gets lost: the
\* receipt was written first, and observing needs nothing else.
Send(d) ==
    /\ pc[d] = "sending"
    /\ flight' \in {flight, flight \cup {d}}
    /\ Go(d, IF d \in Waited THEN "poll" ELSE "gone")
    /\ UNCHANGED <<log, flushed, turn, running, left, landed, bind, at, first, got, unmatched,
                   deferred, out>>

Poll(d) ==
    /\ pc[d] = "poll"
    /\ \E asks \in (IF running THEN BOOLEAN ELSE {FALSE}) :
          at' = [at EXCEPT ![d] = [turn |-> turn, idle |-> ~running, asks |-> asks]]
    /\ LET rel == IF deferred[d] # 0 THEN deferred[d] ELSE turn
           over == deferred[d] # 0 \/ ~running
       IN IF Matched(d) THEN Go(d, "first") /\ out' = out
          ELSE IF at'[d].asks
          THEN Go(d, "end") /\ Fresh(out, d, Out("attention", 0, None))
          ELSE Go(d, IF rel # 0 /\ over THEN "first" ELSE "poll") /\ out' = out
    /\ UNCHANGED <<desktop, bind, first, got, unmatched, deferred>>

Target(d) == IF deferred[d] # 0 THEN deferred[d] ELSE at[d].turn

\* observeNativeResponse(): the task is looked at before and after the reading.
First(d) ==
    /\ pc[d] = "first"
    /\ IF ~Matched(d) /\ turn # Target(d)
       THEN End(d, Out("withheld", 0, None)) /\ Clear(d)
       ELSE Go(d, "read") /\ Fresh(first, d, turn) /\ UNCHANGED <<at, got, out, unmatched, deferred>>
    /\ UNCHANGED <<desktop, bind>>

Read(d) ==
    /\ pc[d] = "read" /\ Go(d, "second")
    /\ \/ /\ flushed' = flushed
          /\ Fresh(got, d, IF Matched(d) THEN Resolve(d, File)
                            ELSE ReadReleased(d, Target(d), File))
       \/ \* the file grew during each of the attempts
          /\ flushed < Len(log) /\ flushed' = Len(log)
          /\ Fresh(got, d, Out("later", 0, None))
    /\ UNCHANGED <<log, turn, running, left, flight, landed, bind, at, first, unmatched,
                   deferred, out>>

\* Nothing to report yet: count a finished turn that is not ours, and poll again.
Idle(d) ==
    got[d].turn = 0 /\ at[d].idle /\ at[d].turn # 0 /\ at[d].turn # bind[d].prev

Pending(d) ==
    LET n == IF unmatched[d].turn = at[d].turn THEN unmatched[d].polls + 1 ELSE 1
    IN  IF ~Idle(d)
        THEN Go(d, "poll") /\ Fresh(unmatched, d, NoTurn)
        ELSE /\ unmatched' = [unmatched EXCEPT ![d] = [turn |-> at[d].turn, polls |-> n]]
             /\ Go(d, IF n >= Grace THEN "snapshot" ELSE "poll")

Later(d) ==
    /\ Go(d, "poll") /\ out' = out
    /\ Fresh(unmatched, d, NoTurn)
    /\ deferred' = IF Matched(d) THEN deferred ELSE [deferred EXCEPT ![d] = Target(d)]

Second(d) ==
    /\ pc[d] = "second"
    /\ IF turn # first[d] THEN End(d, Out("withheld", 0, None))
       ELSE IF got[d].is = "later" THEN Later(d)
       ELSE IF got[d].is # "pending" THEN End(d, got[d])
       ELSE IF at[d].asks THEN End(d, Out("attention", 0, None))
       ELSE Pending(d) /\ UNCHANGED <<deferred, out>>
    /\ Clear(d) /\ UNCHANGED <<desktop, bind>>

Snapshot(d) ==
    /\ pc[d] = "snapshot"
    /\ IF ~running /\ turn = unmatched[d].turn
       THEN End(d, Out("unmatched", 0, None))
       ELSE /\ Go(d, "poll") /\ UNCHANGED <<deferred, out>>
            /\ Fresh(unmatched, d, NoTurn)
    /\ UNCHANGED <<desktop, bind, at, first, got>>

\* The call's deadline; the receipt stays.
Timeout(d) ==
    /\ pc[d] \in {"poll", "first", "read", "second", "snapshot"}
    /\ End(d, Out("timeout", 0, None)) /\ Clear(d) /\ UNCHANGED <<desktop, bind>>

\* wait_codex_reply with the same delivery ID, by the caller or after a restart.
Again(d) ==
    /\ pc[d] = "end" /\ out[d].is \notin {"reply", "no_reply"} /\ Go(d, "poll")
    /\ UNCHANGED <<desktop, bind, at, first, got, unmatched, deferred, out>>

-----------------------------------------------------------------------------

Init ==
    /\ log = <<Rec("meta", 0, None)>> /\ flushed = 1 /\ turn = 0 /\ running = FALSE /\ left = {} /\ flight = {}
    /\ landed = [d \in Deliveries |-> 0]
    /\ bind = [d \in Deliveries |-> [mark |-> None, prev |-> 0]]
    /\ pc = [d \in Deliveries |-> "new"] /\ at = [d \in Deliveries |-> NoPoll]
    /\ first = [d \in Deliveries |-> 0] /\ deferred = first
    /\ got = [d \in Deliveries |-> Out("none", 0, None)] /\ out = got
    /\ unmatched = [d \in Deliveries |-> [turn |-> 0, polls |-> 0]]

Step(d) == Poll(d) \/ First(d) \/ Read(d) \/ Second(d) \/ Snapshot(d) \/ Again(d)

Call(d) == Inspect(d) \/ Prepare(d) \/ Send(d) \/ Step(d) \/ Timeout(d)

Next ==
    \/ Desktop /\ UNCHANGED calls
    \/ \E d \in Deliveries : Call(d)

Spec == Init /\ [][Next]_vars

\* Desktop writes out what it has.  A caller asks again after every answer that
\* is not a reply; a call lasts forty seconds and a poll does not, so not every
\* poll is cut off.
FairSpec ==
    /\ Spec /\ WF_vars(Flush /\ UNCHANGED calls)
    /\ \A d \in Deliveries :
          /\ WF_vars(Again(d)) /\ SF_vars(Poll(d)) /\ SF_vars(First(d)) /\ SF_vars(Read(d))
          /\ SF_vars(Second(d)) /\ SF_vars(Snapshot(d))

-----------------------------------------------------------------------------

TypeOK ==
    /\ flushed \in 0..Len(log) /\ turn \in 0..MaxTurns /\ left \subseteq 1..turn
    /\ flight \subseteq Deliveries /\ landed \in [Deliveries -> 0..Len(log)]
    /\ \A d \in Deliveries : bind[d].mark \in {None} \cup 0..flushed

Replied(d) == out[d].is \in {"reply", "no_reply"}

\* The reply a caller gets is the answer to its own prompt: the turn is the one
\* its prompt arrived in, everything in the answer was written after that, no
\* other turn began before the turn was over, and in a turn that was running
\* already nobody typed anything after the prompt.
OwnReply ==
    \A d \in Deliveries : Replied(d) =>
        LET t == out[d].turn
            ends == Is("done", t, log)
        IN  /\ landed[d] # 0 /\ log[landed[d]].turn = t
            /\ \A i \in Is("final", t, log) : i > landed[d]
            /\ \A i \in landed[d]..Len(log) :
                  (\E e \in ends : i < e) => (log[i].kind = "start" => log[i].turn = t)
            /\ out[d].scope = "same_turn_final" =>
                  \A i \in Is("user", t, log) : i < landed[d]

Dispatched(t, D) == {i \in Is("dispatch", t, log) : log[i].of \in D}

\* A reply to a send that is not marked as the final answer of a shared turn is the
\* answer to one delivery: nobody else's prompt was sent into that turn.
NotShared ==
    \A d \in Deliveries \ Created : Replied(d) /\ out[d].scope = "turn" =>
        Cardinality(Dispatched(out[d].turn, Deliveries \ Created)) = 1

\* The same of the reply to a creation, which does not hold: its reader counts creations
\* only, and a prompt may have been sent into the turn that the creation began.
CreationNotShared ==
    \A d \in Created : Replied(d) /\ out[d].scope = "turn" =>
        Cardinality(Dispatched(out[d].turn, Deliveries)) = 1

\* d's prompt began a turn of its own, which ended well and took in no other.
Clean(d) ==
    landed[d] # 0 /\ bind[d].mark # None /\ bind[d].mark < landed[d] - 1 /\
    LET t == log[landed[d]].turn
    IN  /\ log[landed[d] - 1].kind = "start"
        /\ Is("done", t, log) # {} /\ Is("fail", t, log) = {}
        /\ Is("dispatch", t, log) = {landed[d]}
        /\ \A i \in Is("final", t, log) : i > landed[d]
        /\ \A i \in landed[d]..Len(log) :
              log[i].kind = "start" => \A e \in Is("done", t, log) : i > e

\* A prompt that got a turn to itself and whose turn was completed is answered:
\* a caller that keeps asking with its delivery ID gets the reply, whatever else
\* happens in the task, however late the file is, and however the send ended.
Answered == \A d \in Deliveries : Clean(d) ~> Replied(d)

=============================================================================
