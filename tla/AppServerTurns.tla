---------------------------- MODULE AppServerTurns ----------------------------
(***************************************************************************)
(* Turns through a shared Codex app-server: class CodexAppServerClient of  *)
(* src/src/app-server-client.mjs and runTurn() of src/src/turn.mjs, for    *)
(* one thread.  Calls take turns under withThread(); each connects,        *)
(* attaches to the thread, reconciles what it knows of a running turn,     *)
(* starts its own and waits for it.  The connection may drop or be closed  *)
(* at any point, requests and calls time out, and answers and              *)
(* notifications share one ordered channel.                                *)
(*                                                                         *)
(* Of the server it is assumed that it takes a connection's requests in    *)
(* order, refuses turn/start on a thread that runs a turn or is not        *)
(* loaded, and shows a turn that runs in every snapshot; that none runs a  *)
(* snapshot may leave open.  With Crowded, other clients begin turns at    *)
(* any time; without, only while this client does not hold the thread.     *)
(***************************************************************************)
EXTENDS Naturals, Sequences, SequencesExt

CONSTANTS
    Calls,
    None,
    Attempts,   \* CONNECT_ATTEMPTS
    Crowded,    \* other clients do not wait
    MaxTurns, MaxDrops, MaxCloses, MaxAsks  \* bounds

TurnsAssumption ==
    /\ None \notin Calls /\ Attempts \in Nat \ {0} /\ Crowded \in BOOLEAN
    /\ {MaxTurns, MaxDrops, MaxCloses, MaxAsks} \subseteq Nat

VARIABLES
    \* the client
    phase,      \* of the connection: none, checking, handshake, init, open
    stale,      \* close() was called during the attempt: its epoch is over
    tries,      \* the attempt's number
    attached,   \* the thread is in attachedThreads
    active,     \* the thread's entry in activeTurns
    cur, pc,    \* the call that holds the thread, and where it is
    mine,       \* runTurn()'s turnId
    buffered,   \* messages before turnId is known
    items,      \* the turns whose answers runTurn() has collected
    res,        \* what each call returned
    \* the server
    inbox,      \* messages to the client
    asked,      \* requests the server has not answered
    running, blocked,   \* the running turn, and whether it waits for an answer
    owner, ended,       \* of each turn begun, and how it ended
    loaded, subscribed,
    wanted, drops, closes, asks

client == <<phase, stale, tries, attached, active, cur, pc, mine, buffered, items, res>>
server == <<running, blocked, owner, ended, loaded, subscribed, asks>>
vars   == <<client, server, inbox, asked, wanted, drops, closes>>

NoEntry == [turn |-> 0, over |-> {}, starting |-> FALSE, doubt |-> FALSE, none |-> TRUE]
Entry(t, s) == [turn |-> t, over |-> {}, starting |-> s, doubt |-> FALSE, none |-> FALSE]
Busy == ~active.none
Msg(k, t) == [kind |-> k, turn |-> t]

Finish(r) ==
    /\ res' = [res EXCEPT ![cur] = r] /\ cur' = None /\ pc' = "idle"
    /\ mine' = 0 /\ buffered' = <<>> /\ items' = {}

Stay == UNCHANGED <<cur, pc, mine, buffered, items, res>>

-----------------------------------------------------------------------------
(* The connection.  Operators whose names end in Mutant are wrong versions *)
(* of the operator that follows them, for the model checker to tell apart. *)

\* #disconnect(): pending requests fail, and a turn that ran is in doubt.
Doubt == IF Busy THEN [active EXCEPT !.doubt = TRUE] ELSE active

Waiting == {"resuming", "reading", "starting", "waiting"}

Disconnect(p) ==
    /\ phase' = p /\ attached' = FALSE /\ active' = Doubt
    /\ inbox' = <<>> /\ asked' = <<>> /\ subscribed' = FALSE
    /\ IF pc \in Waiting /\ phase = "open" THEN Finish([is |-> "disconnected", turn |-> mine, from |-> {}])
       ELSE Stay
    /\ blocked' = FALSE

Drop ==
    /\ phase \in {"handshake", "init", "open"} /\ drops < MaxDrops /\ drops' = drops + 1
    /\ Disconnect(IF phase = "open" THEN "none" ELSE "failed")
    /\ UNCHANGED <<stale, tries, running, owner, ended, loaded, asks, wanted, closes>>

\* close(), by stop_codex_app_server or a shutdown.
Close ==
    /\ closes < MaxCloses /\ closes' = closes + 1 /\ wanted' = FALSE
    /\ stale' = (phase \notin {"none", "open"})
    /\ Disconnect(IF phase \in {"handshake", "init"} THEN "failed" ELSE IF phase = "open" THEN "none" ELSE phase)
    /\ UNCHANGED <<tries, running, owner, ended, loaded, asks, drops>>

\* connect(): one attempt at a time, which later callers share.
Connect ==
    /\ pc = "connect" /\ phase = "none"
    /\ phase' = "checking" /\ stale' = FALSE /\ tries' = 1 /\ wanted' = TRUE
    /\ UNCHANGED <<attached, active, cur, pc, mine, buffered, items, res, server, inbox,
                   asked, drops, closes>>

\* #assertConnectionEpoch() after each wait of #openConnection().
StaleMutant == FALSE
Stale == stale

Advance ==
    /\ phase \in {"checking", "handshake", "init"} /\ ~Stale
    /\ phase' = CASE phase = "checking" -> "handshake" [] phase = "handshake" -> "init"
                  [] phase = "init" -> "open"
    /\ UNCHANGED <<stale, tries, attached, active, cur, pc, mine, buffered, items, res,
                   server, inbox, asked, wanted, drops, closes>>

\* A failed attempt is repeated once; a cancelled one is not.
Retry ==
    /\ phase = "failed" \/ (phase = "checking" /\ Stale)
    /\ IF Stale \/ tries >= Attempts
       THEN /\ phase' = "none" /\ stale' = FALSE /\ tries' = tries
            /\ IF pc = "connect" THEN Finish([is |-> "failed", turn |-> 0, from |-> {}]) ELSE Stay
       ELSE phase' = "checking" /\ tries' = tries + 1 /\ stale' = stale /\ Stay
    /\ UNCHANGED <<attached, active, server, inbox, asked, wanted, drops, closes>>

-----------------------------------------------------------------------------
(* A call. *)

Take(c) ==
    /\ cur = None /\ res[c].is = "none" /\ cur' = c /\ pc' = "connect"
    /\ UNCHANGED <<phase, stale, tries, attached, active, mine, buffered, items, res, server,
                   inbox, asked, wanted, drops, closes>>

Ask(k) == asked' = Append(asked, [call |-> cur, kind |-> k])
Quiet == UNCHANGED <<phase, stale, tries, server, inbox, wanted, drops, closes>>

\* ensureThreadAttached()
Attach ==
    /\ pc = "connect" /\ phase = "open"
    /\ IF ~attached THEN pc' = "resuming" /\ Ask("resume")
       ELSE IF Busy /\ active.doubt THEN pc' = "reading" /\ Ask("read")
       ELSE pc' = "attached" /\ asked' = asked
    /\ UNCHANGED <<attached, active, cur, mine, buffered, items, res>> /\ Quiet

\* turn/start is refused here while a turn runs or may be running.
RefusesMutant == Busy /\ active.turn # 0
Refuses == Busy

Start ==
    /\ pc = "attached"
    /\ IF phase # "open" \/ Refuses
       THEN /\ Finish([is |-> IF Refuses THEN "busy" ELSE "failed", turn |-> 0, from |-> {}])
            /\ UNCHANGED <<active, asked>>
       ELSE /\ active' = Entry(0, TRUE) /\ Ask("start") /\ pc' = "starting"
            /\ UNCHANGED <<cur, mine, buffered, items, res>>
    /\ UNCHANGED attached /\ Quiet

\* request() times out, or the call does: the turn may run on.
Timeout ==
    /\ pc \in {"resuming", "reading", "starting", "waiting"}
    /\ Finish([is |-> "timeout", turn |-> mine, from |-> {}])
    /\ UNCHANGED <<attached, active, asked>> /\ Quiet

\* releaseThread(), when nothing of the thread is under way.
Release ==
    /\ cur = None /\ attached /\ ~Busy /\ phase = "open"
    /\ attached' = FALSE /\ subscribed' = FALSE
    /\ UNCHANGED <<phase, stale, tries, active, cur, pc, mine, buffered, items, res, running,
                   blocked, owner, ended, loaded, asks, inbox, asked, wanted, drops, closes>>

-----------------------------------------------------------------------------
(* Messages from the server. *)

\* What runTurn() makes of notifications once its turn t is known: the answers
\* that come before the turn's first end.
CountsMutant(m, t) == m.kind = "item"
Counts(m, t) == m.kind = "item" /\ m.turn = t

Ends(ms, t) == {i \in DOMAIN ms : ms[i].kind \in {"completed", "failed"} /\ ms[i].turn = t}

Collected(ms, t, its) ==
    LET ends == Ends(ms, t)
        seen == {i \in DOMAIN ms : Counts(ms[i], t) /\ \A j \in ends : i < j}
    IN  [items |-> its \cup {ms[i].turn : i \in seen},
         end |-> IF ends = {} THEN "none"
                 ELSE IF \E i \in ends : ms[i].kind = "completed" /\ \A j \in ends : i <= j
                 THEN "completed" ELSE "failed"]

Settle(s, t) ==
    IF s.end = "none" THEN /\ mine' = t /\ items' = s.items /\ buffered' = <<>> /\ pc' = "waiting"
                           /\ UNCHANGED <<cur, res>>
    ELSE Finish([is |-> s.end, turn |-> t, from |-> IF s.end = "completed" THEN s.items ELSE {}])

Notes == {"started", "item", "completed", "failed", "closed"}

\* #dispatchNotification(): first the client's books, then runTurn().
EntryAfter(m) ==
    LET unknown == active.turn = 0
        over == m.kind \in {"completed", "failed"}
    IN  IF m.kind = "closed" THEN NoEntry
        ELSE IF ~Busy THEN active
        ELSE IF m.kind = "started" /\ unknown THEN [active EXCEPT !.turn = m.turn]
        ELSE IF over /\ (active.turn = m.turn \/ (unknown /\ ~active.starting /\ ~active.doubt))
        THEN NoEntry
        ELSE IF over /\ unknown THEN [active EXCEPT !.over = @ \cup {m.turn}]
        ELSE active

Note ==
    /\ inbox # <<>> /\ Head(inbox).kind \in Notes
    /\ LET m == Head(inbox)
       IN  /\ inbox' = Tail(inbox) /\ active' = EntryAfter(m)
           /\ attached' = (attached /\ m.kind # "closed")
           /\ IF pc \notin {"starting", "waiting"} THEN Stay
              ELSE IF m.kind = "closed"
              THEN Finish([is |-> "disconnected", turn |-> mine, from |-> {}])
              ELSE IF mine = 0 THEN buffered' = Append(buffered, m) /\ UNCHANGED <<cur, pc, mine, items, res>>
              ELSE Settle(Collected(<<m>>, mine, items), mine)
    /\ UNCHANGED <<phase, stale, tries, server, asked, wanted, drops, closes>>

\* #reconcileThreadTurn() on a snapshot.  One that leaves open whether a turn runs
\* puts the entry in doubt and is followed by thread/read, and then refused.
Reconcile(m) ==
    IF ~m.open
    THEN /\ active' = IF m.turn # 0 THEN Entry(m.turn, FALSE) ELSE NoEntry
         /\ pc' = "attached" /\ asked' = asked /\ UNCHANGED <<cur, mine, buffered, items, res>>
    ELSE IF m.kind = "resume"
    THEN /\ active' = Doubt
         /\ IF Busy THEN pc' = "reading" /\ Ask("read") ELSE pc' = "attached" /\ asked' = asked
         /\ UNCHANGED <<cur, mine, buffered, items, res>>
    ELSE Finish([is |-> "failed", turn |-> 0, from |-> {}]) /\ UNCHANGED <<active, asked>>

\* The answer to a request; one that comes after its timeout is dropped.
Late(m) ==
    \/ m.call # cur
    \/ pc # (CASE m.kind = "resume" -> "resuming" [] m.kind = "read" -> "reading" [] OTHER -> "starting")

EndedMutant(t) == FALSE
Ended(t) == t \in active.over

Reply ==
    /\ inbox # <<>> /\ Head(inbox).kind \in {"resume", "read", "start"}
    /\ inbox' = Tail(inbox)
    /\ LET m == Head(inbox)
       IN  IF Late(m) THEN Stay /\ UNCHANGED <<attached, active, asked>>
           ELSE IF m.kind = "start" /\ m.turn = 0
           THEN /\ Finish([is |-> "failed", turn |-> 0, from |-> {}])
                /\ active' = NoEntry /\ UNCHANGED <<attached, asked>>
           ELSE IF m.kind = "start"
           THEN /\ active' = IF ~Busy THEN active
                             ELSE IF Ended(m.turn) THEN NoEntry
                             ELSE [active EXCEPT !.turn = m.turn, !.starting = FALSE]
                /\ Settle(Collected(buffered, m.turn, items), m.turn)
                /\ UNCHANGED <<attached, asked>>
           ELSE Reconcile(m) /\ attached' = (attached \/ m.kind = "resume")
    /\ UNCHANGED <<phase, stale, tries, server, wanted, drops, closes>>

\* #handleServerRequest(): every request is answered, with a refusal if need be.
AnswersMutant == blocked
Answers == FALSE

Serve ==
    /\ inbox # <<>> /\ Head(inbox).kind = "ask" /\ inbox' = Tail(inbox)
    /\ blocked' = Answers
    /\ UNCHANGED <<client, asked, running, owner, ended, loaded, subscribed, asks, wanted, drops, closes>>

-----------------------------------------------------------------------------
(* The app-server and its other clients. *)

Turns == 1..Len(owner)
Post(m) == inbox' = IF subscribed THEN Append(inbox, m) ELSE inbox
Asleep == UNCHANGED <<client, wanted, drops, closes>>

Handle ==
    /\ asked # <<>> /\ asked' = Tail(asked)
    /\ LET r == Head(asked) IN
       IF r.kind # "start"
       THEN /\ \E open \in {FALSE, running = 0} :
                  inbox' = Append(inbox, [kind |-> r.kind, turn |-> running, call |-> r.call, open |-> open])
            /\ loaded' = (loaded \/ r.kind = "resume")
            /\ subscribed' = (subscribed \/ r.kind = "resume")
            /\ UNCHANGED <<running, owner, ended>>
       ELSE IF running # 0 \/ ~loaded \/ Len(owner) = MaxTurns
       THEN /\ inbox' = Append(inbox, [kind |-> "start", turn |-> 0, call |-> r.call])
            /\ UNCHANGED <<running, owner, ended, loaded, subscribed>>
       ELSE LET t == Len(owner) + 1
                answer == [kind |-> "start", turn |-> t, call |-> r.call]
                note == Msg("started", t)
            IN  /\ running' = t /\ owner' = Append(owner, r.call) /\ ended' = Append(ended, "no")
                /\ \/ inbox' = IF subscribed THEN inbox \o <<answer, note>> ELSE Append(inbox, answer)
                   \/ subscribed /\ inbox' = inbox \o <<note, answer>>
                   \/ inbox' = Append(inbox, answer)
                /\ UNCHANGED <<loaded, subscribed>>
    /\ Asleep /\ UNCHANGED <<blocked, asks>>

\* The answer to turn/start may be overtaken by the whole turn.
Overtake ==
    /\ \E i \in 1..Len(inbox) - 1 :
          /\ inbox[i].kind = "start" /\ inbox[i].turn # 0 /\ inbox[i + 1].kind \in Notes
          /\ inbox' = [inbox EXCEPT ![i] = inbox[i + 1], ![i + 1] = inbox[i]]
    /\ UNCHANGED <<client, server, asked, wanted, drops, closes>>

Foreign ==
    /\ running = 0 /\ Len(owner) < MaxTurns
    /\ Crowded \/ (~attached /\ ~subscribed /\ pc \in {"idle", "connect"})
    /\ running' = Len(owner) + 1 /\ owner' = Append(owner, None) /\ ended' = Append(ended, "no")
    /\ loaded' = TRUE /\ Post(Msg("started", Len(owner) + 1))
    /\ Asleep /\ UNCHANGED <<asked, blocked, subscribed, asks>>

Item ==
    /\ running # 0 /\ ~blocked /\ subscribed /\ running \notin items
    /\ Msg("item", running) \notin ToSet(inbox \o buffered) /\ Post(Msg("item", running))
    /\ Asleep /\ UNCHANGED <<server, asked>>

Request ==
    /\ running # 0 /\ ~blocked /\ subscribed /\ asks < MaxAsks /\ asks' = asks + 1
    /\ blocked' = TRUE /\ Post(Msg("ask", running))
    /\ Asleep /\ UNCHANGED <<asked, running, owner, ended, loaded, subscribed>>

Complete ==
    /\ running # 0 /\ ~blocked
    /\ \E s \in {"completed", "failed"} :
          /\ ended' = [ended EXCEPT ![running] = s] /\ Post(Msg(s, running))
    /\ running' = 0
    /\ Asleep /\ UNCHANGED <<asked, blocked, owner, loaded, subscribed, asks>>

Unload ==
    /\ loaded /\ running = 0 /\ loaded' = FALSE /\ subscribed' = FALSE /\ Post(Msg("closed", 0))
    /\ Asleep /\ UNCHANGED <<asked, running, blocked, owner, ended, asks>>

-----------------------------------------------------------------------------

Init ==
    /\ phase = "none" /\ stale = FALSE /\ tries = 0 /\ attached = FALSE /\ active = NoEntry
    /\ cur = None /\ pc = "idle" /\ mine = 0 /\ buffered = <<>> /\ items = {}
    /\ res = [c \in Calls |-> [is |-> "none", turn |-> 0, from |-> {}]]
    /\ inbox = <<>> /\ asked = <<>> /\ running = 0 /\ blocked = FALSE /\ owner = <<>> /\ ended = <<>>
    /\ loaded = FALSE /\ subscribed = FALSE /\ wanted = FALSE
    /\ drops = 0 /\ closes = 0 /\ asks = 0

Client == Connect \/ Advance \/ Retry \/ Attach \/ Start \/ Note \/ Reply \/ Serve

Serving == Complete \/ Handle

Next ==
    \/ Client \/ Serving \/ Drop \/ Close \/ Timeout \/ Release
    \/ \E c \in Calls : Take(c)
    \/ Overtake \/ Foreign \/ Item \/ Request \/ Unload

Spec == Init /\ [][Next]_vars

\* The client handles what it has, the server answers and ends its turns, the
\* timers of requests and calls fire.
FairSpec ==
    /\ Spec /\ WF_vars(Client) /\ WF_vars(Serving) /\ WF_vars(Timeout)
    /\ WF_vars(\E c \in Calls : Take(c))

-----------------------------------------------------------------------------

TypeOK ==
    /\ phase \in {"none", "checking", "handshake", "init", "open", "failed"}
    /\ cur \in Calls \cup {None} /\ (cur = None <=> pc = "idle")
    /\ running \in 0..Len(owner) /\ Len(ended) = Len(owner) /\ mine \in 0..Len(owner)
    /\ active.turn \in 0..Len(owner) /\ drops \in 0..MaxDrops /\ closes \in 0..MaxCloses

\* The client asks for a turn only when none of its own is running at the
\* server: not after a timeout, a lost acknowledgement, a reconnection or a
\* snapshot taken while a turn was ending.
OneTurn ==
    [][pc = "attached" /\ pc' = "starting" => running = 0 \/ owner[running] = None]_vars

\* A call that returns an answer returns the answer of the turn it started, which
\* the server completed, and nothing of another turn.
OwnAnswer ==
    \A c \in Calls : res[c].is = "completed" =>
        /\ owner[res[c].turn] = c /\ ended[res[c].turn] = "completed"
        /\ res[c].from \subseteq {res[c].turn}

\* After close() there is no connection until a call asks for one.
ClosedIsClosed == phase \in {"handshake", "init", "open"} => wanted

\* An attached thread does not stay busy with a turn that is over: when everything
\* sent has arrived, an entry is left only if its turn is in doubt, to be settled
\* by the next attach, or if its acknowledgement did not come in time.
Freed ==
    attached /\ inbox = <<>> /\ asked = <<>> /\ running = 0 /\ Busy =>
        active.doubt \/ active.starting

\* Every call returns, and no turn waits for ever for the client's answer.
Returns ==
    /\ \A c \in Calls : cur = c ~> res[c].is # "none"
    /\ blocked ~> ~blocked

=============================================================================
