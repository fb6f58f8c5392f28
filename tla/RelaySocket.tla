----------------------------- MODULE RelaySocket -----------------------------
(***************************************************************************)
(* The address of the native relay: how RelaySocketServer of               *)
(* src/src/native-relay-companion.mjs takes and leaves its socket path,    *)
(* with the files' checks of src/src/native-relay-files.mjs.               *)
(*                                                                         *)
(* Several companions share one path.  Each binds a socket under a private *)
(* name, links it to the path, and removes the private name.  A path that  *)
(* is taken is probed; the socket of a dead companion is removed if it is  *)
(* still the one that was found.  File calls that follow each other in one *)
(* process are one step, but for the last check of a removal and the       *)
(* removal itself, between which another process may act.                  *)
(***************************************************************************)
EXTENDS Naturals, FiniteSets

CONSTANTS
    Companions,
    MaxSockets,     \* enough to have a fresh one for every bind
    MaxStops,       \* bound on stopped companions
    MaxKills        \* bound on killed companions

SocketAssumption == {MaxSockets, MaxStops, MaxKills} \subseteq Nat

Sockets == 1..MaxSockets
NoFile  == 0

VARIABLES
    pc,         \* of each companion
    mine,       \* the socket it has bound
    bound,      \* boundIdentity
    found,      \* the socket it found at the path
    again,      \* its second attempt to link
    path,       \* the socket at the public path
    private,    \* the sockets that still have their private name
    live,       \* the sockets somebody listens on
    stops, kills

vars == <<pc, mine, bound, found, again, path, private, live, stops, kills>>

Starting == {"bound", "found", "dead", "checked", "linked"}

TypeOK ==
    /\ pc \in [Companions -> {"idle", "serving"} \cup Starting]
    /\ mine \in [Companions -> Sockets \cup {NoFile}]
    /\ bound \in [Companions -> Sockets \cup {NoFile}]
    /\ found \in [Companions -> Sockets \cup {NoFile}]
    /\ again \in [Companions -> BOOLEAN]
    /\ path \in Sockets \cup {NoFile} /\ private \subseteq Sockets /\ live \subseteq Sockets
    /\ stops \in 0..MaxStops /\ kills \in 0..MaxKills

Set(f, p, v) == [f EXCEPT ![p] = v]
Goto(p, to) == pc' = Set(pc, p, to)

\* Operators whose names end in Mutant are wrong versions of the operator
\* that follows them, kept to show that the properties notice.
OwnsMutant(p) == path # NoFile
Owns(p) == path # NoFile /\ path = bound[p]

LeftMutant(p) == path
Left(p) == IF Owns(p) THEN NoFile ELSE path

\* The end of a start that failed: the private name and the listener go, and
\* the path if it is its own.
Abandon(p) ==
    /\ Goto(p, "idle")
    /\ private' = private \ {mine[p]}
    /\ live' = live \ {mine[p]}
    /\ path' = IF pc[p] = "linked" THEN Left(p) ELSE path
    /\ bound' = Set(bound, p, NoFile)

-----------------------------------------------------------------------------
Used == live \cup private \cup {path} \cup UNION {{found[p], bound[p], mine[p]} : p \in Companions}

Bind(p) ==
    /\ pc[p] = "idle"
    /\ Goto(p, "bound")
    /\ LET new == CHOOSE s \in Sockets : s \notin Used
       IN  /\ mine' = Set(mine, p, new)
           /\ private' = private \cup {new} /\ live' = live \cup {new}
    /\ again' = Set(again, p, FALSE)
    /\ UNCHANGED <<bound, found, path, stops, kills>>

\* linkSync() and the identity it gives, or what EEXIST leads to.
Link(p) ==
    /\ pc[p] = "bound"
    /\ \/ /\ mine[p] \in private /\ path = NoFile
          /\ path' = mine[p] /\ bound' = Set(bound, p, mine[p]) /\ Goto(p, "linked")
          /\ UNCHANGED <<found, private, live>>
       \/ /\ mine[p] \in private /\ path # NoFile /\ ~again[p]
          /\ found' = Set(found, p, path) /\ Goto(p, "found")
          /\ UNCHANGED <<path, bound, private, live>>
       \/ /\ mine[p] \notin private \/ (path # NoFile /\ again[p])
          /\ Abandon(p)
          /\ UNCHANGED found
    /\ UNCHANGED <<mine, again, stops, kills>>

Lives == path \in live

\* #socketIsLive()
Probe(p) ==
    /\ pc[p] = "found"
    /\ IF Lives THEN Abandon(p)
                ELSE Goto(p, "dead") /\ UNCHANGED <<path, bound, private, live>>
    /\ UNCHANGED <<mine, found, again, stops, kills>>

\* releasePrivateSocketLinks(), of the socket that was found.
ReleasedMutant(p) == private
Released(p) == IF path = found[p] THEN private \ {found[p]} ELSE private

\* removeRelayFile() up to its last check: the same socket, with one name.
Check(p) ==
    /\ pc[p] = "dead"
    /\ \/ /\ path = NoFile
          /\ Goto(p, "bound") /\ again' = Set(again, p, TRUE)
          /\ UNCHANGED <<path, bound, private, live>>
       \/ /\ path = found[p] /\ path \notin Released(p)
          /\ Goto(p, "checked") /\ private' = Released(p)
          /\ UNCHANGED <<path, bound, live, again>>
       \/ /\ path # NoFile /\ (path # found[p] \/ path \in Released(p))
          /\ Abandon(p)
          /\ UNCHANGED again
    /\ UNCHANGED <<mine, found, stops, kills>>

Unlink(p) ==
    /\ pc[p] = "checked"
    /\ path' = NoFile
    /\ Goto(p, "bound") /\ again' = Set(again, p, TRUE)
    /\ UNCHANGED <<mine, bound, found, private, live, stops, kills>>

\* The private name goes, and the socket's mode is checked.
Serve(p) ==
    /\ pc[p] = "linked"
    /\ IF Owns(p)
       THEN Goto(p, "serving") /\ private' = private \ {mine[p]} /\ UNCHANGED <<path, bound, live>>
       ELSE Abandon(p)
    /\ UNCHANGED <<mine, found, again, stops, kills>>

\* stop().  A start can meet it where it awaits: closing the listener takes
\* the private name away, and the link fails.
Stop(p) ==
    /\ stops < MaxStops /\ stops' = stops + 1
    /\ live' = live \ {mine[p]} /\ private' = private \ {mine[p]}
    /\ \/ /\ pc[p] = "serving"
          /\ Goto(p, "idle")
          /\ path' = Left(p)
          /\ bound' = Set(bound, p, NoFile)
       \/ /\ pc[p] = "found" \/ (pc[p] = "bound" /\ ~again[p])
          /\ mine[p] \in private
          /\ UNCHANGED <<pc, path, bound>>
    /\ UNCHANGED <<mine, found, again, kills>>

Kill(p) ==
    /\ pc[p] # "idle" /\ kills < MaxKills /\ kills' = kills + 1
    /\ Goto(p, "idle")
    /\ live' = live \ {mine[p]}
    /\ bound' = Set(bound, p, NoFile)
    /\ UNCHANGED <<mine, found, again, path, private, stops>>

Init ==
    /\ pc = [p \in Companions |-> "idle"]
    /\ mine = [p \in Companions |-> NoFile] /\ bound = mine /\ found = mine
    /\ again = [p \in Companions |-> FALSE]
    /\ path = NoFile /\ private = {} /\ live = {} /\ stops = 0 /\ kills = 0

Start(p) == Bind(p) \/ Link(p) \/ Probe(p) \/ Check(p) \/ Unlink(p) \/ Serve(p)
Next == \E p \in Companions : Start(p) \/ Stop(p) \/ Kill(p)

\* A start that was begun goes on, and a start that failed is tried again.
Fairness == \A p \in Companions : WF_vars(Start(p))

Spec == Init /\ [][Next]_vars
FairSpec == Spec /\ Fairness

-----------------------------------------------------------------------------
\* The path of a live companion is not taken from it.
NotStolen == [][(path \in live /\ path \in live' => path' = path)]_vars

\* It is lost only to a companion that had checked a dead socket there and
\* had not yet removed it.
OnlyInTheWindow ==
    [][(path \in live /\ path \in live' /\ path' # path
         => \E p \in Companions : pc[p] = "checked" /\ pc'[p] = "bound")]_vars

\* Unless a companion was killed, no socket without a listener is left at the
\* path by one that is done.
NoLitter ==
    kills = 0 /\ path # NoFile /\ path \notin live
      => \E p \in Companions : pc[p] = "linked" /\ mine[p] = path

\* While companions are there to try, the path leads to a live one in the end,
\* whatever a killed one left behind.
Converges == <>[](path \in live)
=============================================================================
