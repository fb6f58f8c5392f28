SPECIFICATION SuiteSpec
CONSTANTS
  c1 = c1
  c2 = c2
  c3 = c3
  a1 = a1
  a2 = a2
  None = None
  NoCall = NoCall
  Accounts = {"A", "B"}
  Parts = {"creation", "queue", "dispatch", "wait", "turns", "socket"}
  Calls = {c1, c2, c3}
  MaxKills = 2
  MaxSwitches = 1
  QueueCrashes = 0
  Sends = {a1, a2}
  DesktopOnly = FALSE
  MaxPipes = 2
  MaxStops = 2
  Deliveries = {"d", "e"}
  Created = {"d"}
  Twins = {}
  Blind = {}
  Waited = {"d"}
  Grace = 2
  MaxTurns = 2
  MaxLog = 7
  MaxUsers = 1
  Asking = {a1, a2}
  Attempts = 2
  Crowded = FALSE
  ServerTurns = 3
  MaxDrops = 1
  MaxCloses = 1
  MaxAsks = 0
  Companions = {"p", "q"}
  MaxSockets = 9
  SocketStops = 2
  SocketKills = 1
SYMMETRY Symmetry
CHECK_DEADLOCK FALSE
INVARIANTS CreatedOnce TruthIsTold InspectionHolds OwnReply
PROPERTIES KeepsPromise OneTurn
