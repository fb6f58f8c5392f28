SPECIFICATION FairSuite
CONSTANTS
  c1 = c1
  c2 = c2
  c3 = c3
  a1 = a1
  a2 = a2
  None = None
  NoCall = NoCall
  Accounts = {"A", "B"}
  Parts = {"creation", "queue", "dispatch", "turns", "socket"}
  Calls = {c1, c2}
  MaxKills = 1
  MaxSwitches = 1
  QueueCrashes = 1
  Sends = {a1, a2}
  DesktopOnly = TRUE
  MaxPipes = 1
  MaxStops = 2
  Deliveries = {"d"}
  Created = {}
  Twins = {}
  Blind = {}
  Waited = {"d"}
  Grace = 2
  MaxTurns = 2
  MaxLog = 7
  MaxUsers = 1
  Asking = {a1}
  Attempts = 2
  Crowded = FALSE
  ServerTurns = 1
  MaxDrops = 1
  MaxCloses = 0
  MaxAsks = 1
  Companions = {"p", "q"}
  MaxSockets = 9
  SocketStops = 2
  SocketKills = 1
CHECK_DEADLOCK FALSE
PROPERTIES KeepsPromise EveryCallEnds EveryReload
