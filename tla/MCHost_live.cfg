SPECIFICATION FairSuite
CONSTANTS
  c1 = c1
  c2 = c2
  p1 = p1
  p2 = p2
  s1 = s1
  s2 = s2
  s3 = s3
  None = None
  Parts = {"supervisor", "service", "wire", "update"}
  Setups = {p1, p2}
  Edits = {c1, c2}
  Order <- TwoFiles
  MaxFailures = 1
  MaxCrashes = 1
  Requests = {c1}
  Hello = "hello"
  Recoverable = TRUE
  RecoveryLimit = 2
  MaxQueue = 1
  MaxWorkers = 4
  Releases = 1
  WorkerFaults = 1
  Procs = {s1, s2}
  Updates = 1
  Switches = 0
  Kills = 1
  Calls = {c1, c2}
  MaxAttempts = 2
  MaxSockets = 1
  MaxStops = 1
  Updaters = {2}
  V <- Versions
  First = 1
  Legacy = {1}
  Faults = 2
  Toggles = 2
  Prunes = 1
  Repeats = 0
  Users = {c1, c2}
  Pruners = {p1, p2}
  Keys = {"k"}
  Retain = 0
  UserDeaths = 1
CHECK_DEADLOCK FALSE
PROPERTIES EveryAnswer Recovers
