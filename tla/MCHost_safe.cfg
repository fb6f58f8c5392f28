SPECIFICATION SuiteSpec
CONSTANTS
  c1 = c1
  c2 = c2
  p1 = p1
  p2 = p2
  s1 = s1
  s2 = s2
  s3 = s3
  None = None
  Parts = {"config", "supervisor", "service", "wire", "update", "snapshots"}
  Setups = {p1, p2}
  Edits = {c1, c2}
  Order <- TwoFiles
  MaxFailures = 1
  MaxCrashes = 1
  Requests = {c1, c2}
  Hello = "hello"
  Recoverable = TRUE
  RecoveryLimit = 1
  MaxQueue = 1
  MaxWorkers = 3
  Releases = 1
  WorkerFaults = 1
  Procs = {s1, s2, s3}
  Updates = 0
  Switches = 1
  Kills = 2
  Calls = {c1, c2}
  MaxAttempts = 2
  MaxSockets = 1
  MaxStops = 1
  Updaters = {2, 3}
  V <- Versions
  First = 1
  Legacy = {1}
  Faults = 1
  Toggles = 2
  Prunes = 1
  Repeats = 1
  Users = {c1, c2}
  Pruners = {p1, p2}
  Keys = {"k"}
  Retain = 0
  UserDeaths = 1
SYMMETRY Symmetry
CHECK_DEADLOCK FALSE
INVARIANTS EditsAreKept AllOrNothing Supervised OneOfEach UsedIsKept
PROPERTIES KeepsPromise HandsOver
