SPECIFICATION SuiteSpec
CONSTANTS
  r1 = r1
  r2 = r2
  None = None
  Parts = {"handoff", "antigravity", "cli", "outbound", "site"}
  Accounts = {A, B}
  Calls = {r1, r2}
  MaxChanges = 3
  MaxCrashes = 1
  Prompts = {r1, r2}
  Conversations = {"c"}
  Sidecars = {"S", "T"}
  For <- OneConversation
  MaxLost = 1
  Starts = {1, 2}
  Sends = {3, 4}
  Home <- FirstSession
  Capacity = 1
  Works = {1, 2, 3}
  Origin <- TwoSenders
  ToClaude = {1, 2}
  WorkChanges = 1
  WorkReloads = 1
  WorkCrashes = 1
  Jobs = {1, 2}
  Key <- TheKey
  Procs = {"p1", "p2"}
  JobCrashes = 1
  MaxFaults = 1
SYMMETRY Symmetry
CHECK_DEADLOCK FALSE
INVARIANTS AtMostOnce TellsTheTruth HandedOnce ReceiptsAreTrue PlacesHold AcceptedAsChecked
