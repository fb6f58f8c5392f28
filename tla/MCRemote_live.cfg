SPECIFICATION FairSuite
CONSTANTS
  r1 = r1
  r2 = r2
  None = None
  Parts = {"handoff", "antigravity", "cli", "outbound", "site"}
  Accounts = {A, B}
  Calls = {r1, r2}
  MaxChanges = 1
  MaxCrashes = 1
  Prompts = {r1}
  Conversations = {"c"}
  Sidecars = {"S", "T"}
  For <- OneConversation
  MaxLost = 1
  Starts = {1, 2}
  Sends = {3}
  Home <- FirstSession
  Capacity = 1
  Works = {1, 2, 3}
  Origin <- TwoSenders
  ToClaude = {1, 2}
  WorkChanges = 1
  WorkReloads = 0
  WorkCrashes = 0
  Jobs = {1}
  Key <- TheKey
  Procs = {"p1"}
  JobCrashes = 1
  MaxFaults = 2
CHECK_DEADLOCK FALSE
PROPERTIES EveryCallEnds
