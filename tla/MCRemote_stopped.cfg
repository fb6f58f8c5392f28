SPECIFICATION SuiteSpec
CONSTANTS
  r1 = r1
  r2 = r2
  None = None
  Parts = {"site"}
  Accounts = {A, B}
  Calls = {r1, r2}
  MaxChanges = 0
  MaxCrashes = 0
  Prompts = {r1, r2}
  Conversations = {"c"}
  Sidecars = {"S", "T"}
  For <- OneConversation
  MaxLost = 1
  Starts = {1, 2}
  Sends = {3, 4}
  Home <- FirstSession
  Capacity = 1
  Works = {1, 2, 3}
  Origin <- TwoSenders
  ToClaude = {1, 2}
  WorkChanges = 1
  WorkReloads = 1
  WorkCrashes = 1
  Jobs = {1, 2}
  Key <- TheKey
  Procs = {"p1", "p2"}
  JobCrashes = 1
  MaxFaults = 0
CHECK_DEADLOCK FALSE
PROPERTIES StoppedIsTrue
