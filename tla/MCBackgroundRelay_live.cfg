SPECIFICATION FairSpec
CONSTANTS
  Ids = {r1, r2}
  Agents = {codex, claude}
  Projects = {p1}
  NoJob = NoJob
  NoId = NoId
  MaxConcurrent = 2
  MaxPerAgent = 1
  MaxQueued = 2
  MaxRecords = 2
  MaxDepth = 1
  MaxTree = 2
  MaxFaults = 1
  MaxCrashes = 1
  MaxStops = 1
PROPERTY EverySettles
