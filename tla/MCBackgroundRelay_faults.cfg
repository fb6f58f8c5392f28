SPECIFICATION Spec
CONSTANTS
  Ids = {r1, r2, r3}
  Agents = {codex, claude}
  Projects = {p1}
  NoJob = NoJob
  NoId = NoId
  MaxConcurrent = 2
  MaxPerAgent = 1
  MaxQueued = 2
  MaxRecords = 3
  MaxDepth = 1
  MaxTree = 3
  MaxFaults = 2
  MaxCrashes = 1
  MaxStops = 1
SYMMETRY Symmetry
CONSTRAINT Within
INVARIANTS
  TypeOK
  AtMostOnce
  ReceiptsAreTruthful
  AcceptedIsDurable
  NoCircularWait
PROPERTIES
  ImplementsLedger
