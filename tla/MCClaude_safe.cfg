SPECIFICATION MCSpec
CONSTANTS
  a1 = a1
  a2 = a2
  a3 = a3
  a4 = a4
  t = t
  x1 = x1
  x2 = x2
  m1 = m1
  m2 = m2
  None = None
  NoEntry = NoEntry
  NoId = NoId
  Ids = {i}
  Texts = {a}
  Tasks = {m1, m2}
  To <- MCTo
  Home <- MCHome
  Senders = {s}
  MaxActive = 2
  MaxPerRecipient = 2
  MaxAttempts = 2
  MaxFaults = 0
  MaxCrashes = 1
  Drains = {x1, x2, x3}
  Elsewhere = {x3}
  Process = "d"
  Task = m1
  SoloIds = {1, 2}
  SoloTexts = {"a"}
  SoloTo <- MCSoloTo
  SoloActive = 2
  SoloPerRecipient = 1
  SoloFaults = 1
  SoloCrashes = 0
  Messages = {x1, x2}
  Transcript = TRUE
  Attempts = 2
  MaxReloads = 1
  MaxOther = 0
  Replies = {"r", "s", "t"}
  Limit = {1, 2, 3}
  ForwarderReloads = 2
  Parts = {"queue", "solo", "peer", "forwarder", "transcript"}
SYMMETRY Symmetry
CHECK_DEADLOCK FALSE
INVARIANTS AtMostOnce ReceiptsAreTrue ReplyIsRight RepliesAreKept
PROPERTIES KeepsPromise OneOutstanding
