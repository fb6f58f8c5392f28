SPECIFICATION FairSuite
CONSTANTS
  a1 = a1
  a2 = a2
  a3 = a3
  a4 = a4
  t = t
  x1 = x1
  x2 = x2
  m1 = m1
  m2 = m2
  None = None
  NoEntry = NoEntry
  NoId = NoId
  Ids = {i}
  Texts = {a}
  Tasks = {m1, m2}
  To <- MCTo
  Home <- MCHome
  Senders = {s}
  MaxActive = 2
  MaxPerRecipient = 2
  MaxAttempts = 2
  MaxFaults = 1
  MaxCrashes = 1
  Drains = {x1, x2}
  Elsewhere = {x2}
  Process = "d"
  Task = m1
  SoloIds = {1, 2}
  SoloTexts = {"a"}
  SoloTo <- MCSoloTo
  SoloActive = 2
  SoloPerRecipient = 1
  SoloFaults = 1
  SoloCrashes = 0
  Messages = {x1}
  Transcript = TRUE
  Attempts = 2
  MaxReloads = 2
  MaxOther = 1
  Replies = {"r", "s", "t"}
  Limit = {1, 2, 3}
  ForwarderReloads = 2
  Parts = {"queue", "peer", "forwarder"}
CHECK_DEADLOCK FALSE
INVARIANTS OwnReply
PROPERTIES EverythingSettles
