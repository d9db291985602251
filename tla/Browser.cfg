SPECIFICATION BrowserSpec
CONSTANTS
  Parts = {"ownership", "socket", "writes", "polling", "cache", "session", "autocreate",
           "dictation", "compose", "uploads", "sizes",
           "attention"}
  Sockets = {w1, w2, w3, w4}
  NoSocket = NoSocket
  MaxAttempts = 3
  MaxOutput = 4
  MaxConnects = 3
  MaxWire = 3
  MaxStarts = 3
  Rounds = 2
  Windows = {b1, b2}
  OwnedPanes = {p1, p2}
  MaxTurns = 2
  CachedPanes = {p1, p2}
  Requests = {1, 2}
  MaxChanges = 2
  Sessions = {1, 2}
  MaxMoves = 3
  MaxPanes = 2
  MaxWords = 4
  MaxCycles = 3
  MaxTexts = 2
  MaxBreaks = 2
  MaxUploads = 2
  SizeCount = 2
  MaxEvents = 6
  MaxTime = 2
  MaxOpens = 2
CHECK_DEADLOCK FALSE
INVARIANTS
  TypesOK
  OneSocket
  OwnersDisjoint
  TimersAreOwned
  OneStreamOnScreen
  CaughtUp
  PollingEnds
  CachesSettle
  NoUnaskedSession
  WordsKept
  DraftsKept
  PathsGoWhereGiven
  
  AttentionUntilOpened
PROPERTIES
  EverythingSettles
  ShownWhileThere
