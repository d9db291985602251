SPECIFICATION ServerSpec
CONSTANTS
  Parts = {"connection", "batching", "watcher", "maintenance", "shows"}
  Views = {"v1", "v2"}
  ClaimAttempts = 2
  MaxRespawns = 1
  MaxText = 4
  MaxChunk = 3
  MaxChunks = 2
  SizeLimit = 2
  Sessions = {"s1"}
  OfActive = {}
  MaxEvents = 1
  MaxBoots = 2
  MaxRestarts = 1
  Projects = {"j1", "j2"}
  Uploads = {"f1"}
  MaxRuns = 2
  HistoryLimit = 1
  MaxShows = 5
  Kept = 3
CHECK_DEADLOCK FALSE
INVARIANTS
  TypesOK
  OneRespawnIsFollowed
  EndedViewsLeaveNothing
  TextIsWhole
  ShownOnce
PROPERTIES
  NothingWaitsForEver
  LinksFollowEnds
  CyclesAreSafe
