SPECIFICATION FairSpec
CONSTANTS
  Views = {"v1"}
  ClaimAttempts = 2
  MaxRespawns = 1
PROPERTY TmuxEndEndsView
CHECK_DEADLOCK FALSE
