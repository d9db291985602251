SPECIFICATION StreamSpec
CONSTANTS
  Panes = {p1, p2}
  FirstPane = p1
  NoPane = none
  MaxBytes = 2
  QueueCap = 1
  MaxOps = 2
  MaxUnreadable = 1
  MaxSwitches = 1
INVARIANTS
  TypeOK
  SeedingHasOneReply
  HandlersAligned
  StreamIsWhole
  PaneResumes
  InputsInOrder
PROPERTIES
  NeverRewinds
  ShowsEverything
  EndIsReported
CHECK_DEADLOCK FALSE
