SPECIFICATION Spec
CONSTANTS
  Panes = {p1, p2}
  NoPane = none
  MaxBytes = 1
  QueueCap = 1
  MaxOps = 1
  MaxUnreadable = 0
  MaxSwitches = 1
INVARIANT PausedPaneResumes
CHECK_DEADLOCK FALSE
