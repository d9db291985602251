SPECIFICATION Spec
CONSTANTS
  Sessions = {s1}
  Elsewhere = {}
  Panes = {p1}
  Jobs = {j1}
  NoPane = NoPane
  NoSession = NoSession
  MaxPanes = 1
  MaxMishaps = 0
PROPERTIES SweepDropsOnlyEnded
CHECK_DEADLOCK FALSE
