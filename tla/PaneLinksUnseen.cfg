SPECIFICATION Spec
CONSTANTS
  Sessions = {s1}
  Elsewhere = {s1}
  Panes = {p1}
  Jobs = {j1}
  NoPane = NoPane
  NoSession = NoSession
  MaxPanes = 1
  MaxMishaps = 1
PROPERTIES UnreachableNeverCounts
CHECK_DEADLOCK FALSE
