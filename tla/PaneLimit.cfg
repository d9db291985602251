SPECIFICATION RequestSpec
CONSTANTS
  Sessions = {s1, s2}
  Elsewhere = {}
  Panes = {p1, p2}
  Jobs = {j1, j2}
  NoPane = NoPane
  NoSession = NoSession
  MaxPanes = 1
  MaxMishaps = 0
SYMMETRY Symmetric
INVARIANTS LayoutIsBounded
CHECK_DEADLOCK FALSE
