SPECIFICATION RequestSpec
CONSTANTS
  Sessions = {s1, s2}
  Elsewhere = {}
  Panes = {p1, p2}
  Jobs = {j1, j2}
  NoPane = NoPane
  NoSession = NoSession
  MaxPanes = 1
  MaxMishaps = 1
SYMMETRY Symmetric
INVARIANTS LinksNamePanes FailedCreateLeavesNoPane
PROPERTIES CloseSparesAgents
CHECK_DEADLOCK FALSE
