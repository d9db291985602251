SPECIFICATION SweepSpec
CONSTANTS
  Sessions = {s1, s2}
  Elsewhere = {s2}
  Panes = {p1}
  Jobs = {j1}
  NoPane = NoPane
  NoSession = NoSession
  MaxPanes = 1
  MaxMishaps = 2
INVARIANTS TypeOK EndMeansEnded
PROPERTIES SweepSparesLive DeadLinksGo
