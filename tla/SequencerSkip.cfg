CONSTANTS
  Commits = 3
  Work = {w1, w2}
  Upstream = Upstream
  Foreign = Foreign
  None = None
  Corrupt = Corrupt
  Plans <- FoldPlans
  MaxOps = 1
SPECIFICATION Spec
CHECK_DEADLOCK FALSE
PROPERTIES SideStaysInHistory
