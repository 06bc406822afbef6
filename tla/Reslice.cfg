SPECIFICATION HistorySpec
CONSTANTS
  Paths <- MCPaths
  Context = 1
  Absent = Absent
  Refused = Refused
  None = None
  Missing = Missing
  Main = Trunk
  Side = Side
  Others <- OtherBranches
  History <- ThreeCommits
  Starts <- SideStarts
  Requests <- Wishes
  Wrapped <- FillMap
  HasFile <- TreesWithFile
  BackupRing = 2
  MaxRewrites = 2
  MaxForeign = 1
  InitialBranch <- MCBranch
  Worktrees <- MCWorktrees
  Selections <- MCSelections
  Partitions <- MCPartitions
  Directives <- MCDirectives
  MaxCalls = 1
INVARIANTS
  HunksFallInPlace
  WorkIsSomewhere
  CallsAreExact
  MessagesAreExact
  ReplaysAreForetold
PROPERTIES RewritesLoseNothing
CHECK_DEADLOCK FALSE
