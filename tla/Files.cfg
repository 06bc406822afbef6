CONSTANTS
  Process = {p1, p2}
  Text = {t1, t2}
  Absent = Absent
  Torn = Torn
  MaxStamp = 4
  Page = {1, 2, 3}
  Paged = TRUE
  CachePages = 2
  MaxWrite = 3
  Cli = {"one", "other"}
  Peer = {"peer"}
  Requests <- MCRequests
  Mark = {"disk", "one", "peer", "them"}
  Paths <- MCPaths
  Elsewhere <- MCElsewhere
  MaxLines = 2
  MaxDeaths = 1
  MaxOthers = 1
  NoPath = NoPath
  Nobody = Nobody
SPECIFICATION FilesSpec
CHECK_DEADLOCK FALSE
INVARIANTS LitterOnlyOfTheDead SavedBufferIsCurrent FreshVisitIsWhole
PROPERTIES SavesAreWhole WaitersAreServed DaemonKeepsEdits
