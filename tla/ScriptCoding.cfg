SPECIFICATION ScriptsOnly
CONSTANTS
  NoBase = NoBase
  NotThere = NotThere
INVARIANT WriteBackKeepsCoding
CHECK_DEADLOCK FALSE
