SPECIFICATION Spec
CONSTANTS
  NoBase = NoBase
  NotThere = NotThere
INVARIANTS
  HunksAreConflicts
  MotionsReachWholeSexps
  SelectorsAgree
  FillsForgetLayout
  CommandsAreExact
  SourcesReadAsWritten
PROPERTIES ScriptsKeepTheirWord
CHECK_DEADLOCK FALSE
