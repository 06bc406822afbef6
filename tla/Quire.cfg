SPECIFICATION MCSpec
CONSTANTS
  NL = NL
  CR = CR
  Bom = Bom
  Lead = Lead
  Cont = Cont
  aa = aa
  bb = bb
  Nowhere = Nowhere
  None = None
  Nothing = Nothing
  MaxFan = 2
  WindowStart = 1
  Files <- MCFiles
  Codings <- MCCodings
  Inserts <- MCInserts
  Replacements <- MCReplacements
  Needles <- MCNeedles
  Regexes <- MCRegexes
  Positions <- MCPositions
  LineCounts <- MCLineCounts
  MaxMarkers = 1
  MaxFrames = 1
  EditsOutside = FALSE
  MaxSteps = 4
INVARIANTS WhatIsKeptIsTrue ReadsAgree
PROPERTIES ImplementsBuffer SaveKeepsEndings
CHECK_DEADLOCK FALSE
