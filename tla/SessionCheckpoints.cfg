CONSTANTS
  Text = {t1, t2}
  Absent = Absent
  None = None
  ReadOnly = FALSE
  UndoCap = 2
  MaxCheckpoints = 1
  MaxVersion = 4
  MaxStamp = 3
SYMMETRY TextSymmetry
SPECIFICATION Spec
CHECK_DEADLOCK FALSE
INVARIANTS EqualVersionsEqualText
PROPERTIES RefusedRunKeepsText RehearsalLeavesNoTrace
