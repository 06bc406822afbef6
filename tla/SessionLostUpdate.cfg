CONSTANTS
  Text = {t1, t2}
  Absent = Absent
  None = None
  ReadOnly = FALSE
  UndoCap = 1
  MaxCheckpoints = 1
  MaxVersion = 4
  MaxStamp = 4
SYMMETRY TextSymmetry
SPECIFICATION Spec
CHECK_DEADLOCK FALSE
PROPERTIES NoLostUpdate
