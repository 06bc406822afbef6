CONSTANTS
  Text = {t1, t2}
  Absent = Absent
  None = None
  ReadOnly = FALSE
  UndoCap = 2
  MaxCheckpoints = 0
  MaxVersion = 4
  MaxStamp = 4
SYMMETRY TextSymmetry
SPECIFICATION Spec
CHECK_DEADLOCK FALSE
INVARIANTS CleanMatchesDisk RewindStaysSavable
PROPERTIES NoLostUpdate
