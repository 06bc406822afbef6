CONSTANTS
  Name = {n1}
  File = {f1, f2}
  None = None
  Cap = 1
  MaxBatch = 3
  MaxStamp = 2
SYMMETRY Symmetry
SPECIFICATION Spec
CHECK_DEADLOCK FALSE
PROPERTIES EvictionSparesEdits BatchesAreWhole
