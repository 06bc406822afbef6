--------------------------- MODULE MCWarmSessions ---------------------------
EXTENDS WarmSessions, TLC

Symmetry == Permutations(Name) \cup Permutations(File)
=============================================================================
