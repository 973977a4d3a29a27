CONSTANTS
  Size = 0
  Min = 0
  Workers = {w1, w2}
  NoWorker = none
  Nodes = {1, 2}
  RangeSupport = TRUE
  Framings = {"length", "close"}
  Faults = {"refused"}
  MaxFaults = 1
SYMMETRY Symmetry
SPECIFICATION Spec
INVARIANTS
  NeverBackOfEmptyList
