CONSTANTS
  Size = 4
  Min = 0
  Workers = {w1, w2}
  NoWorker = none
  Nodes = {1, 2, 3}
  RangeSupport = TRUE
  Framings = {"length", "close"}
  Faults = {}
  MaxFaults = 0
SYMMETRY Symmetry
SPECIFICATION Spec
INVARIANTS
  CompleteWhenDone
