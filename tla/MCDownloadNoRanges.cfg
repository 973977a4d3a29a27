CONSTANTS
  Size = 4
  Min = 0
  Workers = {w1}
  NoWorker = none
  Nodes = {1, 2, 3}
  RangeSupport = FALSE
  Framings = {"length", "close"}
  Faults = {"close_body"}
  MaxFaults = 1
SYMMETRY Symmetry
SPECIFICATION Spec
INVARIANTS
  RightWhenDone
