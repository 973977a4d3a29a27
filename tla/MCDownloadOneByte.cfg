CONSTANTS
  Size = 1
  Min = 0
  Workers = {w1, w2}
  NoWorker = none
  Nodes = {1, 2, 3}
  RangeSupport = TRUE
  Framings = {"length", "close"}
  Faults = {}
  MaxFaults = 0
SPECIFICATION FairSpec
PROPERTIES
  ComesToAnEnd
