CONSTANTS
  Size = 0
  Min = 0
  Workers = {w1, w2, w3}
  NoWorker = none
  Nodes = {1, 2}
  RangeSupport = TRUE
  Framings = {"length", "close"}
  Faults = {"refused", "reset", "error_page"}
  MaxFaults = 3
SPECIFICATION FairSpec
PROPERTIES
  ComesToAnEnd
