CONSTANTS
  Size = 8
  Min = 2
  Workers = {w1, w2}
  NoWorker = none
  Nodes = {1, 2, 3}
  RangeSupport = TRUE
  Framings = {"length", "open"}
  Faults = {"refused", "close_body", "stall"}
  MaxFaults = 2
SPECIFICATION FairSpec
PROPERTIES
  Finishes
