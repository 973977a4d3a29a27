CONSTANTS
  Size = 5
  Min = 1
  Workers = {w1, w2}
  NoWorker = none
  Nodes = {1, 2, 3}
  RangeSupport = TRUE
  Framings = {"length", "close", "open"}
  Faults = {"refused", "close_head", "close_body", "stall", "torn_head",
            "chunked", "error_page", "short_write"}
  MaxFaults = 1
SPECIFICATION FairSpec
PROPERTIES
  Finishes
