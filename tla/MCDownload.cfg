CONSTANTS
  Size = 5
  Min = 0
  Workers = {w1, w2}
  NoWorker = none
  Nodes = {1, 2, 3, 4}
  RangeSupport = TRUE
  Framings = {"length", "close", "open"}
  Faults = {"unreachable", "refused", "reset", "close_head", "close_body",
            "stall", "torn_head", "chunked", "error_page", "short_write"}
  MaxFaults = 2
SYMMETRY Symmetry
SPECIFICATION Spec
INVARIANTS
  TypeOK
  Covered
  AliveTracked
  TrackedExist
  RightWhenDone
PROPERTIES
  OnlyFaultsEnd
  UsesController
  KeepsPromise
