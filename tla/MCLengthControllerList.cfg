CONSTANTS
  Size = 8
  Min = 1
  Workers = {w1, w2, w3}
  NoWorker = none
  Nodes = {1, 2, 3, 4, 5, 6, 7, 8}
SYMMETRY Symmetry
SPECIFICATION ListSpec
INVARIANTS
  ListTypeOK
  ControllerTypeOK
  FinderAgrees
  Synced
  FragmentsDisjoint
  FragmentsWorthFetching
  NothingOnlyWhenBusy
PROPERTIES
  ImplementsController
  RemainNeverGrows
  OwedOnlyShrinksByReading
CHECK_DEADLOCK FALSE
