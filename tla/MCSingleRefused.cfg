CONSTANTS
  Wires <- AnswerWires
  Cuttings <- ReadsSeparate
  EarlyCloses = {}
  Schemes = {"http"}
  BufferSize = 2
  BodyLength = 3
  Framings = {"length"}
  HeadLength = 5
  ChunkSizes <- SizesAt
  RequestLength = 2
  Faults = {"refused"}
SPECIFICATION SingleSpec
INVARIANTS
  SavedWhenFinished
CHECK_DEADLOCK FALSE
