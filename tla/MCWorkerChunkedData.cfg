CONSTANTS
  Wires <- AnswerWires
  Cuttings <- HeadsTogether
  EarlyCloses = {}
  Schemes = {"http"}
  BufferSize = 2
  BodyLength = 3
  Framings = {"chunked"}
  HeadLength = 5
  ChunkSizes <- SizesAt
  RequestLength = 2
  Faults = {}
SPECIFICATION Spec
INVARIANTS
  ChunksComplete
CHECK_DEADLOCK FALSE
