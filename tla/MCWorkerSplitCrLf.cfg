CONSTANTS
  Wires <- AnswerWires
  Cuttings <- AnyCut
  EarlyCloses = {}
  Schemes = {"http"}
  BufferSize = 2
  BodyLength = 3
  Framings = {"close", "length"}
  HeadLength = 5
  ChunkSizes <- SizesAt
  RequestLength = 2
  Faults = {}
SPECIFICATION Spec
INVARIANTS
  ReceivingReadsNoBody
CHECK_DEADLOCK FALSE
