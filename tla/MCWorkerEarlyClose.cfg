CONSTANTS
  Wires <- AnswerWires
  Cuttings <- ReadsSeparate
  EarlyCloses <- Anywhere
  Schemes = {"http"}
  BufferSize = 2
  BodyLength = 3
  Framings = {"length"}
  HeadLength = 5
  ChunkSizes <- SizesAt
  RequestLength = 2
  Faults = {}
SPECIFICATION FairSpec
PROPERTIES
  WorkerEnds
CHECK_DEADLOCK FALSE
