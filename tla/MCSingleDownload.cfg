CONSTANTS
  Wires <- AnswerWires
  Cuttings <- ReadsSeparate
  EarlyCloses <- Anywhere
  Schemes = {"http", "https"}
  BufferSize = 2
  BodyLength = 3
  Framings = {"close", "length", "chunked"}
  HeadLength = 5
  ChunkSizes <- SizesAt
  RequestLength = 2
  Faults = {"refused", "reset", "invalid"}
SPECIFICATION SingleFairSpec
PROPERTIES
  SingleKeepsPromise
  SingleEnds
CHECK_DEADLOCK FALSE
