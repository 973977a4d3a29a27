CONSTANTS
  Wires <- AnswerWires
  Cuttings <- AnyCut
  EarlyCloses <- Anywhere
  Schemes = {"http", "https"}
  BufferSize = 2
  BodyLength = 3
  Framings = {"close", "length", "chunked"}
  HeadLength = 5
  ChunkSizes <- SizesAt
  RequestLength = 2
  Faults = {"refused", "reset", "invalid", "disk"}
SPECIFICATION Spec
INVARIANTS
  WorkerTypeOK
  WritesBody
  NothingTakenIsLost
  CompleteWhenStopped
  HeaderEndFound
  StopsAtLastChunk
PROPERTIES
  OnlyBodyCallsWrite
CHECK_DEADLOCK FALSE
