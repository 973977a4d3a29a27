CONSTANTS
  Addresses = 3
  Schemes = {"http", "https"}
  Modes = {TRUE, FALSE}
  SocketFails = {TRUE, FALSE}
SPECIFICATION Spec
INVARIANTS
  ConnectTypeOK
  HoldsOneDescriptor
  SslOverOpenDescriptor
  FirstThatAnswers
  GarbageOnlyAtFirst
CHECK_DEADLOCK FALSE
