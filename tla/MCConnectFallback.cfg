CONSTANTS
  Addresses = 3
  Schemes = {"http"}
  Modes = {FALSE}
  SocketFails = {FALSE}
SPECIFICATION FairSpec
PROPERTIES
  ReachesHost
CHECK_DEADLOCK FALSE
