\* What the health check does to a client that was moved to another protocol.
SPECIFICATION FleetSpec
CONSTANTS
  Count = 2
  Weight = 1
  MaxLoad = 6
  Fds = {3, 5}
  NoSocket = 4
  Conns = {c1, c2}
  None = None
PROPERTIES
  UnknownSocketsIgnored
