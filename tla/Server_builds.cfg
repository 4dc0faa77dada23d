\* Both builds; one client that asks twice, falls silent or does not read.
SPECIFICATION DataPathSpec
CONSTANTS
  Fds = {f1}
  Conns = {c1}
  None = None
  PeerCommands = {"SEND", "PART"}
  MaxSend = 2
  SendBuffer = 2
  InitialEvents = 1
  DeadlineMaxCount = 3
  MultiShot = TRUE
  SeparateExec = FALSE
INVARIANTS
  RepliesInOrder
PROPERTIES
  RequestsAnswered
  HealthCheckReaps
  HealthCheckReleases
