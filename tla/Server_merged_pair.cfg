\* One thread polls, executes and writes; two clients whose every packet may be too many.
SPECIFICATION Spec
CONSTANTS
  Fds = {f1, f2}
  Conns = {c1, c2}
  None = None
  PeerCommands = {"SEND"}
  MaxSend = 1
  SendBuffer = 4
  InitialEvents = 1
  DeadlineMaxCount = 1
  SeparateExec = FALSE
  MultiShot = FALSE
SYMMETRY Symmetry
INVARIANTS
  TypeOK
  AnswersOwnRequests
  CallbackRanOnEverything
  CapacityCovers
  LoadCoversClients
