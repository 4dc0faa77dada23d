\* A thread of its own executes and writes; one descriptor serves two clients in turn.
SPECIFICATION Spec
CONSTANTS
  Fds = {f1}
  Conns = {c1, c2}
  None = None
  PeerCommands = {"SEND", "ACID", "PART"}
  MaxSend = 1
  SendBuffer = 2
  InitialEvents = 1
  DeadlineMaxCount = 2
  SeparateExec = TRUE
  MultiShot = FALSE
SYMMETRY Symmetry
INVARIANTS
  NoDescriptorLeaked
  NameMatchesConnection
PROPERTIES
  CloseJustified
