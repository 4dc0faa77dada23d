\* The acceptor and the poll loop stamp two sockets.
SPECIFICATION Spec
CONSTANTS
  Sockets = {s1, s2}
  Threads = {acceptor, poller}
  Timeout = 2
  MaxClock = 3
  MaxEntries = 4
INVARIANTS
  TypeOK
  SelectedInTime
