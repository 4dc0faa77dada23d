\* Three protocols and two clients, moved whenever one is closed.
SPECIFICATION FleetSpec
CONSTANTS
  Count = 3
  Weight = 1
  MaxLoad = 6
  Fds = {3, 5}
  NoSocket = 4
  Conns = {c1, c2}
  None = None
SYMMETRY Symmetry
INVARIANTS
  TypeOK
  FleetTypeOK
  OneHome
  ClientsPolled
  LoadCoversFleet
  IndicesExtreme
  Balanced
PROPERTIES
  WarningKept
  ImplementsPriority
