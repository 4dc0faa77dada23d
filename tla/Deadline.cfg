\* The limit is three packets, and is changed to two or four at any moment, or never.
SPECIFICATION Spec
CONSTANTS
  MaxCount = 3
  MaxTime = 2
  MaxHealthCheckTime = 3
  Resizes = {2, 4}
  MaxTicks = 4
  MaxStamps = 7
INVARIANTS
  TypeOK
  IndicesInBounds
PROPERTIES
  ImplementsWindow
