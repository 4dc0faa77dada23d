\* The first read of a packet gets a part of its header.
SPECIFICATION Spec
CONSTANTS
  Radix = 3
  CommandSize = 1
  Bodies <- MCBodies
  BufferSize = 9
  MaxPackets = 3
INVARIANT
  HeaderAvailable
CHECK_DEADLOCK FALSE
