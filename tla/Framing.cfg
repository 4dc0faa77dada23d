\* Three packets; the buffer holds two of them and a byte of the next. The reader may
\* stop for good, astray or closed.
SPECIFICATION Spec
CONSTANTS
  Radix = 3
  CommandSize = 1
  Bodies <- MCBodies
  BufferSize = 9
  MaxPackets = 3
INVARIANTS
  TypeOK
  NothingLeftBehind
PROPERTIES
  ImplementsStream
CHECK_DEADLOCK FALSE
