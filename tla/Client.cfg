\* A client that reaches its limit in writing, and again in reading.
SPECIFICATION FairSpec
CONSTANTS
  MaxCount = 3
  WireSize = 2
  MaxRequests = 2
INVARIANTS
  TypeOK
  JoinedIsNamed
  WarningAccountedFor
PROPERTIES
  RequestsSettled
  ClientReturns
