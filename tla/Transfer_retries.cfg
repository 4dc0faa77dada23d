\* Every mixture of outcomes of send and recv.
SPECIFICATION FairSpec
CONSTANTS
  Sizes = {1, 3}
  SizeMax = 255
  MaxMajor = 5
  MaxAsync = 5
INVARIANTS
  TypeOK
  FailuresBounded
  ReceivedInOrder
PROPERTIES
  CallReturns
