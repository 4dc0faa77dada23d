\* What a send that takes a part of the message leaves behind.
SPECIFICATION Spec
CONSTANTS
  Sizes = {1, 3}
  SizeMax = 255
  MaxMajor = 5
  MaxAsync = 5
INVARIANTS
  SentInOrder
