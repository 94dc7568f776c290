SPECIFICATION MCSpec
CONSTANTS
  Rates = {12}
  Bits = 2
  Lengths = {1, 2}
INVARIANTS
  ExclusiveTransfer
  StopCancelsRequest
  StallBounded
PROPERTIES
  ImplementsStream
  BufferRefilled
