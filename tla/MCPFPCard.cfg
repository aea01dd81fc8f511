CONSTANTS
  BufferSize = 2
  MaxWords = 8
  MaxStarts = 2
SPECIFICATION FairSpec
INVARIANTS
  CardInv
PROPERTIES
  Delivered
  OffReturns
CHECK_DEADLOCK FALSE
