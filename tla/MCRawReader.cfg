CONSTANTS
  EventWords = {1, 2}
  MaxEvents = 1
  MaxFrameID = 3
  MaxFrames = 3
  MaxSteps = 2
  OddIDs = {0}
  OutBlockSize = 3
  MaxSpan = 2
SPECIFICATION Spec
INVARIANTS
  AccountIsRight
  IndexIsTrue
  RoundTrip
PROPERTIES
  ImplementsLog
CHECK_DEADLOCK FALSE
