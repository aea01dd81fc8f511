CONSTANTS
  Asics = {1, 2, 3}
  Channels = {1, 2}
  Tacs = {1}
  MinEntries = 2
  Shape <- MCShape
  T0 <- MCT0
  NoCurve <- MCNoCurve
  Trimmed <- MCTrimmed
  Inputs <- MCInputs
  BufferLines = 2
  DescriptorLimit = 5
  MaxWorkers = 2
  MayBeKilled = FALSE
SPECIFICATION Spec
INVARIANTS
  RunsProperly
CHECK_DEADLOCK FALSE
