CONSTANTS
  NumHandlers = 3
  MaxBlocks = 3
  NumCPUs = 2
  SingleWorker = {3}
  MaxSteps = 2
SPECIFICATION FairSpec
INVARIANTS
  OutputReady
  JobsInv
  OneAtATime
  PipelineInv
PROPERTIES
  ImplementsStream
  Ends
CHECK_DEADLOCK FALSE
