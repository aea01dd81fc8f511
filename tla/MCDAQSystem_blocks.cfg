CONSTANTS
  Servers = {"DAQ", "UDP"}
  MaxPacked = 2
  N = 3
  MaxStamp = 4
  MaxBacklog = 1
  LostKeepPeriod = 2
  Corruption = FALSE
  SleepSuffices = FALSE
  MaxSpill = 0
  RequiredFrames = {2}
  Methods = {"start", "stop", "acquire"}
SPECIFICATION FairSpec
INVARIANTS
  BlockStaysQueued
  BlockWasRead
PROPERTIES
  WorkerExits
  FirstFrameArrives
CHECK_DEADLOCK FALSE
