CONSTANTS
  Servers = {"DAQ"}
  MaxPacked = 1
  N = 2
  MaxStamp = 4
  MaxBacklog = 2
  LostKeepPeriod = 2
  Corruption = FALSE
  SleepSuffices = TRUE
  MaxSpill = 0
  RequiredFrames = {2}
  Methods = {"start", "stop", "sync", "acquire", "bytes", "decode"}
SPECIFICATION Spec
INVARIANTS
  SyncDiscardsEarlierFrames
CHECK_DEADLOCK FALSE
