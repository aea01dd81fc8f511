CONSTANTS
  Servers = {"DAQ", "UDP"}
  MaxPacked = 2
  N = 2
  MaxStamp = 4
  MaxBacklog = 2
  LostKeepPeriod = 2
  Corruption = TRUE
  SleepSuffices = TRUE
  MaxSpill = 0
  RequiredFrames = {2}
  Methods = {"start", "stop", "sync", "acquire", "bytes", "decode"}
SPECIFICATION Spec
INVARIANTS
  NoOverwrite
  RingInv
  FramesAreFresh
  SyncLetsOneThrough
  BlockWasRead
PROPERTIES
  ImplementsChannel
CHECK_DEADLOCK FALSE
