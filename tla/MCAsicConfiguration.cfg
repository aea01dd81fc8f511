CONSTANTS
  Asics = {0, 1}
  Channels = {0, 1}
  MaxChips = 1
  Values = {0, 1}
  Garbage = Garbage
  TacRefresh <- MCTacRefresh
  Default = 0
  Adjusted = {1}
  Configs <- MCConfigs
  BiasChannels <- MCBiasChannels
  BiasConfigs <- MCBiasConfigs
  MaxTries = 2
  MaxInits = 2
  MaxFaults = 3
  None = None
SPECIFICATION Spec
INVARIANTS
  CacheInv
  SetIsVerified
  RefreshIsCurrent
