CONSTANTS
  Channels = {0, 1, 2, 3, 2048}
  Tacs = {0, 4}
  MaxRegions = 2
  Junk = Junk
  Overlap = 40
  TimeWindow = 8
  MaxDistance = 2
  MaxHits = 2
  MinEnergy = 0
  MaxEnergy = 30
  CoincidenceWindow = 4
  Phases = {0, 1, 2}
  Runs <- MCRuns
  Configurations <- MCConfigurations
  Options <- MCOptions
  FractionPeriod = 3
  ArrayChannels = 128
  MaxOffset = 4
SPECIFICATION Spec
INVARIANTS
  CalibrationIsUsed
  GroupsAreRight
  NoCoincidenceIsMissed
  WriterInv
  BestHitIsKept
CHECK_DEADLOCK FALSE
