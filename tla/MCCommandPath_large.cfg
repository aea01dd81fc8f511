CONSTANTS
  Media = {"card"}
  MaxTries = 2
  SerialNumbers = 3
  Slots = 2
  LargeCommands = {1}
  ReplyKinds = {"good", "tiny", "foreign"}
  MaxCommands = 1
  MaxConnections = 1
SPECIFICATION FairSpec
PROPERTIES
  CallEnds
CHECK_DEADLOCK FALSE
