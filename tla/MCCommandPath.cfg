CONSTANTS
  Media = {"card", "udp"}
  MaxTries = 2
  SerialNumbers = 3
  Slots = 2
  LargeCommands = {}
  ReplyKinds = {"good", "tiny", "foreign"}
  MaxCommands = 2
  MaxConnections = 2
SPECIFICATION FairSpec
INVARIANTS
  PathInv
PROPERTIES
  ReplyIsOwn
  ImplementsCall
  CallEnds
CHECK_DEADLOCK FALSE
