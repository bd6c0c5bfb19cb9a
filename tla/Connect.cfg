CONSTANTS
  Space = 72
  MaxIds = 2
  MaxFields = 4
  MaxNameSize = 2
  MaxFieldSize = 4
  MaxFilter = 2
  MaxMoves = 2
  MaxLen = 10240
  Servers <- MCServers
  Gsrc = 3
  Config <- MCConfig
  Plans <- MCPlans
  PointOf <- MCPointOf
  LineOf <- MCLineOf
  Reached <- MCReached
  Left <- MCLeft
  MaxLinks = 4
  MaxBreaks = 1
  ByteValues = {0, 1}
  Garbled = Garbled
  NoOpts = NoOpts
  Engines = {"mt", "st"}
  Links = {1, 2}
  Keep = {1}
  Socks = {11, 12}
  Patience = 1
  MaxTries = 2
  MaxFaults = 1
  Null = 0
SPECIFICATION MCSpec
INVARIANTS
  Inv
  LinksInv
  Understood
  Whole
PROPERTIES
  
  AttemptEnds
CHECK_DEADLOCK FALSE
