SPECIFICATION LiveLinks
CONSTANTS
  Engines = {"mt", "st"}
  Links = {1}
  Keep = {1}
  Socks = {11, 12}
  Patience = 1
  MaxTries = 2
  MaxFaults = 0
  Null = 0
PROPERTY Reconnects
CHECK_DEADLOCK FALSE
