CONSTANTS
  Senders = {s1, s2}
  Monitors = {m1, m2}
  Connector = connector
  Block = 2
  Room = 1
  Long = s1
  LongSize = 4
  Sizes <- MCSizes
  MaxSent <- MCMaxSent
  None = None
SPECIFICATION LiveSpec
INVARIANTS
  Inv
  OneFlow
  InOrder
PROPERTIES
  AllSent
CHECK_DEADLOCK FALSE
