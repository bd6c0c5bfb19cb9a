CONSTANTS
  Workers = {w1, w2}
  Pollers = {d1, d2}
  Acceptor = Acceptor
  Main = Main
  MaxReads = 2
  MaxCopies = 1
  None = None
SPECIFICATION LiveSpec
INVARIANTS
  UseCounted
  NoneMissed
PROPERTIES
  Ordered
  CloseReported
CHECK_DEADLOCK FALSE
