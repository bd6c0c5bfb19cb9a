SPECIFICATION LiveSpec
CONSTANTS
  Talker = talker
  Other = other
  Conns <- MCConns
  Fds = {3, 4}
  Block = 1
  RecvMax = 1
  Room = 1
  MaxIn <- MCMaxIn
  MaxOut <- MCMaxOut
  Sizes = {3}
  MaxFaults = 1
  Faulty = {other}
  None = None
INVARIANTS Inv StreamInOrder NothingForgotten
PROPERTIES Ordered CloseReported
CHECK_DEADLOCK FALSE
