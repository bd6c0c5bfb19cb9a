CONSTANTS
  Threads = {t1, t2, t3}
  LastId = 2
  MaxTaken = 2
  Missing = Missing
  Empty = Empty
  Callers = {c1, c2, c3}
  Count = 2
  MaxPools = 2
  Users = {u1, u2, u3}
  Size = 2
  Wrap = 4
  MaxObject = 4
  Workers = {w1, w2}
  Pushers = {p1}
  Stopper = stopper
  Tasks = {k1, k2}
  Nested = k1
  Inner = inner
  Nobody = nobody
SPECIFICATION MCSpec
INVARIANTS
  
  AllocSucceeds
  UniqueUnlessRaced
  NoIdSkipped
PROPERTIES
  AllRun
  StopEnds
CHECK_DEADLOCK FALSE
