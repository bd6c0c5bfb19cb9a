CONSTANTS
  Ports = {p, q}
  Taken = {q}
  Pollers = {a}
  MaxStarts = 2
  Hosts = {h1, h2, h3}
  Setter = h1
  NoThread = NoThread
  Owners = {o1}
  TimerIds = {1, 2}
  MaxTasks = 2
  NoTask = 0
  Keys = {1, 2, 3}
  Values = {v1, v2, big}
  TooBig = {big}
  Sides = {"left", "right"}
  Turn <- Round
  MaxFields = 2
  MaxWaiting = 3
  MaxElements = 4
  MaxUpdate = 1
  NoField = NoField
SPECIFICATION MCSpec
SYMMETRY Symmetry
INVARIANTS
  
  KilledIsSilent
  SafeUnlessStray
  LatestWins
CHECK_DEADLOCK FALSE
