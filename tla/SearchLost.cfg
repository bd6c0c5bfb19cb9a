CONSTANTS
  p1 = p1
  p2 = p2
  p3 = p3
  a = a
  b = b
  Nodes = {1, 2}
  Points = {p1, p2, p3}
  Lines = {a, b}
  Worlds <- MCWorlds
  MaxRoutes = 3
  None = None
  NodeIds = {1, 2, 3}
  Wait = 1
  MaxDown = 2
  NoNode = NoNode
SPECIFICATION MCSpec
INVARIANTS
  NothingLost
CHECK_DEADLOCK FALSE
