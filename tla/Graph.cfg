CONSTANTS
  j = j
  c = c
  p1 = p1
  p2 = p2
  l1 = l1
  l2 = l2
  n1 = n1
  n2 = n2
  Clients = {j, c}
  Points = {p1, p2}
  Lines = {l1, l2}
  None = None
  Sdk <- MCSdk
  Owner <- MCOwner
SPECIFICATION Spec
INVARIANTS
  FoundBothWays
  SuccessMeansLinked
  CleanFailure
PROPERTIES
  Promised
