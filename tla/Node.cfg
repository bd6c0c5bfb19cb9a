CONSTANTS
  Nodes = {1, 2}
  SuperSpan = 2
  IndexSpan = 3
  MaxCount = 2
  MaxGrants = 3
  Sdks = {"java"}
  Missing = Missing
  Unreadable = Unreadable
  PointIds = {p1, p2}
  LineIds = {l}
  Edges = {e}
  Fields = {}
  MaxRecords = 3
  MaxEdges = 2
  MaxFaults = 2
  None = None
  IntNames = {"number"}
  TextNames = {"text"}
  Numbers = {0, 3, 6}
  Texts <- ShortTexts
  IntBits = 3
  MaxFilters = 2
  Absent = Absent
SPECIFICATION MCSpec
SYMMETRY Symmetry
INVARIANTS
  UniqueIds
  Inv
  
  
CHECK_DEADLOCK FALSE
