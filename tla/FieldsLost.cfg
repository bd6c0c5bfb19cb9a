CONSTANTS
  Keys = {1, 2}
  Values = {v1, v2, big}
  TooBig = {big}
  Sides = {"left", "right"}
  Turn <- TwoKeys
  MaxFields = 2
  MaxWaiting = 3
  MaxElements = 3
  MaxUpdate = 2
  NoField = NoField
SPECIFICATION FieldSpec
PROPERTIES
  SuccessMeansSet
CHECK_DEADLOCK FALSE
