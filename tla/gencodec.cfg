SPECIFICATION Spec
CONSTANTS
  Types <- MCTypes
  MaxElements = 3
  Values <- MCValues
  Documents <- MCDocuments
INVARIANTS
  WritesStandard
  ValueReturns
  EachChildOnce
CHECK_DEADLOCK FALSE
