SPECIFICATION Spec
CONSTANTS
  Types = {t1, t2, t3}
  Kinds = {"fields", "list"}
INVARIANTS
  GrayIsPath
  CyclesBroken
  BoxedAreRecursive
PROPERTIES
  SearchEnds
CHECK_DEADLOCK FALSE
