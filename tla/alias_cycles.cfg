SPECIFICATION Spec
CONSTANTS
  Types = {t1, t2}
  Kinds = {"fields", "alias"}
INVARIANTS
  CyclesBroken
CHECK_DEADLOCK FALSE
