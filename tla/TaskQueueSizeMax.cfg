CONSTANTS
  Task = {t1, t2}
  NoTask = NoTask
  Capacity = 15
  SizeMod = 16
SPECIFICATION Spec
INVARIANT ExtraSlot
CHECK_DEADLOCK FALSE
