CONSTANTS
  Task = {t1, t2}
  NoTask = NoTask
  Capacity = 3
  SizeMod = 16
SPECIFICATION Spec
INVARIANT TypeOK
INVARIANT FullAndEmptyExact
PROPERTY ImplementsFifo
CHECK_DEADLOCK FALSE
