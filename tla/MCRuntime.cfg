SPECIFICATION Spec
CONSTANTS
  Task = {t1, t2}
  NoTask = NoTask
  Dur = {1, 2}
  MaxU64 = 15
INVARIANT OnTime
PROPERTIES
  StopsClean
  RunEnds
\* The caller may be through with every task.
CHECK_DEADLOCK FALSE
