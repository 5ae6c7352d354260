SPECIFICATION Safe
CONSTANTS
  NFd = 3
  Len0 = 1
  Cap = 1
  OutOfMemory = TRUE
INVARIANT ReadinessIsPollable
CHECK_DEADLOCK FALSE
