SPECIFICATION Spec
CONSTANTS
  Sleep = {a, b, c}
  Dur = {0, 2, 14}
  MaxU64 = 15
  Start = 1
  Late = 1
  Horizon = 3
INVARIANTS
  TimersSound
  PendingIsArranged
  NotEarly
PROPERTIES
  ParkWakes
  SleepsEnd
\* Everything may have been polled and dropped.
CHECK_DEADLOCK FALSE
