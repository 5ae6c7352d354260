SPECIFICATION Spec
CONSTANTS
  Task = {t1, t2, t3}
  Slot = {s1, s2}
  NoTask = NoTask
  HasPark = TRUE
  DriveAfterStall = FALSE
INVARIANTS
  QueueSound
  NoLostWakeup
  BlockOnReport
PROPERTIES
  ImplementsScheduler
\* The caller may leave a stalled executor alone for good.
CHECK_DEADLOCK FALSE
