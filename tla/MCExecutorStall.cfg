SPECIFICATION Safe
CONSTANTS
  Task = {t1, t2, t3}
  Slot = {s1}
  NoTask = NoTask
  HasPark = FALSE
  DriveAfterStall = TRUE
INVARIANT BlockOnReport
SYMMETRY Symmetry
