SPECIFICATION Spec
CONSTANT MaxPends = 2
INVARIANTS
  ChildrenOwned
  OutputRight
PROPERTIES
  WakeReachesChild
  KeepsContract
  Completes
\* A dropped node takes no more steps.
CHECK_DEADLOCK FALSE
