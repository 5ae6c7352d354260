SPECIFICATION SmSpec
CONSTANTS
  c1 = c1
  c2 = c2
  c3 = c3
  Leaf = {c1, c2, c3}
  Null = Null
  NStates = 3
INVARIANTS
  MachineSound
  PendingIsArranged
PROPERTIES
  SmMovesOn
\* A dropped machine takes no more steps.
CHECK_DEADLOCK FALSE
