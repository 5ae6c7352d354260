SPECIFICATION Spec
CONSTANTS
  NFd = 3
  Len0 = 3
  Cap = 2
  OutOfMemory = FALSE
INVARIANTS
  FdsAccounted
  PendingIsArranged
  BytesExact
PROPERTY ReadyMoves
