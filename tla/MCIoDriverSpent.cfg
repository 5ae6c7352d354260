SPECIFICATION Safe
CONSTANTS
  d1 = d1
  d2 = d2
  Fd = {d1, d2}
  f1 = f1
  f2 = f2
  Fut = {f1, f2}
  NoFut = NoFut
  Targets <- Pairs
  MaxEvents = 1
  MaxWaits = 1
PROPERTIES
  DropCancelsOwnSlot
