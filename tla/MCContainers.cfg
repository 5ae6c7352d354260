SPECIFICATION AllSpec
CONSTANTS
  Elem = {a, b}
  NULL = NULL
  Bits = 5
  MaxUsize = 31
  FirstCap = 2
  HeapMax = 8
  MaxAlign = 2
  Layout <- Layouts
  k1 = k1
  k2 = k2
  k3 = k3
  k4 = k4
  Key = {k1, k2, k3, k4}
  Val = {v1, v2}
  Hash <- Colliding
  Empty = Empty
  Tombstone = Tombstone
  InitialCap = 2
  MaxCap = 8
  Anchor = {h1, h2}
  Node = {n1, n2, n3, n4}
  Nil = Nil
  MaxCount = 7
  MaxRefs = 7
  Thread = {t1, t2, t3}
  First = t1
  t1 = t1
  MaxArcCount = 7
  NoThread = NoThread
  Ref = {r1, r2, r3}
INVARIANTS
  StorageSound
  TableSound
  ProbeEnds
  IterSeesAll
  PointersMatch
  RcReleasedOnce
  ArcReleasedOnce
  DestructorSeesAll
SYMMETRY Symmetry
VIEW NoResult
PROPERTIES
  ImplementsSequence
  IterNoRepeat
  ImplementsMap
\* Every reference may have been put.
CHECK_DEADLOCK FALSE
