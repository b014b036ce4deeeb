CONSTANTS
  t1 = t1
  t2 = t2
  t3 = t3
  t4 = t4
  Name = {t1, t2, t3, t4}
  Empty = Empty
  Graphs <- MCGraphs
SPECIFICATION Spec
INVARIANTS
  TypeOK
  InDegreesCount
  QueuedOnce
  PredsFirst
  LeftoverExact
  FifoOrder
  VerdictExact
PROPERTIES
  ImplementsTopoSpec
