CONSTANTS
  a = a
  b = b
  s = s
  w = w
  Name = {a, b, s, w}
  Empty = Empty
  Graphs <- MCGraphs
SPECIFICATION Spec
INVARIANTS
  TypeOK
  VerdictExact

