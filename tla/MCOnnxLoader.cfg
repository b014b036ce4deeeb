CONSTANTS
  x = x
  y = y
  w = w
  Name = {x, y, w}
  Empty = Empty
  Symbolic = Symbolic
  Missing = Missing
  MinOpset = 11
  MaxOpset = 17
  Models <- MCModels
SPECIFICATION Spec
INVARIANTS
  TypeOK
  OneVersion
PROPERTIES
  ImplementsLoaderSpec
