CONSTANTS
  x = x
  y = y
  w = w
  Name = {x, y, w}
  Empty = Empty
  Symbolic = Symbolic
  Missing = Missing
  MinOpset = 11
  MaxOpset = 17
  Byte = {0, 1}
  Zero = 0
  MaxLen = 3
  Limits = {0, 2, 3}
  IntMax = 2
  Parses <- MCParses
  ModelOf <- MCModelOf
  NoModel = NoModel
SPECIFICATION PipeSpec
INVARIANTS
  TypeOK
  WithinLimit
  NoInventedBytes
  AppendsAreHarmless
  FirstFailureEnds
  OrderFitsTheFile
  ErrorsFitTheFile
PROPERTIES
  Answered
