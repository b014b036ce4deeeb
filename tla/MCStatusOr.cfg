CONSTANTS
  Object = {a, b, c}
  Value = {u, v}
  ErrorCode = {kModelLoad}
  Absent = Absent
SYMMETRY ObjectsAndValues
SPECIFICATION Spec
INVARIANTS
  TypeOK
  ReadsWhatWasGiven
  StatusAgrees
  FailureArrives
