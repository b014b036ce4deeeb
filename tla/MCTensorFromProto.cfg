CONSTANTS
  MaxWord = 63
  SignedDims <- MCSignedDims
  Dims = {}
  Payloads <- MCPayloads
SPECIFICATION ProtoSpec
INVARIANTS
  ProtoTypeOK
  NoOverrun
  FullyWritten
  VerdictExact

