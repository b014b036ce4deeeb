CONSTANTS
  MaxWord = 63
  SignedDims <- MCSignedDims
  Dims <- MCDims
SPECIFICATION Spec
INVARIANT FailsOnlyOnOverflow
