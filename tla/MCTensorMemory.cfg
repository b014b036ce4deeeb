CONSTANTS
  h1 = h1
  h2 = h2
  h3 = h3
  Handle = {h1, h2, h3}
  b1 = b1
  b2 = b2
  Block = {b1, b2}
  blob = blob
  Blob = {blob}
  Null = Null
SPECIFICATION Spec
SYMMETRY Interchangeable
INVARIANTS
  TypeOK
  BlocksLiveWhileShared
  BlobsNeverFreed
  BytesHaveABuffer
  ReadAsWritten
