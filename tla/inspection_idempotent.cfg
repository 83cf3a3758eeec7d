SPECIFICATION Spec
CONSTANTS
  Requests <- MCRequests
  Listed <- MCListed
  ToAscii <- MCToAscii
  MaxPath = 2
  Encodings = {0, 1}
  MaxQuery = 1
INVARIANT NormalizationIsIdempotent
CHECK_DEADLOCK FALSE
