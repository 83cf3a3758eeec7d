SPECIFICATION Spec
CONSTANTS
  Requests <- MCRequests
  Listed <- MCListed
  ToAscii <- MCToAscii
  MaxPath = 4
  Encodings = {0, 5, 6}
  MaxQuery = 3
INVARIANTS SpellingIsIrrelevant  ListingCoversSubdomains TypoIsNotACard
CHECK_DEADLOCK FALSE
