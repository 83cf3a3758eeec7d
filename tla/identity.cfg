SPECIFICATION Spec
CONSTANTS
  a1 = a1
  a2 = a2
  c1 = c1
  c2 = c2
  Containers <- TwoAddresses
  AGENT_REGISTRY <- TwoServices
  Seed <- MCSeed
  NoImage = NoImage
  NoOne = NoOne
  NoToken = NoToken
  Attests = {a1, a2}
  Calls = {c1, c2}
  TTL = 0
  MaxClock = 1
  MaxKey = 2
SYMMETRY Symmetry
INVARIANTS TypeOK OneImagePerPin SeedDecides TokenIsOwn BoundToItsAddress
PROPERTIES RevocationIsBounded RefusedOnlyForAge
CHECK_DEADLOCK FALSE
