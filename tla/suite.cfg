SPECIFICATION Spec
CONSTANTS
  Attacks <- SharedWorkload
  MaxEarlier = 2
  MaxFaults = 1
  NoRow = NoRow
INVARIANTS
  TypeOK
  VerifiedIsEarned
  MismatchHasCause
PROPERTY
  SuiteEnds
CHECK_DEADLOCK FALSE
