SPECIFICATION Spec
CONSTANTS
  c1 = c1
  c2 = c2
  c3 = c3
  Calls = {c1, c2, c3}
  Requests <- MCRequests
  Baseline <- MCBaseline
  NoTool = NoTool
  NoDestination = NoDestination
  RATE_WINDOW = 1
  RATE_THRESHOLD = 2
  MaxClock = 2
SYMMETRY Symmetry
INVARIANTS TypeOK ExactWhenAlone LearnedForGood RateIsReal StreakIsEarned
CHECK_DEADLOCK FALSE
