SPECIFICATION Spec
CONSTANTS
  c1 = c1
  c2 = c2
  c3 = c3
  c4 = c4
  Calls = {c1, c2, c3}
  DENIAL_WINDOW = 1
  DENIAL_THRESHOLD = 3
  MaxClock = 1
SYMMETRY Symmetry
INVARIANT ThresholdIsReported
CHECK_DEADLOCK FALSE
