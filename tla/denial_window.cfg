SPECIFICATION Spec
CONSTANTS
  c1 = c1
  c2 = c2
  c3 = c3
  c4 = c4
  Calls = {c1, c2, c3, c4}
  DENIAL_WINDOW = 1
  DENIAL_THRESHOLD = 3
  MaxClock = 3
SYMMETRY Symmetry
INVARIANTS TypeOK CrossingIsReal ExactWhenAlone
CHECK_DEADLOCK FALSE
