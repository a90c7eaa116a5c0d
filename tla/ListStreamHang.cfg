SPECIFICATION Spec
CONSTANTS
  PL = 3
  Sizes = {0, 1, 2, 3, 4, 7}
  MaxBytes = 12
INVARIANT CallsReturn
CHECK_DEADLOCK FALSE
