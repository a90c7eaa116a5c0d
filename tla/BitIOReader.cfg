SPECIFICATION Spec
CONSTANTS
  PL = 4
  PK = 3
  Size = 18
  Upper = 17
  Chunks = {3, 5}
  Parts = {1, 3}
  Starts = {1, 8}
INVARIANT CachedIntact
CHECK_DEADLOCK FALSE
