SPECIFICATION Spec
CONSTANTS
  PL = 4
  PK = 3
  Chunks <- MCChunks
  Images <- AlphaImages
INVARIANT RowTransformedOnce
CHECK_DEADLOCK FALSE
