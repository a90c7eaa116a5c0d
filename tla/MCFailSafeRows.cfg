SPECIFICATION FairSpec
CONSTANTS
  PL = 4
  PK = 3
  Chunks <- MCChunks
  Images <- MCImages
INVARIANT BitsIntact
INVARIANT ContextInStep
INVARIANT RowTransformedOnce
INVARIANT NeverDiscardedEarly
INVARIANT AllRowsOut
PROPERTY CallReturns
CHECK_DEADLOCK FALSE
