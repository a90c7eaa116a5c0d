SPECIFICATION Spec
CONSTANTS
  Files <- MCFiles
  ChunkBytes = 1
  Threads = 2
  MaxCalls = 3
  MaxLocks = 1
INVARIANT AssertionsHold
INVARIANT DecodedWhole
INVARIANT NoWorkLost
INVARIANT PendingHasJob
PROPERTY AskedIsDecoded
