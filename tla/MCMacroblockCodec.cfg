SPECIFICATION Spec
CONSTANTS
  Jobs <- MCJobs
  ResetPeriod = 2
INVARIANTS
  InStep
  Decoded
CHECK_DEADLOCK FALSE
