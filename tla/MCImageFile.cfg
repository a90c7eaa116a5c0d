CONSTANTS
    Jobs <- TestJobs
    MaxBand = 3
SPECIFICATION Spec
INVARIANT HeadersAgree
INVARIANT PacketsFound
INVARIANT MetadataIntact
INVARIANT NothingOverwritten
CHECK_DEADLOCK FALSE
