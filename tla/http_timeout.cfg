CONSTANTS
    Timeout = 2
    MaxAddrs = 2
    Chunks = 1
    Statuses <- SomeStatuses
    MemoryFaults = FALSE
    MaxCalls = 1
    MaxElapsed = 40
    NULL = NULL
SPECIFICATION Spec
CHECK_DEADLOCK FALSE
INVARIANTS
    RequestTimeout
