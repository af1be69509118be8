CONSTANTS
    Timeout = 1
    MaxAddrs = 1
    Chunks = 1
    Statuses <- SomeStatuses
    MemoryFaults = FALSE
    MaxCalls = 2
    MaxElapsed = 40
    NULL = NULL
SPECIFICATION Spec
CHECK_DEADLOCK FALSE
INVARIANTS
    AllBodiesFreed
