CONSTANTS
    Timeout = 2
    MaxAddrs = 2
    Chunks = 2
    Statuses <- SomeStatuses
    MemoryFaults = TRUE
    MaxCalls = 2
    MaxElapsed = 40
    NULL = NULL
SPECIFICATION Spec
CHECK_DEADLOCK FALSE
INVARIANTS
    TypeOK
    DescriptorsClosed
    BodyOfThisCall
    
    CallTime

    
