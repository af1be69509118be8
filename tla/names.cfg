CONSTANTS
    Block = 4
    LoSize = 8
    Requests <- SomeRequests
    Junk <- SomeJunk
    CityMax = 4
    KeyBuffer = 6
    PathMax = 9
    MaxRequests = 2
    MemoryFaults = TRUE
    NULL = NULL
SPECIFICATION Spec
CHECK_DEADLOCK FALSE
INVARIANTS
    TypeOK
    
    
    FileIsHashOfKey
PROPERTIES
    FoundInAnyCase
