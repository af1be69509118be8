CONSTANTS
    Self = Self
    k1 = k1
    k2 = k2
    Keys <- OneKey
    TTL = 1
    MaxEntries = 1
    CacheDir = TRUE
    DiskFaults = TRUE
    MaxCallTime = 0
    MaxTime = 0
    MaxStores = 2
    Empty = Empty
    Damaged = Damaged
    Timeout = 1
    MaxAddrs = 1
    Chunks = 1
    Statuses <- OneStatus
    MaxCalls = 1
    MaxElapsed = 40
    MemoryFaults = TRUE
    NULL = NULL
SPECIFICATION ProgramSpec
INVARIANTS
    AnswersAreSound

    
