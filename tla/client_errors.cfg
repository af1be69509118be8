CONSTANTS
    Self = Self
    k1 = k1
    k2 = k2
    Keys <- OneKey
    TTL = 1
    MaxEntries = 1
    CacheDir = TRUE
    DiskFaults = FALSE
    MaxCallTime = 0
    MaxTime = 2
    MaxStores = 2
    Empty = Empty
    Damaged = Damaged
    Timeout = 1
    MaxAddrs = 1
    Chunks = 1
    Statuses <- TwoStatuses
    MaxCalls = 2
    MaxElapsed = 40
    MemoryFaults = FALSE
    NULL = NULL
SPECIFICATION Spec
INVARIANTS
    CachesSuccesses
