CONSTANTS
    p1 = p1
    p2 = p2
    k1 = k1
    k2 = k2
    Procs <- One
    Keys <- TwoKeys
    TTL = 2
    MaxEntries = 1
    CacheDir = TRUE
    MemoryFaults = FALSE
    DiskFaults = FALSE
    MaxCallTime = 1
    MaxTime = 5
    MaxStores = 4
    NULL = NULL
    Empty = Empty
    Damaged = Damaged
SPECIFICATION Spec
INVARIANTS
    BackedByFile
PROPERTIES
    ImplementsStore
    LookupKeepsValidFiles
