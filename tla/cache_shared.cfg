CONSTANTS
    p1 = p1
    p2 = p2
    k1 = k1
    k2 = k2
    Procs <- Pair
    Keys <- TwoKeys
    TTL = 1
    MaxEntries = 1
    CacheDir = TRUE
    MemoryFaults = FALSE
    DiskFaults = FALSE
    MaxCallTime = 1
    MaxTime = 5
    MaxStores = 2
    NULL = NULL
    Empty = Empty
    Damaged = Damaged
SPECIFICATION Spec
SYMMETRY Symmetry
INVARIANTS
    TypeOK
    UniqueKeys
    CreationOrder
    BoundedStaleness
    ClearIsFinal
