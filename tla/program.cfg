CONSTANTS
    Self = Self
    k1 = k1
    k2 = k2
    Keys <- TwoKeys
    TTL = 1
    MaxEntries = 1
    CacheDir = TRUE
    DiskFaults = FALSE
    MaxCallTime = 0
    MaxTime = 1
    MaxStores = 2
    Empty = Empty
    Damaged = Damaged
    Timeout = 1
    MaxAddrs = 1
    Chunks = 1
    Statuses <- OneStatus
    MaxCalls = 2
    MaxElapsed = 40
    MemoryFaults = FALSE
    NULL = NULL
SPECIFICATION ProgramSpec
SYMMETRY Symmetry
INVARIANTS
    ProgramTypeOK
    AnswersAreSound
    ExitCodeTells
PROPERTIES
    NoNeedlessRequest
