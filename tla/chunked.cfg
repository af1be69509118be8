CONSTANTS
    CR = "CR"
    LF = "LF"
    MaxParts = 5
    Bodies <- ShortBodies
    Strtoul <- HexNumber
    FirstAlloc = 1
    MemoryFaults = TRUE
    NULL = NULL
SPECIFICATION Spec
CHECK_DEADLOCK FALSE
INVARIANTS
    TypeOK
    DecodesMeaning
    RoomForText
PROPERTIES
    Returns
