CONSTANTS
    n1 = n1
    n2 = n2
    n3 = n3
    n4 = n4
    n5 = n5
    x1 = x1
    x2 = x2
    Nodes <- FiveNodes
    Items <- TwoItems
    MemoryFaults = TRUE
    NULL = NULL
SPECIFICATION Spec
SYMMETRY Symmetry
INVARIANTS
    TypeOK
    Linked
    InBounds
PROPERTIES
    ImplementsItemList
