SPECIFICATION Spec
CONSTANTS
    e1 = e1
    e2 = e2
    e3 = e3
    e4 = e4
    e5 = e5
    Entry <- MCEntry
    Capacity = 2
    InitialFiles <- MCInitialFiles
INVARIANTS
    MirrorsMemory
    UndoneOnce
PROPERTIES
    FileIntact
    ImplementsDurableStack
