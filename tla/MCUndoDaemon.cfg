SPECIFICATION FairSpec
CONSTANTS
    c1 = c1
    c2 = c2
    w1 = w1
    w2 = w2
    Client = {c1, c2}
    Window = {w1, w2}
    Workspace <- MCWorkspace
    Gone = Gone
    Nobody = Nobody
    Capacity = 2
    Scenarios <- MCScenarios
INVARIANTS
    OneEntryPerEffect
    EntryTruthful
    TopIsLatest
    UndoUnwinds
PROPERTIES
    EveryRequestAnswered
CHECK_DEADLOCK FALSE
