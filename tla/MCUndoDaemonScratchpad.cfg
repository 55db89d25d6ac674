SPECIFICATION Spec
CONSTANTS
    c1 = c1
    c2 = c2
    w1 = w1
    w2 = w2
    Client = {c1, c2}
    Window = {w1, w2}
    Workspace <- MCScratchpad
    Gone = Gone
    Nobody = Nobody
    Capacity = 2
    Scenarios <- MCCalm
INVARIANTS
    UndoUnwinds
CHECK_DEADLOCK FALSE
