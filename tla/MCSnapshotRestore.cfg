SPECIFICATION RestoreSpec
CONSTANTS
    w1 = w1
    w2 = w2
    w3 = w3
    pid1 = pid1
    pid2 = pid2
    editor = editor
    viewer = viewer
    Address = {w1, w2, w3}
    PidOf <- MCPidOf
    IdOf <- MCIdOf
    Nobody = Nobody
    Saved = Saved
    Start <- MCStart
    DiskMayFail = TRUE
    Faults = TRUE
    MaxChanges = 3
    MaxSeconds = 2
INVARIANTS
    
    FocusRestored
    
CHECK_DEADLOCK FALSE
