SPECIFICATION FairSpec
CONSTANTS
    d1 = d1
    d2 = d2
    d3 = d3
    Daemon = {d1, d2, d3}
    HasEngine = TRUE
    Overlap = {}
    MayCrash = TRUE
    MaxStops = 1
INVARIANTS
    OneDaemon
    ServingIsReachable
PROPERTIES
    ShutdownReachesOne
    SignalHonoured
CHECK_DEADLOCK FALSE
