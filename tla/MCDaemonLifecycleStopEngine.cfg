SPECIFICATION FairSpec
CONSTANTS
    d1 = d1
    d2 = d2
    d3 = d3
    Daemon = {d1}
    HasEngine = TRUE
    Overlap = {"start", "stop"}
    MayCrash = FALSE
    MaxStops = 1
PROPERTIES
    ShutdownHonoured
CHECK_DEADLOCK FALSE
