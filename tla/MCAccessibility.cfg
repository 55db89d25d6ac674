SPECIFICATION A11yFairSpec
CONSTANTS
    Client = {"a", "b"}
    Node <- MCNode
    Trees <- MCTrees
    Roots <- MCRoots
    Null = "null"
    Asks <- MCAsks
    MaxDepth = 2
    MaxRequests = 3
    MaxRestarts = 1
    MaxTreeChanges = 1
INVARIANTS
    WalkIsPreorder
    WalkBounded
    ConnectsOnce

    
CHECK_DEADLOCK FALSE
