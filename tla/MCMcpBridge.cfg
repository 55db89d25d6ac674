SPECIFICATION FairSpec
CONSTANTS
    Client = {"mcp", "cli"}
    Layouts <- MCLayouts
    Profiles <- MCProfiles
    Tools <- MCTools
    Regions <- MCNoRegion
    WinAt = {0, 4}
    MouseAt = {1}
    Inputs = {"closed", "pointer", "ydotool"}
    MaxOthers = 2
INVARIANTS
    AtMostOnce
    ClickLandsOnTarget
PROPERTIES
    BothGatesAgree
    RestartCostsOneCall
    EveryCallAnswered
