SPECIFICATION FairSpec
CONSTANTS
    slack = slack
    kitty = kitty
    Configs <- MCConfigs
    UserKinds = {"openwindow", "movewindow"}
    Class = {slack, kitty}
    Decay = 2
    Lag <- MCLag
    ActionTime = 1
    MaxEvents = 2
INVARIANTS
    EchoesFireNothing
    GuardBalanced
PROPERTIES
    DropsHaveACause
    EngineHearsAgain
