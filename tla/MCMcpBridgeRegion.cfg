SPECIFICATION Spec
CONSTANTS
    Client = {"mcp", "cli"}
    Layouts <- MCOneLayout
    Profiles <- MCCustom
    Tools <- MCClickText
    Regions <- MCHalf
    Inputs = {"pointer"}
    WinAt = {0, 2}
    MouseAt = {1}
    MaxOthers = 1
INVARIANTS
    ClickTextLands
