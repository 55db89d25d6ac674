SPECIFICATION Spec
CONSTANTS
    Parts = {"calls", "keys", "text", "files", "names"}
    Profiles <- MCProfiles
    MaxRecorded = 2
    Hands = {h1, h2}
    Chords <- MCChords
    Binds <- MCBinds
    Capital <- MCCapital
    MaxPresses = 3
    Confidence = 50
    Fold <- MCFold
    Pages <- MCPages
    Queries <- MCQueries
    Savers = {c1, c2, c3}
    Names <- MCNames
    MaxName = 2
    MaxSaves = 4
    Workspaces <- MCWorkspaces
    Windows <- MCWindows
INVARIANTS
    
    OnlyAskedForChanges
    ChordIsWhole
    NothingStaysDown
    RunBindIsThePress
    TextIsFound
    SavedIsKept
    NamesSurvive
