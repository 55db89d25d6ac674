SPECIFICATION FairSpec
CONSTANTS
    r1 = r1
    r2 = r2
    task = task
    Reader = {r1}
    Task = task
    Cell = {"clients", "active_workspace"}
    Kinds = {"structure", "focus", "title", "unrecognised"}
    MaxAge = 2
    QueryTime = 1
    MaxChanges = 2
INVARIANTS
    HitsAreRecent
PROPERTIES
    OnlyRacesEscape
    EventuallyCurrent
