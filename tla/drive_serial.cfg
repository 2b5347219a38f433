\* One request or janitor pass at a time, with crashes between their steps.
CONSTANTS
    NoPath = NoPath
    Path = {p1, p2}
    Keep = 1
    Overlap = FALSE
    Reuse = TRUE
    IOErrors = TRUE
    HistoryErrors = TRUE
    MaxItem = 2
    MaxData = 2
    MaxVid = 3
    MaxTrash = 1
    MaxCrash = 1
SPECIFICATION Spec
SYMMETRY PathSymmetry
CHECK_DEADLOCK FALSE
INVARIANT
    IndexSound
PROPERTIES
    ContentKept
    PruneKeepsNewest
    LaterVersionsStay
