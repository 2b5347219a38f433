\* The janitor purges an expired item whose path a newer file took.
CONSTANTS
    NoPath = NoPath
    Path = {p1, p2}
    Keep = 1
    Overlap = FALSE
    Reuse = TRUE
    IOErrors = FALSE
    HistoryErrors = FALSE
    MaxItem = 2
    MaxData = 3
    MaxVid = 3
    MaxTrash = 2
    MaxCrash = 0
SPECIFICATION Spec
CHECK_DEADLOCK FALSE
PROPERTY
    JanitorSparesOccupant
