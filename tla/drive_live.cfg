\* The janitor overlaps requests; a path is reused only once its history is gone.
CONSTANTS
    NoPath = NoPath
    Path = {p1, p2}
    Keep = 1
    Overlap = TRUE
    Reuse = FALSE
    IOErrors = TRUE
    HistoryErrors = TRUE
    MaxItem = 2
    MaxData = 3
    MaxVid = 2
    MaxTrash = 1
    MaxCrash = 1
SPECIFICATION FairSpec
CHECK_DEADLOCK FALSE
INVARIANT
    HistoryFollowsFile
PROPERTY
    ExpiredIsPurged
