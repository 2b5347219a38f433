\* Passes and edits exclude one another; every client keeps syncing.
CONSTANTS
    Client = {c1, c2}
    Races = FALSE
    LiveEdits = FALSE
    MaxEdits = 3
    MaxCopies = 3
    MaxFaults = 1
SPECIFICATION FairSpec
CHECK_DEADLOCK FALSE
INVARIANTS
    InSync
PROPERTIES
    Converges
