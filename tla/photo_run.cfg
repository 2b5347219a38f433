\* A run may fail or die; photos are added, edited and deleted during it.
CONSTANTS
    Photo = {1, 2}
    Sec = 2
    Day = 20
    Limit = 1
    Ties = FALSE
    Fresh = FALSE
    MaxSecond = 5
    MaxEdits = 1
    MaxFaults = 2
SPECIFICATION FairSpec
CHECK_DEADLOCK FALSE
INVARIANTS
    TypeOK
    NoPhotoSkipped
    FailuresRetried
PROPERTIES
    CleanRunSettles
    BackedUp
