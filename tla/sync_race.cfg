\* Clients, devices and users interleave; a pass may be cut short.
CONSTANTS
    Client = {c1, c2}
    Races = TRUE
    LiveEdits = TRUE
    MaxEdits = 3
    MaxCopies = 1
    MaxFaults = 1
SPECIFICATION Spec
CHECK_DEADLOCK FALSE
SYMMETRY ClientSymmetry
INVARIANTS
    TypeOK
PROPERTIES
    NothingLost
    ConflictKeepsBoth
    NoEcho
