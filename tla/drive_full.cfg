\* Everything at once: the janitor overlaps requests, the server may crash.
CONSTANTS
    NoPath = NoPath
    Path = {p1, p2}
    Keep = 1
    Overlap = TRUE
    Reuse = TRUE
    IOErrors = TRUE
    HistoryErrors = FALSE
    MaxItem = 2
    MaxData = 2
    MaxVid = 2
    MaxTrash = 2
    MaxCrash = 1
SPECIFICATION Spec
SYMMETRY PathSymmetry
CHECK_DEADLOCK FALSE
INVARIANTS
    TypeOK
    InFlight
    OnePlace
PROPERTIES
    NeverVanishes
    PurgeTakesListed
    ImplementsVault
