\* Two names, two levels; every request on every path.
CONSTANTS
    Name = {a, b}
    Up = Up
    Dot = Dot
    Foul = Foul
    MaxDepth = 2
    MaxWrites = 4
    MaxTrash = 1
    MaxDirs = 3
    Twins = FALSE
    MaxCopies = 1
SPECIFICATION Spec
SYMMETRY NameSymmetry
CHECK_DEADLOCK FALSE
INVARIANTS
    TypeOK
    HistoryFollows
PROPERTIES
    HistoryKept
    CopyFaithful
