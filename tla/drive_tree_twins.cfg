\* Two directories whose names differ only by case.
CONSTANTS
    Name = {a, b}
    Up = Up
    Dot = Dot
    Foul = Foul
    MaxDepth = 2
    MaxWrites = 4
    MaxTrash = 1
    MaxDirs = 3
    Twins = TRUE
    MaxCopies = 1
SPECIFICATION Spec
SYMMETRY NameSymmetry
CHECK_DEADLOCK FALSE
INVARIANT
    HistoryFollows
