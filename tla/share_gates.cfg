\* Two requests unlock two shares, with right and wrong passwords.
CONSTANTS
    Share = {s1, s2}
    Visitor = {v1}
    Conn = {c1, c2}
    NoVisitor = NoVisitor
    NoShare = NoShare
    Cap = 2
    TTL = 2
    Limit = 2
    Window = 1
    MaxTime = 4
    MaxGrant = 3
    MaxRestart = 1
SPECIFICATION Spec
SYMMETRY GateSymmetry
CHECK_DEADLOCK FALSE
INVARIANTS
    TypeOK
    AdmitsHolders
    EntitledKept
    GuessesBounded
