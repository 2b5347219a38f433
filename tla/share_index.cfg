\* Two visits, an owner's changes, a deletion, an expiry and a fault, in any order.
CONSTANTS
    User = {u1}
    Share = {s1}
    Conn = {c1, c2}
    Admin = Admin
    NoConn = NoConn
    NoUser = NoUser
    MaxTime = 2
    MaxFaults = 1
SPECIFICATION FairSpec
CHECK_DEADLOCK FALSE
INVARIANTS
    TypeOK
    ServedWasLive
    LiveShareFound
    FreshIndexAgrees
PROPERTY
    EveryoneAnswered
