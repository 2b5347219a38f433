\* One administrator, one name used again, one estate identity, two requests.
CONSTANTS
    Root = Root
    Name = {bob}
    Shadow = Shadow
    Deputy = {}
    Keeper = {bob}
    Conn = {c1, c2}
    NoUser = NoUser
    NoSession = NoSession
    NoName = NoName
    TTL = 3
    EstateExp = 2
    MaxUid = 3
    MaxSession = 2
    MaxTime = 4
SPECIFICATION Spec
SYMMETRY ConnSymmetry
CHECK_DEADLOCK FALSE
INVARIANT TypeOK
PROPERTIES
    FilesStay
    LoggedOutStaysOut
    ActiveStaysIn
