SPECIFICATION Spec
CHECK_DEADLOCK FALSE
CONSTANTS
    User = {s, u1, u2}
    Sender = s
    NoUser = NoUser
    RoomId = {r1}
    Room = r1
    ClientId = {c1}
    MaxMessages = 1
    MaxMoves = 3
    MaxFaults = 1
SYMMETRY Perms
INVARIANTS
    CountIsBacked
    CompleteIsHonest
    AnsweredIsStored
