SPECIFICATION Spec
CONSTANTS
    Socket = {w1, w2}
    NoSocket = NoSocket
    MaxLoops = 2
INVARIANTS
    SocketsAreAccounted
    OffIsOff
    NeverStranded
    WaitersAreServed
    OneLoop
PROPERTY KeepsTrying
