SPECIFICATION Spec
CHECK_DEADLOCK FALSE
CONSTANTS
    User = {u1}
    NoUser = NoUser
    Sid = {s1, s2}
    NoSid = NoSid
    UserOf <- Owner
    Instance = {i1, i2}
    NoInstance = NoInstance
    Tab = {t1, t2}
    Browser = {b1}
    BrowserOf <- Shared
    MaxTokens = 4
    MaxRequests = 4
    MaxFaults = 1
SYMMETRY Perms
INVARIANTS
    SocketsAreAuthorised
    BanEndsSessions
    CookieIsKnown
PROPERTIES
    ContractSpec
