SPECIFICATION Spec
CHECK_DEADLOCK FALSE
CONSTANTS
    User = {"u1"}
    Sid = {"s1", "s2"}
    NoSid = NoSid
    UserOf <- Owner
    MaxSockets = 2
    MaxConnections = 5
INVARIANTS
    SessionsMatchSockets
    PresenceIsJustified
PROPERTIES
    GoneIsNoticed
