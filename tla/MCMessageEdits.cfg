SPECIFICATION Spec
CHECK_DEADLOCK FALSE
CONSTANTS
    OwnerTab = {a1}
    PeerTab = {b1}
    Text = {x, y}
    FirstText = x
    NoText = NoText
    Skew <- AheadSkew
    MaxOps = 2
    MaxEvents = 2
INVARIANTS
    PeersAgree
    PeersFollow
    ShownIsStored
    DeletedIsTrue
