SPECIFICATION Spec
CHECK_DEADLOCK FALSE
CONSTANTS
    User = {u1, u2, u3}
    RoomId = {r1}
    MaxWrites = 5
    MaxFaults = 1
SYMMETRY Perms
INVARIANTS
    IndexMatches
    OwnershipIsExplained
    QuietStoreIsCurrent
PROPERTIES
    ContractSpec
