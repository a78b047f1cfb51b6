CONSTANTS
    Mid = {1, 2}
    Cmid = {c1}
    NoMid = 0
    NoCmid = NoCmid
    Task = {t1, t2}
    ReplayLimit = 1
    Faults = {"crash", "db", "socket", "disconnect", "overflow", "timeout"}
    MaxRequests = 3
    MaxFaults = 1
SPECIFICATION Spec
SYMMETRY Handlers
INVARIANTS AckNamesStoredRow OneIdPerClientId UnheldIsReplayable RecordBehindDeliveries SentIsWatched ReceiptsAreHonest
PROPERTIES ContractSpec RecordNeverRegresses
CHECK_DEADLOCK FALSE
