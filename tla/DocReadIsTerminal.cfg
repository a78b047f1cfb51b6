CONSTANTS
    Mid = {1}
    Cmid = {c1}
    NoMid = 0
    NoCmid = NoCmid
    Task = {t1, t2}
    ReplayLimit = 2
    Faults = {"crash"}
    MaxRequests = 4
    MaxFaults = 0
SPECIFICATION Spec
PROPERTIES ReadIsTerminal
CHECK_DEADLOCK FALSE
