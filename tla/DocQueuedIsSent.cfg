SPECIFICATION QueueSpec
CHECK_DEADLOCK FALSE
CONSTANTS
    MaxQueue = 3
    MaxOverflows = 2
    Threshold = 3
    Drain = {d1, d2}
    MaxFrames = 4
PROPERTIES
    QueuedIsSent
