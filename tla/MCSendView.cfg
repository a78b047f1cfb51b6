SPECIFICATION Spec
CHECK_DEADLOCK FALSE
CONSTANTS
    MaxSends = 2
    MaxDown = 2
    MaxEvents = 1
INVARIANTS
    NothingVanishes
    TicksAreBacked
    DoubleIsExplained
PROPERTIES
    OutboxDrains
