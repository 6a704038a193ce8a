SPECIFICATION Spec
CONSTANTS
    Events = {e1, e2}
    Attempts = 3
INVARIANTS
    TypeOK
    CopiesExplained
PROPERTIES
    SettledStays
    DeliveryEnds
CHECK_DEADLOCK FALSE
