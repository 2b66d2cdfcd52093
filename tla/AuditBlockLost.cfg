SPECIFICATION Spec
CONSTANTS
    Null = Null
    e1 = e1
    e2 = e2
    Event <- MCEvent
    KindOf <- MCKindOf
    ApiEvent <- MCNone
    BackfillBlocks = 3
    MaxBlock = 3
    MaxFaults = 0
    MaxCrashes = 0
INVARIANTS
    NoBlockLost
CHECK_DEADLOCK FALSE
