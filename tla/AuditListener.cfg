SPECIFICATION MCFairSpec
CONSTANTS
    Null = Null
    e1 = e1
    e2 = e2
    Event <- MCEvent
    KindOf <- MCKindOf
    ApiEvent <- MCApi
    BackfillBlocks = 2
    MaxBlock = 2
    MaxFaults = 4
    MaxCrashes = 2
INVARIANTS
    AuditTypeOK
    BackfillIsComplete
    RecordedIsDurable
PROPERTIES
    DurableForever
    OutboxDrains
CHECK_DEADLOCK FALSE
