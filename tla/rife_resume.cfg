SPECIFICATION FairSpec
CONSTANTS
    Source = 12
    Target = 14
    Chunk = 3
    RateNum = 6
    RateDen = 5
    Legacy = TRUE
    MaxFaults = 3
INVARIANTS
    PlanIsExact
    CheckpointAgrees
    OnlyWholeDelivered
PROPERTIES
    CommittedStays
    Completes
CHECK_DEADLOCK FALSE
