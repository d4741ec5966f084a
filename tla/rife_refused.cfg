SPECIFICATION Spec
CONSTANTS
    Source = 9
    Target = 11
    Chunk = 3
    RateNum = 6
    RateDen = 5
    Legacy = FALSE
    MaxFaults = 1
INVARIANTS
    Resumable
CHECK_DEADLOCK FALSE
