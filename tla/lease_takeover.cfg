SPECIFICATION RetrySpec
CONSTANTS
    a = a
    b = b
    c = c
    here = here
    there = there
    NoFile = NoFile
    Workers = {a, b, c}
    Contenders = {a, b}
    Hosts = {here, there}
    HostOf <- OneHost
    Pids = {a, b, c}
    PidOf <- Recycle
    Tokened = {a, b, c}
    MayCrash = {a}
    Faults = {"slow", "disk", "sharing"}
INVARIANTS
    OwnerHasLease
PROPERTIES
    OwnershipHolds
    TakeoverOnlyFromDead
    WrittenLeaseReclaimed
