SPECIFICATION Spec
CONSTANTS
    a = a
    b = b
    c = c
    here = here
    there = there
    NoFile = NoFile
    Workers = {a, b, c}
    Contenders = {a, b, c}
    Hosts = {here, there}
    HostOf <- OneHost
    Pids = {a, b, c}
    PidOf <- OwnPids
    Tokened = {a, b, c}
    MayCrash = {a}
    Faults = {}
INVARIANTS
    OneLiveOwner
