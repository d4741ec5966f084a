SPECIFICATION Spec
CONSTANTS
    a = a
    b = b
    NoFile = NoFile
    Bad = Bad
    Nobody = Nobody
    Procs = {a, b}
    Creator = a
    Savers = {}
    MayCrash = {a, b}
    Rot = {"primary", "backup"}
    DiskFull = TRUE
    MaxRev = 4
INVARIANTS
    OneRevisionBack
PROPERTIES
    HistoryHolds
