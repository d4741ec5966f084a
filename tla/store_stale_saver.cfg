SPECIFICATION Spec
CONSTANTS
    a = a
    b = b
    NoFile = NoFile
    Bad = Bad
    Nobody = Nobody
    Procs = {a, b}
    Creator = a
    Savers = {a, b}
    MayCrash = {a, b}
    Rot = {}
    DiskFull = TRUE
    MaxRev = 3
PROPERTIES
    StaleSaverRejected
