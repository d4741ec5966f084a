SPECIFICATION MCSpec
CONSTANTS
    a = a
    b = b
    halt = halt
    stop = stop
    quit = quit
    Nobody = Nobody
    Workers = {a, b}
    Commands = {halt, stop, quit}
    KindOf <- HaltStopQuit
    MayCrash = TRUE
    DiskFull = TRUE
    Takeover = FALSE
    Unreadable = {stop, quit}
INVARIANTS
    AnsweredAndAtRest
PROPERTIES
    HandledOnce
    CancelKept
    PauseKept
