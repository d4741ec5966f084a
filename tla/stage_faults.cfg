SPECIFICATION FairSpec
CONSTANTS
    a = a
    b = b
    first = first
    second = second
    Owners = {a, b}
    Units = {first, second}
    Exclusive = TRUE
    MaxFaults = 3
INVARIANTS
    CommittedIsGood
    Adoptable
PROPERTIES
    CommittedForever
    Converges
