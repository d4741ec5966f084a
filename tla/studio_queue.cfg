SPECIFICATION FairSpec
CONSTANTS
    MaxItems = 2
    MaxLives = 2
    Outputs <- MCOutputs
    Lives <- MCLives
    Impatient = FALSE
INVARIANTS
    PartialReferenced
    NeverBroken
PROPERTIES
    DoneIsDelivered
    Settles
