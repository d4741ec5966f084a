SPECIFICATION Spec
CONSTANTS
    Size <- MCSize
    Frames <- MCFrames
    Asked <- AllClips
    Edits = FALSE
    MaxRenders = 2
    Faults = {"media", "rife", "promotion", "late", "cancel"}
INVARIANTS
    InputPresentIfRegular
    PartialAsPlanned
    SdrStagesSeeSdr
    ScratchBounded
CHECK_DEADLOCK FALSE
