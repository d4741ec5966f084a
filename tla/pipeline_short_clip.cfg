SPECIFICATION Spec
CONSTANTS
    Size <- MCSize
    Frames <- MCFrames
    Asked <- ShortClips
    Edits = FALSE
    MaxRenders = 1
    Faults = {}
INVARIANTS
    InputPresent
CHECK_DEADLOCK FALSE
