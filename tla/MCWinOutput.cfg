CONSTANTS
    Halves = {2, 7, 8}
    Firsts = {0, 5}
    Max = 31
    Delay = 1
    Margin = 2
    AutoStart = 3
    Stall = 1
    InvertGap = FALSE
    MaxTime = 21
    MaxCalls = 3
SPECIFICATION Spec
INVARIANTS TypeOK QuietAfterUnload
PROPERTIES MirrorsParity RisesOnGrid
