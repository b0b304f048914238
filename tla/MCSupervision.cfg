\* A fast and a slow output looped back, requested, stopped, flipped and stalled.
CONSTANTS
    Shapes <- EvenAndUneven
    Firsts = {2}
    Wirings = {"loopback"}
    RefPhase = 0
    WorkLate = 0
    FlipWait = 12
    DrainWait = 12
    PollLate = 1
    Lead = 1
    Watch = 2
    MaxTime = 24
    MaxEvents = 3
SPECIFICATION Spec
INVARIANTS TypeOK InvertedFoundOut WarnsOncePerStall
PROPERTIES RightMirrorKept WarnsOnlyDead
