\* Two callers, three calls; a cycle lasts 20/3 ns.
CONSTANTS
    NsecPerSec = 20
    Word = 1024
    SafeTime = 3
    Callers = {c1, c2}
    Frequencies = {3}
    MaxRate = 2
    Deltas = {300}
    Times = {60}
    Unit = 6
    MaxArt = 3
    MaxCalls = 3
SYMMETRY Symmetry
SPECIFICATION Spec
INVARIANTS TypeOK TracksIdeal OutputsFollowClock
