\* Words of 10 bits and seconds of 20 ns, which fit in them squared.
CONSTANTS
    NsecPerSec = 20
    Word = 1024
    SafeTime = 3
    Frequencies = {1, 2, 3}
    MaxRate = 2
    Anchors = {0, 7, 100}
    Intervals = {1, 2, 3, 5, 8, 20}
SPECIFICATION Sweep
INVARIANTS RescaleExact RoundTrip AlignsOnGrid WakesFollowEdges
