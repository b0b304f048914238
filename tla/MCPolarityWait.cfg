\* Halves so short that tgpio_hw_periodic_invert waits for its limit.
CONSTANTS
    Shapes <- EvenAndUneven
    Firsts = {2}
    Wirings = {"loopback"}
    RefPhase = 0
    WorkLate = 0
    FlipWait = 30
    DrainWait = 12
    PollLate = 1
    Lead = 1
    Watch = 2
    MaxTime = 38
    MaxEvents = 1
SPECIFICATION Spec
PROPERTY RightMirrorKept
