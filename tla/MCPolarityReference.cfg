\* An output on the slots between the edges of an external reference.
CONSTANTS
    Shapes <- EvenAndUneven
    Firsts = {2}
    Wirings = {"reference"}
    RefPhase = 0
    WorkLate = 0
    FlipWait = 12
    DrainWait = 12
    PollLate = 1
    Lead = 1
    Watch = 2
    MaxTime = 38
    MaxEvents = 1
SPECIFICATION Spec
PROPERTY InertOnReference
