\* An asymmetric output and one frequency update.
CONSTANTS
    Requests = {"duty"}
    HardwarePeriodic = TRUE
    RateAtLoad = TRUE
    RateResets = FALSE
    StepBack = FALSE
    MaxGen = 1
    MaxFreq = 1
    MaxFlip = 0
    MaxFaults = 0
SPECIFICATION Spec
INVARIANT NoStranded
