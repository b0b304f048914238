\* A rate learnt late and lost again, a fault, a flip and a clock step; then unload.
CONSTANTS
    Requests = {"duty", "narrow"}
    HardwarePeriodic = TRUE
    RateAtLoad = FALSE
    RateResets = TRUE
    StepBack = TRUE
    MaxGen = 1
    MaxFreq = 1
    MaxFlip = 1
    MaxFaults = 1
SPECIFICATION Spec
INVARIANTS TypeOK NoStaleWaveform UnloadQuiescent
