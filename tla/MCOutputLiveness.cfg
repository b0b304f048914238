\* Symmetric and software-path outputs, refreshed, stopped and unloaded.
CONSTANTS
    Requests = {"symmetric", "narrow"}
    HardwarePeriodic = TRUE
    RateAtLoad = TRUE
    RateResets = FALSE
    StepBack = FALSE
    MaxGen = 2
    MaxFreq = 0
    MaxFlip = 0
    MaxFaults = 0
SPECIFICATION FairSpec
INVARIANT NoStranded
PROPERTIES StopTakesEffect RunTakesEffect UnloadCompletes
