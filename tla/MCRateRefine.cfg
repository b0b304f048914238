\* Ticks of 100 cycles; a clock that is fast by 0 or 1 % and stepped by whole ticks.
CONSTANTS
    Cycles = 100
    Speeds = {100, 101}
    Steps <- StepsBothWays
    Ring = 3
    MinWindow = 200
    CalWindow = 83
    Scale = 10000
    StepError = 1000
    Tries = 2
    Late = 1
    MaxTime = 7
    MaxSteps = 2
SPECIFICATION Spec
INVARIANTS RateSpansNoStep EmaSpansNoStep RateReady
PROPERTY StepKeepsRate
