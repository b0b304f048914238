\* Every waveform started, re-armed, trimmed, flipped, stopped and reloaded.
CONSTANTS
    Shapes <- AllShapes
    StaleLevel = TRUE
    Latency = 1
    Margin = 2
    Guard = 3
    FlipTries = 2
    ServiceDelay = 1
    DrainPoll = 1
    DrainTries = 6
    MaxTime = 28
    MaxJobs = 3
SPECIFICATION Spec
INVARIANT TypeOK
PROPERTIES MirrorsParity TogglesOnGrid DrainsLow
