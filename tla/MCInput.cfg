\* Both inputs re-configured while edges arrive; statistics reset; unload; the
\* workqueue is fair.
CONSTANTS
    CounterRestarts = TRUE
    StartBlock = 0
    MaxTime = 2
    MaxConfigs = 2
    MaxResets = 1
SPECIFICATION FairSpec
INVARIANTS TypeOK NoInputForgotten EdgesAccounted TdcMeanBounded UnloadQuiescent
PROPERTIES EventsFresh TdcUsesCapturesOnce EdgeDelivered DisableTakesEffect
