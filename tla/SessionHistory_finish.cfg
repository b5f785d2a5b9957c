\* A turn that follows another before the first has published its Finished.
CONSTANTS
    Watches = {t1}
    MaxHistory = 3
    Capacity = 2
    MaxEvents = 6
    MaxTouches = 1
    MaxStops = 1
    LongRuns = FALSE
SPECIFICATION Spec
PROPERTIES
    FinishIsFinal
CHECK_DEADLOCK FALSE
