\* A run that outlasts the history it began in, and a daemon stop.
CONSTANTS
    Watches = {t1}
    MaxHistory = 3
    Capacity = 2
    MaxEvents = 6
    MaxTouches = 1
    MaxStops = 1
    LongRuns = TRUE
SPECIFICATION Spec
INVARIANTS
    SessionSurvivesRestart
CHECK_DEADLOCK FALSE
