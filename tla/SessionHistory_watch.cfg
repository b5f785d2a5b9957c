\* One terminal; two trims, a lag, a commit without an event, a daemon stop.
CONSTANTS
    Watches = {t1}
    MaxHistory = 3
    Capacity = 2
    MaxEvents = 6
    MaxTouches = 1
    MaxStops = 1
    LongRuns = FALSE
SPECIFICATION FairSpec
INVARIANTS
    WatchShowsTheHistory
    StoredHistoryIsClosed
PROPERTIES
    WatchEnds
\* Nobody has to send the session another turn.
CHECK_DEADLOCK FALSE
