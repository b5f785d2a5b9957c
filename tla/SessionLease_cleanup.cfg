\* One turn at a time; a failure, a lock timeout, a lost container and a daemon stop
\* before the cleanup.
CONSTANTS
    Turns = {t1}
    Leases = {l1, l2}
    None = None
    Retain = TRUE
    Overlap = FALSE
    IdleTtl = TRUE
    MaxFailures = 1
    MaxTimeouts = 1
    MaxLosses = 1
    MaxTerminations = 0
    MaxCrashes = 1
SPECIFICATION FairSpec
INVARIANTS
    ContainerIsRecorded
PROPERTIES
    UnusedContainerIsRemoved
\* Nobody has to start another turn.
CHECK_DEADLOCK FALSE
