\* Two turns that may overlap, with the cleanup tick, a termination, a failure and a
\* daemon stop.
CONSTANTS
    Turns = {t1, t2}
    Leases = {l1, l2, l3}
    None = None
    Retain = TRUE
    Overlap = TRUE
    IdleTtl = TRUE
    MaxFailures = 1
    MaxTimeouts = 0
    MaxLosses = 0
    MaxTerminations = 1
    MaxCrashes = 1
SYMMETRY Interchangeable
SPECIFICATION Spec
INVARIANTS
    ServiceIsRecorded
    UnownedRecordIsRetried
    LeaseIsKeptUnlessRaced
\* Nobody has to start another turn.
CHECK_DEADLOCK FALSE
