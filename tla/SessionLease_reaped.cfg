\* Turns one after the other and the cleanup tick; nothing fails.
CONSTANTS
    Turns = {t1, t2}
    Leases = {l1, l2, l3}
    None = None
    Retain = TRUE
    Overlap = FALSE
    IdleTtl = TRUE
    MaxFailures = 0
    MaxTimeouts = 0
    MaxLosses = 0
    MaxTerminations = 0
    MaxCrashes = 0
SYMMETRY Interchangeable
SPECIFICATION Spec
INVARIANTS
    InUseLeaseIsKept
\* Nobody has to start another turn.
CHECK_DEADLOCK FALSE
