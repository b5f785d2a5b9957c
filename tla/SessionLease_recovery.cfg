\* A cleanup that failed, then a daemon stop or a termination.
CONSTANTS
    Turns = {t1, t2}
    Leases = {l1, l2, l3}
    None = None
    Retain = TRUE
    Overlap = FALSE
    IdleTtl = TRUE
    MaxFailures = 1
    MaxTimeouts = 0
    MaxLosses = 0
    MaxTerminations = 1
    MaxCrashes = 1
SYMMETRY Interchangeable
SPECIFICATION Spec
PROPERTIES
    DirtyWorkspaceKeepsRecord
\* Nobody has to start another turn.
CHECK_DEADLOCK FALSE
