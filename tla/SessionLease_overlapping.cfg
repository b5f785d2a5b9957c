\* Overlapping turns and nothing else.
CONSTANTS
    Turns = {t1, t2}
    Leases = {l1, l2, l3}
    None = None
    Retain = TRUE
    Overlap = TRUE
    IdleTtl = FALSE
    MaxFailures = 0
    MaxTimeouts = 0
    MaxLosses = 0
    MaxTerminations = 0
    MaxCrashes = 0
SYMMETRY Interchangeable
SPECIFICATION Spec
INVARIANTS
    OverlappingHandlesKeepInUse
\* Nobody has to start another turn.
CHECK_DEADLOCK FALSE
