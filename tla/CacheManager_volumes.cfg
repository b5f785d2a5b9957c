\* Two sessions of a project; key files change, an operation fails, the daemon stops.
SPECIFICATION FairSpec
CONSTANTS
    None = None
    s1 = s1
    s2 = s2
    k1 = k1
    k2 = k2
    v1 = v1
    v2 = v2
    i1 = i1
    Sessions = {s1, s2}
    Locks = {k1, k2}
    Volumes = {v1, v2, i1}
    Base <- MCBase
    Index <- MCIndex
    Served <- MCServed
    MaxTurns = 2
    MaxEdits = 1
    MaxMishaps = 1
    MaxCrashes = 1
INVARIANTS
    MountsAreCounted
    LeasedCachesAreKnown
PROPERTIES
    UnusedCachesAreCollected
\* Nobody has to start another turn.
CHECK_DEADLOCK FALSE
