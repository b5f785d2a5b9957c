\* Outside edits and commits, a daemon restart, a fresh restart; no user messages.
SPECIFICATION Spec
CONSTANTS
    p1 = p1
    c1 = c1
    c2 = c2
    c3 = c3
    lint = lint
    h1 = h1
    None = None
    Plans <- MCPlans
    Challenges <- MCChallenges
    Resolves <- MCResolves
    Contents <- ThreeContents
    Checks <- MCChecks
    Commits <- MCCommits
    TotalLimit <- MCTotalLimit
    PlanCycles = 0
    RepairCycles = 0
    StageSteps = 2
    BaseSteps = 2
    MaxIdenticalFailures = 2
    HasContract = FALSE
    MaxPending = 1
    MaxMessages = 0
    MaxCancels = 0
    MaxEdits = 1
    MaxUserCommits = 1
    MaxCrashes = 1
    MaxRestarts = 1
INVARIANTS
    CommitsHoldReviewedContent
    ReadyNamesItsCommit
SYMMETRY ContentSymmetry
CHECK_DEADLOCK FALSE
