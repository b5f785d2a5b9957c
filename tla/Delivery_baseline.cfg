\* One daemon restart.
SPECIFICATION Spec
CONSTANTS
    p1 = p1
    c1 = c1
    c2 = c2
    c3 = c3
    lint = lint
    h1 = h1
    None = None
    Plans <- MCPlans
    Challenges <- MCChallenges
    Resolves <- MCResolves
    Contents <- TwoContents
    Checks <- MCChecks
    Commits <- MCCommits
    TotalLimit <- MCTotalLimit
    PlanCycles = 0
    RepairCycles = 0
    StageSteps = 2
    BaseSteps = 2
    MaxIdenticalFailures = 2
    HasContract = FALSE
    MaxPending = 1
    MaxMessages = 0
    MaxCancels = 0
    MaxEdits = 0
    MaxUserCommits = 0
    MaxCrashes = 1
    MaxRestarts = 0
INVARIANTS
    RestartPreservesBaseline
CHECK_DEADLOCK FALSE
