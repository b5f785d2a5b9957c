\* Evidence: two plans, two contents, one check; usage is not recorded.
SPECIFICATION Spec
CONSTANTS
    p1 = p1
    p2 = p2
    c1 = c1
    c2 = c2
    lint = lint
    oid1 = oid1
    h1 = h1
    None = None
    Plans <- MCPlans
    Resolves <- MCResolves
    Challenges <- MCChallenges
    Contents <- MCContents
    Checks <- MCChecks
    Commits <- MCCommits
    PlanCycles = 1
    RepairCycles = 1
    StageSteps = 1
    TotalLimit <- MCTotalLimit
    Usages <- NoUsages
    StopOutcomes <- MCStopOutcomes
    StopCauses <- MCStopCauses
INVARIANTS
    NoChangeIsUnchanged
CHECK_DEADLOCK FALSE
