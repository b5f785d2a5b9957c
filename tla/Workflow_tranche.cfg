\* Budgets: one plan, one content; every step and every total is charged.
SPECIFICATION Spec
CONSTANTS
    p1 = p1
    p2 = p2
    c1 = c1
    c2 = c2
    lint = lint
    oid1 = oid1
    h1 = h1
    None = None
    Plans <- OnePlan
    Resolves <- OneResolves
    Challenges <- MCChallenges
    Contents <- OneContent
    Checks <- MCChecks
    Commits <- MCCommits
    PlanCycles = 1
    RepairCycles = 1
    StageSteps = 1
    TotalLimit <- MCTotalLimit
    Usages <- MCUsages
    StopOutcomes <- MCStopOutcomes
    StopCauses <- MCStopCauses
PROPERTIES
    AcceptedCycleGrantsTranche
CHECK_DEADLOCK FALSE
