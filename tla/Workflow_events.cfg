\* Two plans, two contents, one check; a third model call or an advisory call is over the limit.
SPECIFICATION Spec
CONSTANTS
    p1 = p1
    p2 = p2
    c1 = c1
    c2 = c2
    lint = lint
    oid1 = oid1
    h1 = h1
    None = None
    Plans <- MCPlans
    Resolves <- MCResolves
    Challenges <- MCChallenges
    Contents <- MCContents
    Checks <- MCChecks
    Commits <- MCCommits
    PlanCycles = 1
    RepairCycles = 1
    StageSteps = 1
    TotalLimit <- TwoCalls
    Usages <- MCUsages
    StopOutcomes <- MCStopOutcomes
    StopCauses <- MCStopCauses
INVARIANTS
    CheckpointIsAlwaysValid
    ReadyIsReviewedAndChecked
    WorkStagesHaveApprovedPlan
    RunsInsideItsLimits
PROPERTIES
    BudgetsAreNeverRefunded
CHECK_DEADLOCK FALSE
