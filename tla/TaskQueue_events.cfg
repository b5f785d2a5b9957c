SPECIFICATION Spec
CONSTANTS
    None = None
    build = build
    goal = goal
    r0 = r0
    w0 = w0
    r1 = r1
    h0 = h0
    h1 = h1
    c1 = c1
    c2 = c2
    TaskIds <- MCTaskIds
    TaskPlans <- MCPlans
    Repositories <- MCRepositories
    Commits <- MCCommits
    HeadOf <- MCHeadOf
    Criteria <- MCCriteria
    Coordination = 1
    Began <- MCBegan
    Usages = {0, 1}
    MaxAttempts = 2
    MaxRevisions = 1
INVARIANTS QueueIsAlwaysValid DeliveriesFormAChain UsageIsCountedOnce ReadyMeetsItsPlan
PROPERTIES CompletedTasksStay
CHECK_DEADLOCK FALSE
