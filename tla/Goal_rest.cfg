SPECIFICATION FairSpec
CONSTANTS
    None = None
    c1 = c1
    c2 = c2
    Criteria <- MCCriteria
    MachineChecks <- MCMachineChecks
    GoalPlans <- MCPlans
    Budgets <- MCBudgets
    ChildLimit = 2
    MaxAmendments = 0
    MaxMishaps = 1
    MaxResumes = 1
    MaxClock = 1

PROPERTY GoalComesToRest
CHECK_DEADLOCK FALSE
