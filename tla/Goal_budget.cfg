SPECIFICATION Spec
CONSTANTS
    None = None
    c1 = c1
    c2 = c2
    Criteria <- MCCriteria
    MachineChecks <- MCMachineChecks
    GoalPlans <- MCPlans
    Budgets <- MCBudgets
    ChildLimit = 2
    MaxAmendments = 1
    MaxMishaps = 2
    MaxResumes = 0
    MaxClock = 1
INVARIANTS UsageIsCountedOnce SuccessWasDelivered OneMilestoneAtATime WorkIsInsideTheBudget
PROPERTIES CompletedMilestonesStay PauseComesFirst MilestonesAreDeliveries
CHECK_DEADLOCK FALSE
