\* One edit, two plans and two turns over a chain and a join of three checks.
CONSTANTS
    Checks = {1, 2, 3}
    Contents = {"good", "bad"}
    None = None
    Trees <- MCTrees
    Graphs <- MCGraphs
    Verdict <- MCVerdict
    Ordered <- StableTopologicalChecks
    MaxEdits = 1
    MaxPlans = 2
    MaxTurns = 2
SPECIFICATION Spec
INVARIANTS
    CurrentEvidenceIsTrue
    PassedPlanIsCurrent
    PassedRestsOnPassed
\* Nobody has to run another plan.
CHECK_DEADLOCK FALSE
