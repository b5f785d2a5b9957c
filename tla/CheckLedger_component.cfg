\* A component changes between two plans; one of its checks declares no inputs.
CONSTANTS
    Checks = {1, 2, 3}
    Contents = {"good", "bad"}
    None = None
    Trees <- MCTrees
    Graphs <- MCGraphs
    Verdict <- MCVerdict
    Ordered <- StableTopologicalChecks
    MaxEdits = 1
    MaxPlans = 2
    MaxTurns = 2
SPECIFICATION Spec
INVARIANTS
    EvidenceKeepsItsComponent
CHECK_DEADLOCK FALSE
