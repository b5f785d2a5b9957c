-------------------------------- MODULE MCGoal --------------------------------
(* Instances of Goal for TLC.                                                 *)
EXTENDS Goal

CONSTANTS c1, c2

MCCriteria == {c1, c2}

\* c1 is verified by its workflow, c2 needs the user's review
MCMachineChecks == {c1}

\* A plan that keeps a criterion of the other, in another place
MCPlans == {<<c1, c2>>, <<c2>>}

Wide == [milestones |-> 3, workflows |-> 3, invocations |-> 3, minutes |-> 1]

Narrow == [milestones |-> 2, workflows |-> 2, invocations |-> 2, minutes |-> 2]

MCBudgets == {Wide, Narrow}
=============================================================================
