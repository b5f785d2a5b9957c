----------------------------- MODULE MCTaskQueue -----------------------------
(* Instances of TaskQueue for TLC.                                            *)
EXTENDS TaskQueue

CONSTANTS build, goal, r0, w0, r1, h0, h1, c1, c2

MCTaskIds == {build, goal}

MCCriteria == {c1, c2}

MCCommits == {h0, h1}

MCRepositories == {r0, w0, r1}

MCBegan == {r0}

\* w0 is r0 with edits that are not committed
MCHeadOf == [r \in MCRepositories |-> IF r = r1 THEN h1 ELSE h0]

BuildTask == [id |-> build, kind |-> "Build", deps |-> {}, budget |-> 1, contract |-> {}]

GoalTask(criteria, deps) ==
    [id |-> goal, kind |-> "Goal", deps |-> deps, budget |-> 1, contract |-> criteria]

\* A Goal that is listed before the Build it depends on, and the same without
\* the dependency
MCPlans ==
    {<<GoalTask({c1}, {build}), BuildTask>>, <<GoalTask({c1}, {}), BuildTask>>}
=============================================================================
