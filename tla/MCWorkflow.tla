----------------------------- MODULE MCWorkflow ------------------------------
(* Small instances of Workflow for TLC. *)
EXTENDS Workflow, TLC

CONSTANTS p1, p2, c1, c2, lint, oid1, h1

MCPlans == {p1, p2}
MCChallenges == {h1}
MCResolves == (p1 :> {}) @@ (p2 :> {h1})
MCContents == {c1, c2}
MCChecks == {lint}
OnePlan == {p2}
OneResolves == p2 :> {h1}
OneContent == {c1}
MCCommits == {oid1}

NoTotals == [t \in Totals |-> 0]

\* A model call (one step, one invocation, one token), an advisory call.
MCUsages ==
    {[steps |-> 1, totals |-> [t \in Totals |-> IF t = "advisory_calls" THEN 0 ELSE 1]],
     [steps |-> 0, totals |-> [NoTotals EXCEPT !["advisory_calls"] = 1]]}

NoUsages == {[steps |-> 0, totals |-> NoTotals]}

MCTotalLimit ==
    [t \in Totals |-> CASE t = "model_invocations" -> 3
                        [] t = "generated_tokens"  -> 3
                        [] t = "advisory_calls"    -> 1]

\* Two model calls fit; a third call or an advisory call does not.
TwoCalls ==
    [t \in Totals |-> CASE t \in {"model_invocations", "generated_tokens"} -> 2
                        [] t = "advisory_calls" -> 0]

MCStopOutcomes == {"CommitBlocked", "EngineError"}
MCStopCauses == {"Other"}
==============================================================================
