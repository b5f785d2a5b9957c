----------------------------- MODULE MCDelivery ------------------------------
(* Small instances of Delivery for TLC. *)
EXTENDS Delivery, TLC

CONSTANTS p1, c1, c2, c3, lint, h1

MCPlans == {p1}
MCChallenges == {h1}
MCResolves == [p \in MCPlans |-> {h1}]
TwoContents == {c1, c2}
ThreeContents == {c1, c2, c3}
ContentSymmetry == Permutations(ThreeContents)
MCChecks == {lint}
MCCommits == Nat
MCTotalLimit == [t \in Totals |-> 0]
==============================================================================
