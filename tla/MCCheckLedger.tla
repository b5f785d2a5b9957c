---------------------------- MODULE MCCheckLedger ----------------------------
(* Three checks, in a chain or a join against the order of their names, one of   *)
(* which declares outputs.                                                     *)
EXTENDS CheckLedger, CheckPlan

Chain == (1 :> {2}) @@ (2 :> {3}) @@ (3 :> {})

Join == (1 :> {2, 3}) @@ (2 :> {}) @@ (3 :> {})

MCGraphs ==
    {[depends |-> Chain, inputs |-> {1, 2, 3}, outputs |-> {3}],
     [depends |-> Join, inputs |-> {1, 2}, outputs |-> {2}]}

\* All is well, or the last check is broken.
MCTrees == {[c \in 1 .. 3 |-> "good"], [c \in 1 .. 3 |-> IF c = 3 THEN "bad" ELSE "good"]}

\* A command passes over anything but a broken input or dependency.
MCVerdict(input, deps) == input = "good" /\ \A d \in DOMAIN deps : deps[d] = "good"
=============================================================================
