------------------------------ MODULE CheckPlan ------------------------------
(* The order in which a check plan is run (src/src/checks.rs).  The ids of     *)
(* checks are numbers, in the order of their names.                            *)
EXTENDS Naturals, SequencesExt

InOrder(ids) == SetToSortSeq(ids, <)

RECURSIVE Visit(_, _, _, _)

\* visit: a check comes after its dependencies, unless it is there already
Visit(id, depends, selected, ordered) ==
    LET before == FoldLeft(LAMBDA o, d : Visit(d, depends, selected, o), ordered,
                           InOrder(depends[id] \cap selected))
    IN  IF Contains(ordered, id) THEN ordered ELSE Append(before, id)

StableTopologicalChecks(depends, selected) ==
    FoldLeft(LAMBDA o, id : Visit(id, depends, selected, o), <<>>, InOrder(selected))
=============================================================================
