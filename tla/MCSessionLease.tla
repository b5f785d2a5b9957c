--------------------------- MODULE MCSessionLease -----------------------------
(* Instances of SessionLease for TLC. *)
EXTENDS SessionLease, TLC

\* Turns and lease objects are interchangeable.
Interchangeable == Permutations(Turns) \cup Permutations(Leases)
===============================================================================
