----------------------------- MODULE MCCacheManager -----------------------------
(* Two environment locks, each with a volume; a service of the first mounts it *)
(* as well, and an index.                                                      *)
EXTENDS CacheManager
CONSTANTS s1, s2, k1, k2, v1, v2, i1

MCBase == [k \in Locks |-> {IF k = k1 THEN v1 ELSE v2}]
MCIndex == [k \in Locks |-> IF k = k1 THEN i1 ELSE None]
MCServed == [k \in Locks |-> IF k = k1 THEN {v1} ELSE {}]
=============================================================================
