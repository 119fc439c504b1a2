---------------------------- MODULE MCCacheAside ----------------------------
(* Finite instances of CacheAside for TLC.                                 *)
EXTENDS CacheAside

CONSTANTS r1, r2, p1, p2, k1, k2

Workers == [r \in Readers |-> IF r = r2 THEN p2 ELSE p1]
=============================================================================
