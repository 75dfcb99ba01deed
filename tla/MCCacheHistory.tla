--------------------------- MODULE MCCacheHistory ---------------------------
(* Two threads that create primitives and one that changes the capacity.   *)
(* Creating k1 or k3 creates the nested primitive k2, as a sum with one    *)
(* input to reorder does, so a cache of size one evicts k2 when k1 is      *)
(* added, and one of size two keeps k2 when k3 replaces k1.                *)
EXTENDS CacheHistory, TLC

CONSTANTS k1, k2, k3, c1, c2, a1

MCKeys == {k1, k2, k3}
MCNested == (k1 :> <<k2>>) @@ (k2 :> << >>) @@ (k3 :> <<k2>>)
MCFlatNested == [k \in MCKeys |-> << >>]

MCCreators == {c1, c2}
MCMaxCalls == [t \in Threads |-> IF t = c1 THEN 2 ELSE 1]
MCTwoCalls == [t \in Threads |-> 2]

MCCapacities == {-1, 0, 1, 2}
=============================================================================
