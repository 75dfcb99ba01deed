--------------------------- MODULE LruReplacement ---------------------------
(***************************************************************************)
(* The replacement policy of lru_primitive_cache_t, for one caller: a      *)
(* lookup (get, and add when it misses) or a change of capacity at a time. *)
(* used[k] is a history variable: the time of the last lookup of k.  The   *)
(* code keeps no time, only the order of its list.  A primitive is named   *)
(* by its key alone.  CacheHistory shows that threads that create          *)
(* primitives at once, step by step, use the cache in this way.            *)
(***************************************************************************)
EXTENDS LruPrimitiveCache

CONSTANT Sizes    \* the capacities asked for; set_capacity refuses a negative one

VARIABLES cache,  \* the lru_primitive_cache_t
          now,    \* number of lookups so far
          used    \* time of the last lookup of each key

vars == <<cache, now, used>>

Init ==
    /\ \E n \in Sizes : cache = EmptyCache(n)
    /\ now = 0
    /\ used = [k \in Keys |-> 0]

(* get(k), and when it returns nullptr, add() of a new primitive. *)
Lookup(k) ==
    /\ now' = now + 1
    /\ used' = [used EXCEPT ![k] = now + 1]
    /\ cache' = IF Find(cache, k) # NoPrim THEN GetCache(cache, k)
                ELSE Add(cache, [key |-> k, id |-> 0, whole |-> TRUE])

Resize(n) ==
    /\ cache' = SetCapacity(cache, n)
    /\ UNCHANGED <<now, used>>

Next == (\E k \in Keys : Lookup(k)) \/ (\E n \in Sizes \cap Nat : Resize(n))

Spec == Init /\ [][Next]_vars

-----------------------------------------------------------------------------
Cached(k) == cache.mapper[k] # NoPrim

(* "The cache uses LRU replacement policy": an entry that is evicted, by   *)
(* add() or by set_capacity(), was last used before every entry that stays *)
(* cached, although the code compares no times.                            *)
EvictsLeastRecent ==
    [][\A k, l \in Keys :
          Cached(k) /\ ~Cached(k)' /\ Cached(l) /\ Cached(l)'
             => used[k] < used'[l]]_vars
=============================================================================
