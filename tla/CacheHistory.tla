---------------------------- MODULE CacheHistory ----------------------------
(***************************************************************************)
(* PrimitiveCache with a history: the time of the last lookup of each key, *)
(* which neither the code nor PrimitiveCache keeps.  It connects the       *)
(* threads of PrimitiveCache, with their locks, nested creations and       *)
(* failures, to the policy of LruReplacement, where a lookup is one step.  *)
(***************************************************************************)
EXTENDS PrimitiveCache

VARIABLES now,    \* number of lookups so far
          used    \* time of the last lookup of each key

history == <<now, used>>

HistoryInit == Init /\ now = 0 /\ used = [k \in Keys |-> 0]

Moves(t, from, to) == pc[t] = from /\ pc'[t] = to

(* The steps in which a lookup takes effect: a hit when its node is        *)
(* spliced or when the second get() finds it, a miss when the primitive is *)
(* added; and every nested creation that succeeds.                         *)
LooksUp(t) ==
    \/ Moves(t, "splice", "front") /\ ~torn'
    \/ Moves(t, "recheck", "unlock_write")
    \/ Moves(t, "init", "unlock_write") /\ made' # made

LooksUpNested(t) ==
    /\ Moves(t, "init", "init")
    /\ todo'[t] # todo[t]
    /\ made' # made \/ Find(cache, Nested[req[t]][todo[t]]) # NoPrim

LookedUp ==
    {req[t] : t \in {u \in Threads : LooksUp(u)}}
    \cup {Nested[req[t]][todo[t]] : t \in {u \in Threads : LooksUpNested(u)}}

HistoryNext ==
    /\ Next
    /\ now' = IF LookedUp = {} THEN now ELSE now + 1
    /\ used' = [k \in Keys |-> IF k \in LookedUp THEN now + 1 ELSE used[k]]

HistorySpec ==
    /\ HistoryInit /\ [][HistoryNext]_<<vars, history>>
    /\ \A t \in Threads : WF_vars(~torn /\ Step(t))

-----------------------------------------------------------------------------
(* The policy knows keys and not the identities of primitives. *)
Lru == INSTANCE LruReplacement
         WITH Sizes <- Capacities, cache <- UnnamedOf(cache), now <- now, used <- used

(* Threads that create primitives at once implement the policy: whatever   *)
(* they interleave, each step is one lookup, one change of the capacity,   *)
(* or none that the cache shows (create_primitive_common as seen by        *)
(* lru_primitive_cache_t).                                                 *)
ImplementsLru == Lru!Spec

(* So an entry that is evicted while several threads create primitives was *)
(* last used before every entry that stays cached.                         *)
EvictsLeastRecent == Lru!EvictsLeastRecent
=============================================================================
