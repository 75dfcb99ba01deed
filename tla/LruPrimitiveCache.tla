-------------------------- MODULE LruPrimitiveCache --------------------------
(***************************************************************************)
(* The container lru_primitive_cache_t (common/primitive_cache.hpp): a     *)
(* list of entries, the most recently used one in front, and a mapper from *)
(* keys to nodes of that list.                                             *)
(*                                                                         *)
(* A primitive is a record of its key, of an identity, and of whether all  *)
(* the primitives nested in it were created.  The list node emplaced for a *)
(* primitive is named by that primitive: a primitive is added at most      *)
(* once, so node and primitive determine each other, and an iterator       *)
(* stored in the mapper is the primitive whose node it points to.          *)
(*                                                                         *)
(* A cache is a record [capacity, list, mapper].  The operators below are  *)
(* the bodies of the member functions; who calls them, and under which     *)
(* lock, is the business of PrimitiveCache.                                *)
(***************************************************************************)
EXTENDS Integers, Sequences

CONSTANTS Keys,     \* the primitive_hashing::key_t values in play
          NoPrim,   \* the null shared_ptr, and cache_mapper_.end()
          SizeWrap  \* 2^64: capacity_ is a size_t

Primitives == [key : Keys, id : Nat, whole : BOOLEAN]

ASSUME NoPrimAssumption == NoPrim \notin Primitives
ASSUME SizeWrapAssumption == SizeWrap \in Nat \ {0}

Caches == [capacity : Nat,
           list     : Seq(Primitives),
           mapper   : [Keys -> Primitives \cup {NoPrim}]]

(* The constructor converts an int that nobody has checked: a negative     *)
(* DNNL_PRIMITIVE_CACHE_CAPACITY makes a cache that never evicts.          *)
EmptyCache(n) == [capacity |-> n % SizeWrap,
                  list     |-> << >>,
                  mapper   |-> [k \in Keys |-> NoPrim]]

-----------------------------------------------------------------------------
(* evict(n): n times, erase the key of the last entry and pop that entry. *)
Evict(c, n) ==
    LET kept == Len(c.list) - n
    IN [capacity |-> c.capacity,
        list     |-> SubSeq(c.list, 1, kept),
        mapper   |-> [k \in Keys |->
                        IF \E i \in kept + 1 .. Len(c.list) : c.list[i].key = k
                        THEN NoPrim ELSE c.mapper[k]]]

(* set_capacity(n): an excess of entries is evicted from the back. *)
SetCapacity(c, n) ==
    LET resized == [c EXCEPT !.capacity = n]
    IN IF Len(c.list) > n THEN Evict(resized, Len(c.list) - n) ELSE resized

(* The insertion that add() ends with.  unordered_map::insert leaves the   *)
(* mapping of a key that is already present alone.                         *)
EmplaceFront(c, p) ==
    [capacity |-> c.capacity,
     list     |-> <<p>> \o c.list,
     mapper   |-> IF c.mapper[p.key] = NoPrim
                  THEN [c.mapper EXCEPT ![p.key] = p] ELSE c.mapper]

(* add(p): no effect on a disabled cache; a full cache evicts one entry    *)
(* first.                                                                  *)
Add(c, p) ==
    IF c.capacity = 0 THEN c
    ELSE IF Len(c.list) >= c.capacity THEN EmplaceFront(Evict(c, 1), p)
    ELSE EmplaceFront(c, p)

(* The node get() looks up: none on a disabled cache. *)
Find(c, k) == IF c.capacity = 0 THEN NoPrim ELSE c.mapper[k]

(* Mutant: a hit leaves the list as it is. *)
SpliceNothing(c, node) == c

(* cache_list_.splice(begin, cache_list_, node): the node moves to the     *)
(* front, the order of the others stays.                                   *)
Splice(c, node) ==
    LET i == CHOOSE j \in 1 .. Len(c.list) : c.list[j] = node
    IN [c EXCEPT !.list = <<node>> \o (SubSeq(c.list, 1, i - 1)
                                         \o SubSeq(c.list, i + 1, Len(c.list)))]

(* get(k) as a whole, for a caller no other thread can interleave with:    *)
(* the cache it leaves and the primitive it returns.                       *)
GetCache(c, k) == IF Find(c, k) = NoPrim THEN c ELSE Splice(c, Find(c, k))
GetValue(c, k) == IF Find(c, k) = NoPrim THEN NoPrim
                  ELSE Head(GetCache(c, k).list)

-----------------------------------------------------------------------------
(* What the container relies on between two calls. *)

(* List and mapper describe the same entries. *)
Consistent(c) ==
    /\ \A i \in 1 .. Len(c.list) : c.mapper[c.list[i].key] = c.list[i]
    /\ \A k \in Keys : c.mapper[k] # NoPrim =>
          \E i \in 1 .. Len(c.list) : c.list[i] = c.mapper[k] /\ c.list[i].key = k

(* No entry is listed twice. *)
NoDuplicates(c) ==
    \A i, j \in 1 .. Len(c.list) : c.list[i].key = c.list[j].key => i = j

WithinCapacity(c) == Len(c.list) <= c.capacity

(* What is left of a primitive, and of a cache, when only keys matter. *)
Unnamed(q) == IF q = NoPrim THEN NoPrim ELSE [key |-> q.key, id |-> 0, whole |-> TRUE]
UnnamedOf(c) ==
    [capacity |-> c.capacity,
     list     |-> [i \in 1 .. Len(c.list) |-> Unnamed(c.list[i])],
     mapper   |-> [k \in Keys |-> Unnamed(c.mapper[k])]]
=============================================================================
