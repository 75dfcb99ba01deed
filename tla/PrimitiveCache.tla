--------------------------- MODULE PrimitiveCache ---------------------------
(***************************************************************************)
(* Threads that create primitives through the global primitive cache:      *)
(* primitive_t::create_primitive_common (common/primitive.hpp), and the    *)
(* capacity and size functions of common/primitive_cache.cpp, around one   *)
(* lru_primitive_cache_t guarded by one reader-writer lock.                *)
(*                                                                         *)
(* get() runs under the READ lock, and it modifies the list: a hit is      *)
(* three steps here (find, splice, front), so that two hits interleave.    *)
(* A splice is the interval a thread spends at "splice".  When two of      *)
(* these intervals overlap, the code has a data race on the links of the   *)
(* std::list; what is left need not be a list.  The model records that as  *)
(* torn = TRUE and stops there: what it says, it says of executions up to  *)
(* the first such overlap.  Under the write lock a thread is alone, and    *)
(* get() and add() are single steps.                                       *)
(*                                                                         *)
(* init() of a primitive creates the primitives nested in it through the   *)
(* same function with is_primitive_nested = true, that is under the write  *)
(* lock of the outer call and without taking it again.                     *)
(***************************************************************************)
EXTENDS LruPrimitiveCache

CONSTANTS Creators,    \* threads that create primitives
          Admins,      \* threads that set or query capacity and size
          NoThread,    \* nobody holds the write lock
          Capacities,  \* arguments of dnnl_set_primitive_cache_capacity, and values
                       \* of DNNL_PRIMITIVE_CACHE_CAPACITY
          Nested,      \* Nested[k]: keys of the primitives init() of k creates
          Careless,    \* keys whose init() ignores the status of these calls
          MaxCalls     \* bound: API calls of each thread

Threads == Creators \cup Admins

ASSUME KeysAssumption == Keys # {}
ASSUME ThreadsAssumption == NoThread \notin Threads
ASSUME CapacitiesAssumption == Capacities \subseteq Int /\ \A n \in Capacities : n < SizeWrap
ASSUME NestedAssumption ==
    /\ Nested \in [Keys -> Seq(Keys)]
    /\ \A k \in Keys : \A i \in 1 .. Len(Nested[k]) : Nested[k][i] # k
ASSUME MaxCallsAssumption == MaxCalls \in [Threads -> Nat]

VARIABLES
    cache,     \* primitive_cache(): the lru_primitive_cache_t
    readers,   \* threads that hold rw_mutex() for reading
    writer,    \* the thread that holds rw_mutex() for writing, or NoThread
    torn,      \* two splices have overlapped
    made,      \* number of primitives constructed so far: the next identity
    pc,        \* where each thread is in its call
    req,       \* key_to_lookup of each thread's call
    p,         \* the local p (in get(): the node found)
    todo,      \* index of the next nested primitive init() creates
    lost,      \* a nested creation failed and init() went on
    arg,       \* the argument of set_capacity
    calls      \* number of calls each thread has made

vars == <<cache, readers, writer, torn, made, pc, req, p, todo, lost, arg,
          calls>>

locals == <<req, p, todo, lost, arg, calls>>

ReadSteps  == {"find", "splice", "front", "unlock_hit", "unlock_miss", "query"}
WriteSteps == {"recheck", "init", "unlock_write", "set"}
PCs == {"idle", "lock_read", "lock_write", "lock_set", "lock_query"}
         \cup ReadSteps \cup WriteSteps

TypeOK ==
    /\ cache \in Caches
    /\ readers \subseteq Threads
    /\ writer \in Threads \cup {NoThread}
    /\ torn \in BOOLEAN
    /\ made \in Nat
    /\ pc \in [Threads -> PCs]
    /\ req \in [Threads -> Keys]
    /\ p \in [Threads -> Primitives \cup {NoPrim}]
    /\ todo \in [Threads -> Nat \ {0}]
    /\ lost \in [Threads -> BOOLEAN]
    /\ arg \in [Threads -> Nat]
    /\ calls \in [Threads -> Nat]

Init ==
    /\ \E n \in Capacities : cache = EmptyCache(n)
    /\ readers = {}
    /\ writer = NoThread
    /\ torn = FALSE
    /\ made = 0
    /\ pc = [t \in Threads |-> "idle"]
    /\ req = [t \in Threads |-> CHOOSE k \in Keys : TRUE]
    /\ p = [t \in Threads |-> NoPrim]
    /\ todo = [t \in Threads |-> 1]
    /\ lost = [t \in Threads |-> FALSE]
    /\ arg = [t \in Threads |-> 0]
    /\ calls = [t \in Threads |-> 0]

Goto(t, from, to) == pc[t] = from /\ pc' = [pc EXCEPT ![t] = to]

-----------------------------------------------------------------------------
(* rw_mutex_t: pthread_rwlock_t. *)

LockRead(t)  == writer = NoThread /\ readers' = readers \cup {t} /\ UNCHANGED writer
LockWrite(t) == writer = NoThread /\ readers = {} /\ writer' = t /\ UNCHANGED readers
UnlockRead(t) == readers' = readers \ {t} /\ UNCHANGED writer
UnlockWrite(t) == writer' = NoThread /\ UNCHANGED readers

-----------------------------------------------------------------------------
(* create_primitive_common with is_primitive_nested = false. *)

Create(t, k) ==
    /\ Goto(t, "idle", "lock_read")
    /\ calls[t] < MaxCalls[t]
    /\ calls' = [calls EXCEPT ![t] = @ + 1]
    /\ req' = [req EXCEPT ![t] = k]
    /\ p' = [p EXCEPT ![t] = NoPrim]
    /\ todo' = [todo EXCEPT ![t] = 1]
    /\ lost' = [lost EXCEPT ![t] = FALSE]
    /\ UNCHANGED <<cache, readers, writer, torn, made, arg>>

CreateLockRead(t) ==
    /\ Goto(t, "lock_read", "find")
    /\ LockRead(t)
    /\ UNCHANGED <<cache, torn, made, locals>>

(* The first get(), as far as cache_mapper_.find(key). *)
GetFind(t) ==
    /\ Goto(t, "find", IF Find(cache, req[t]) = NoPrim THEN "unlock_miss"
                                                       ELSE "splice")
    /\ p' = [p EXCEPT ![t] = Find(cache, req[t])]
    /\ UNCHANGED <<cache, readers, writer, torn, made, req, todo, lost, arg, calls>>

(* cache_list_.splice.  A thread at "splice" is inside the splice. *)
GetSplice(t) ==
    /\ Goto(t, "splice", "front")
    /\ \/ /\ \E u \in Threads \ {t} : pc[u] = "splice"
          /\ torn' = TRUE
          /\ UNCHANGED cache
       \/ /\ \A u \in Threads \ {t} : pc[u] # "splice"
          /\ cache' = Splice(cache, p[t])
          /\ UNCHANGED torn
    /\ UNCHANGED <<readers, writer, made, locals>>

(* return cache_list_.front().second: whatever is in front by now. *)
GetFront(t) ==
    /\ Goto(t, "front", "unlock_hit")
    /\ p' = [p EXCEPT ![t] = Head(cache.list)]
    /\ UNCHANGED <<cache, readers, writer, torn, made, req, todo, lost, arg, calls>>

CreateHit(t) ==
    /\ Goto(t, "unlock_hit", "idle")
    /\ UnlockRead(t)
    /\ UNCHANGED <<cache, torn, made, locals>>

(* Mutant: the read lock is kept on the miss path. *)
CreateMissKeepsLock(t) ==
    /\ Goto(t, "unlock_miss", "lock_write")
    /\ UNCHANGED <<cache, readers, writer, torn, made, locals>>

CreateMiss(t) ==
    /\ Goto(t, "unlock_miss", "lock_write")
    /\ UnlockRead(t)
    /\ UNCHANGED <<cache, torn, made, locals>>

CreateLockWrite(t) ==
    /\ Goto(t, "lock_write", "recheck")
    /\ LockWrite(t)
    /\ UNCHANGED <<cache, torn, made, locals>>

(* Mutant: no second get() under the write lock. *)
CreateNoRecheck(t) ==
    /\ Goto(t, "recheck", "init")
    /\ UNCHANGED <<cache, readers, writer, torn, made, locals>>

(* The second get(), "to workaround the ABA problem". *)
CreateRecheck(t) ==
    /\ Goto(t, "recheck", IF Find(cache, req[t]) = NoPrim THEN "init"
                                                          ELSE "unlock_write")
    /\ p' = [p EXCEPT ![t] = GetValue(cache, req[t])]
    /\ cache' = GetCache(cache, req[t])
    /\ UNCHANGED <<readers, writer, torn, made, req, todo, lost, arg, calls>>

(* One nested call of create_primitive_common inside init(): a hit moves   *)
(* the entry to the front, a miss constructs the nested primitive and adds *)
(* it.                                                                     *)
InitNested(t) ==
    /\ Goto(t, "init", "init")
    /\ todo[t] <= Len(Nested[req[t]])
    /\ todo' = [todo EXCEPT ![t] = @ + 1]
    /\ LET k == Nested[req[t]][todo[t]]
       IN IF Find(cache, k) # NoPrim
          THEN cache' = GetCache(cache, k) /\ UNCHANGED made
          ELSE /\ cache' = Add(cache, [key |-> k, id |-> made, whole |-> TRUE])
               /\ made' = made + 1
    /\ UNCHANGED <<readers, writer, torn, req, p, lost, arg, calls>>

(* The nested call misses and its init() fails.  init() of the outer       *)
(* primitive returns that status, or ignores it and goes on.               *)
InitNestedFails(t) ==
    /\ pc[t] = "init"
    /\ todo[t] <= Len(Nested[req[t]])
    /\ Find(cache, Nested[req[t]][todo[t]]) = NoPrim
    /\ IF req[t] \in Careless
       THEN /\ todo' = [todo EXCEPT ![t] = @ + 1]
            /\ lost' = [lost EXCEPT ![t] = TRUE]
            /\ UNCHANGED pc
       ELSE /\ pc' = [pc EXCEPT ![t] = "unlock_write"]
            /\ UNCHANGED <<todo, lost>>
    /\ UNCHANGED <<cache, readers, writer, torn, made, req, p, arg, calls>>

(* init() succeeds and the primitive is added. *)
CreateAdd(t) ==
    /\ Goto(t, "init", "unlock_write")
    /\ todo[t] > Len(Nested[req[t]])
    /\ LET new == [key |-> req[t], id |-> made, whole |-> ~lost[t]]
       IN /\ p' = [p EXCEPT ![t] = new]
          /\ cache' = Add(cache, new)
    /\ made' = made + 1
    /\ UNCHANGED <<readers, writer, torn, req, todo, lost, arg, calls>>

(* Mutant: a failed creation is tried again. *)
CreateInitRetries(t) ==
    /\ Goto(t, "init", "lock_write")
    /\ UnlockWrite(t)
    /\ UNCHANGED <<cache, torn, made, locals>>

(* init() fails by itself, before, between or after its nested creations:  *)
(* nothing is added, the caller gets the status.                           *)
CreateInitFails(t) ==
    /\ Goto(t, "init", "unlock_write")
    /\ UNCHANGED <<cache, readers, writer, torn, made, locals>>

CreateUnlockWrite(t) ==
    /\ Goto(t, "unlock_write", "idle")
    /\ UnlockWrite(t)
    /\ UNCHANGED <<cache, torn, made, locals>>

-----------------------------------------------------------------------------
(* dnnl_set_primitive_cache_capacity: a negative capacity is refused       *)
(* before the lock is taken.                                               *)
SetCapacityCall(t, n) ==
    /\ n >= 0
    /\ Goto(t, "idle", "lock_set")
    /\ calls[t] < MaxCalls[t]
    /\ calls' = [calls EXCEPT ![t] = @ + 1]
    /\ arg' = [arg EXCEPT ![t] = n]
    /\ UNCHANGED <<cache, readers, writer, torn, made, req, p, todo, lost>>

(* Mutant: set_capacity() without the lock. *)
SetCapacityUnlocked(t) ==
    /\ Goto(t, "lock_set", "set")
    /\ UNCHANGED <<cache, readers, writer, torn, made, locals>>

SetCapacityLock(t) ==
    /\ Goto(t, "lock_set", "set")
    /\ LockWrite(t)
    /\ UNCHANGED <<cache, torn, made, locals>>

SetCapacityApply(t) ==
    /\ Goto(t, "set", "idle")
    /\ cache' = SetCapacity(cache, arg[t])
    /\ UnlockWrite(t)
    /\ UNCHANGED <<torn, made, locals>>

(* dnnl_get_primitive_cache_capacity, get_primitive_cache_size: they read  *)
(* one number under the read lock.                                         *)
QueryCall(t) ==
    /\ Goto(t, "idle", "lock_query")
    /\ calls[t] < MaxCalls[t]
    /\ calls' = [calls EXCEPT ![t] = @ + 1]
    /\ UNCHANGED <<cache, readers, writer, torn, made, req, p, todo, lost, arg>>

QueryLock(t) ==
    /\ Goto(t, "lock_query", "query")
    /\ LockRead(t)
    /\ UNCHANGED <<cache, torn, made, locals>>

QueryReturn(t) ==
    /\ Goto(t, "query", "idle")
    /\ UnlockRead(t)
    /\ UNCHANGED <<cache, torn, made, locals>>

-----------------------------------------------------------------------------
(* A call in progress takes its next step. *)
Step(t) ==
    \/ CreateLockRead(t)  \/ GetFind(t)         \/ GetSplice(t)
    \/ GetFront(t)        \/ CreateHit(t)       \/ CreateMiss(t)
    \/ CreateLockWrite(t) \/ CreateRecheck(t)   \/ InitNested(t)
    \/ InitNestedFails(t) \/ CreateAdd(t)       \/ CreateInitFails(t)
    \/ CreateUnlockWrite(t)
    \/ SetCapacityLock(t) \/ SetCapacityApply(t)
    \/ QueryLock(t)       \/ QueryReturn(t)

(* A thread makes a call. *)
Call(t) ==
    \/ t \in Creators /\ \E k \in Keys : Create(t, k)
    \/ t \in Admins /\ \E n \in Capacities : SetCapacityCall(t, n)
    \/ t \in Admins /\ QueryCall(t)

(* The end of a bounded execution, or of what the model says of it. *)
Stopped ==
    /\ torn \/ \A t \in Threads : pc[t] = "idle" /\ calls[t] = MaxCalls[t]
    /\ UNCHANGED vars

Next ==
    \/ ~torn /\ \E t \in Threads : Call(t) \/ Step(t)
    \/ Stopped

Spec == Init /\ [][Next]_vars

(* A thread inside a call is scheduled again and again; a thread is never  *)
(* obliged to make a call.                                                 *)
FairSpec == Spec /\ \A t \in Threads : WF_vars(~torn /\ Step(t))

-----------------------------------------------------------------------------
(* Whatever threads do, list and mapper name the same entries and no key   *)
(* is cached twice: two threads that miss on the same key do not both add  *)
(* it (the second get() under the write lock), and a nested primitive      *)
(* evicted while its outer one is built does not confuse the mapper.       *)
CacheSound == Consistent(cache) /\ NoDuplicates(cache)

(* The cache never holds more entries than its capacity, also while one    *)
(* thread lowers the capacity and another adds.                            *)
CapacityRespected == WithinCapacity(cache)

(* The node a reader has found is still in the list when it is spliced: no *)
(* eviction, by add() or by set_capacity(), comes between find and splice  *)
(* (it->second would be a dangling iterator).                              *)
IteratorsValid ==
    \A t \in Threads : pc[t] = "splice" =>
        \E i \in 1 .. Len(cache.list) : cache.list[i] = p[t]

(* A call that returns a primitive returns one for the key it asked for,   *)
(* although get() returns whatever is in front of the list.                *)
ReturnsRequested ==
    \A t \in Threads :
        pc[t] \in {"unlock_hit", "unlock_write"} /\ p[t] # NoPrim
            => p[t].key = req[t]

(* That is so at least until a second thread creates primitives.           *)
AloneReturnsRequested ==
    (\E c \in Creators : \A t \in Creators \ {c} : calls[t] = 0) => ReturnsRequested

(* Only completely initialised primitives are cached: a primitive that     *)
(* lacks a nested one would be handed to every later caller of that key.   *)
CachedAreWhole == \A i \in 1 .. Len(cache.list) : cache.list[i].whole

(* A thread holds the lock exactly where the code says it does, and a      *)
(* writer holds it alone.                                                  *)
LockDiscipline ==
    \A t \in Threads :
        /\ t \in readers <=> pc[t] \in ReadSteps
        /\ writer = t <=> pc[t] \in WriteSteps
        /\ t \in readers => writer = NoThread

(* What a thread has learned about the cache stays true until it uses it:  *)
(* the node it found is the one mapped to its key, the list it takes the   *)
(* front of is not empty, and a key it is about to add is not cached.      *)
KnowledgeHolds ==
    \A t \in Threads :
        /\ pc[t] = "splice" => p[t] # NoPrim /\ p[t] = cache.mapper[req[t]]
        /\ pc[t] = "front" => cache.list # << >>
        /\ pc[t] = "init" => cache.mapper[req[t]] = NoPrim

(* The inductive invariant behind the three properties of the container.   *)
CacheInv ==
    /\ TypeOK
    /\ CacheSound
    /\ CapacityRespected
    /\ LockDiscipline
    /\ KnowledgeHolds

(* Strengthening of ReturnsRequested for a thread that creates alone:      *)
(* between its splice and its front() nobody moves an entry to the front.  *)
CreateSteps == {"lock_read", "find", "splice", "front", "unlock_hit", "unlock_miss",
                "lock_write", "recheck", "init", "unlock_write"}
AnswerHolds ==
    \A t \in Threads :
        /\ pc[t] \in CreateSteps => t \in Creators
        /\ pc[t] = "front" => cache.list[1].key = req[t]
        /\ pc[t] = "init" => p[t] = NoPrim
        /\ pc[t] \in {"unlock_hit", "unlock_write"} /\ p[t] # NoPrim => p[t].key = req[t]

(* Every call returns: no path of create_primitive_common keeps the lock,  *)
(* and nested creation does not wait for the lock its own thread holds.    *)
CallsReturn ==
    \A t \in Threads : pc[t] # "idle" ~> pc[t] = "idle" \/ torn
=============================================================================
