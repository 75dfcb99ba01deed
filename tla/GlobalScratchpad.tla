-------------------------- MODULE GlobalScratchpad --------------------------
(***************************************************************************)
(* Scratchpads in library mode (common/scratchpad.cpp, and the parts of    *)
(* common/primitive.cpp that create and drop them).  A primitive either    *)
(* shares the global scratchpad of the thread that created it, or owns a   *)
(* private one.  The state of a global scratchpad is thread_local, so each *)
(* creation and each destruction is one step: nothing another thread does  *)
(* can come in between.                                                    *)
(*                                                                         *)
(* A memory storage is its size in bytes; Null is the null pointer.  A     *)
(* storage of 0 bytes is an object without data, and creating one does not *)
(* allocate.                                                               *)
(***************************************************************************)
EXTENDS Integers, FiniteSets

CONSTANTS Threads,
          Prims,            \* the dnnl_primitive objects
          NoThread,         \* owner of a primitive that does not exist
          PadSizes,         \* scratchpad sizes the primitives register
          RefWrap,          \* 2^32: reference_count_ is an unsigned int
          Migrating         \* primitives may be destroyed by another thread

ASSUME OwnerAssumption == NoThread \notin Threads
ASSUME PadSizesAssumption == PadSizes \subseteq Nat
ASSUME PrimsAssumption == IsFiniteSet(Prims)
ASSUME RefWrapAssumption == RefWrap \in Nat /\ Cardinality(Prims) < RefWrap
ASSUME MigratingAssumption == Migrating \in BOOLEAN

VARIABLES
    pad,     \* per thread: mem_storage_, size_ and reference_count_
    owner,   \* the thread that created the primitive
    need,    \* the scratchpad size of its descriptor
    holds    \* what its scratchpad_ is: "none", "global" or "private"

padVars == <<pad, owner, need, holds>>

Null == -1
Pads == [storage : Nat \cup {Null}, size : Nat, refs : 0 .. RefWrap - 1]

TypeOK ==
    /\ pad \in [Threads -> Pads]
    /\ owner \in [Prims -> Threads \cup {NoThread}]
    /\ need \in [Prims -> Nat]
    /\ holds \in [Prims -> {"none", "global", "private"}]

PadInit ==
    /\ pad = [t \in Threads |-> [storage |-> Null, size |-> 0, refs |-> 0]]
    /\ owner = [p \in Prims |-> NoThread]
    /\ need = [p \in Prims |-> 0]
    /\ holds = [p \in Prims |-> "none"]

-----------------------------------------------------------------------------
(* Mutant: a scratchpad that is large enough is replaced as well. *)
ExpandAlways(d, n) ==
    {[d EXCEPT !.storage = n, !.size = n]}

(* The pads global_scratchpad_t(engine, n) can leave, before it counts the *)
(* reference: a pad that is large enough is kept; otherwise it is deleted  *)
(* and allocated again with n bytes, or with the old size when that fails. *)
(* When that fails too there is no pad any more, and size_ is 0, although  *)
(* other primitives may still share it.                                    *)
Expand(d, n) ==
    IF n <= d.size THEN {d}
    ELSE {[d EXCEPT !.storage = n, !.size = n], [d EXCEPT !.storage = d.size]}
           \cup (IF d.size > 0 THEN {[d EXCEPT !.storage = Null, !.size = 0]} ELSE {})

Acquire(d) == [d EXCEPT !.refs = (@ + 1) % RefWrap]

(* Mutant: the last reference leaves the storage in place. *)
ReleaseLeaks(d) == [d EXCEPT !.refs = (@ - 1) % RefWrap]

(* ~global_scratchpad_t() *)
Release(d) ==
    IF (d.refs - 1) % RefWrap = 0
    THEN [storage |-> Null, size |-> 0, refs |-> 0]
    ELSE [d EXCEPT !.refs = (@ - 1) % RefWrap]

Live(p) == owner[p] # NoThread

Created(t, p, n, h) ==
    /\ owner' = [owner EXCEPT ![p] = t]
    /\ need' = [need EXCEPT ![p] = n]
    /\ holds' = [holds EXCEPT ![p] = h]

-----------------------------------------------------------------------------
(* dnnl_primitive::init() of a primitive without scratchpad. *)
CreateWithoutPad(t, p) ==
    /\ ~Live(p)
    /\ Created(t, p, 0, "none")
    /\ UNCHANGED pad

(* init() with the global scratchpad of thread t, successful. *)
CreateGlobal(t, p, n) ==
    /\ ~Live(p)
    /\ n > 0
    /\ \E d \in Expand(pad[t], n) :
          /\ d.storage # Null
          /\ d.size >= n
          /\ pad' = [pad EXCEPT ![t] = Acquire(d)]
    /\ Created(t, p, n, "global")

(* Mutant: a failed init() does not destroy the scratchpad object. *)
CreateGlobalFailsKeeps(t, p, n) ==
    /\ ~Live(p)
    /\ n > 0
    /\ \E d \in Expand(pad[t], n) : pad' = [pad EXCEPT ![t] = Acquire(d)]
    /\ UNCHANGED <<owner, need, holds>>

(* init() fails: there is no storage, it is too small, or create_resource  *)
(* fails.  The scratchpad object is destroyed again.                       *)
CreateGlobalFails(t, p, n) ==
    /\ ~Live(p)
    /\ n > 0
    /\ \E d \in Expand(pad[t], n) : pad' = [pad EXCEPT ![t] = Release(Acquire(d))]
    /\ UNCHANGED <<owner, need, holds>>

(* init() with a concurrent_scratchpad_t; when its allocation fails, the   *)
(* primitive is not created and nothing is left.                           *)
CreatePrivate(t, p, n) ==
    /\ ~Live(p)
    /\ n > 0
    /\ Created(t, p, n, "private")
    /\ UNCHANGED pad

(* dnnl_primitive_destroy in thread t: the thread_local members it touches *)
(* are those of t.                                                         *)
Destroy(t, p) ==
    /\ Live(p)
    /\ t = owner[p] \/ Migrating
    /\ pad' = IF holds[p] = "global" THEN [pad EXCEPT ![t] = Release(@)] ELSE pad
    /\ owner' = [owner EXCEPT ![p] = NoThread]
    /\ holds' = [holds EXCEPT ![p] = "none"]
    /\ UNCHANGED need

PadNext ==
    \E t \in Threads, p \in Prims :
        \/ CreateWithoutPad(t, p)
        \/ \E n \in PadSizes :
              CreateGlobal(t, p, n) \/ CreateGlobalFails(t, p, n) \/ CreatePrivate(t, p, n)
        \/ Destroy(t, p)

PadSpec == PadInit /\ [][PadNext]_padVars

-----------------------------------------------------------------------------
Sharing(t) == {p \in Prims : owner[p] = t /\ holds[p] = "global"}

(* Executed by its creator t, primitive p is given a pad that is there and *)
(* is as large as it needs.                                                *)
Served(t, p) == pad[t].storage # Null /\ pad[t].storage >= need[p]

(* A creation that failed has left thread t without its pad. *)
PadLost(t) == pad[t].storage # Null /\ pad'[t].storage = Null /\ UNCHANGED owner

KeepsServed ==
    \A t \in Threads : \A p \in Sharing(t)' :
        \/ Served(t, p)'
        \/ p \in Sharing(t) /\ (~Served(t, p) \/ PadLost(t))

(* A primitive that shares the global scratchpad is created with a pad as  *)
(* large as it needs, and keeps one whatever else its thread creates and   *)
(* destroys, although the storage is replaced under it.  The one step that *)
(* takes it away is a creation that fails with out_of_memory because both  *)
(* allocations of the expansion failed (scratchpad.cpp:76-80).             *)
ServedUnlessLost == [][KeepsServed]_padVars

(* "The global scratchpad is freed when all the primitives referencing it  *)
(* are destroyed": a thread none of whose primitives shares its scratchpad *)
(* has none, after failed creations too.                                   *)
FreedWhenUnused ==
    \A t \in Threads : Sharing(t) = {} => pad[t].storage = Null

(* reference_count_ is the number of primitives that share the pad. *)
RefsCount == \A t \in Threads : pad[t].refs = Cardinality(Sharing(t))

(* size_ is the size of the storage whenever there is one. *)
SizeIsRecorded ==
    \A t \in Threads :
        /\ pad[t].storage # Null => pad[t].storage = pad[t].size
        /\ pad[t].storage = Null => pad[t].size = 0

(* The inductive invariant for threads that destroy what they created. *)
PadInv == TypeOK /\ RefsCount /\ SizeIsRecorded /\ FreedWhenUnused
=============================================================================
