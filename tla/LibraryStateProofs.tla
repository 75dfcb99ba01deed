------------------------- MODULE LibraryStateProofs -------------------------
(***************************************************************************)
(* The parts of the library that keep state around the primitives.  The    *)
(* ISA setting is frozen by the first hard get, for any number of threads  *)
(* and of ISAs.  The global scratchpad of a thread stays large enough, up  *)
(* to an expansion that fails altogether, and is freed, for any number of  *)
(* threads and primitives and for all sizes, as long as primitives are     *)
(* destroyed by the thread that created them.  In the layout of a          *)
(* scratchpad the ledger is inductive whatever is booked, and everything   *)
(* about addresses follows from it and from the bounds of Get.             *)
(***************************************************************************)
EXTENDS MaxCpuIsa, GlobalScratchpad, MemoryTracking, FiniteSetTheorems, TLAPS

-----------------------------------------------------------------------------
(*                             The ISA setting                             *)

(* The invariant holds before the first call. *)
LEMMA IsaInvInit == IsaInit => IsaInv
<1> SUFFICES ASSUME IsaInit PROVE IsaInv
  OBVIOUS
<1>1. IsaTypeOK
  <2>1. /\ user \in [Callers -> BOOLEAN] /\ soft \in [Callers -> BOOLEAN]
        /\ initialized \in BOOLEAN
    BY ZenonT(30) DEF IsaInit
  <2>2. /\ pc \in [Callers -> PCs] /\ arg \in [Callers -> Isas]
        /\ calls \in [Callers -> 0 .. MaxCalls]
    BY CallsAssumption, IsaAssumption DEF IsaInit, PCs
  <2>3. QED
    BY <2>1, <2>2 DEF IsaInit, IsaTypeOK
<1>2. OneSetter /\ ValueBeforeGet /\ HardGetsAgree
  <2>1. /\ \A t \in Callers : pc[t] = "idle"
        /\ initialized = FALSE /\ state = "idle" /\ answers = {}
    BY ZenonT(30) DEF IsaInit
  <2>2. OneSetter
    BY <2>1, ZenonT(30) DEF OneSetter, Storing
  <2>3. ValueBeforeGet
    BY <2>1, ZenonT(30) DEF ValueBeforeGet
  <2>4. HardGetsAgree
    BY <2>1, ZenonT(30) DEF HardGetsAgree
  <2>5. QED
    BY <2>2, <2>3, <2>4
<1>3. QED
  BY <1>1, <1>2 DEF IsaInv

(* Every step of a call keeps the invariant. *)
LEMMA IsaInvStep ==
  ASSUME IsaInv, NEW t \in Callers, Step(t)
  PROVE  IsaInv'
<1> USE IsaAssumption DEF IsaInv, IsaTypeOK, OneSetter, ValueBeforeGet, HardGetsAgree,
                        PCs, Storing, Goto, AfterSet
<1>1. CASE InitMaxCpuIsa(t)
  BY <1>1 DEF InitMaxCpuIsa
<1>2. CASE SetLoad(t)
  BY <1>2 DEF SetLoad
<1>3. CASE SetExchange(t)
  BY <1>3 DEF SetExchange
<1>4. CASE SetValue(t)
  <2>1. /\ pc[t] \in {"store", "store_value"} /\ pc'[t] \in {"store_flag", "unlock"}
        /\ pc[t] = "store_value" <=> pc'[t] = "unlock"
        /\ \A u \in Callers : u # t => pc'[u] = pc[u]
        /\ value' = arg[t] /\ arg[t] \in Isas
        /\ UNCHANGED <<initialized, state, user, soft, arg, calls, answers, chosen>>
    BY <1>4 DEF SetValue
  <2>2. IsaTypeOK'
    BY <1>4 DEF SetValue
  <2>3. OneSetter'
    <3>1. \A u \in Callers : pc'[u] \in Storing => pc[u] \in Storing
      BY <2>1
    <3>2. QED
      BY <2>1, <3>1
  <2>3a. HardGetsAgree'
    <3>1. answers = {}
      BY <2>1
    <3>2. QED
      BY <2>1, <3>1
  <2>4. ValueBeforeGet'
    <3>1. value' # NoIsa /\ state' # "locked_after_a_get"
      BY <2>1
    <3>2. pc'[t] = "unlock" => initialized
      BY <2>1, <1>4 DEF SetValue
    <3>3. \A u \in Callers : pc'[u] \in {"get_load", "get_cas", "read", "store_value", "unlock"} => initialized
      BY <2>1, <3>2
    <3>4. \A u \in Callers : pc'[u] = "read" /\ ~soft'[u] => FALSE
      BY <2>1
    <3>5. QED
      BY <2>1, <3>1, <3>3, <3>4
  <2>5. QED
    BY <2>2, <2>3, <2>3a, <2>4
<1>5. CASE SetInitialized(t)
  BY <1>5 DEF SetInitialized
<1>6. CASE SetUnlock(t)
  BY <1>6 DEF SetUnlock
<1>7. CASE GetLoad(t)
  BY <1>7 DEF GetLoad
<1>8. CASE GetExchange(t)
  BY <1>8 DEF GetExchange
<1>9. CASE GetReturn(t)
  BY <1>9, SMTT(30) DEF GetReturn
<1>10. QED
  BY <1>1, <1>2, <1>3, <1>4, <1>5, <1>6, <1>7, <1>8, <1>9 DEF Step
(* Every call keeps the invariant. *)
LEMMA IsaInvCall ==
  ASSUME IsaInv, NEW t \in Callers, Call(t)
  PROVE  IsaInv'
<1> USE CallsAssumption DEF IsaInv, IsaTypeOK, OneSetter, ValueBeforeGet, HardGetsAgree,
                          PCs, Storing, Goto, NewCall
<1>1. ASSUME NEW isa \in Isas, SetMaxCpuIsa(t, isa)
      PROVE  IsaInv'
  BY <1>1 DEF SetMaxCpuIsa
<1>2. ASSUME NEW s \in BOOLEAN, GetMaxCpuIsa(t, s)
      PROVE  IsaInv'
  BY <1>2 DEF GetMaxCpuIsa
<1>3. QED
  BY <1>1, <1>2 DEF Call

(* Every step keeps the setting's lock and its value in agreement. *)
LEMMA IsaInvNext == IsaInv /\ [IsaNext]_isaVars => IsaInv'
<1> SUFFICES ASSUME IsaInv, [IsaNext]_isaVars PROVE IsaInv'
  OBVIOUS
<1>1. CASE UNCHANGED isaVars
  BY <1>1 DEF isaVars, IsaInv, IsaTypeOK, OneSetter, ValueBeforeGet, HardGetsAgree
<1>2. ASSUME NEW t \in Callers, Call(t) \/ Step(t)
      PROVE  IsaInv'
  BY <1>2, IsaInvCall, IsaInvStep
<1>3. QED
  BY <1>1, <1>2 DEF IsaNext, Finished

-----------------------------------------------------------------------------
(* The inductive invariant holds of every execution. *)
THEOREM IsaInvariant == IsaSpec => []IsaInv
BY IsaInvInit, IsaInvNext, PTL DEF IsaSpec

(* All hard gets return the same value, and never isa_any. *)
THEOREM AllHardGetsAgree == IsaSpec => []HardGetsAgree
<1>1. IsaInv => HardGetsAgree
  BY DEF IsaInv
<1>2. QED
  BY <1>1, IsaInvariant, PTL

(* After the first hard get neither the value nor the lock changes: a      *)
(* setter that had passed its first test finds the setting locked.         *)
THEOREM SettingIsFrozen == IsaSpec => FrozenAfterGet
<1> DEFINE Frozen == state = "locked_after_a_get" =>
                        value' = value /\ state' = "locked_after_a_get"
<1>1. IsaInv /\ [IsaNext]_isaVars => [Frozen]_isaVars
  <2> SUFFICES ASSUME IsaInv, IsaNext, state = "locked_after_a_get"
               PROVE  value' = value /\ state' = "locked_after_a_get"
    OBVIOUS
  <2>1. \A t \in Callers : pc[t] \notin Storing
    BY ZenonT(30) DEF IsaInv, OneSetter
  <2>2. QED
    BY <2>1 DEF IsaNext, Finished, isaVars, Call, Step, SetMaxCpuIsa, GetMaxCpuIsa,
       InitMaxCpuIsa, SetLoad, SetExchange, SetValue, SetInitialized, SetUnlock,
       GetLoad, GetExchange, GetReturn, Goto, Storing
<1>2. QED
  BY <1>1, IsaInvariant, PTL DEF IsaSpec, FrozenAfterGet

-----------------------------------------------------------------------------
(*                         The global scratchpads                          *)

Empty == [storage |-> Null, size |-> 0, refs |-> 0]

(* A count that does not reach RefWrap is not reduced. *)
LEMMA ModSmall == \A x \in 0 .. RefWrap - 1 : x % RefWrap = x
BY RefWrapAssumption

(* The primitives that share a pad are finitely many, and one more of them *)
(* can still be counted.                                                   *)
LEMMA SharingFinite ==
  ASSUME NEW t
  PROVE  /\ IsFiniteSet(Sharing(t))
         /\ Cardinality(Sharing(t)) \in 0 .. RefWrap - 1
         /\ Cardinality(Sharing(t)) = 0 <=> Sharing(t) = {}
         /\ \A p \in Prims \ Sharing(t) : Cardinality(Sharing(t)) + 1 < RefWrap
<1>1. Sharing(t) \subseteq Prims
  BY DEF Sharing
<1>2. /\ IsFiniteSet(Sharing(t)) /\ Cardinality(Sharing(t)) <= Cardinality(Prims)
      /\ Cardinality(Sharing(t)) \in Nat /\ Cardinality(Prims) \in Nat
  BY <1>1, PrimsAssumption, FS_Subset, FS_CardinalityType
<1>3. Cardinality(Sharing(t)) = 0 <=> Sharing(t) = {}
  BY <1>2, FS_EmptySet
<1>4. ASSUME NEW p \in Prims \ Sharing(t)
      PROVE  Cardinality(Sharing(t)) + 1 < RefWrap
  <2> DEFINE S == Sharing(t) \cup {p}
  <2>1. Cardinality(S) = Cardinality(Sharing(t)) + 1
    BY <1>2, <1>4, FS_AddElement
  <2>2. S \subseteq Prims
    BY <1>1
  <2>3. Cardinality(S) <= Cardinality(Prims)
    BY <2>2, PrimsAssumption, FS_Subset
  <2>4. QED
    BY <2>1, <2>3, <1>2, RefWrapAssumption
<1>5. QED
  BY <1>2, <1>3, <1>4, RefWrapAssumption

(* Fields of a pad, and what the constructor makes of them. *)
LEMMA ExpandFacts ==
  ASSUME NEW d \in Pads, NEW n \in Nat, NEW e \in Expand(d, n)
  PROVE  /\ e \in Pads /\ e.refs = d.refs
         /\ \/ e = d /\ n <= d.size
            \/ e.storage = n /\ e.size = n /\ d.size < n
            \/ e.storage = d.size /\ e.size = d.size
            \/ e.storage = Null /\ e.size = 0
<1>1. CASE n <= d.size
  BY <1>1 DEF Expand
<1>2. CASE ~(n <= d.size)
  <2>0. d.size \in Nat /\ d.refs \in 0 .. RefWrap - 1 /\ d.size < n
    BY <1>2 DEF Pads
  <2>1. CASE e = [d EXCEPT !.storage = n, !.size = n]
    BY <2>0, <2>1, ZenonT(30) DEF Pads
  <2>2. CASE e = [d EXCEPT !.storage = d.size]
    BY <2>0, <2>2 DEF Pads
  <2>3. CASE e = [d EXCEPT !.storage = Null, !.size = 0]
    BY <2>0, <2>3, ZenonT(30) DEF Pads, Null
  <2>4. QED
    BY <1>2, <2>1, <2>2, <2>3 DEF Expand
<1>3. QED
  BY <1>1, <1>2

(* A primitive that takes a reference counts once and keeps the buffer. *)
LEMMA AcquireFacts ==
  ASSUME NEW d \in Pads, d.refs + 1 < RefWrap
  PROVE  /\ Acquire(d) \in Pads /\ Acquire(d).refs = d.refs + 1
         /\ Acquire(d).storage = d.storage /\ Acquire(d).size = d.size
<1>1. d.refs + 1 \in 0 .. RefWrap - 1
  BY RefWrapAssumption DEF Pads
<1>2. (d.refs + 1) % RefWrap = d.refs + 1
  BY <1>1, ModSmall
<1>3. QED
  BY <1>1, <1>2 DEF Acquire, Pads

(* Giving a reference back counts down, and the last one frees the buffer. *)
LEMMA ReleaseFacts ==
  ASSUME NEW d \in Pads, d.refs > 0
  PROVE  /\ Release(d) \in Pads /\ Release(d).refs = d.refs - 1
         /\ d.refs = 1 => Release(d) = Empty
         /\ d.refs # 1 => Release(d).storage = d.storage /\ Release(d).size = d.size
<1>1. d.refs - 1 \in 0 .. RefWrap - 1
  BY RefWrapAssumption DEF Pads
<1>2. (d.refs - 1) % RefWrap = d.refs - 1
  BY <1>1, ModSmall
<1>3. CASE d.refs = 1
  BY <1>1, <1>2, <1>3 DEF Release, Pads, Empty, Null
<1>4. CASE d.refs # 1
  BY <1>1, <1>2, <1>4 DEF Release, Pads
<1>5. QED
  BY <1>3, <1>4

(* A creation that fails drops the reference it has counted. *)
LEMMA ReleaseAcquired ==
  ASSUME NEW d \in Pads, d.refs + 1 < RefWrap
  PROVE  /\ Release(Acquire(d)) \in Pads /\ Release(Acquire(d)).refs = d.refs
         /\ d.refs = 0 => Release(Acquire(d)) = Empty
         /\ d.refs # 0 => /\ Release(Acquire(d)).storage = d.storage
                          /\ Release(Acquire(d)).size = d.size
<1> DEFINE a == Acquire(d)
<1>1. a \in Pads /\ a.refs = d.refs + 1 /\ a.storage = d.storage /\ a.size = d.size
  BY AcquireFacts
<1>2. a.refs > 0 /\ d.refs \in Nat
  BY <1>1 DEF Pads
<1> HIDE DEF a
<1>3. /\ Release(a) \in Pads /\ Release(a).refs = a.refs - 1
      /\ a.refs = 1 => Release(a) = Empty
      /\ a.refs # 1 => Release(a).storage = a.storage /\ Release(a).size = a.size
  BY <1>1, <1>2, ReleaseFacts
<1>4. QED
  BY <1>1, <1>2, <1>3 DEF a
-----------------------------------------------------------------------------
(* A step that changes the pad of one thread, and the primitives that      *)
(* share it, keeps the invariant if it does so consistently.               *)
LEMMA PadInvLocal ==
  ASSUME PadInv, NEW t \in Threads, NEW d \in Pads,
         pad' = [pad EXCEPT ![t] = d],
         d.refs = Cardinality(Sharing(t)'),
         d.storage # Null => d.storage = d.size,
         d.storage = Null => d.size = 0,
         Sharing(t)' = {} => d.storage = Null,
         \A u \in Threads \ {t} : Sharing(u)' = Sharing(u),
         owner' \in [Prims -> Threads \cup {NoThread}],
         need' \in [Prims -> Nat],
         holds' \in [Prims -> {"none", "global", "private"}]
  PROVE  PadInv'
<1>1. /\ pad'[t] = d
      /\ \A u \in Threads \ {t} : pad'[u] = pad[u]
      /\ pad' \in [Threads -> Pads]
  BY DEF PadInv, TypeOK
<1>2. TypeOK'
  BY <1>1 DEF TypeOK
<1>3. RefsCount'
  BY <1>1 DEF PadInv, RefsCount
<1>4. SizeIsRecorded'
  BY <1>1 DEF PadInv, SizeIsRecorded
<1>5. FreedWhenUnused'
  BY <1>1 DEF PadInv, FreedWhenUnused
<1>6. QED
  BY <1>2, <1>3, <1>4, <1>5 DEF PadInv

(* A step that leaves the pads, and who shares them, alone. *)
LEMMA PadInvUnshared ==
  ASSUME PadInv, pad' = pad,
         \A u \in Threads : Sharing(u)' = Sharing(u),
         owner' \in [Prims -> Threads \cup {NoThread}],
         need' \in [Prims -> Nat],
         holds' \in [Prims -> {"none", "global", "private"}]
  PROVE  PadInv'
BY DEF PadInv, TypeOK, RefsCount, SizeIsRecorded, FreedWhenUnused

(* A creation: who shares which pad afterwards. *)
LEMMA CreatedFacts ==
  ASSUME TypeOK, NEW t \in Threads, NEW p \in Prims, NEW n \in Nat,
         NEW h \in {"none", "global", "private"}, ~Live(p), Created(t, p, n, h)
  PROVE  /\ owner' \in [Prims -> Threads \cup {NoThread}]
         /\ need' \in [Prims -> Nat]
         /\ holds' \in [Prims -> {"none", "global", "private"}]
         /\ \A u \in Threads : p \notin Sharing(u)
         /\ \A u \in Threads \ {t} : Sharing(u)' = Sharing(u)
         /\ h # "global" => Sharing(t)' = Sharing(t)
         /\ h = "global" => Sharing(t)' = Sharing(t) \cup {p}
<1>1. /\ owner' \in [Prims -> Threads \cup {NoThread}]
      /\ need' \in [Prims -> Nat]
      /\ holds' \in [Prims -> {"none", "global", "private"}]
      /\ owner'[p] = t /\ holds'[p] = h /\ owner[p] = NoThread
      /\ \A q \in Prims \ {p} : owner'[q] = owner[q] /\ holds'[q] = holds[q]
  BY DEF TypeOK, Created, Live
<1>2. \A u \in Threads : p \notin Sharing(u)
  BY <1>1, OwnerAssumption DEF Sharing
<1>3. \A u \in Threads \ {t} : Sharing(u)' = Sharing(u)
  BY <1>1, <1>2 DEF Sharing
<1>4. h # "global" => Sharing(t)' = Sharing(t)
  BY <1>1, <1>2 DEF Sharing
<1>5. h = "global" => Sharing(t)' = Sharing(t) \cup {p}
  BY <1>1, <1>2 DEF Sharing
<1>6. QED
  BY <1>1, <1>2, <1>3, <1>4, <1>5

(* The pad of a thread under the invariant. *)
LEMMA PadFacts ==
  ASSUME PadInv, NEW t \in Threads
  PROVE  /\ pad[t] \in Pads /\ pad[t].size \in Nat /\ pad[t].refs \in Nat
         /\ pad[t].refs = Cardinality(Sharing(t))
         /\ pad[t].refs = 0 <=> Sharing(t) = {}
         /\ pad[t].storage # Null => pad[t].storage = pad[t].size
         /\ pad[t].storage = Null => pad[t].size = 0
BY SharingFinite DEF PadInv, TypeOK, Pads, RefsCount, SizeIsRecorded

(* What the constructor leaves obeys the same bookkeeping. *)
LEMMA ExpandedFacts ==
  ASSUME PadInv, NEW t \in Threads, NEW n \in Nat, NEW e \in Expand(pad[t], n)
  PROVE  /\ e \in Pads /\ e.refs = pad[t].refs /\ e.size \in Nat
         /\ e.storage # Null => e.storage = e.size
         /\ e.storage = Null => e.size = 0
         /\ e.storage # Null => e.size >= pad[t].size
<1>1. /\ pad[t] \in Pads /\ pad[t].size \in Nat
      /\ pad[t].storage # Null => pad[t].storage = pad[t].size
      /\ pad[t].storage = Null => pad[t].size = 0
  BY PadFacts
<1>2. /\ e \in Pads /\ e.refs = pad[t].refs
      /\ \/ e = pad[t] /\ n <= pad[t].size
         \/ e.storage = n /\ e.size = n /\ pad[t].size < n
         \/ e.storage = pad[t].size /\ e.size = pad[t].size
         \/ e.storage = Null /\ e.size = 0
  BY <1>1, ExpandFacts
<1>3. e.size \in Nat
  BY <1>2 DEF Pads
<1>4. QED
  BY <1>1, <1>2, <1>3 DEF Null

-----------------------------------------------------------------------------

(* init() with the global scratchpad keeps the counters and the sizes right. *)
LEMMA CreateGlobalInv ==
  ASSUME PadInv, NEW t \in Threads, NEW p \in Prims, NEW n \in PadSizes,
         CreateGlobal(t, p, n)
  PROVE  /\ PadInv'
         /\ KeepsServed
<1>0. TypeOK /\ n \in Nat /\ n > 0 /\ ~Live(p) /\ Created(t, p, n, "global")
  BY PadSizesAssumption DEF CreateGlobal, PadInv
<1>1. PICK e \in Expand(pad[t], n) :
         e.storage # Null /\ e.size >= n /\ pad' = [pad EXCEPT ![t] = Acquire(e)]
  BY ZenonT(30) DEF CreateGlobal
<1>2. /\ owner' \in [Prims -> Threads \cup {NoThread}]
      /\ need' \in [Prims -> Nat]
      /\ holds' \in [Prims -> {"none", "global", "private"}]
      /\ \A u \in Threads : p \notin Sharing(u)
      /\ \A u \in Threads \ {t} : Sharing(u)' = Sharing(u)
      /\ Sharing(t)' = Sharing(t) \cup {p}
  BY <1>0, CreatedFacts
<1>3. /\ e \in Pads /\ e.refs = pad[t].refs /\ e.size \in Nat
      /\ e.storage # Null => e.storage = e.size
      /\ e.storage = Null => e.size = 0
      /\ e.storage # Null => e.size >= pad[t].size
  BY <1>0, <1>1, ExpandedFacts
<1>4. /\ pad[t].refs = Cardinality(Sharing(t)) /\ pad[t].refs + 1 < RefWrap
      /\ Cardinality(Sharing(t)') = pad[t].refs + 1
  <2>1. pad[t].refs = Cardinality(Sharing(t)) /\ p \in Prims \ Sharing(t)
    BY <1>2, PadFacts
  <2>2. Cardinality(Sharing(t) \cup {p}) = Cardinality(Sharing(t)) + 1
    BY <2>1, SharingFinite, FS_AddElement, ZenonT(30)
  <2>3. QED
    BY <1>2, <2>1, <2>2, SharingFinite
<1> DEFINE d == Acquire(e)
<1>5. d \in Pads /\ d.refs = e.refs + 1 /\ d.storage = e.storage /\ d.size = e.size
  BY <1>3, <1>4, AcquireFacts
<1>6. pad' = [pad EXCEPT ![t] = d]
  BY <1>1
<1> HIDE DEF d
<1>7. PadInv'
  <2>1. /\ d.storage # Null => d.storage = d.size
        /\ d.storage = Null => d.size = 0
        /\ d.refs = Cardinality(Sharing(t)')
        /\ Sharing(t)' # {}
    BY <1>2, <1>3, <1>4, <1>5
  <2>2. QED
    BY <1>2, <1>5, <1>6, <2>1, PadInvLocal, ZenonT(30)
<1>8. KeepsServed
  <2>1. need'[p] = n /\ \A q \in Prims \ {p} : need'[q] = need[q]
    BY <1>0 DEF Created, TypeOK
  <2>2. pad'[t] = d /\ \A u \in Threads \ {t} : pad'[u] = pad[u]
    BY <1>0, <1>6, SMTT(30) DEF TypeOK
  <2>3. ASSUME NEW u \in Threads \ {t}, NEW q \in Sharing(u)'
        PROVE  q \in Sharing(u) /\ (Served(u, q) => Served(u, q)')
    <3>1. q \in Sharing(u) /\ q # p /\ q \in Prims
      BY <1>2, <2>3 DEF Sharing
    <3>2. QED
      BY <2>1, <2>2, <3>1 DEF Served
  <2>4. ASSUME NEW q \in Sharing(t)'
        PROVE  Served(t, q)' \/ (q \in Sharing(t) /\ ~Served(t, q))
    <3>1. CASE q = p
      BY <1>1, <1>3, <1>5, <2>1, <2>2, <3>1, SMTT(30) DEF Served
    <3>2. CASE q # p
      <4>1. q \in Sharing(t) /\ q \in Prims /\ need[q] \in Nat
        BY <1>0, <1>2, <2>4, <3>2, SMTT(30) DEF Sharing, TypeOK
      <4>2. SUFFICES ASSUME Served(t, q) PROVE Served(t, q)'
        BY <4>1
      <4>3. pad[t].storage = pad[t].size /\ pad[t].size \in Nat /\ pad[t].size >= need[q]
        BY <4>2, PadFacts DEF Served
      <4>4. QED
        BY <1>1, <1>3, <1>5, <2>1, <2>2, <3>2, <4>1, <4>3, SMTT(30) DEF Served
    <3>3. QED
      BY <3>1, <3>2
  <2>5. QED
    BY <2>3, <2>4 DEF KeepsServed
<1>9. QED
  BY <1>7, <1>8

(* A failed init() gives back what it took. *)
LEMMA CreateGlobalFailsInv ==
  ASSUME PadInv, NEW t \in Threads, NEW p \in Prims, NEW n \in PadSizes,
         CreateGlobalFails(t, p, n)
  PROVE  /\ PadInv'
         /\ KeepsServed
<1>0. /\ TypeOK /\ n \in Nat /\ n > 0 /\ owner[p] = NoThread
      /\ UNCHANGED <<owner, need, holds>>
  BY PadSizesAssumption DEF CreateGlobalFails, PadInv, Live
<1>1. PICK e \in Expand(pad[t], n) : pad' = [pad EXCEPT ![t] = Release(Acquire(e))]
  BY ZenonT(30) DEF CreateGlobalFails
<1>2. /\ e \in Pads /\ e.refs = pad[t].refs /\ e.size \in Nat
      /\ e.storage # Null => e.storage = e.size
      /\ e.storage = Null => e.size = 0
      /\ e.storage # Null => e.size >= pad[t].size
  BY <1>0, <1>1, ExpandedFacts
<1>3. \A u \in Threads : Sharing(u)' = Sharing(u)
  BY <1>0 DEF Sharing
<1>4. /\ pad[t].refs = Cardinality(Sharing(t)) /\ pad[t].refs + 1 < RefWrap
      /\ pad[t].refs = 0 <=> Sharing(t) = {}
  <2>1. p \in Prims \ Sharing(t)
    BY <1>0, OwnerAssumption, SMTT(30) DEF Sharing
  <2>2. QED
    BY <2>1, PadFacts, SharingFinite
<1> DEFINE d == Release(Acquire(e))
<1>5. /\ d \in Pads /\ d.refs = e.refs
      /\ e.refs = 0 => d = Empty
      /\ e.refs # 0 => d.storage = e.storage /\ d.size = e.size
  BY <1>2, <1>4, ReleaseAcquired
<1>6. pad' = [pad EXCEPT ![t] = d]
  BY <1>1
<1> HIDE DEF d
<1>7. PadInv'
  <2>1. /\ d.storage # Null => d.storage = d.size
        /\ d.storage = Null => d.size = 0
        /\ Sharing(t)' = {} => d.storage = Null
    BY <1>2, <1>3, <1>4, <1>5 DEF Empty
  <2>2. d.refs = Cardinality(Sharing(t)')
    BY <1>2, <1>3, <1>4, <1>5
  <2>3. /\ owner' \in [Prims -> Threads \cup {NoThread}]
        /\ need' \in [Prims -> Nat]
        /\ holds' \in [Prims -> {"none", "global", "private"}]
    BY <1>0 DEF TypeOK
  <2>4. QED
    BY <1>3, <1>5, <1>6, <2>1, <2>2, <2>3, PadInvLocal, ZenonT(30)
<1>8. KeepsServed
  <2>1. pad'[t] = d /\ \A u \in Threads \ {t} : pad'[u] = pad[u]
    BY <1>0, <1>6, SMTT(30) DEF TypeOK
  <2>2. ASSUME NEW u \in Threads \ {t}, NEW q \in Sharing(u)'
        PROVE  q \in Sharing(u) /\ (Served(u, q) => Served(u, q)')
    BY <1>0, <1>3, <2>1, <2>2 DEF Served
  <2>3. ASSUME NEW q \in Sharing(t)'
        PROVE  q \in Sharing(t) /\ (Served(t, q) => Served(t, q)' \/ PadLost(t))
    <3>1. q \in Sharing(t) /\ q \in Prims /\ need[q] \in Nat /\ need' = need
      BY <1>0, <1>3, <2>3, SMTT(30) DEF Sharing, TypeOK
    <3>2. SUFFICES ASSUME Served(t, q) PROVE Served(t, q)' \/ PadLost(t)
      BY <3>1
    <3>3. /\ pad[t].storage # Null /\ pad[t].storage = pad[t].size
          /\ pad[t].size \in Nat /\ pad[t].size >= need[q]
      BY <3>2, PadFacts DEF Served
    <3>4. e.refs # 0
      BY <1>2, <1>4, <3>1
    <3>5. CASE e.storage = Null
      BY <1>0, <1>5, <2>1, <3>3, <3>4, <3>5 DEF PadLost
    <3>6. CASE e.storage # Null
      <4>1. pad'[t].storage # Null /\ pad'[t].storage = e.size
        BY <1>2, <1>5, <2>1, <3>4, <3>6
      <4>2. pad'[t].storage >= need'[q]
        BY <1>2, <3>1, <3>3, <3>6, <4>1, SMTT(30)
      <4>3. QED
        BY <4>1, <4>2 DEF Served
    <3>7. QED
      BY <3>5, <3>6
  <2>4. QED
    BY <2>2, <2>3 DEF KeepsServed
<1>9. QED
  BY <1>7, <1>8

(* Destroying a primitive gives back its reference. *)
LEMMA DestroyInv ==
  ASSUME PadInv, ~Migrating, NEW t \in Threads, NEW p \in Prims, Destroy(t, p)
  PROVE  /\ PadInv'
         /\ KeepsServed
<1>0. /\ TypeOK /\ t = owner[p] /\ need' = need
      /\ owner' = [owner EXCEPT ![p] = NoThread]
      /\ holds' = [holds EXCEPT ![p] = "none"]
  BY DEF Destroy, PadInv
<1>1. /\ owner' \in [Prims -> Threads \cup {NoThread}]
      /\ need' \in [Prims -> Nat]
      /\ holds' \in [Prims -> {"none", "global", "private"}]
      /\ owner'[p] = NoThread /\ holds'[p] = "none"
      /\ \A q \in Prims \ {p} : owner'[q] = owner[q] /\ holds'[q] = holds[q]
  BY <1>0 DEF TypeOK
<1>2. \A u \in Threads \ {t} : Sharing(u)' = Sharing(u)
  BY <1>0, <1>1, OwnerAssumption DEF Sharing
<1>3. Sharing(t)' = Sharing(t) \ {p}
  BY <1>0, <1>1, OwnerAssumption DEF Sharing
<1>4. CASE holds[p] # "global"
  <2>1. pad' = pad /\ Sharing(t)' = Sharing(t)
    BY <1>3, <1>4 DEF Destroy, Sharing
  <2>2. PadInv'
    BY <1>1, <1>2, <2>1, PadInvUnshared, SMTT(30)
  <2>3. KeepsServed
    BY <1>0, <1>2, <2>1 DEF KeepsServed, Served
  <2>4. QED
    BY <2>2, <2>3
<1>5. CASE holds[p] = "global"
  <2> DEFINE d == Release(pad[t])
  <2>1. pad' = [pad EXCEPT ![t] = d] /\ p \in Sharing(t)
    BY <1>0, <1>5 DEF Destroy, Sharing
  <2>2. /\ pad[t] \in Pads /\ pad[t].size \in Nat /\ pad[t].refs \in Nat
        /\ pad[t].refs = Cardinality(Sharing(t)) /\ pad[t].refs > 0
        /\ pad[t].storage # Null => pad[t].storage = pad[t].size
        /\ pad[t].storage = Null => pad[t].size = 0
    BY <2>1, PadFacts, SMTT(30)
  <2>3. /\ d \in Pads /\ d.refs = pad[t].refs - 1
        /\ pad[t].refs = 1 => d = Empty
        /\ pad[t].refs # 1 => d.storage = pad[t].storage /\ d.size = pad[t].size
    BY <2>2, ReleaseFacts, SMTT(30)
  <2>4. /\ IsFiniteSet(Sharing(t)')
        /\ Cardinality(Sharing(t)') = pad[t].refs - 1
        /\ Cardinality(Sharing(t)') = 0 <=> Sharing(t)' = {}
    <3>1. IsFiniteSet(Sharing(t))
      BY SharingFinite
    <3>2. /\ IsFiniteSet(Sharing(t) \ {p})
          /\ Cardinality(Sharing(t) \ {p}) = Cardinality(Sharing(t)) - 1
      BY <2>1, <3>1, FS_RemoveElement, SMTT(30)
    <3>3. QED
      BY <1>3, <2>2, <3>2, FS_EmptySet
  <2> HIDE DEF d
  <2>5. /\ d.storage # Null => d.storage = d.size
        /\ d.storage = Null => d.size = 0
        /\ d.refs = Cardinality(Sharing(t)')
        /\ Sharing(t)' = {} => d.storage = Null
    BY <2>2, <2>3, <2>4, SMTT(30) DEF Empty
  <2>6. PadInv'
    BY <1>1, <1>2, <2>1, <2>3, <2>5, PadInvLocal, ZenonT(30)
  <2>7. KeepsServed
    <3>1. pad'[t] = d /\ \A u \in Threads \ {t} : pad'[u] = pad[u]
      BY <1>0, <2>1 DEF TypeOK
    <3>2. ASSUME NEW u \in Threads \ {t}, NEW q \in Sharing(u)'
          PROVE  q \in Sharing(u) /\ (Served(u, q) => Served(u, q)')
      BY <1>0, <1>2, <3>1, <3>2 DEF Served
    <3>3. ASSUME NEW q \in Sharing(t)'
          PROVE  q \in Sharing(t) /\ (Served(t, q) => Served(t, q)')
      <4>1. q \in Sharing(t) /\ pad[t].refs # 1
        BY <1>3, <2>2, <2>4, <3>3, SMTT(30)
      <4>2. pad'[t].storage = pad[t].storage /\ need' = need
        BY <1>0, <2>3, <3>1, <4>1
      <4>3. QED
        BY <4>1, <4>2 DEF Served
    <3>4. QED
      BY <3>2, <3>3 DEF KeepsServed
  <2>8. QED
    BY <2>6, <2>7
<1>6. QED
  BY <1>4, <1>5

(* A primitive that does not share the pad is created. *)
LEMMA CreateUnsharedInv ==
  ASSUME PadInv, NEW t \in Threads, NEW p \in Prims, NEW n \in Nat,
         NEW h \in {"none", "private"}, ~Live(p), Created(t, p, n, h), pad' = pad
  PROVE  /\ PadInv'
         /\ KeepsServed
<1>1. /\ owner' \in [Prims -> Threads \cup {NoThread}]
      /\ need' \in [Prims -> Nat]
      /\ holds' \in [Prims -> {"none", "global", "private"}]
      /\ \A u \in Threads : p \notin Sharing(u)
      /\ \A u \in Threads \ {t} : Sharing(u)' = Sharing(u)
      /\ Sharing(t)' = Sharing(t)
  BY CreatedFacts DEF PadInv
<1>2. PadInv'
  BY <1>1, PadInvUnshared
<1>3. \A u \in Threads : \A q \in Sharing(u) : need'[q] = need[q]
  BY <1>1 DEF Created, PadInv, TypeOK, Sharing
<1>4. QED
  <2>1. ASSUME NEW u \in Threads, NEW q \in Sharing(u)'
        PROVE  q \in Sharing(u) /\ (Served(u, q) => Served(u, q)')
    BY <1>1, <1>3, <2>1 DEF Served
  <2>2. KeepsServed
    BY <2>1 DEF KeepsServed
  <2>3. QED
    BY <1>2, <2>2

-----------------------------------------------------------------------------

(* No thread has a scratchpad at the start. *)
LEMMA PadInvInit == PadInit => PadInv
<1> SUFFICES ASSUME PadInit PROVE PadInv
  OBVIOUS
<1>1. TypeOK
  BY RefWrapAssumption, PrimsAssumption, FS_CardinalityType DEF PadInit, TypeOK, Pads, Null
<1>2. \A t \in Threads : Sharing(t) = {}
  BY DEF PadInit, Sharing
<1>3. QED
  BY <1>1, <1>2, FS_EmptySet
     DEF PadInit, PadInv, RefsCount, SizeIsRecorded, FreedWhenUnused

(* Every step keeps the counters and the sizes right. *)
LEMMA PadInvNext ==
  ASSUME ~Migrating, PadInv, PadNext
  PROVE  /\ PadInv'
         /\ KeepsServed
<1>1. ASSUME NEW t \in Threads, NEW p \in Prims, CreateWithoutPad(t, p)
      PROVE  PadInv' /\ KeepsServed
  BY <1>1, CreateUnsharedInv DEF CreateWithoutPad
<1>2. ASSUME NEW t \in Threads, NEW p \in Prims, NEW n \in PadSizes, CreatePrivate(t, p, n)
      PROVE  PadInv' /\ KeepsServed
  BY <1>2, CreateUnsharedInv, PadSizesAssumption DEF CreatePrivate
<1>3. QED
  BY <1>1, <1>2, CreateGlobalInv, CreateGlobalFailsInv, DestroyInv, SMTT(30) DEF PadNext

(* So does a step that changes nothing. *)
LEMMA PadInvStutters ==
  ASSUME PadInv, UNCHANGED padVars
  PROVE  PadInv'
BY DEF padVars, PadInv, TypeOK, RefsCount, SizeIsRecorded, FreedWhenUnused, Sharing

-----------------------------------------------------------------------------
(* As long as primitives are destroyed by the thread that created them,    *)
(* reference_count_ counts the primitives that share the pad and never     *)
(* wraps, size_ is the size of the storage, and an unused pad is freed,    *)
(* whichever allocations fail.                                             *)
THEOREM PadInvariant ==
  ASSUME ~Migrating
  PROVE  PadSpec => []PadInv
<1>1. PadInit => PadInv
  BY PadInvInit
<1>2. PadInv /\ [PadNext]_padVars => PadInv'
  BY PadInvNext, PadInvStutters
<1>3. QED
  BY <1>1, <1>2, PTL DEF PadSpec

(* The global scratchpad is freed with the last primitive that shares it. *)
THEOREM UnusedPadIsFreed ==
  ASSUME ~Migrating
  PROVE  PadSpec => []FreedWhenUnused
<1>1. PadInv => FreedWhenUnused
  BY DEF PadInv
<1>2. QED
  BY <1>1, PadInvariant, PTL

(* A primitive that shares the global scratchpad finds a pad as large as   *)
(* it needs, whatever its thread creates, destroys or fails to create      *)
(* after it, up to a creation that failed to allocate both the larger pad  *)
(* and the old one.                                                        *)
THEOREM PadServesUnlessLost ==
  ASSUME ~Migrating
  PROVE  PadSpec => ServedUnlessLost
<1>1. PadInv /\ [PadNext]_padVars => [KeepsServed]_padVars
  BY PadInvNext
<1>2. QED
  BY <1>1, PadInvariant, PTL DEF PadSpec, ServedUnlessLost

-----------------------------------------------------------------------------
(*                       The layout of a scratchpad                        *)

(* Leaves are for Zenon; those that need arithmetic, records or sequences   *)
(* cite SMT.                                                               *)
USE ZenonT(30)

(* Rounding up moves an address by less than the alignment. *)
LEMMA AlignBounds ==
  ASSUME NEW x \in Nat, NEW a \in Nat \ {0}
  PROVE  /\ AlignPtr(x, a) \in Nat
         /\ x <= AlignPtr(x, a)
         /\ AlignPtr(x, a) < x + a
<1> DEFINE q == (x + a - 1) \div a
<1>1. q \in Nat /\ a * q <= x + a - 1 /\ x + a - 1 < a * q + a
  <2>1. x + a - 1 \in Nat
    BY SMTT(30)
  <2>2. q \in Nat /\ x + a - 1 = a * q + ((x + a - 1) % a)
    BY <2>1, SMTT(30)
  <2>3. (x + a - 1) % a \in 0 .. a - 1
    BY <2>1, SMTT(30)
  <2>4. a * q \in Nat
    BY <2>2, SMTT(30)
  <2>5. QED
    BY <2>1, <2>2, <2>3, <2>4, SMTT(30)
<1>2. AlignPtr(x, a) = q * a /\ q * a = a * q /\ q * a \in Nat
  BY <1>1, SMTT(30) DEF AlignPtr
<1> HIDE DEF q
<1>3. QED
  BY <1>1, <1>2, SMTT(30)

(* The page an address lies in starts less than a page before it. *)
LEMMA PageStartBounds ==
  ASSUME NEW x \in Nat
  PROVE  PageStart(x) \in Nat /\ PageStart(x) <= x /\ x < PageStart(x) + PageSize
<1> DEFINE q == x \div PageSize
<1>1. q \in Nat /\ x = PageSize * q + (x % PageSize) /\ x % PageSize \in 0 .. PageSize - 1
  BY PageAssumption, SMTT(30)
<1>2. PageStart(x) = q * PageSize /\ q * PageSize = PageSize * q /\ q * PageSize \in Nat
  BY <1>1, PageAssumption, SMTT(30) DEF PageStart
<1> HIDE DEF q
<1>3. QED
  BY <1>1, <1>2, PageAssumption, SMTT(30)

(* Sums of addresses. *)
LEMMA NatSum ==
  ASSUME NEW a \in Nat, NEW b \in Nat
  PROVE  a \in Int /\ a + b \in Nat /\ a + b \in Int
  BY SMTT(30)

(* The order of three addresses. *)
LEMMA LeqTrans ==
  ASSUME NEW a \in Int, NEW b \in Int, NEW c \in Int, a <= b, b <= c
  PROVE  a <= c
  BY SMTT(30)

(* A page has a byte at least. *)
LEMMA PageIsPositive == 1 <= PageSize /\ PageSize \in Nat
  BY PageAssumption, SMTT(30)

(* What begins two pages or more after x is a page after whatever begins   *)
(* within a page of x.                                                     *)
LEMMA TwoPages ==
  ASSUME NEW x \in Nat, NEW o \in Nat, NEW g \in Nat, NEW p \in Nat, NEW q \in Nat,
         p <= x + PageSize, x + o <= q, PageSize + g <= o, PageSize <= g
  PROVE  p + PageSize <= q
  BY PageIsPositive, SMTT(30)

(* Addresses a page apart lie on pages in the same order. *)
LEMMA PagesOrdered ==
  ASSUME NEW a \in Nat, NEW p \in Nat, NEW q \in Nat, NEW b \in Nat,
         a <= p, p + PageSize <= q, q < b + PageSize
  PROVE  a <= b
  BY PageIsPositive, SMTT(30)

(* A guard of a page or more holds whatever ends less than a page after x. *)
LEMMA GuardCovers ==
  ASSUME NEW x \in Nat, NEW g \in Nat, NEW y \in Nat, y < x + PageSize, PageSize <= g
  PROVE  y <= x + g
  BY PageIsPositive, SMTT(30)

(* The end of a booked interval moves with its base. *)
LEMMA MovedEnd ==
  ASSUME NEW base \in Nat, NEW o \in Nat, NEW c \in Nat, NEW size \in Nat,
         NEW p \in Nat, o + c <= size, base <= p
  PROVE  base + o + c <= p + size
  BY SMTT(30)

(* What ends in one booked interval ends before a later one. *)
LEMMA EndsBefore ==
  ASSUME NEW base \in Nat, NEW o \in Nat, NEW c \in Nat, NEW next \in Nat,
         NEW y \in Nat, o + c <= next, y <= base + o + c
  PROVE  y <= base + next
  BY SMTT(30)

(* Bytes that a guard follows end before the guard does. *)
LEMMA WithoutGuard ==
  ASSUME NEW a \in Nat, NEW g \in Nat, NEW b \in Nat, a + g <= b
  PROVE  a <= b
  BY SMTT(30)

(* The next page starts less than a page after an address. *)
LEMMA PageEndBounds ==
  ASSUME NEW x \in Nat
  PROVE  PageEnd(x) \in Nat /\ x <= PageEnd(x) /\ PageEnd(x) < x + PageSize
BY AlignBounds, PageAssumption DEF PageEnd, AlignPtr

(* The sizes a capacity is made of. *)
LEMMA SlackFacts ==
  ASSUME NEW m, NEW a \in Nat \ {0}
  PROVE  /\ GetAlignment(m, a) \in Nat \ {0}
         /\ BufferProtectSize(m) \in Nat
         /\ ProtectSize(m) \in Nat
         /\ Debug(m) => BufferProtectSize(m) = ProtectSize(m) + PageSize
         /\ Debug(m) => PageSize <= GetAlignment(m, a)
         /\ Debug(m) /\ a <= PageSize => GetAlignment(m, a) = PageSize
<1>1. ProtectPages * PageSize \in Nat
  BY PageAssumption, SMTT(30)
<1>2. ProtectSize(m) \in Nat
  BY <1>1 DEF ProtectSize
<1>3. QED
  BY <1>2, PageAssumption, AlignAssumption, SMTT(30) DEF GetAlignment, Larger, BufferProtectSize

(* The sizes of a debug build, of a piece without an alignment of its own. *)
LEMMA DebugSlack ==
  ASSUME NEW m, Debug(m)
  PROVE  /\ GetAlignment(m, 1) = PageSize
         /\ BufferProtectSize(m) \in Nat /\ PageSize <= BufferProtectSize(m)
         /\ ProtectSize(m) \in Nat /\ PageSize \in Nat \ {0}
<1>1. 1 \in Nat \ {0} /\ 1 <= PageSize
  BY PageIsPositive, SMTT(30)
<1> DEFINE g == ProtectSize(m)
<1>2. g \in Nat /\ BufferProtectSize(m) \in Nat /\ BufferProtectSize(m) = g + PageSize
  BY <1>1, SlackFacts
<1> HIDE DEF g
<1>3. PageSize <= g + PageSize
  BY <1>2, PageIsPositive, SMTT(30)
<1>4. GetAlignment(m, 1) = PageSize
  BY <1>1, SlackFacts
<1>5. QED
  BY <1>2, <1>3, <1>4, PageAssumption DEF g

(* get() returns an address that leaves the data and the protection inside *)
(* the capacity of the piece.                                              *)
LEMMA GetBounds ==
  ASSUME NEW m, NEW e \in Entry, NEW base \in Nat, Debug(m) => e.alignment <= PageSize
  PROVE  /\ Get(m, e, base) \in Nat
         /\ base + e.offset <= Get(m, e, base)
         /\ Get(m, e, base) <= base + e.offset + GetAlignment(m, e.alignment)
<1> DEFINE ptr == base + e.offset
           ga == GetAlignment(m, e.alignment)
           aligned == AlignPtr(ptr, ga)
           off == RndUp(e.size, e.alignment) % PageSize
<1>1. ptr \in Nat /\ e.size \in Nat \ {0} /\ e.alignment \in Nat \ {0}
  BY SMTT(30) DEF Entry
<1>2. ga \in Nat \ {0} /\ (Debug(m) => ga = PageSize)
  BY <1>1, SlackFacts
<1>3. aligned \in Nat /\ ptr <= aligned /\ aligned < ptr + ga
  BY <1>1, <1>2, AlignBounds
<1>4. off \in 0 .. PageSize - 1
  <2>1. RndUp(e.size, e.alignment) \in Nat
    BY <1>1, AlignBounds DEF RndUp, AlignPtr
  <2>2. QED
    BY <2>1, PageAssumption, SMTT(30)
<1>5. Get(m, e, base) = IF m = "overflow" /\ e.size % PageSize # 0
                        THEN ToPageEnd(e, aligned, ptr) ELSE aligned
  BY DEF Get
<1>6. m = "overflow" => ga = PageSize
  BY <1>2 DEF Debug
<1> HIDE DEF ptr, ga, aligned
<1>7. ToPageEnd(e, aligned, ptr) = IF aligned + PageSize - off - PageSize > ptr
                                   THEN aligned + PageSize - off - PageSize
                                   ELSE aligned + PageSize - off
  BY <1>1, <1>3, <1>4, PageAssumption, SMTT(30) DEF ToPageEnd
<1> HIDE DEF off
<1>8. CASE m = "overflow" /\ e.size % PageSize # 0
  BY <1>1, <1>2, <1>3, <1>4, <1>5, <1>6, <1>7, <1>8, PageAssumption, SMTT(30) DEF ptr, ga
<1>9. CASE ~(m = "overflow" /\ e.size % PageSize # 0)
  BY <1>1, <1>2, <1>3, <1>5, <1>9, SMTT(30) DEF ptr, ga
<1>10. QED
  BY <1>8, <1>9

-----------------------------------------------------------------------------
(* The empty registry is in order. *)
LEMMA LedgerEmpty ==
  ASSUME NEW m
  PROVE  Ledger(m, EmptyRegistry)
BY SMTT(30) DEF Ledger, EmptyRegistry

(* book() keeps the ledger, even if it replaces an entry. *)
LEMMA LedgerBook ==
  ASSUME NEW m, NEW r, Ledger(m, r), NEW key, NEW size \in Nat,
         NEW dataAlign \in 1 .. PageSize, NEW perfAlign \in Nat \ {0}
  PROVE  Ledger(m, Book(m, r, key, size, dataAlign, perfAlign))
<1> DEFINE alignment == IF Debug(m) THEN dataAlign ELSE Larger(dataAlign, perfAlign)
           entry == [offset    |-> Start(m, r, alignment),
                     size      |-> size,
                     capacity  |-> Capacity(m, size, alignment),
                     alignment |-> alignment]
           b == Book(m, r, key, size, dataAlign, perfAlign)
<1>1. CASE size = 0
  BY <1>1 DEF Book
<1>2. CASE size # 0
  <2>1. alignment \in Nat \ {0} /\ (Debug(m) => alignment <= PageSize)
    BY PageAssumption, SMTT(30) DEF Larger
  <2>2. b = [entries |-> [k \in DOMAIN r.entries \cup {key} |->
                            IF k = key THEN entry ELSE r.entries[k]],
             size    |-> entry.offset + entry.capacity]
    BY <1>2 DEF Book, NextOffset
  <2> HIDE DEF alignment, b
  <2>3. /\ entry.offset \in Nat
        /\ entry.capacity \in Nat
        /\ r.size \in Nat
        /\ r.size <= entry.offset
        /\ Debug(m) => PageSize + BufferProtectSize(m) <= entry.offset
    <3>1. r.size \in Nat /\ (Debug(m) => r.size = 0 \/ PageSize + BufferProtectSize(m) <= r.size)
      BY DEF Ledger
    <3>2. /\ GetAlignment(m, alignment) \in Nat /\ BufferProtectSize(m) \in Nat
          /\ Debug(m) => PageSize <= GetAlignment(m, alignment)
      BY <2>1, SlackFacts
    <3>3. entry.capacity = size + GetAlignment(m, alignment) + BufferProtectSize(m)
      BY DEF Capacity
    <3>4. entry.offset = IF Debug(m) /\ r.size = 0
                         THEN GetAlignment(m, alignment) + BufferProtectSize(m) ELSE r.size
      BY DEF Start
    <3> HIDE DEF entry
    <3>5. entry.capacity \in Nat
      BY <3>2, <3>3, SMTT(30)
    <3>6. CASE Debug(m) /\ r.size = 0
      <4>1. entry.offset = GetAlignment(m, alignment) + BufferProtectSize(m)
        BY <3>4, <3>6
      <4>2. QED
        BY <4>1, <3>1, <3>2, <3>5, <3>6, PageAssumption, SMTT(30)
    <3>7. CASE ~(Debug(m) /\ r.size = 0)
      <4>1. entry.offset = r.size
        BY <3>4, <3>7
      <4>2. entry.offset <= r.size /\ r.size <= entry.offset
        BY <4>1, <3>1, SMTT(30)
      <4>3. QED
        BY <4>1, <4>2, <3>1, <3>5, <3>7
    <3>8. QED
      BY <3>6, <3>7
  <2>4. entry \in Entry /\ entry.capacity = Capacity(m, entry.size, entry.alignment)
        /\ entry.alignment = alignment
    BY <2>1, <2>3, <1>2 DEF Entry
  <2> HIDE DEF entry
  <2>5. /\ b.size = entry.offset + entry.capacity
        /\ DOMAIN b.entries = DOMAIN r.entries \cup {key}
        /\ b.entries[key] = entry
        /\ \A k \in DOMAIN r.entries \ {key} : b.entries[k] = r.entries[k]
    BY <2>2
  <2>6. b.size \in Nat /\ r.size <= b.size
        /\ (Debug(m) => PageSize + BufferProtectSize(m) <= b.size)
    <3>1. b.size = entry.offset + entry.capacity
      BY <2>5
    <3>2. BufferProtectSize(m) \in Nat
      BY <2>1, SlackFacts
    <3>3. QED
      BY <2>3, <3>1, <3>2, PageAssumption, SMTT(30)
  <2>7. ASSUME NEW k \in DOMAIN b.entries
        PROVE  LET e == b.entries[k]
               IN /\ e \in Entry
                  /\ e.capacity = Capacity(m, e.size, e.alignment)
                  /\ e.offset + e.capacity <= b.size
                  /\ Debug(m) => /\ e.alignment <= PageSize
                                 /\ PageSize + BufferProtectSize(m) <= e.offset
    <3>1. CASE k = key
      <4>1. b.entries[k] = entry /\ b.size = entry.offset + entry.capacity
        BY <3>1, <2>5
      <4>2. entry.offset + entry.capacity <= b.size
        BY <4>1, <2>6, SMTT(30)
      <4>3. QED
        BY <4>1, <4>2, <2>1, <2>3, <2>4
    <3>2. CASE k # key
      <4>1. k \in DOMAIN r.entries /\ b.entries[k] = r.entries[k]
        BY <3>2, <2>5
      <4> DEFINE e == r.entries[k]
      <4>2. /\ e \in Entry /\ e.capacity = Capacity(m, e.size, e.alignment)
            /\ e.offset + e.capacity <= r.size
            /\ Debug(m) => e.alignment <= PageSize /\ PageSize + BufferProtectSize(m) <= e.offset
        BY <4>1 DEF Ledger
      <4>3. e.offset \in Nat /\ e.capacity \in Nat
        BY <4>2 DEF Entry
      <4> HIDE DEF e
      <4>4. e.offset + e.capacity <= b.size
        BY <4>2, <4>3, <2>3, <2>6, SMTT(30)
      <4>5. QED
        BY <4>1, <4>2, <4>4 DEF e
    <3>3. QED
      BY <3>1, <3>2
  <2>8. ASSUME NEW k \in DOMAIN b.entries, NEW l \in DOMAIN b.entries, k # l
        PROVE  \/ b.entries[k].offset + b.entries[k].capacity <= b.entries[l].offset
               \/ b.entries[l].offset + b.entries[l].capacity <= b.entries[k].offset
    <3>1. ASSUME NEW j \in DOMAIN r.entries \ {key}
          PROVE  b.entries[j].offset + b.entries[j].capacity <= entry.offset
      <4> DEFINE e == r.entries[j]
      <4>1. b.entries[j] = e
        BY <2>5
      <4>2. e \in Entry /\ e.offset + e.capacity <= r.size
        BY DEF Ledger
      <4>3. e.offset \in Nat /\ e.capacity \in Nat
        BY <4>2 DEF Entry
      <4> HIDE DEF e
      <4>4. e.offset + e.capacity <= entry.offset
        BY <4>2, <4>3, <2>3, SMTT(30)
      <4>5. QED
        BY <4>1, <4>4
    <3>2. QED
      BY <3>1, <2>5, <2>8 DEF Ledger
  <2>9. QED
    BY <2>6, <2>7, <2>8 DEF Ledger, b
<1>3. QED
  BY <1>1, <1>2

-----------------------------------------------------------------------------
LayoutInv == build \in Builds /\ LedgersKept

(* Every step keeps both registries in order, whatever it books. *)
LEMMA LayoutStep ==
  ASSUME LayoutInv, [Next]_vars
  PROVE  LayoutInv'
<1>1. build' = build
  BY DEF Next, vars, Chain, Unchain, BookOuter, BookInner, BookNested
<1>2. Ledger(build, outer) /\ Ledger(build, inner)
  BY DEF LayoutInv, LedgersKept
<1>3. Ledger(build, outer')
  <2>1. CASE outer' = outer
    BY <1>2, <2>1
  <2>2. ASSUME NEW key, NEW size \in Sizes, NEW d \in DataAligns, NEW a \in PerfAligns,
               outer' = Book(build, outer, key, size, d, a)
        PROVE  Ledger(build, outer')
    BY <1>2, <2>2, LedgerBook, RangeAssumption, AlignAssumption
  <2>3. ASSUME NEW key, outer' = Book(build, outer, key, inner.size, 1, DefaultAlignment)
        PROVE  Ledger(build, outer')
    <3>1. inner.size \in Nat
      BY <1>2 DEF Ledger
    <3>2. 1 \in 1 .. PageSize
      BY PageAssumption, SMTT(30)
    <3>3. QED
      BY <3>1, <3>2, <1>2, <2>3, LedgerBook, AlignAssumption
  <2>4. QED
    BY <2>1, <2>2, <2>3 DEF Next, vars, Chain, Unchain, BookOuter, BookInner, BookNested
<1>4. Ledger(build, inner')
  <2>1. ASSUME NEW key, NEW size \in Sizes, NEW d \in DataAligns, NEW a \in PerfAligns,
               inner' = Book(build, inner, key, size, d, a)
        PROVE  Ledger(build, inner')
    BY <1>2, <2>1, LedgerBook, RangeAssumption, AlignAssumption
  <2>2. QED
    BY <1>2, <2>1 DEF Next, vars, Chain, Unchain, BookOuter, BookInner, BookNested
<1>5. QED
  BY <1>1, <1>3, <1>4 DEF LayoutInv, LedgersKept

(* Both registries stay in order whatever is booked in them. *)
THEOREM LedgersStayInOrder == Spec => []LedgersKept
<1>1. Init => LayoutInv
  BY LedgerEmpty DEF Init, LayoutInv, LedgersKept
<1>2. LayoutInv /\ [Next]_vars => LayoutInv'
  BY LayoutStep
<1>3. LayoutInv => LedgersKept
  BY DEF LayoutInv
<1>4. QED
  BY <1>1, <1>2, <1>3, PTL DEF Spec

-----------------------------------------------------------------------------
(* Where the data of a booked piece is, within its capacity. *)
LEMMA DataBounds ==
  ASSUME NEW m, NEW r, Ledger(m, r), NEW k \in DOMAIN r.entries, NEW base \in Nat
  PROVE  LET e == r.entries[k]
             p == Get(m, e, base)
         IN /\ e.offset \in Nat /\ e.capacity \in Nat /\ e.size \in Nat /\ p \in Nat
            /\ BufferProtectSize(m) \in Nat
            /\ base + e.offset <= p
            /\ p + e.size + BufferProtectSize(m) <= base + e.offset + e.capacity
            /\ e.offset + e.capacity <= r.size
<1> DEFINE e == r.entries[k]
           p == Get(m, e, base)
           ga == GetAlignment(m, e.alignment)
<1>1. /\ e \in Entry /\ e.capacity = Capacity(m, e.size, e.alignment)
      /\ e.offset + e.capacity <= r.size /\ (Debug(m) => e.alignment <= PageSize)
  BY DEF Ledger
<1>2. e.offset \in Nat /\ e.size \in Nat /\ e.capacity \in Nat /\ e.alignment \in Nat \ {0}
  BY <1>1 DEF Entry
<1> HIDE DEF e
<1>3. p \in Nat /\ base + e.offset <= p /\ p <= base + e.offset + ga
  BY <1>1, GetBounds
<1>4. ga \in Nat /\ BufferProtectSize(m) \in Nat
  BY <1>2, SlackFacts
<1>5. e.capacity = e.size + ga + BufferProtectSize(m)
  BY <1>1 DEF Capacity
<1> HIDE DEF p, ga
<1>6. p + e.size + BufferProtectSize(m) <= base + e.offset + e.capacity
  BY <1>2, <1>3, <1>4, <1>5, SMTT(30)
<1>7. QED
  BY <1>1, <1>2, <1>3, <1>4, <1>6 DEF e, p

(* Registries in order give disjoint pieces. *)
LEMMA LedgersGiveSlices == LedgersKept => SlicesDisjoint
<1> SUFFICES ASSUME LedgersKept, NEW base \in Bases, NEW k \in DOMAIN outer.entries
             PROVE  LET d == Data(build, outer.entries[k], base)
                    IN /\ base <= d.lo /\ d.hi <= base + outer.size
                       /\ \A l \in DOMAIN outer.entries \ {k} :
                             Apart(d, Data(build, outer.entries[l], base))
  BY DEF SlicesDisjoint
<1>1. Ledger(build, outer) /\ base \in Nat /\ outer.size \in Nat
  BY RangeAssumption DEF LedgersKept, Ledger
<1> DEFINE E(j) == outer.entries[j]
           P(j) == Get(build, E(j), base)
<1>2. ASSUME NEW j \in DOMAIN outer.entries
      PROVE  /\ E(j).offset \in Nat /\ E(j).capacity \in Nat /\ E(j).size \in Nat /\ P(j) \in Nat
             /\ base + E(j).offset <= P(j)
             /\ P(j) + E(j).size <= base + E(j).offset + E(j).capacity
             /\ E(j).offset + E(j).capacity <= outer.size
  BY <1>1, DataBounds, SMTT(30)
<1>3. base <= P(k) /\ P(k) + E(k).size <= base + outer.size
  <2> HIDE DEF E, P
  <2>1. QED
    BY <1>1, <1>2, SMTT(30)
<1>4. ASSUME NEW l \in DOMAIN outer.entries \ {k}
      PROVE  P(k) + E(k).size <= P(l) \/ P(l) + E(l).size <= P(k)
  <2>1. \/ E(k).offset + E(k).capacity <= E(l).offset
        \/ E(l).offset + E(l).capacity <= E(k).offset
    BY <1>1 DEF Ledger
  <2> HIDE DEF E, P
  <2>2. QED
    BY <1>1, <1>2, <2>1, SMTT(30)
<1>5. QED
  BY <1>3, <1>4 DEF Data, Apart

(* What registry_t::get returns for different keys never overlaps and      *)
(* stays inside the scratchpad, for every base address and every build.    *)
THEOREM SlicesStayDisjoint == Spec => []SlicesDisjoint
BY LedgersStayInOrder, LedgersGiveSlices, PTL

(* Registries in order leave room for the protected pages. *)
LEMMA LedgersGiveGuards == LedgersKept => GuardsClear
<1> SUFFICES ASSUME LedgersKept, Debug(build),
                    NEW base \in Bases, NEW k \in DOMAIN outer.entries,
                    NEW r \in Protection(build, outer.entries[k], base)
             PROVE  /\ base <= r.lo /\ r.hi <= base + outer.size
                    /\ \A l \in DOMAIN outer.entries \ {k} :
                          Apart(r, Data(build, outer.entries[l], base))
  BY DEF GuardsClear
<1>1. Ledger(build, outer) /\ base \in Nat /\ outer.size \in Nat
  BY RangeAssumption DEF LedgersKept, Ledger
<1> DEFINE E(j) == outer.entries[j]
           P(j) == Get(build, E(j), base)
           G == ProtectSize(build)
<1>2. G \in Nat /\ PageSize \in Nat \ {0} /\ BufferProtectSize(build) = G + PageSize
  BY SlackFacts, PageAssumption
<1>3. ASSUME NEW j \in DOMAIN outer.entries
      PROVE  /\ E(j).offset \in Nat /\ E(j).capacity \in Nat /\ E(j).size \in Nat /\ P(j) \in Nat
             /\ base + E(j).offset <= P(j)
             /\ P(j) + E(j).size + G + PageSize <= base + E(j).offset + E(j).capacity
             /\ E(j).offset + E(j).capacity <= outer.size
             /\ G + PageSize <= E(j).offset
  <2>1. /\ E(j).offset \in Nat /\ E(j).capacity \in Nat /\ E(j).size \in Nat /\ P(j) \in Nat
        /\ base + E(j).offset <= P(j)
        /\ P(j) + E(j).size + BufferProtectSize(build) <= base + E(j).offset + E(j).capacity
        /\ E(j).offset + E(j).capacity <= outer.size
    BY <1>1, DataBounds
  <2>2. PageSize + BufferProtectSize(build) <= E(j).offset
    BY <1>1 DEF Ledger
  <2> HIDE DEF E, P, G
  <2>3. QED
    BY <1>1, <1>2, <2>1, <2>2, SMTT(30)
<1> DEFINE s == PageStart(P(k))
           t == PageEnd(P(k) + E(k).size)
<1>4. s \in Nat /\ s <= P(k) /\ P(k) < s + PageSize
  BY <1>3, PageStartBounds
<1>5. t \in Nat /\ P(k) + E(k).size <= t /\ t < P(k) + E(k).size + PageSize
  BY <1>3, PageEndBounds, SMTT(30)
<1>6. \/ r.lo = s - G /\ r.hi = s
      \/ r.lo = t /\ r.hi = t + G
      \/ r.lo = s /\ r.hi = t
  <2> HIDE DEF P, E
  <2>1. r \in {GuardBefore(build, E(k), P(k)), GuardAfter(build, E(k), P(k)), Canary(E(k), P(k))}
    BY DEF Protection, P, E
  <2>2. CASE r = GuardBefore(build, E(k), P(k))
    BY <2>2 DEF GuardBefore
  <2>3. CASE r = GuardAfter(build, E(k), P(k))
    BY <2>3 DEF GuardAfter
  <2>4. CASE r = Canary(E(k), P(k))
    BY <2>4 DEF Canary
  <2> QED
    BY <2>1, <2>2, <2>3, <2>4
<1> HIDE DEF s, t, G
<1>7. r.lo \in Int /\ r.hi \in Int /\ P(k) - PageSize - G < r.lo
      /\ r.hi < P(k) + E(k).size + PageSize + G
  <2> HIDE DEF E, P
  <2>1. QED
    BY <1>2, <1>3, <1>4, <1>5, <1>6, SMTT(30)
<1>8. base <= r.lo /\ r.hi <= base + outer.size
  <2> HIDE DEF E, P
  <2>1. QED
    BY <1>1, <1>2, <1>3, <1>7, SMTT(30)
<1>9. ASSUME NEW l \in DOMAIN outer.entries \ {k}
      PROVE  r.hi <= P(l) \/ P(l) + E(l).size <= r.lo
  <2>1. \/ E(k).offset + E(k).capacity <= E(l).offset
        \/ E(l).offset + E(l).capacity <= E(k).offset
    BY <1>1 DEF Ledger
  <2> HIDE DEF E, P
  <2>2. QED
    BY <1>1, <1>2, <1>3, <1>7, <2>1, SMTT(30)
<1>10. QED
  BY <1>8, <1>9 DEF Data, Apart

(* In a debug build the pages that are protected around a piece, and the   *)
(* canary in between, lie in the scratchpad and touch no other piece.      *)
THEOREM GuardsStayClear == Spec => []GuardsClear
BY LedgersStayInOrder, LedgersGiveGuards, PTL

-----------------------------------------------------------------------------
(* A product with a positive factor is at least the other factor. *)
LEMMA TimesBounds ==
  ASSUME NEW a \in Nat \ {0}, NEW n \in Int
  PROVE  /\ a * n \in Int
         /\ n >= 1 => a * n >= a
         /\ n <= -1 => a * n <= -a
  BY SMTT(30)

(* A multiple leaves no remainder. *)
LEMMA MultipleMod ==
  ASSUME NEW a \in Nat \ {0}, NEW q \in Int
  PROVE  (a * q) % a = 0
<1> DEFINE x == a * q
           d == x \div a
           r == x % a
<1>1. x \in Int
  BY SMTT(30)
<1> HIDE DEF x
<1>2. d \in Int /\ r \in 0 .. a - 1 /\ x = a * d + r
  BY <1>1, SMTT(30)
<1> HIDE DEF d, r
<1>3. a * (q - d) = r
  BY <1>2, SMTT(30) DEF x
<1>4. q - d \in Int
  BY <1>2, SMTT(30)
<1>5. q - d = 0
  BY <1>2, <1>3, <1>4, TimesBounds, SMTT(30)
<1>6. QED
  BY <1>2, <1>3, <1>5, SMTT(30) DEF r, x

(* What leaves no remainder is a multiple. *)
LEMMA ModMultiple ==
  ASSUME NEW a \in Nat \ {0}, NEW x \in Nat, x % a = 0
  PROVE  x \div a \in Nat /\ x = a * (x \div a)
  BY SMTT(30)

(* Rounding gives a multiple. *)
LEMMA AlignMultiple ==
  ASSUME NEW x \in Nat, NEW a \in Nat \ {0}
  PROVE  \E q \in Nat : AlignPtr(x, a) = a * q
<1> DEFINE q == (x + a - 1) \div a
<1>1. q \in Nat
  BY SMTT(30)
<1> HIDE DEF q
<1>2. AlignPtr(x, a) = a * q
  BY <1>1, SMTT(30) DEF AlignPtr, q
<1>3. QED
  BY <1>1, <1>2

(* get() keeps the alignment of a piece if it divides the alignment of the *)
(* slack and, where pieces are moved to the ends of pages, the page size.  *)
LEMMA GetAligned ==
  ASSUME NEW m, NEW e \in Entry, NEW base \in Nat,
         GetAlignment(m, e.alignment) % e.alignment = 0,
         Debug(m) => e.alignment <= PageSize
  PROVE  Get(m, e, base) % e.alignment = 0
<1> DEFINE a == e.alignment
           ptr == base + e.offset
           ga == GetAlignment(m, a)
           aligned == AlignPtr(ptr, ga)
           rnd == RndUp(e.size, a)
           off == rnd % PageSize
<1>1. ptr \in Nat /\ e.size \in Nat \ {0} /\ a \in Nat \ {0}
  BY SMTT(30) DEF Entry
<1>2. ga \in Nat \ {0} /\ (Debug(m) => ga = PageSize)
  BY <1>1, SlackFacts
<1>3. PICK c \in Nat : ga = a * c
  <2> HIDE DEF a, ga
  <2>1. ga % a = 0
    BY DEF a, ga
  <2>2. QED
    BY <1>1, <1>2, <2>1, ModMultiple
<1>4. PICK j \in Nat : aligned = ga * j
  BY <1>1, <1>2, AlignMultiple
<1>5. PICK i \in Nat : rnd = a * i
  BY <1>1, AlignMultiple DEF RndUp, AlignPtr
<1>6. Get(m, e, base) = IF m = "overflow" /\ e.size % PageSize # 0
                        THEN ToPageEnd(e, aligned, ptr) ELSE aligned
  BY DEF Get
<1>7. aligned = a * (c * j) /\ c * j \in Nat
  <2> HIDE DEF a, ga, aligned
  <2>1. QED
    BY <1>1, <1>3, <1>4, SMTT(30)
<1>8. aligned % a = 0
  <2> HIDE DEF a, aligned
  <2>1. QED
    BY <1>1, <1>7, MultipleMod, SMTT(30)
<1>9. CASE m = "overflow" /\ e.size % PageSize # 0
  <2> DEFINE q == rnd \div PageSize
  <2>1. PageSize = a * c
    BY <1>2, <1>3, <1>9 DEF Debug
  <2>2. rnd \in Nat
    <3> HIDE DEF a, rnd
    <3>1. QED
      BY <1>1, <1>5, SMTT(30)
  <2>3. q \in Nat /\ off \in Nat /\ rnd = PageSize * q + off
    <3> HIDE DEF rnd
    <3>1. QED
      BY <2>2, PageAssumption, SMTT(30)
  <2> HIDE DEF q, aligned, ptr
  <2>4. ToPageEnd(e, aligned, ptr) = IF aligned + PageSize - off - PageSize > ptr
                                     THEN aligned + PageSize - off - PageSize
                                     ELSE aligned + PageSize - off
    <3>1. aligned \in Nat
      BY <1>1, <1>2, AlignBounds DEF aligned, ptr
    <3>2. QED
      BY <1>1, <2>3, <3>1, PageAssumption, SMTT(30) DEF ToPageEnd, ptr
  <2> HIDE DEF a, off, rnd
  <2>5. off = a * (i - c * q) /\ c * q \in Nat
    BY <1>1, <1>5, <2>1, <2>3, SMTT(30)
  <2>6. aligned + PageSize - off = a * (c * j + c - (i - c * q))
    BY <1>1, <1>7, <2>1, <2>5, SMTT(30)
  <2>7. aligned + PageSize - off - PageSize = a * (c * j - (i - c * q))
    BY <1>1, <1>7, <2>1, <2>5, SMTT(30)
  <2>8. ToPageEnd(e, aligned, ptr) % a = 0
    <3>1. c * j + c - (i - c * q) \in Int /\ c * j - (i - c * q) \in Int
      BY <1>7, <2>5, SMTT(30)
    <3>2. QED
      BY <1>1, <2>4, <2>6, <2>7, <3>1, MultipleMod
  <2>9. QED
    BY <2>8, <1>6, <1>9 DEF a
<1>10. CASE ~(m = "overflow" /\ e.size % PageSize # 0)
  BY <1>6, <1>8, <1>10
<1>11. QED
  BY <1>9, <1>10

(* Whatever is asked for, the alignment of an entry divides the alignment  *)
(* that its capacity leaves room for.                                      *)
LEMMA AlignmentDivides ==
  ASSUME NEW m, NEW a \in DataAligns \cup PerfAligns \cup {DefaultAlignment, 1},
         Debug(m) => a <= PageSize
  PROVE  GetAlignment(m, a) % a = 0
<1>1. a \in Nat \ {0} /\ PageSize \in Nat \ {0} /\ DefaultAlignment \in Nat \ {0}
  BY AlignAssumption, PageAssumption, SMTT(30)
<1>2. ASSUME NEW b \in Nat
      PROVE  b % 1 = 0
  BY <1>2, SMTT(30)
<1>3. a % a = 0
  <2>1. a * 1 = a
    BY <1>1, SMTT(30)
  <2>2. QED
    BY <1>1, <2>1, MultipleMod, SMTT(30)
<1>4. ASSUME NEW b \in {DefaultAlignment, PageSize}, a <= b
      PROVE  b % a = 0
  BY <1>1, <1>2, <1>4, PowersAssumption
<1>5. \/ GetAlignment(m, a) = a
      \/ GetAlignment(m, a) \in {DefaultAlignment, PageSize} /\ a <= GetAlignment(m, a)
  BY <1>1, SMTT(30) DEF GetAlignment, Larger
<1>6. QED
  BY <1>3, <1>4, <1>5

-----------------------------------------------------------------------------
(* The chains of prefixes, each read as a number in base MaxPrefix.  No    *)
(* digit below the base registrar is zero, so that the numbers of chains   *)
(* of different lengths differ too.                                        *)

Digits == 1 .. MaxPrefix - 1

Paths == {p \in Seq(Nat) : /\ Len(p) \in 1 .. 4
                           /\ p[1] = 0
                           /\ \A i \in 2 .. Len(p) : p[i] \in Digits}
AddDigit(v, d) == MaxPrefix * v + d

Value2(p) == AddDigit(0, p[2])
Value3(p) == AddDigit(Value2(p), p[3])
Value4(p) == AddDigit(Value3(p), p[4])
Value(p) ==
    CASE Len(p) = 1 -> 0
      [] Len(p) = 2 -> Value2(p)
      [] Len(p) = 3 -> Value3(p)
      [] Len(p) = 4 -> Value4(p)

(* The key in the registry of what was booked as key n[2] by way of n[1]. *)
GlobalKey(n) == MaxKey * Value(n[1]) + n[2]

(* A registrar's prefix extends the one of its parent, and did not wrap. *)
RegistrarsInv ==
    /\ registrars \in Seq([given : Nat, prefix : Nat])
    /\ Len(registrars) \in 1 .. 4
    /\ registrars[1] = [given |-> 0, prefix |-> 0]
    /\ \A i \in 2 .. Len(registrars) :
          /\ registrars[i].given \in 1 .. MaxPrefix - 1
          /\ registrars[i].prefix = MaxPrefix * registrars[i - 1].prefix
                                    + MaxKey * registrars[i].given

KeysInv ==
    /\ named \subseteq Paths \X Keys /\ IsFiniteSet(named)
    /\ DOMAIN outer.entries = {GlobalKey(n) : n \in named}
    /\ IsFiniteSet(DOMAIN outer.entries)
    /\ KeysDistinct

AlignmentsInv ==
    \A k \in DOMAIN outer.entries :
        GetAlignment(build, outer.entries[k].alignment) % outer.entries[k].alignment = 0

(* The piece of the nested registry is never replaced, and has its size. *)
HostInv ==
    nested # 0 =>
        /\ nested \in DOMAIN outer.entries
        /\ outer.entries[nested].size = inner.size
        /\ Debug(build) => outer.entries[nested].alignment = 1

ScratchpadInv ==
    LayoutInv /\ RegistrarsInv /\ KeysInv /\ AlignmentsInv /\ HostInv

(* A number has one quotient and one remainder. *)
LEMMA DigitsUnique ==
  ASSUME NEW b \in Nat \ {0}, NEW v \in Nat, NEW w \in Nat,
         NEW d \in 0 .. b - 1, NEW e \in 0 .. b - 1,
         b * v + d = b * w + e
  PROVE  v = w /\ d = e
<1>1. b * (v - w) = e - d
  <2>1. b * v \in Nat /\ b * w \in Nat /\ b * (v - w) = b * v - b * w
    BY SMTT(30)
  <2>2. QED
    BY <2>1, SMTT(30)
<1>2. v - w \in Int
  BY SMTT(30)
<1>3. v - w = 0
  BY <1>1, <1>2, TimesBounds, SMTT(30)
<1>4. QED
  BY <1>1, <1>3, SMTT(30)

(* A digit more gives a positive number, from which both can be read. *)
LEMMA AddDigitFacts ==
  ASSUME NEW v \in Nat, NEW d \in Digits
  PROVE  /\ AddDigit(v, d) \in Nat \ {0}
         /\ \A w \in Nat, e \in Digits :
               AddDigit(v, d) = AddDigit(w, e) => v = w /\ d = e
<1>1. MaxPrefix * v \in Nat
  BY KeyAssumption, SMTT(30)
<1>2. QED
  BY <1>1, KeyAssumption, DigitsUnique, SMTT(30) DEF AddDigit, Digits

(* A digit more multiplies a bound by the base. *)
LEMMA AddDigitBound ==
  ASSUME NEW n \in Nat, NEW v \in Nat, v < n, NEW d \in Digits
  PROVE  AddDigit(v, d) < n * MaxPrefix
<1>1. PICK j \in Nat : n = v + 1 + j
  <2>1. n - v - 1 \in Nat /\ n = v + 1 + (n - v - 1)
    BY SMTT(30)
  <2>2. QED
    BY <2>1
<1>2. n * MaxPrefix = MaxPrefix * v + MaxPrefix + j * MaxPrefix
  BY <1>1, KeyAssumption, SMTT(30)
<1>3. MaxPrefix * v \in Nat /\ j * MaxPrefix \in Nat
  BY KeyAssumption, SMTT(30)
<1>4. QED
  BY <1>2, <1>3, KeyAssumption, SMTT(30) DEF AddDigit, Digits

(* The digits of a chain and the numbers of its ends. *)
LEMMA PathFacts ==
  ASSUME NEW p \in Paths
  PROVE  /\ Len(p) \in {1, 2, 3, 4} /\ p[1] = 0
         /\ Len(p) \in {2, 3, 4} => p[2] \in Digits /\ Value2(p) \in Nat \ {0}
         /\ Len(p) \in {3, 4} => p[3] \in Digits /\ Value3(p) \in Nat \ {0}
         /\ Len(p) = 4 => p[4] \in Digits /\ Value4(p) \in Nat \ {0}
<1>1. Len(p) \in {1, 2, 3, 4} /\ p[1] = 0 /\ \A i \in 2 .. Len(p) : p[i] \in Digits
  BY SMTT(30) DEF Paths
<1>2. /\ Len(p) \in {2, 3, 4} => p[2] \in Digits
      /\ Len(p) \in {3, 4} => p[3] \in Digits
      /\ Len(p) = 4 => p[4] \in Digits
  BY <1>1, SMTT(30)
<1>3. Len(p) \in {2, 3, 4} => Value2(p) \in Nat \ {0}
  BY <1>2, AddDigitFacts DEF Value2
<1>4. Len(p) \in {3, 4} => Value3(p) \in Nat \ {0}
  BY <1>2, <1>3, AddDigitFacts DEF Value3
<1>5. Len(p) = 4 => Value4(p) \in Nat \ {0}
  BY <1>2, <1>4, AddDigitFacts DEF Value4
<1>6. QED
  BY <1>1, <1>2, <1>3, <1>4, <1>5

(* The number of a chain is that of its end. *)
LEMMA ValueCases ==
  ASSUME NEW p \in Paths
  PROVE  /\ Len(p) \in {1, 2, 3, 4}
         /\ Len(p) = 1 => Value(p) = 0
         /\ Len(p) = 2 => Value(p) = Value2(p)
         /\ Len(p) = 3 => Value(p) = Value3(p)
         /\ Len(p) = 4 => Value(p) = Value4(p)
BY PathFacts, SMTT(30) DEF Value

(* How large the numbers of chains get. *)
LEMMA ValueBounds ==
  ASSUME NEW p \in Paths
  PROVE  /\ Value(p) \in Nat
         /\ Value(p) < MaxPrefix * MaxPrefix * MaxPrefix
         /\ Len(p) # 4 => Value(p) < MaxPrefix * MaxPrefix
<1> DEFINE B2 == MaxPrefix * MaxPrefix
           B3 == B2 * MaxPrefix
<1>1. MaxPrefix \in Nat \ {0} /\ B2 \in Nat /\ B3 \in Nat /\ MaxPrefix <= B2 /\ B2 <= B3
  BY KeyAssumption, SMTT(30)
<1>2. Len(p) \in {2, 3, 4} => Value2(p) < MaxPrefix
  <2>1. MaxPrefix * 0 = 0
    BY KeyAssumption, SMTT(30)
  <2>2. QED
    BY <1>1, <2>1, PathFacts, SMTT(30) DEF Value2, AddDigit, Digits
<1>3. Len(p) \in {3, 4} => Value3(p) < B2
  BY <1>1, <1>2, PathFacts, AddDigitBound DEF Value3
<1>4. Len(p) = 4 => Value4(p) < B3
  <2> HIDE DEF B2
  <2>1. QED
    BY <1>1, <1>3, PathFacts, AddDigitBound DEF Value4
<1> HIDE DEF B2, B3
<1>5. Value(p) \in Nat /\ Value(p) < B3 /\ (Len(p) # 4 => Value(p) < B2)
  BY <1>1, <1>2, <1>3, <1>4, PathFacts, ValueCases, SMTT(30)
<1>6. QED
  BY <1>5 DEF B2, B3

(* The numbers of chains of different lengths differ. *)
LEMMA ValueTellsLength ==
  ASSUME NEW p \in Paths, NEW q \in Paths, Value(p) = Value(q)
  PROVE  Len(p) = Len(q)
<1>1. ASSUME NEW v \in Nat \ {0}, NEW d \in Digits, NEW e \in Digits
      PROVE  AddDigit(v, d) # AddDigit(0, e)
  BY <1>1, AddDigitFacts
<1>2. ASSUME NEW r \in Paths, NEW u \in Paths, Len(r) \in {3, 4}, Len(u) \in {2, 3, 4}
      PROVE  Value3(r) # Value2(u)
  BY <1>1, <1>2, PathFacts DEF Value3, Value2
<1>3. ASSUME NEW r \in Paths, NEW u \in Paths, Len(r) = 4, Len(u) \in {2, 3, 4}
      PROVE  Value4(r) # Value2(u)
  BY <1>1, <1>3, PathFacts DEF Value4, Value2
<1>4. ASSUME NEW r \in Paths, NEW u \in Paths, Len(r) = 4, Len(u) = 3
      PROVE  Value4(r) # Value3(u)
  <2>1. Value4(r) = AddDigit(Value3(r), r[4]) /\ Value3(u) = AddDigit(Value2(u), u[3])
    BY DEF Value4, Value3
  <2>2. Value3(r) \in Nat /\ r[4] \in Digits /\ Value2(u) \in Nat /\ u[3] \in Digits
    BY <1>4, PathFacts
  <2>3. Value3(r) # Value2(u)
    BY <1>2, <1>4
  <2>4. QED
    BY <2>1, <2>2, <2>3, AddDigitFacts, SMTT(30)
<1>5. ASSUME NEW r \in Paths, NEW u \in Paths, Value(r) = Value(u)
      PROVE  /\ Len(u) = 1 => Len(r) = 1
             /\ Len(u) = 2 => Len(r) \notin {3, 4}
             /\ Len(u) = 3 => Len(r) # 4
  <2>1. Len(u) = 1 => Len(r) = 1
    <3>1. Len(u) = 1 => Value(u) = 0
      BY ValueCases
    <3>2. Len(r) \in {2, 3, 4} => Value(r) # 0
      BY PathFacts, ValueCases
    <3>3. QED
      BY <1>5, <3>1, <3>2, PathFacts
  <2>2. Len(u) = 2 => Len(r) \notin {3, 4}
    BY <1>5, <1>2, <1>3, ValueCases, SMTT(30)
  <2>3. Len(u) = 3 => Len(r) # 4
    BY <1>5, <1>4, ValueCases
  <2>4. QED
    BY <2>1, <2>2, <2>3
<1>6. Len(p) \in {1, 2, 3, 4} /\ Len(q) \in {1, 2, 3, 4}
  BY PathFacts
<1>7. QED
  BY <1>5, <1>6

(* Chains of prefixes with the same number are the same chain. *)
LEMMA ValueInjective ==
  ASSUME NEW p \in Paths, NEW q \in Paths, Value(p) = Value(q)
  PROVE  p = q
<1>1. Len(p) = Len(q)
  BY ValueTellsLength
<1>2. ASSUME Len(p) \in {2, 3, 4}, Value2(p) = Value2(q)
      PROVE  p[2] = q[2]
  BY <1>1, <1>2, PathFacts, AddDigitFacts, SMTT(30) DEF Value2
<1>3. ASSUME Len(p) \in {3, 4}, Value3(p) = Value3(q)
      PROVE  p[2] = q[2] /\ p[3] = q[3]
  <2>1. Value2(p) = Value2(q) /\ p[3] = q[3]
    <3>1. /\ Value2(p) \in Nat /\ p[3] \in Digits
          /\ Value2(q) \in Nat /\ q[3] \in Digits
      BY <1>1, <1>3, PathFacts
    <3>2. QED
      BY <1>3, <3>1, AddDigitFacts, SMTT(30) DEF Value3
  <2>2. QED
    BY <1>2, <1>3, <2>1
<1>4. ASSUME Len(p) = 4, Value4(p) = Value4(q)
      PROVE  p[2] = q[2] /\ p[3] = q[3] /\ p[4] = q[4]
  <2>1. Value3(p) = Value3(q) /\ p[4] = q[4]
    <3>1. /\ Value3(p) \in Nat /\ p[4] \in Digits
          /\ Value3(q) \in Nat /\ q[4] \in Digits
      BY <1>1, <1>4, PathFacts
    <3>2. QED
      BY <1>4, <3>1, AddDigitFacts, SMTT(30) DEF Value4
  <2>2. QED
    BY <1>3, <1>4, <2>1
<1>5. /\ Len(p) \in {1, 2, 3, 4} /\ p[1] = q[1]
      /\ Len(p) \in {2, 3, 4} => p[2] = q[2]
      /\ Len(p) \in {3, 4} => p[3] = q[3]
      /\ Len(p) = 4 => p[4] = q[4]
  <2>1. Len(p) \in {1, 2, 3, 4} /\ p[1] = q[1]
    BY PathFacts, SMTT(30)
  <2>2. /\ Len(p) = 2 => Value2(p) = Value2(q)
        /\ Len(p) = 3 => Value3(p) = Value3(q)
        /\ Len(p) = 4 => Value4(p) = Value4(q)
    BY <1>1, ValueCases
  <2>3. QED
    BY <1>2, <1>3, <1>4, <2>1, <2>2
<1>6. p \in Seq(Nat) /\ q \in Seq(Nat)
  BY DEF Paths
<1>7. \A i \in 1 .. Len(p) : p[i] = q[i]
  BY <1>5, SMTT(30)
<1>8. QED
  BY <1>1, <1>6, <1>7, SMTT(30)

(* No booking by way of a chain gets the key of another one. *)
LEMMA GlobalKeyInjective ==
  ASSUME NEW n \in Paths \X Keys, NEW o \in Paths \X Keys, GlobalKey(n) = GlobalKey(o)
  PROVE  n = o
<1>1. /\ n[1] \in Paths /\ o[1] \in Paths
      /\ n[2] \in 0 .. MaxKey - 1 /\ o[2] \in 0 .. MaxKey - 1
      /\ n = <<n[1], n[2]>> /\ o = <<o[1], o[2]>>
  BY KeyAssumption, SMTT(30) DEF Keys
<1>2. Value(n[1]) \in Nat /\ Value(o[1]) \in Nat
  BY <1>1, ValueBounds
<1> DEFINE v == Value(n[1])
           w == Value(o[1])
<1>3. v = w /\ n[2] = o[2]
  <2>1. MaxKey * v + n[2] = MaxKey * w + o[2]
    BY DEF GlobalKey
  <2> HIDE DEF v, w
  <2>2. v \in Nat /\ w \in Nat /\ MaxKey \in Nat \ {0}
    BY <1>2, KeyAssumption DEF v, w
  <2>3. QED
    BY <1>1, <2>1, <2>2, DigitsUnique, SMTT(30)
<1>4. n[1] = o[1]
  BY <1>1, <1>3, ValueInjective
<1>5. QED
  BY <1>1, <1>3, <1>4

(* The product of a key range and a bound on numbers fits in a key_t. *)
LEMMA NoWrap ==
  ASSUME NEW v \in Nat, v < MaxPrefix * MaxPrefix * MaxPrefix, NEW k \in 0 .. MaxKey - 1
  PROVE  /\ MaxKey * v + k \in Nat
         /\ (MaxKey * v + k) % KeyWrap = MaxKey * v + k
<1> DEFINE N == MaxPrefix * MaxPrefix * MaxPrefix
<1>1. N \in Nat /\ MaxKey \in Nat \ {0} /\ KeyWrap \in Nat /\ MaxKey * N <= KeyWrap
  BY KeyAssumption, SMTT(30)
<1>2. v < N
  OBVIOUS
<1> HIDE DEF N
<1>3. PICK j \in Nat : N = v + 1 + j
  <2>1. N - v - 1 \in Nat /\ N = v + 1 + (N - v - 1)
    BY <1>1, <1>2, SMTT(30)
  <2>2. QED
    BY <2>1
<1>4. MaxKey * N = MaxKey * v + MaxKey + MaxKey * j
  BY <1>1, <1>3, SMTT(30)
<1>5. MaxKey * v \in Nat /\ MaxKey * j \in Nat
  BY <1>1, SMTT(30)
<1>6. MaxKey * v + k < KeyWrap
  BY <1>1, <1>4, <1>5, SMTT(30)
<1>7. QED
  BY <1>1, <1>5, <1>6, SMTT(30)

(* The registrar in use has the prefix of its chain, and books under the   *)
(* key of that chain.                                                      *)
LEMMA TopFacts ==
  ASSUME RegistrarsInv
  PROVE  /\ Path \in Paths
         /\ Len(Path) = Len(registrars)
         /\ Top.prefix = MaxKey * Value(Path)
         /\ \A key \in Keys : MakeKey(Top.prefix, key) = GlobalKey(<<Path, key>>)
<1> DEFINE R == registrars
<1>1. /\ R \in Seq([given : Nat, prefix : Nat])
      /\ Len(R) \in 1 .. 4
      /\ R[1] = [given |-> 0, prefix |-> 0]
      /\ \A i \in 2 .. Len(R) :
            /\ R[i].given \in Digits
            /\ R[i].prefix = MaxPrefix * R[i - 1].prefix + MaxKey * R[i].given
  BY DEF RegistrarsInv, Digits
<1> HIDE DEF R
<1>2. Path = [i \in 1 .. Len(R) |-> R[i].given]
  <2>1. DOMAIN R = 1 .. Len(R)
    BY <1>1, SMTT(30)
  <2>2. Path = [i \in DOMAIN R |-> R[i].given]
    BY DEF Path, R
  <2>3. QED
    BY <2>1, <2>2
<1>3. /\ Path \in Seq(Nat) /\ Len(Path) = Len(R)
      /\ \A i \in 1 .. Len(R) : Path[i] = R[i].given
  <2>1. Len(R) \in Nat /\ \A i \in 1 .. Len(R) : R[i].given \in Nat
    <3>1. ASSUME NEW i \in 1 .. Len(R)
          PROVE  R[i].given \in Nat
      <4>1. CASE i = 1
        BY <1>1, <4>1, SMTT(30)
      <4>2. CASE i # 1
        <5>1. i \in 2 .. Len(R)
          BY <1>1, <4>2, SMTT(30)
        <5>2. QED
          BY <1>1, <5>1, SMTT(30) DEF Digits
      <4>3. QED
        BY <4>1, <4>2
    <3>2. QED
      BY <1>1, <3>1, SMTT(30)
  <2> HIDE DEF Path
  <2>2. QED
    BY <1>2, <2>1, SMTT(30)
<1>4. Path \in Paths
  <2>1. Path[1] = 0
    BY <1>1, <1>3, SMTT(30)
  <2> HIDE DEF Path
  <2>2. ASSUME NEW i \in 2 .. Len(R)
        PROVE  Path[i] \in Digits
    <3>1. i \in 1 .. Len(R) /\ R[i].given \in Digits
      BY <1>1, SMTT(30)
    <3>2. QED
      BY <1>3, <3>1
  <2>3. QED
    BY <1>1, <1>3, <2>1, <2>2 DEF Paths
<1>5. Top.prefix = R[Len(R)].prefix
  BY DEF Top, R
<1>6. R[1].prefix = 0
  BY <1>1, SMTT(30)
<1>7. ASSUME Len(R) \in {2, 3, 4}
      PROVE  R[2].prefix = MaxKey * Value2(Path)
  <2>1. R[2].prefix = MaxPrefix * R[2 - 1].prefix + MaxKey * R[2].given /\ Path[2] = R[2].given
        /\ R[2].given \in Nat
    BY <1>1, <1>3, <1>7, SMTT(30) DEF Digits
  <2>2. R[2].prefix = MaxPrefix * 0 + MaxKey * Path[2] /\ Path[2] \in Nat
    BY <1>6, <2>1, SMTT(30)
  <2>3. QED
    BY <2>2, KeyAssumption, SMTT(30) DEF Value2, AddDigit
<1>8. ASSUME NEW w \in Nat, NEW d \in Nat
      PROVE  MaxPrefix * (MaxKey * w) + MaxKey * d = MaxKey * AddDigit(w, d)
  BY KeyAssumption, SMTT(30) DEF AddDigit
<1>9. ASSUME Len(R) \in {3, 4}
      PROVE  R[3].prefix = MaxKey * Value3(Path)
  <2>1. R[3].prefix = MaxPrefix * R[3 - 1].prefix + MaxKey * R[3].given /\ Path[3] = R[3].given
        /\ R[3].given \in Nat
    BY <1>1, <1>3, <1>9, SMTT(30) DEF Digits
  <2>2. R[3].prefix = MaxPrefix * (MaxKey * Value2(Path)) + MaxKey * Path[3] /\ Path[3] \in Nat
    BY <1>7, <1>9, <2>1, SMTT(30)
  <2>3. Value2(Path) \in Nat
    BY <1>3, <1>4, <1>9, PathFacts
  <2>4. QED
    BY <1>8, <2>2, <2>3 DEF Value3
<1>10. ASSUME Len(R) = 4
       PROVE  R[4].prefix = MaxKey * Value4(Path)
  <2>1. R[4].prefix = MaxPrefix * R[4 - 1].prefix + MaxKey * R[4].given /\ Path[4] = R[4].given
        /\ R[4].given \in Nat
    BY <1>1, <1>3, <1>10, SMTT(30) DEF Digits
  <2>2. R[4].prefix = MaxPrefix * (MaxKey * Value3(Path)) + MaxKey * Path[4] /\ Path[4] \in Nat
    BY <1>9, <1>10, <2>1, SMTT(30)
  <2>3. Value3(Path) \in Nat
    BY <1>3, <1>4, <1>10, PathFacts
  <2>4. QED
    BY <1>8, <2>2, <2>3 DEF Value4
<1>11. Top.prefix = MaxKey * Value(Path)
  <2>1. CASE Len(R) = 1
    BY <1>3, <1>4, <1>5, <1>6, <2>1, ValueCases, KeyAssumption, SMTT(30)
  <2>2. CASE Len(R) = 2
    BY <1>3, <1>4, <1>5, <1>7, <2>2, ValueCases
  <2>3. CASE Len(R) = 3
    BY <1>3, <1>4, <1>5, <1>9, <2>3, ValueCases
  <2>4. CASE Len(R) = 4
    BY <1>3, <1>4, <1>5, <1>10, <2>4, ValueCases
  <2>5. QED
    BY <1>1, <2>1, <2>2, <2>3, <2>4, SMTT(30)
<1>12. ASSUME NEW key \in Keys
       PROVE  MakeKey(Top.prefix, key) = GlobalKey(<<Path, key>>)
  <2>1. key \in 0 .. MaxKey - 1
    BY KeyAssumption, SMTT(30) DEF Keys
  <2>2. QED
    BY <1>4, <1>11, <2>1, ValueBounds, NoWrap DEF MakeKey, GlobalKey
<1>13. QED
  BY <1>3, <1>4, <1>11, <1>12 DEF R

(* A registrar's constructor: the prefix it computes does not wrap. *)
LEMMA ChainKeepsRegistrars ==
  ASSUME RegistrarsInv, NEW d \in Digits, Chain(d)
  PROVE  RegistrarsInv'
<1> DEFINE R == registrars
           r == [given |-> d, prefix |-> MakePrefix(Top.prefix, d)]
           T == [given : Nat, prefix : Nat]
<1>1. Path \in Paths /\ Len(Path) # 4 /\ Top.prefix = MaxKey * Value(Path)
  <2> DEFINE n == Len(registrars)
  <2>1. n <= 3 /\ n \in 1 .. 4
    BY DEF Chain, RegistrarsInv
  <2>2. Len(Path) = n
    BY TopFacts
  <2> HIDE DEF n
  <2>3. n # 4
    BY <2>1, SMTT(30)
  <2>4. QED
    BY <2>2, <2>3, TopFacts
<1>2. Value(Path) \in Nat /\ Value(Path) < MaxPrefix * MaxPrefix
  BY <1>1, ValueBounds
<1>3. MakePrefix(Top.prefix, d) \in Nat
      /\ MakePrefix(Top.prefix, d) = MaxPrefix * Top.prefix + MaxKey * d
  <2> DEFINE v == Value(Path)
             w == AddDigit(v, d)
  <2>1. v \in Nat /\ v < MaxPrefix * MaxPrefix /\ d \in Nat
        /\ MaxPrefix * MaxPrefix \in Nat
    BY <1>2, KeyAssumption, SMTT(30) DEF Digits
  <2>2. Top.prefix = MaxKey * v
    BY <1>1
  <2> HIDE DEF v
  <2>3. MaxPrefix * (MaxKey * v) + MaxKey * d = MaxKey * w + 0
    BY <2>1, KeyAssumption, SMTT(30) DEF AddDigit
  <2>4. w \in Nat /\ w < MaxPrefix * MaxPrefix * MaxPrefix
    BY <2>1, AddDigitFacts, AddDigitBound
  <2>5. 0 \in 0 .. MaxKey - 1
    BY KeyAssumption, SMTT(30)
  <2> HIDE DEF w
  <2>6. MaxKey * w + 0 \in Nat /\ (MaxKey * w + 0) % KeyWrap = MaxKey * w + 0
    BY <2>4, <2>5, NoWrap
  <2>7. QED
    BY <2>2, <2>3, <2>6 DEF MakePrefix
<1>4. R \in Seq(T) /\ Len(R) \in 1 .. 3 /\ R[1] = [given |-> 0, prefix |-> 0]
      /\ r \in T /\ registrars' = Append(R, r)
  <2>1. R \in Seq(T) /\ Len(R) \in 1 .. 4 /\ R[1] = [given |-> 0, prefix |-> 0]
    BY DEF RegistrarsInv
  <2>2. Len(R) <= 3 /\ registrars' = Append(R, r)
    BY DEF Chain
  <2>3. d \in Nat
    BY SMTT(30) DEF Digits
  <2>4. r \in T
    BY <1>3, <2>3
  <2> HIDE DEF R, r, T
  <2>5. Len(R) \in 1 .. 3
    BY <2>1, <2>2, SMTT(30)
  <2>6. QED
    BY <2>1, <2>2, <2>4, <2>5
<1>5. Top = R[Len(R)]
  BY DEF Top
<1> HIDE DEF T
<1>6. /\ registrars' \in Seq(T)
      /\ Len(registrars') = Len(R) + 1
      /\ \A i \in 1 .. Len(R) : registrars'[i] = R[i]
      /\ registrars'[Len(R) + 1] = r
  <2> HIDE DEF R, r
  <2>1. QED
    BY <1>4, SMTT(30)
<1>7. ASSUME NEW i \in 2 .. Len(registrars')
      PROVE  /\ registrars'[i].given \in 1 .. MaxPrefix - 1
             /\ registrars'[i].prefix = MaxPrefix * registrars'[i - 1].prefix
                                        + MaxKey * registrars'[i].given
  <2>1. CASE i \in 2 .. Len(R)
    <3>1. i \in 1 .. Len(R) /\ i - 1 \in 1 .. Len(R)
      BY <1>4, <2>1, SMTT(30)
    <3>2. registrars'[i] = R[i] /\ registrars'[i - 1] = R[i - 1]
      BY <1>6, <3>1
    <3>3. QED
      BY <2>1, <3>2 DEF RegistrarsInv
  <2>2. CASE i = Len(R) + 1
    <3>1. i - 1 = Len(R) /\ Len(R) \in 1 .. Len(R)
      BY <1>4, <2>2, SMTT(30)
    <3>2. registrars'[i] = r /\ registrars'[i - 1] = Top
      BY <1>5, <1>6, <2>2, <3>1
    <3>3. r.given = d /\ r.prefix = MaxPrefix * Top.prefix + MaxKey * d
      BY <1>3
    <3>4. d \in 1 .. MaxPrefix - 1
      BY DEF Digits
    <3> HIDE DEF r
    <3>5. QED
      BY <3>2, <3>3, <3>4
  <2>3. QED
    BY <1>4, <1>6, <2>1, <2>2, SMTT(30)
<1>8. registrars'[1] = [given |-> 0, prefix |-> 0] /\ Len(registrars') \in 1 .. 4
  <2>1. 1 \in 1 .. Len(R)
    BY <1>4, SMTT(30)
  <2>2. QED
    BY <1>4, <1>6, <2>1, SMTT(30)
<1>9. QED
  BY <1>6, <1>7, <1>8 DEF RegistrarsInv, T

(* The end of a registrar's scope leaves the chain it extended. *)
LEMMA UnchainKeepsRegistrars ==
  ASSUME RegistrarsInv, Unchain
  PROVE  RegistrarsInv'
<1> DEFINE R == registrars
           n == Len(registrars) - 1
           T == [given : Nat, prefix : Nat]
           m == Len(registrars)
<1>1. R \in Seq(T) /\ registrars' = SubSeq(R, 1, n) /\ Len(R) = m
  BY DEF RegistrarsInv, Unchain
<1>2. m \in 2 .. 4 /\ n \in 1 .. 3 /\ n <= m
  BY SMTT(30) DEF RegistrarsInv, Unchain
<1> HIDE DEF R, m, n, T
<1>3. registrars' \in Seq(T) /\ Len(registrars') = n /\ \A i \in 1 .. n : registrars'[i] = R[i]
  <2>1. \A i \in 1 .. n : R[i] \in T
    BY <1>1, <1>2, SMTT(30)
  <2>2. /\ SubSeq(R, 1, n) \in Seq(T)
        /\ Len(SubSeq(R, 1, n)) = IF 1 <= n THEN n - 1 + 1 ELSE 0
        /\ \A i \in 1 .. n - 1 + 1 : SubSeq(R, 1, n)[i] = R[1 + i - 1]
    BY <1>2, <2>1, SMTT(30)
  <2>3. n - 1 + 1 = n /\ 1 <= n /\ \A i \in 1 .. n : 1 + i - 1 = i
    BY <1>2, SMTT(30)
  <2>4. QED
    BY <1>1, <2>2, <2>3
<1>4. ASSUME NEW i \in 2 .. n
      PROVE  registrars'[i] = R[i] /\ registrars'[i - 1] = R[i - 1] /\ i \in 2 .. m
  <2>1. i \in 1 .. n /\ i - 1 \in 1 .. n /\ i \in 2 .. m
    BY <1>2, SMTT(30)
  <2>2. QED
    BY <1>3, <2>1
<1>5. registrars'[1] = R[1] /\ Len(registrars') \in 1 .. 4
  <2>1. 1 \in 1 .. n /\ n \in 1 .. 4
    BY <1>2, SMTT(30)
  <2>2. QED
    BY <1>3, <2>1
<1>6. QED
  BY <1>3, <1>4, <1>5 DEF RegistrarsInv, R, T, m

(* The piece a registrar books gets a key that no other piece has. *)
LEMMA FreshKey ==
  ASSUME RegistrarsInv, KeysInv, NEW key \in Keys, <<Path, key>> \notin named
  PROVE  /\ <<Path, key>> \in Paths \X Keys
         /\ MakeKey(Top.prefix, key) = GlobalKey(<<Path, key>>)
         /\ MakeKey(Top.prefix, key) \notin DOMAIN outer.entries
         /\ MakeKey(Top.prefix, key) # 0
<1> DEFINE n == <<Path, key>>
<1>1. n \in Paths \X Keys /\ MakeKey(Top.prefix, key) = GlobalKey(n)
  BY TopFacts
<1>2. GlobalKey(n) \notin DOMAIN outer.entries
  <2>1. ASSUME NEW o \in named, GlobalKey(o) = GlobalKey(n)
        PROVE  FALSE
    <3>1. o \in Paths \X Keys
      BY DEF KeysInv
    <3>2. o = n
      BY <1>1, <2>1, <3>1, GlobalKeyInjective
    <3>3. QED
      BY <3>2
  <2>2. QED
    BY <2>1 DEF KeysInv
<1>3. GlobalKey(n) # 0
  <2> DEFINE v == Value(Path)
  <2>1. GlobalKey(n) = MaxKey * v + key
    BY DEF GlobalKey
  <2>2. v \in Nat
    BY <1>1, ValueBounds
  <2>3. key \in Nat \ {0} /\ MaxKey \in Nat
    BY KeyAssumption, SMTT(30) DEF Keys
  <2> HIDE DEF v
  <2>4. MaxKey * v \in Nat
    BY <2>2, <2>3, SMTT(30)
  <2>5. QED
    BY <2>1, <2>3, <2>4, SMTT(30)
<1>4. QED
  BY <1>1, <1>2, <1>3

(* Booking under a new key, for the keys, the alignments and the host. *)
LEMMA BookKeeps ==
  ASSUME RegistrarsInv, KeysInv, AlignmentsInv, HostInv,
         NEW key \in Keys, <<Path, key>> \notin named,
         NEW size \in Nat \ {0},
         NEW dataAlign \in DataAligns \cup {1},
         NEW perfAlign \in PerfAligns \cup {DefaultAlignment},
         outer' = Book(build, outer, MakeKey(Top.prefix, key), size, dataAlign, perfAlign),
         named' = named \cup {<<Path, key>>},
         build' = build
  PROVE  /\ KeysInv'
         /\ AlignmentsInv'
         /\ MakeKey(Top.prefix, key) # 0
         /\ MakeKey(Top.prefix, key) \notin DOMAIN outer.entries
         /\ MakeKey(Top.prefix, key) \in DOMAIN outer'.entries
         /\ outer'.entries[MakeKey(Top.prefix, key)].size = size
         /\ Debug(build) => outer'.entries[MakeKey(Top.prefix, key)].alignment = dataAlign
         /\ \A k \in DOMAIN outer.entries : /\ k \in DOMAIN outer'.entries
                                            /\ outer'.entries[k] = outer.entries[k]
<1> DEFINE g == MakeKey(Top.prefix, key)
           n == <<Path, key>>
           E == outer.entries
           F == outer'.entries
           a == outer'.entries[g].alignment
<1>1. n \in Paths \X Keys /\ g = GlobalKey(n) /\ g \notin DOMAIN E /\ g # 0
  BY FreshKey
<1>2. /\ DOMAIN F = DOMAIN E \cup {g}
      /\ F[g].size = size
      /\ Debug(build) => F[g].alignment = dataAlign
      /\ ~Debug(build) => F[g].alignment = Larger(dataAlign, perfAlign)
      /\ \A k \in DOMAIN E \ {g} : F[k] = E[k]
  <2> DEFINE alignment == IF Debug(build) THEN dataAlign ELSE Larger(dataAlign, perfAlign)
             entry == [offset    |-> Start(build, outer, alignment),
                       size      |-> size,
                       capacity  |-> Capacity(build, size, alignment),
                       alignment |-> alignment]
  <2>1. outer' = Book(build, outer, g, size, dataAlign, perfAlign)
    OBVIOUS
  <2> HIDE DEF g
  <2>2. F = [k \in DOMAIN E \cup {g} |-> IF k = g THEN entry ELSE E[k]]
    <3>1. size # 0
      OBVIOUS
    <3>2. outer' = [entries |-> [k \in DOMAIN outer.entries \cup {g} |->
                                   IF k = g THEN entry ELSE outer.entries[k]],
                    size |-> NextOffset(entry)]
      BY <2>1, <3>1 DEF Book
    <3> DEFINE X == [k \in DOMAIN outer.entries \cup {g} |->
                       IF k = g THEN entry ELSE outer.entries[k]]
    <3>3. outer' = [entries |-> X, size |-> NextOffset(entry)]
      BY <3>2
    <3> HIDE DEF X, entry
    <3>4. outer'.entries = X
      BY <3>3, SMTT(30)
    <3> QED
      BY <3>4 DEF X
  <2>3. entry.size = size /\ entry.alignment = alignment
    OBVIOUS
  <2> HIDE DEF entry, alignment, E, F
  <2>4. QED
    BY <2>2, <2>3 DEF alignment
<1>3. n \notin named /\ named' = named \cup {n}
  BY ZenonT(30)
<1> HIDE DEF g, n, E, F, a
<1>4. KeysInv'
  <2>1. /\ named \subseteq Paths \X Keys /\ IsFiniteSet(named)
        /\ DOMAIN E = {GlobalKey(o) : o \in named}
        /\ IsFiniteSet(DOMAIN E)
        /\ Cardinality(DOMAIN E) = Cardinality(named)
    BY DEF KeysInv, KeysDistinct, E
  <2>2. named' \subseteq Paths \X Keys
    BY <1>1, <1>3, <2>1
  <2>3. IsFiniteSet(named') /\ Cardinality(named') = Cardinality(named) + 1
    <3>1. IsFiniteSet(named \cup {n}) /\ Cardinality(named \cup {n}) = Cardinality(named) + 1
      BY <1>3, <2>1, FS_AddElement, ZenonT(30)
    <3>2. QED
      BY <1>3, <3>1, ZenonT(30)
  <2>4. IsFiniteSet(DOMAIN F) /\ Cardinality(DOMAIN F) = Cardinality(DOMAIN E) + 1
    <3>1. IsFiniteSet(DOMAIN E \cup {g}) /\ Cardinality(DOMAIN E \cup {g}) = Cardinality(DOMAIN E) + 1
      BY <1>1, <2>1, FS_AddElement, ZenonT(30)
    <3>2. QED
      BY <1>2, <3>1, ZenonT(30)
  <2>5. DOMAIN F = {GlobalKey(o) : o \in named'}
    BY <1>1, <1>2, <1>3, <2>1
  <2>6. QED
    BY <2>1, <2>2, <2>3, <2>4, <2>5 DEF KeysInv, KeysDistinct, F, GlobalKey, Value, Value2,
       Value3, Value4, AddDigit, Paths, Digits, Keys
<1>5. AlignmentsInv'
  <2>1. /\ a \in DataAligns \cup PerfAligns \cup {DefaultAlignment, 1}
        /\ Debug(build) => a <= PageSize
    <3>1. ASSUME Debug(build)
          PROVE  a \in DataAligns \cup {1} /\ a <= PageSize
      <4>1. a = dataAlign
        BY <1>2, <3>1 DEF a, F
      <4>2. dataAlign <= PageSize
        BY AlignAssumption, PageAssumption, SMTT(30)
      <4>3. QED
        BY <4>1, <4>2
    <3>2. ASSUME ~Debug(build)
          PROVE  a \in DataAligns \cup {1} \cup PerfAligns \cup {DefaultAlignment}
      <4>1. a = dataAlign \/ a = perfAlign
        BY <1>2, <3>2 DEF a, F, Larger
      <4>2. QED
        BY <4>1
    <3>3. QED
      BY <3>1, <3>2
  <2>2. GetAlignment(build, F[g].alignment) % F[g].alignment = 0
    BY <2>1, AlignmentDivides DEF a, F
  <2>3. ASSUME NEW k \in DOMAIN E
        PROVE  GetAlignment(build, F[k].alignment) % F[k].alignment = 0
    <3>1. F[k] = E[k]
      BY <1>1, <1>2
    <3>2. GetAlignment(build, E[k].alignment) % E[k].alignment = 0
      BY DEF AlignmentsInv, E
    <3>3. QED
      BY <3>1, <3>2
  <2>4. \A k \in DOMAIN F : GetAlignment(build', F[k].alignment) % F[k].alignment = 0
    BY <1>2, <2>2, <2>3
  <2>5. QED
    BY <2>4 DEF AlignmentsInv, F
<1>6. QED
  BY <1>1, <1>2, <1>4, <1>5 DEF g, E, F

(* A step that leaves the registries and the names alone. *)
LEMMA BookingsUnchanged ==
  ASSUME KeysInv, AlignmentsInv, HostInv,
         build' = build, outer' = outer, inner' = inner, nested' = nested, named' = named
  PROVE  KeysInv' /\ AlignmentsInv' /\ HostInv'
BY DEF KeysInv, KeysDistinct, AlignmentsInv, HostInv

(* Every step keeps the chains, the keys, the alignments and the host. *)
LEMMA ScratchpadStep ==
  ASSUME ScratchpadInv, [Next]_vars
  PROVE  ScratchpadInv'
<1>1. LayoutInv /\ RegistrarsInv /\ KeysInv /\ AlignmentsInv /\ HostInv
  BY DEF ScratchpadInv
<1>2. LayoutInv'
  BY <1>1, LayoutStep
<1>3. ASSUME registrars' = registrars
      PROVE  RegistrarsInv'
  BY <1>1, <1>3 DEF RegistrarsInv
<1>4. ASSUME NEW prefix \in 1 .. MaxPrefix - 1, Chain(prefix)
      PROVE  ScratchpadInv'
  <2>1. RegistrarsInv'
    BY <1>1, <1>4, ChainKeepsRegistrars DEF Digits
  <2>2. KeysInv' /\ AlignmentsInv' /\ HostInv'
    BY <1>1, <1>4, BookingsUnchanged DEF Chain
  <2>3. QED
    BY <1>2, <2>1, <2>2 DEF ScratchpadInv
<1>5. ASSUME Unchain
      PROVE  ScratchpadInv'
  <2>1. RegistrarsInv'
    BY <1>1, <1>5, UnchainKeepsRegistrars
  <2>2. KeysInv' /\ AlignmentsInv' /\ HostInv'
    BY <1>1, <1>5, BookingsUnchanged DEF Unchain
  <2>3. QED
    BY <1>2, <2>1, <2>2 DEF ScratchpadInv
<1>6. ASSUME NEW key \in Keys, NEW size \in Sizes, NEW d \in DataAligns, NEW a \in PerfAligns,
             BookOuter(key, size, d, a)
      PROVE  ScratchpadInv'
  <2> DEFINE g == MakeKey(Top.prefix, key)
  <2>1. /\ <<Path, key>> \notin named
        /\ outer' = Book(build, outer, g, size, d, a)
        /\ named' = IF size = 0 THEN named ELSE named \cup {<<Path, key>>}
        /\ build' = build /\ inner' = inner /\ nested' = nested /\ registrars' = registrars
    BY <1>6 DEF BookOuter
  <2>2. CASE size = 0
    <3>1. outer' = outer /\ named' = named
      BY <2>1, <2>2 DEF Book
    <3>2. QED
      BY <1>1, <1>2, <1>3, <2>1, <3>1, BookingsUnchanged DEF ScratchpadInv
  <2>3. CASE size # 0
    <3>1. size \in Nat \ {0} /\ d \in DataAligns \cup {1} /\ a \in PerfAligns \cup {DefaultAlignment}
          /\ named' = named \cup {<<Path, key>>}
      BY <2>1, <2>3, RangeAssumption
    <3> HIDE DEF g
    <3>2. /\ KeysInv' /\ AlignmentsInv'
          /\ \A k \in DOMAIN outer.entries : /\ k \in DOMAIN outer'.entries
                                             /\ outer'.entries[k] = outer.entries[k]
      BY <1>1, <2>1, <3>1, BookKeeps DEF g
    <3>3. HostInv'
      BY <1>1, <2>1, <3>2 DEF HostInv
    <3>4. QED
      BY <1>2, <1>3, <2>1, <3>2, <3>3 DEF ScratchpadInv
  <2>4. QED
    BY <2>2, <2>3
<1>7. ASSUME NEW key \in Keys, NEW size \in Sizes, NEW d \in DataAligns, NEW a \in PerfAligns,
             BookInner(key, size, d, a)
      PROVE  ScratchpadInv'
  <2>1. /\ nested = 0 /\ nested' = nested /\ build' = build /\ outer' = outer
        /\ named' = named /\ registrars' = registrars
    BY <1>7 DEF BookInner
  <2>2. KeysInv' /\ AlignmentsInv' /\ HostInv'
    BY <1>1, <2>1 DEF KeysInv, KeysDistinct, AlignmentsInv, HostInv
  <2>3. QED
    BY <1>2, <1>3, <2>1, <2>2 DEF ScratchpadInv
<1>8. ASSUME NEW key \in Keys, BookNested(key)
      PROVE  ScratchpadInv'
  <2> DEFINE g == MakeKey(Top.prefix, key)
  <2>1. /\ <<Path, key>> \notin named
        /\ outer' = Book(build, outer, g, inner.size, 1, DefaultAlignment)
        /\ named' = named \cup {<<Path, key>>}
        /\ nested' = g
        /\ build' = build /\ inner' = inner /\ registrars' = registrars
    BY <1>8 DEF BookNested
  <2>2. inner.size \in Nat \ {0}
    <3>1. inner.size \in Nat
      BY <1>1 DEF LayoutInv, LedgersKept, Ledger
    <3>2. inner.size > 0
      BY <1>8 DEF BookNested
    <3>3. QED
      BY <3>1, <3>2, SMTT(30)
  <2>3. 1 \in DataAligns \cup {1} /\ DefaultAlignment \in PerfAligns \cup {DefaultAlignment}
    OBVIOUS
  <2> HIDE DEF g
  <2>4. /\ KeysInv' /\ AlignmentsInv'
        /\ g \in DOMAIN outer'.entries
        /\ outer'.entries[g].size = inner.size
        /\ Debug(build) => outer'.entries[g].alignment = 1
    BY <1>1, <2>1, <2>2, <2>3, BookKeeps DEF g
  <2>5. HostInv'
    BY <2>1, <2>4 DEF HostInv
  <2>6. QED
    BY <1>2, <1>3, <2>1, <2>4, <2>5 DEF ScratchpadInv
<1>9. CASE UNCHANGED vars
  BY <1>1, <1>2, <1>3, <1>9, BookingsUnchanged DEF ScratchpadInv, vars
<1>10. QED
  BY <1>4, <1>5, <1>6, <1>7, <1>8, <1>9 DEF Next

(* The inductive invariant of the booking of scratchpads. *)
THEOREM ScratchpadInvHolds == Spec => []ScratchpadInv
<1>1. Init => ScratchpadInv
  <2> SUFFICES ASSUME Init
               PROVE  ScratchpadInv
    OBVIOUS
  <2>1. LayoutInv
    BY LedgerEmpty DEF Init, LayoutInv, LedgersKept
  <2>2. RegistrarsInv
    BY SMTT(30) DEF Init, RegistrarsInv
  <2>3. outer.entries = << >> /\ DOMAIN outer.entries = {} /\ named = {} /\ nested = 0
    BY SMTT(30) DEF Init, EmptyRegistry
  <2>4. KeysInv /\ AlignmentsInv /\ HostInv
    BY <2>3, FS_EmptySet DEF KeysInv, KeysDistinct, AlignmentsInv, HostInv
  <2>5. QED
    BY <2>1, <2>2, <2>4 DEF ScratchpadInv
<1>2. ScratchpadInv /\ [Next]_vars => ScratchpadInv'
  BY ScratchpadStep
<1>3. QED
  BY <1>1, <1>2, PTL DEF Spec

(* However registrars are chained, no booking takes the key of another     *)
(* one: make_prefix and make_key neither collide nor wrap.                 *)
THEOREM KeysStayDistinct == Spec => []KeysDistinct
<1>1. ScratchpadInv => KeysDistinct
  BY DEF ScratchpadInv, KeysInv
<1>2. QED
  BY <1>1, ScratchpadInvHolds, PTL

(* What registry_t::get returns is a multiple of the alignment that was    *)
(* booked, for every base address, although an overflow build moves pieces *)
(* towards the ends of their pages.                                        *)
THEOREM SlicesStayAligned == Spec => []SlicesAligned
<1>1. ScratchpadInv => SlicesAligned
  <2> SUFFICES ASSUME ScratchpadInv, NEW base \in Bases, NEW k \in DOMAIN outer.entries
               PROVE  Get(build, outer.entries[k], base) % outer.entries[k].alignment = 0
    BY DEF SlicesAligned
  <2> DEFINE e == outer.entries[k]
  <2>1. e \in Entry /\ (Debug(build) => e.alignment <= PageSize)
    BY DEF ScratchpadInv, LayoutInv, LedgersKept, Ledger
  <2>2. GetAlignment(build, e.alignment) % e.alignment = 0
    BY DEF ScratchpadInv, AlignmentsInv
  <2>3. base \in Nat
    BY RangeAssumption
  <2> HIDE DEF e
  <2>4. Get(build, e, base) % e.alignment = 0
    BY <2>1, <2>2, <2>3, GetAligned
  <2>5. QED
    BY <2>4 DEF e
<1>2. QED
  BY <1>1, ScratchpadInvHolds, PTL

-----------------------------------------------------------------------------
(* The data and the protection of a piece stay inside its registry. *)
LEMMA PieceInside ==
  ASSUME NEW m, NEW r, Ledger(m, r), NEW k \in DOMAIN r.entries, NEW base \in Nat,
         NEW x \in {Data(m, r.entries[k], base)} \cup Protection(m, r.entries[k], base)
  PROVE  /\ x.lo \in Int /\ x.hi \in Int /\ r.size \in Nat
         /\ base <= x.lo /\ x.hi <= base + r.size
<1> DEFINE e == r.entries[k]
           p == Get(m, e, base)
           G == ProtectSize(m)
           B == BufferProtectSize(m)
<1>1. /\ e.offset \in Nat /\ e.capacity \in Nat /\ e.size \in Nat /\ p \in Nat
      /\ B \in Nat
      /\ base + e.offset <= p
      /\ p + e.size + B <= base + e.offset + e.capacity
      /\ e.offset + e.capacity <= r.size
  BY DataBounds
<1>2. r.size \in Nat /\ (Debug(m) => PageSize + B <= e.offset)
  BY DEF Ledger
<1>3. G \in Nat /\ PageSize \in Nat \ {0} /\ (Debug(m) => B = G + PageSize)
  BY SlackFacts, PageAssumption
<1> DEFINE s == PageStart(p)
           t == PageEnd(p + e.size)
<1>4. s \in Nat /\ s <= p /\ p < s + PageSize
  BY <1>1, PageStartBounds
<1>5. t \in Nat /\ p + e.size <= t /\ t < p + e.size + PageSize
  <2> HIDE DEF e, p
  <2>1. p + e.size \in Nat
    BY <1>1, SMTT(30)
  <2>2. QED
    BY <2>1, PageEndBounds
<1>6. \/ x.lo = p /\ x.hi = p + e.size
      \/ Debug(m) /\ x.lo = s - G /\ x.hi = s
      \/ Debug(m) /\ x.lo = t /\ x.hi = t + G
      \/ Debug(m) /\ x.lo = s /\ x.hi = t
  <2> HIDE DEF e, p, G, s, t
  <2>1. \/ x = Data(m, e, base)
        \/ Debug(m) /\ x = GuardBefore(m, e, p)
        \/ Debug(m) /\ x = GuardAfter(m, e, p)
        \/ Debug(m) /\ x = Canary(e, p)
    BY DEF Protection, e, p
  <2>2. CASE x = Data(m, e, base)
    BY <2>2 DEF Data, p
  <2>3. CASE Debug(m) /\ x = GuardBefore(m, e, p)
    BY <2>3 DEF GuardBefore, G, s
  <2>4. CASE Debug(m) /\ x = GuardAfter(m, e, p)
    BY <2>4 DEF GuardAfter, G, t
  <2>5. CASE Debug(m) /\ x = Canary(e, p)
    BY <2>5 DEF Canary, s, t
  <2>6. QED
    BY <2>1, <2>2, <2>3, <2>4, <2>5
<1> HIDE DEF e, p, G, B, s, t
<1>7. QED
  BY <1>1, <1>2, <1>3, <1>4, <1>5, <1>6, SMTT(30)

(* The storage of a nested scratchpad lies in the capacity of its host. *)
LEMMA HostHoldsNested ==
  ASSUME LayoutInv, HostInv, nested # 0, NEW base \in Nat
  PROVE  LET host == outer.entries[nested]
             sub == SubStorage(host, base)
         IN /\ host.offset \in Nat /\ host.capacity \in Nat /\ sub \in Nat /\ inner.size \in Nat
            /\ base + host.offset <= sub
            /\ sub + inner.size <= base + host.offset + host.capacity
            /\ Debug(build) => sub = base + host.offset
<1> DEFINE host == outer.entries[nested]
           sub == SubStorage(host, base)
           a == host.alignment
           ga == GetAlignment(build, a)
           x == AlignPtr(host.offset, a)
<1>1. /\ host \in Entry /\ host.capacity = Capacity(build, host.size, a)
      /\ host.size = inner.size /\ (Debug(build) => a = 1)
  BY DEF LayoutInv, LedgersKept, Ledger, HostInv
<1>2. host.offset \in Nat /\ host.size \in Nat /\ host.capacity \in Nat /\ a \in Nat \ {0}
  BY <1>1 DEF Entry
<1>3. sub = base + x
  BY DEF SubStorage
<1> HIDE DEF host, sub
<1>4. x \in Nat /\ host.offset <= x /\ x < host.offset + a
  BY <1>2, AlignBounds
<1>5. ga \in Nat /\ BufferProtectSize(build) \in Nat /\ a <= ga
  BY <1>2, SlackFacts, AlignAssumption, PageAssumption, SMTT(30) DEF GetAlignment, Larger
<1>6. host.capacity = host.size + ga + BufferProtectSize(build)
  BY <1>1 DEF Capacity
<1> HIDE DEF x, a, ga
<1>7. /\ host.offset \in Nat /\ host.capacity \in Nat /\ sub \in Nat /\ inner.size \in Nat
      /\ base + host.offset <= sub
      /\ sub + inner.size <= base + host.offset + host.capacity
      /\ Debug(build) => sub = base + host.offset
  BY <1>1, <1>2, <1>3, <1>4, <1>5, <1>6, SMTT(30)
<1>8. QED
  BY <1>7 DEF host, sub

(* The invariant keeps nested scratchpads in their pieces. *)
LEMMA ScratchpadInvNests == ScratchpadInv => NestedInside
<1> SUFFICES ASSUME ScratchpadInv, nested # 0, NEW base \in Bases, NEW k \in DOMAIN inner.entries
             PROVE  LET host == outer.entries[nested]
                        i == inner.entries[k]
                        sub == SubStorage(host, base)
                    IN /\ \A l \in DOMAIN outer.entries \ {nested} :
                             \A r \in {Data(build, i, sub)} \cup Protection(build, i, sub) :
                                 Apart(r, Data(build, outer.entries[l], base))
                       /\ Debug(build) =>
                             /\ Apart(Canary(i, Get(build, i, sub)),
                                      GuardBefore(build, host, Get(build, host, base)))
                             /\ Apart(Canary(i, Get(build, i, sub)),
                                      GuardAfter(build, host, Get(build, host, base)))
  BY DEF NestedInside
<1> DEFINE host == outer.entries[nested]
           i == inner.entries[k]
           sub == SubStorage(host, base)
<1>1. LayoutInv /\ HostInv /\ Ledger(build, outer) /\ Ledger(build, inner) /\ base \in Nat
      /\ nested \in DOMAIN outer.entries /\ host.size = inner.size
  BY RangeAssumption DEF ScratchpadInv, LayoutInv, LedgersKept, HostInv
<1>2. /\ host.offset \in Nat /\ host.capacity \in Nat /\ sub \in Nat /\ inner.size \in Nat
      /\ base + host.offset <= sub
      /\ sub + inner.size <= base + host.offset + host.capacity
      /\ Debug(build) => sub = base + host.offset
  BY <1>1, HostHoldsNested
<1>3. ASSUME NEW l \in DOMAIN outer.entries \ {nested},
             NEW r \in {Data(build, i, sub)} \cup Protection(build, i, sub)
      PROVE  Apart(r, Data(build, outer.entries[l], base))
  <2> DEFINE e == outer.entries[l]
             p == Get(build, e, base)
  <2>1. /\ e.offset \in Nat /\ e.capacity \in Nat /\ e.size \in Nat /\ p \in Nat
        /\ base + e.offset <= p
        /\ p + e.size + BufferProtectSize(build) <= base + e.offset + e.capacity
        /\ BufferProtectSize(build) \in Nat
    BY <1>1, DataBounds
  <2>2. \/ host.offset + host.capacity <= e.offset
        \/ e.offset + e.capacity <= host.offset
    BY <1>1 DEF Ledger
  <2>3. r.lo \in Int /\ r.hi \in Int /\ sub <= r.lo /\ r.hi <= sub + inner.size
    <3> HIDE DEF sub
    <3>1. QED
      BY <1>1, <1>2, <1>3, PieceInside
  <2> HIDE DEF host, sub, e, p
  <2>4. r.hi <= p \/ p + e.size <= r.lo
    <3>1. base \in Nat
      BY <1>1
    <3>2. sub + inner.size \in Nat /\ p + e.size \in Nat
      BY <1>2, <2>1, NatSum
    <3>3. CASE host.offset + host.capacity <= e.offset
      <4>1. sub + inner.size <= base + e.offset
        BY <1>2, <2>1, <3>1, <3>2, <3>3, EndsBefore
      <4>2. r.hi <= base + e.offset
        <5>1. sub + inner.size \in Int /\ base + e.offset \in Int
          BY <1>2, <2>1, <3>1, NatSum
        <5>2. QED
          BY <2>3, <4>1, <5>1, LeqTrans
      <4>3. r.hi <= p
        <5>1. p \in Int /\ base + e.offset \in Int /\ base + e.offset <= p
          BY <2>1, <3>1, NatSum
        <5>2. QED
          BY <2>3, <4>2, <5>1, LeqTrans
      <4>4. QED
        BY <4>3
    <3>4. CASE e.offset + e.capacity <= host.offset
      <4>1. base + e.offset + e.capacity \in Nat
        BY <2>1, <3>1, NatSum
      <4>2. p + e.size <= base + e.offset + e.capacity
        BY <2>1, <3>2, <4>1, WithoutGuard
      <4>3. p + e.size <= base + host.offset
        BY <1>2, <2>1, <3>1, <3>2, <3>4, <4>2, EndsBefore
      <4>4. p + e.size \in Int /\ base + host.offset \in Int /\ sub \in Int
        BY <1>2, <2>1, <3>1, NatSum
      <4>5. p + e.size <= sub
        BY <1>2, <4>3, <4>4, LeqTrans
      <4>6. p + e.size <= r.lo
        BY <2>3, <4>4, <4>5, LeqTrans
      <4>7. QED
        BY <4>6
    <3>5. QED
      BY <2>2, <3>3, <3>4
  <2>5. QED
    BY <2>4 DEF Apart, Data, e, p
<1>4. ASSUME Debug(build)
      PROVE  /\ Apart(Canary(i, Get(build, i, sub)),
                      GuardBefore(build, host, Get(build, host, base)))
             /\ Apart(Canary(i, Get(build, i, sub)),
                      GuardAfter(build, host, Get(build, host, base)))
  <2> DEFINE p == Get(build, host, base)
             q == Get(build, i, sub)
             B == BufferProtectSize(build)
  <2>1. p \in Nat /\ base + host.offset <= p /\ p <= base + host.offset + PageSize
    <3>1. host \in Entry /\ host.alignment = 1
      BY <1>1, <1>4 DEF Ledger, HostInv
    <3>2. 1 <= PageSize /\ PageSize \in Nat
      BY PageIsPositive
    <3>3. GetAlignment(build, host.alignment) = PageSize
      BY <1>4, <3>1, DebugSlack
    <3> HIDE DEF host
    <3>4. QED
      BY <1>1, <3>1, <3>2, <3>3, GetBounds
  <2>2. /\ i.offset \in Nat /\ i.capacity \in Nat /\ i.size \in Nat /\ q \in Nat
        /\ sub + i.offset <= q
        /\ q + i.size + B <= sub + i.offset + i.capacity
        /\ i.offset + i.capacity <= inner.size
    <3> HIDE DEF sub
    <3>1. QED
      BY <1>1, <1>2, DataBounds
  <2>3. PageSize + B <= i.offset
    BY <1>1, <1>4 DEF Ledger
  <2>4. B \in Nat /\ PageSize <= B /\ PageSize \in Nat \ {0} /\ ProtectSize(build) \in Nat
    BY <1>4, DebugSlack
  <2>5. PageStart(p) \in Nat /\ PageStart(p) <= p
    BY <2>1, PageStartBounds
  <2>6. PageStart(q) \in Nat /\ q < PageStart(q) + PageSize
    BY <2>2, PageStartBounds
  <2>7. PageEnd(p + host.size) \in Nat /\ p + host.size <= PageEnd(p + host.size)
    <3> HIDE DEF host, p
    <3>1. p + host.size \in Nat
      <4>1. p \in Nat /\ host.size \in Nat
        BY <1>1, <1>2, <2>1
      <4>2. QED
        BY <4>1, NatSum
    <3>2. QED
      BY <3>1, PageEndBounds
  <2>8. PageEnd(q + i.size) \in Nat /\ PageEnd(q + i.size) < q + i.size + PageSize
    <3> HIDE DEF i, q
    <3>1. q + i.size \in Nat
      <4>1. q \in Nat /\ i.size \in Nat
        BY <2>2
      <4>2. QED
        BY <4>1, NatSum
    <3>2. QED
      BY <3>1, PageEndBounds
  <2>9. sub = base + host.offset /\ host.size = inner.size
    BY <1>1, <1>2, <1>4
  <2> HIDE DEF host, i, sub, p, q, B
  <2>10. PageStart(p) <= PageStart(q)
    <3>1. base \in Nat /\ host.offset \in Nat
      BY <1>1, <1>2
    <3>2. p <= base + host.offset + PageSize /\ base + host.offset + i.offset <= q
      BY <2>1, <2>2, <2>9
    <3>3. p + PageSize <= q
      <4>1. base + host.offset \in Nat
        BY <3>1, NatSum
      <4>2. QED
        BY <2>1, <2>2, <2>3, <2>4, <3>2, <4>1, TwoPages
    <3>4. QED
      BY <2>1, <2>2, <2>5, <2>6, <3>3, PagesOrdered, ZenonT(30)
  <2>11. PageEnd(q + i.size) <= PageEnd(p + host.size)
    <3>1. sub \in Nat /\ inner.size \in Nat
      BY <1>1, <1>2, <2>9
    <3>2. q + i.size \in Nat /\ q + i.size + B \in Nat /\ p + inner.size \in Nat
      BY <2>1, <2>2, <2>4, <3>1, NatSum
    <3>3. PageEnd(q + i.size) <= q + i.size + B
      BY <2>4, <2>8, <3>2, GuardCovers
    <3>4. sub + i.offset + i.capacity <= p + inner.size
      BY <2>1, <2>2, <2>9, <3>1, MovedEnd
    <3>5. sub + i.offset + i.capacity \in Nat
      <4>1. sub + i.offset \in Nat
        BY <2>2, <3>1, NatSum
      <4>2. QED
        BY <2>2, <4>1, NatSum
    <3>6. q + i.size + B <= p + inner.size
      BY <2>2, <3>2, <3>4, <3>5, NatSum, LeqTrans
    <3>7. PageEnd(q + i.size) <= p + inner.size
      BY <2>8, <3>2, <3>3, <3>6, NatSum, LeqTrans
    <3>8. QED
      BY <2>7, <2>8, <2>9, <3>2, <3>7, NatSum, LeqTrans
  <2>12. Apart(Canary(i, q), GuardBefore(build, host, p))
    BY <2>10 DEF Apart, Canary, GuardBefore
  <2>13. Apart(Canary(i, q), GuardAfter(build, host, p))
    BY <2>11 DEF Apart, Canary, GuardAfter
  <2>14. QED
    BY <2>12, <2>13 DEF p, q
<1>5. QED
  BY <1>3, <1>4

(* A nested primitive's scratchpad, with its protected pages and canaries, *)
(* never touches another piece of the scratchpad that holds it, nor the    *)
(* pages protected around its host.                                        *)
THEOREM NestedStaysInside == Spec => []NestedInside
BY ScratchpadInvHolds, ScratchpadInvNests, PTL
=============================================================================
