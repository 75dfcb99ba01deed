--------------------------- MODULE MemoryTracking ---------------------------
(***************************************************************************)
(* Scratchpad bookkeeping (common/memory_tracking.hpp): a registry_t books *)
(* pieces of memory when a primitive descriptor is created, and later maps *)
(* a key to an address, given only the base address of the scratchpad.     *)
(* The layout is a pure function of the bookings, so a registry is a       *)
(* record [entries, size] and the member functions are operators on it.    *)
(*                                                                         *)
(* The state machine is a primitive descriptor at work: it books in its    *)
(* own registry (outer) through registrars chained with prefixes, which    *)
(* are local objects that live on the stack, and it books the whole        *)
(* registry (inner) of a nested primitive as one piece.                    *)
(*                                                                         *)
(* A build m is "release", or a DNNL_ENABLE_MEM_DEBUG build that looks for *)
(* underflows or for overflows.  In a debug build every piece is           *)
(* surrounded by protected pages (common/memory_debug.cpp) and the pages   *)
(* it lies in are filled with a canary.                                    *)
(***************************************************************************)
EXTENDS Integers, FiniteSets, Sequences

CONSTANTS Builds,            \* some of "release", "underflow", "overflow"
          PageSize,          \* getpagesize()
          ProtectPages,      \* DNNL_MEM_DEBUG_PROTECT_SIZE
          DefaultAlignment,  \* 128
          MaxKey,            \* 2^10
          MaxPrefix,         \* 2^7
          KeyWrap,           \* 2^32: key_t is an uint32_t
          Bases,             \* base addresses of scratchpads
          Sizes,             \* sizes of pieces
          DataAligns,        \* data_align arguments
          PerfAligns,        \* perf_align arguments
          MaxBooked,         \* bound: pieces booked in the outer registry
          MaxInner           \* bound: pieces booked in the inner registry

Debug(m) == m # "release"
ProtectSize(m) == IF Debug(m) THEN ProtectPages * PageSize ELSE 0

ASSUME BuildAssumption == Builds \subseteq {"release", "underflow", "overflow"}
ASSUME PageAssumption == PageSize \in Nat \ {0} /\ ProtectPages \in Nat
ASSUME AlignAssumption ==
    /\ DefaultAlignment \in Nat \ {0}
    /\ DataAligns \subseteq 1 .. PageSize
    /\ PerfAligns \subseteq Nat \ {0}
(* Alignments are powers of two, as the bit masks of align_ptr require: of *)
(* two of them the smaller divides the larger.                             *)
ASSUME PowersAssumption ==
    \A a, b \in DataAligns \cup PerfAligns \cup {DefaultAlignment, PageSize} :
        a <= b => b % a = 0
ASSUME RangeAssumption == Bases \subseteq Nat /\ Sizes \subseteq Nat
ASSUME KeyAssumption ==
    /\ MaxKey \in Nat \ {0} /\ MaxPrefix \in Nat \ {0} /\ KeyWrap \in Nat
    /\ MaxKey * MaxPrefix * MaxPrefix * MaxPrefix <= KeyWrap

VARIABLES build,       \* how the library was configured
          outer,       \* scratchpad_registry_ of the descriptor
          inner,       \* the registry of the nested primitive's descriptor
          nested,      \* the key under which inner is booked in outer, or 0
          registrars,  \* stack of registrar_t: the prefix given, and prefix_
          named        \* history: what has been booked, by chain and key

vars == <<build, outer, inner, nested, registrars, named>>

-----------------------------------------------------------------------------
MakeKey(prefix, key) == (prefix + key) % KeyWrap

(* Mutant: the parent's prefix is not shifted, so that the order of the    *)
(* prefixes is lost.                                                       *)
MakePrefixUnshifted(parent, prefix) == (parent + MaxKey * prefix) % KeyWrap

MakePrefix(parent, prefix) == (MaxPrefix * parent + MaxKey * prefix) % KeyWrap

Larger(a, b) == IF a < b THEN b ELSE a

(* utils::align_ptr, for an alignment that is a power of two. *)
AlignPtr(x, a) == ((x + a - 1) \div a) * a
RndUp(x, a) == ((x + a - 1) \div a) * a

GetAlignment(m, a) == Larger(a, IF Debug(m) THEN PageSize ELSE DefaultAlignment)
BufferProtectSize(m) == IF Debug(m) THEN ProtectSize(m) + PageSize ELSE 0

Entry == [offset : Nat, size : Nat \ {0}, capacity : Nat, alignment : Nat \ {0}]
EmptyRegistry == [entries |-> << >>, size |-> 0]

(* Mutant: the slack for the alignment is forgotten. *)
CapacityTight(m, size, alignment) == size + BufferProtectSize(m)

Capacity(m, size, alignment) == size + GetAlignment(m, alignment) + BufferProtectSize(m)

(* Mutant: no slack in front of the first piece of a debug build. *)
StartAtZero(m, r, alignment) == r.size

(* Where the next piece starts. *)
Start(m, r, alignment) ==
    IF Debug(m) /\ r.size = 0 THEN GetAlignment(m, alignment) + BufferProtectSize(m)
    ELSE r.size

(* Mutant: the next piece starts where the data of this one may end. *)
NextOffsetTight(e) == e.offset + e.size

NextOffset(e) == e.offset + e.capacity

(* registry_t::book *)
Book(m, r, key, size, dataAlign, perfAlign) ==
    LET alignment == IF Debug(m) THEN dataAlign ELSE Larger(dataAlign, perfAlign)
        entry == [offset    |-> Start(m, r, alignment),
                  size      |-> size,
                  capacity  |-> Capacity(m, size, alignment),
                  alignment |-> alignment]
    IN IF size = 0 THEN r
       ELSE [entries |-> [k \in DOMAIN r.entries \cup {key} |->
                            IF k = key THEN entry ELSE r.entries[k]],
             size    |-> NextOffset(entry)]

(* Mutant: the size is not rounded up to the alignment. *)
ShiftUnrounded(e, aligned, ptr) ==
    LET shifted == aligned + PageSize - (e.size % PageSize)
    IN IF shifted - PageSize > ptr THEN shifted - PageSize ELSE shifted

(* In an overflow build the end of a piece is moved to the end of a page. *)
ToPageEnd(e, aligned, ptr) ==
    LET shifted == aligned + PageSize - (RndUp(e.size, e.alignment) % PageSize)
    IN IF shifted - PageSize > ptr THEN shifted - PageSize ELSE shifted

(* registry_t::get *)
Get(m, e, base) ==
    LET ptr == base + e.offset
        aligned == AlignPtr(ptr, GetAlignment(m, e.alignment))
    IN IF m = "overflow" /\ e.size % PageSize # 0 THEN ToPageEnd(e, aligned, ptr)
       ELSE aligned

(* registry_t::get_memory_storage: the base of a nested scratchpad. *)
SubStorage(e, base) == base + AlignPtr(e.offset, e.alignment)

PageStart(x) == (x \div PageSize) * PageSize
PageEnd(x) == ((x + PageSize - 1) \div PageSize) * PageSize

-----------------------------------------------------------------------------
(* Ranges of addresses, [lo, hi). *)

Data(m, e, base) == [lo |-> Get(m, e, base), hi |-> Get(m, e, base) + e.size]

(* protect_buffer for the data of e at address p: the pages before and     *)
(* after, and the canary between.                                          *)
GuardBefore(m, e, p) == [lo |-> PageStart(p) - ProtectSize(m), hi |-> PageStart(p)]
GuardAfter(m, e, p) ==
    [lo |-> PageEnd(p + e.size), hi |-> PageEnd(p + e.size) + ProtectSize(m)]
Canary(e, p) == [lo |-> PageStart(p), hi |-> PageEnd(p + e.size)]

(* protect_scratchpad_buffer does so for every piece of a debug build. *)
Protection(m, e, base) ==
    IF ~Debug(m) THEN {}
    ELSE LET p == Get(m, e, base)
         IN {GuardBefore(m, e, p), GuardAfter(m, e, p), Canary(e, p)}

Apart(r, s) == r.hi <= s.lo \/ s.hi <= r.lo

-----------------------------------------------------------------------------
Init ==
    /\ build \in Builds
    /\ outer = EmptyRegistry
    /\ inner = EmptyRegistry
    /\ nested = 0
    /\ registrars = <<[given |-> 0, prefix |-> 0]>>
    /\ named = {}

Top == registrars[Len(registrars)]

(* The prefixes that lead to the registrar in use. *)
Path == [i \in DOMAIN registrars |-> registrars[i].given]

(* The bound on what is booked in outer; past it, registrars are of no use. *)
MayBook == Cardinality(named) < MaxBooked

(* registrar_t(parent, prefix); at most three levels below the base. *)
Chain(prefix) ==
    /\ MayBook
    /\ Len(registrars) <= 3
    /\ registrars' = Append(registrars,
          [given |-> prefix, prefix |-> MakePrefix(Top.prefix, prefix)])
    /\ UNCHANGED <<build, outer, inner, nested, named>>

(* The end of the registrar's scope. *)
Unchain ==
    /\ MayBook
    /\ Len(registrars) > 1
    /\ registrars' = SubSeq(registrars, 1, Len(registrars) - 1)
    /\ UNCHANGED <<build, outer, inner, nested, named>>

(* registrar_t::book in the descriptor's registry. *)
BookOuter(key, size, dataAlign, perfAlign) ==
    /\ MayBook
    /\ <<Path, key>> \notin named
    /\ outer' = Book(build, outer, MakeKey(Top.prefix, key), size, dataAlign, perfAlign)
    /\ named' = IF size = 0 THEN named ELSE named \cup {<<Path, key>>}
    /\ UNCHANGED <<build, inner, nested, registrars>>

(* A booking of the nested primitive, before its registry is booked. *)
BookInner(key, size, dataAlign, perfAlign) ==
    /\ nested = 0
    /\ Cardinality(DOMAIN inner.entries) < MaxInner
    /\ key \notin DOMAIN inner.entries
    /\ inner' = Book(build, inner, key, size, dataAlign, perfAlign)
    /\ UNCHANGED <<build, outer, nested, registrars, named>>

(* registrar_t::book of a whole registry, with data_align = 1. *)
BookNested(key) ==
    /\ nested = 0
    /\ inner.size > 0
    /\ MayBook
    /\ <<Path, key>> \notin named
    /\ outer' = Book(build, outer, MakeKey(Top.prefix, key), inner.size, 1, DefaultAlignment)
    /\ nested' = MakeKey(Top.prefix, key)
    /\ named' = named \cup {<<Path, key>>}
    /\ UNCHANGED <<build, inner, registrars>>

Keys == 1 .. MaxKey - 1

Next ==
    \/ \E prefix \in 1 .. MaxPrefix - 1 : Chain(prefix)
    \/ Unchain
    \/ \E key \in Keys, size \in Sizes, d \in DataAligns, a \in PerfAligns :
          BookOuter(key, size, d, a) \/ BookInner(key, size, d, a)
    \/ \E key \in Keys : BookNested(key)

Spec == Init /\ [][Next]_vars

-----------------------------------------------------------------------------
(* The ledger: pieces are booked one after another, without overlap, and   *)
(* each has room for its alignment and its protected pages.                *)
Ledger(m, r) ==
    /\ r.size \in Nat
    /\ Debug(m) => r.size = 0 \/ PageSize + BufferProtectSize(m) <= r.size
    /\ \A k \in DOMAIN r.entries :
          LET e == r.entries[k]
          IN /\ e \in Entry
             /\ e.capacity = Capacity(m, e.size, e.alignment)
             /\ e.offset + e.capacity <= r.size
             /\ Debug(m) => /\ e.alignment <= PageSize
                         /\ PageSize + BufferProtectSize(m) <= e.offset
    /\ \A k, l \in DOMAIN r.entries : k # l =>
          \/ r.entries[k].offset + r.entries[k].capacity <= r.entries[l].offset
          \/ r.entries[l].offset + r.entries[l].capacity <= r.entries[k].offset

LedgersKept == Ledger(build, outer) /\ Ledger(build, inner)

(* get() gives different pieces disjoint memory inside the scratchpad, for *)
(* every base address, although the base may have any alignment and an     *)
(* overflow build shifts pieces towards the ends of their pages.           *)
SlicesDisjoint ==
    \A base \in Bases : \A k \in DOMAIN outer.entries :
        LET d == Data(build, outer.entries[k], base)
        IN /\ base <= d.lo /\ d.hi <= base + outer.size
           /\ \A l \in DOMAIN outer.entries \ {k} :
                 Apart(d, Data(build, outer.entries[l], base))

(* Every piece has the alignment that was asked for. *)
SlicesAligned ==
    \A base \in Bases : \A k \in DOMAIN outer.entries :
        Get(build, outer.entries[k], base) % outer.entries[k].alignment = 0

(* The protected pages and the canary of a piece stay inside the           *)
(* scratchpad and touch no other piece.                                    *)
GuardsClear ==
    Debug(build) => \A base \in Bases : \A k \in DOMAIN outer.entries :
        \A r \in Protection(build, outer.entries[k], base) :
            /\ base <= r.lo /\ r.hi <= base + outer.size
            /\ \A l \in DOMAIN outer.entries \ {k} :
                  Apart(r, Data(build, outer.entries[l], base))

(* A nested scratchpad lies in the piece booked for it: its own pieces,    *)
(* protected pages and canaries touch no other piece of the outer          *)
(* scratchpad, and no canary is written to the pages protected around the  *)
(* piece that holds it.                                                    *)
NestedInside ==
    nested # 0 => \A base \in Bases : \A k \in DOMAIN inner.entries :
        LET host == outer.entries[nested]
            i == inner.entries[k]
            sub == SubStorage(host, base)
        IN /\ \A l \in DOMAIN outer.entries \ {nested} :
                 \A r \in {Data(build, i, sub)} \cup Protection(build, i, sub) :
                     Apart(r, Data(build, outer.entries[l], base))
           /\ Debug(build) =>
                 /\ Apart(Canary(i, Get(build, i, sub)), GuardBefore(build, host, Get(build, host, base)))
                 /\ Apart(Canary(i, Get(build, i, sub)), GuardAfter(build, host, Get(build, host, base)))

(* Chained prefixes keep keys apart: no booking replaces another one. *)
KeysDistinct == Cardinality(DOMAIN outer.entries) = Cardinality(named)
=============================================================================
