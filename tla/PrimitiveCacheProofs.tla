------------------------ MODULE PrimitiveCacheProofs ------------------------
(***************************************************************************)
(* First what the operations of lru_primitive_cache_t do to a sound cache, *)
(* then the threads that share one.  CacheInv is inductive: for any number *)
(* of threads, keys and capacities, and any nesting of primitives, the     *)
(* container stays sound and within its capacity, and no iterator that a   *)
(* reader holds dangles.  With it, the threads together are shown to       *)
(* implement LruReplacement.                                               *)
(***************************************************************************)
EXTENDS CacheHistory, SequenceTheorems, TLAPS

(* Leaves are for Zenon; those that need arithmetic, records or sequences  *)
(* cite SMT.                                                               *)
USE ZenonT(30)

(* A cache between two operations. *)
Sound(c) == c \in Caches /\ Consistent(c) /\ NoDuplicates(c)

(* r is s with x prepended, and with x moved to the front. *)
Prepended(s, r, x) ==
    /\ Len(r) = Len(s) + 1
    /\ r[1] = x
    /\ \A i \in 2 .. Len(s) + 1 : r[i] = s[i - 1]

MovedToFront(s, r, x) ==
    \E i \in 1 .. Len(s) :
        /\ s[i] = x
        /\ \A j \in 1 .. Len(s) :
              r[j] = IF j = 1 THEN s[i] ELSE IF j <= i THEN s[j - 1] ELSE s[j]

(* An empty cache is sound, whatever capacity the constructor is given. *)
LEMMA EmptyCacheSound ==
  ASSUME NEW n \in Int
  PROVE  Sound(EmptyCache(n)) /\ WithinCapacity(EmptyCache(n))
<1>1. n % SizeWrap \in Nat
  BY SizeWrapAssumption, SMTT(30)
<1> DEFINE size == n % SizeWrap
<1> HIDE DEF size
<1>2. size \in Nat /\ EmptyCache(n) = [capacity |-> size, list |-> << >>,
                                       mapper |-> [k \in Keys |-> NoPrim]]
  BY <1>1 DEF size, EmptyCache
<1>3. QED
  BY <1>2, SMTT(30) DEF Sound, Caches, Consistent, NoDuplicates, WithinCapacity

(* A sequence of one element. *)
LEMMA SingletonSeq ==
  ASSUME NEW S, NEW x \in S
  PROVE  <<x>> \in Seq(S) /\ Len(<<x>>) = 1 /\ <<x>>[1] = x
<1>1. <<x>> \in Seq(S)
  BY SMTT(30)
<1>2. Len(<<x>>) = 1 /\ <<x>>[1] = x
  OBVIOUS
<1>3. QED
  BY <1>1, <1>2

(* The parts of Sound, once for all proofs below. *)
LEMMA SoundFacts ==
  ASSUME NEW c, Sound(c)
  PROVE  /\ c \in Caches
         /\ c.capacity \in Nat
         /\ c.list \in Seq(Primitives)
         /\ Len(c.list) \in Nat
         /\ c.mapper \in [Keys -> Primitives \cup {NoPrim}]
         /\ \A i \in 1 .. Len(c.list) :
               /\ c.list[i] \in Primitives
               /\ c.list[i].key \in Keys
               /\ c.mapper[c.list[i].key] = c.list[i]
         /\ \A k \in Keys : c.mapper[k] # NoPrim =>
               \E i \in 1 .. Len(c.list) : c.list[i] = c.mapper[k] /\ c.list[i].key = k
         /\ \A i, j \in 1 .. Len(c.list) : c.list[i].key = c.list[j].key => i = j
<1>1. c \in Caches /\ Consistent(c) /\ NoDuplicates(c)
  BY DEF Sound
<1>2. /\ c.capacity \in Nat
      /\ c.list \in Seq(Primitives)
      /\ c.mapper \in [Keys -> Primitives \cup {NoPrim}]
  BY <1>1 DEF Caches
<1>3. Len(c.list) \in Nat
  BY <1>2, LenProperties
<1>4. \A i \in 1 .. Len(c.list) : c.list[i] \in Primitives
  BY <1>2, ElementOfSeq
<1>5. \A q \in Primitives : q.key \in Keys
  BY DEF Primitives
<1>6. QED
  BY <1>1, <1>2, <1>3, <1>4, <1>5 DEF Consistent, NoDuplicates

(* A mapped key is mapped to a listed entry of that key. *)
LEMMA MappedKey ==
  ASSUME NEW c, Sound(c), NEW k \in Keys, c.mapper[k] # NoPrim
  PROVE  /\ c.mapper[k].key = k
         /\ c.mapper[k] \in Primitives
         /\ \E i \in 1 .. Len(c.list) : c.list[i] = c.mapper[k]
<1>1. PICK i \in 1 .. Len(c.list) : c.list[i] = c.mapper[k] /\ c.list[i].key = k
  BY DEF Sound, Consistent
<1>2. c.list[i] \in Primitives
  BY SoundFacts
<1>3. QED
  BY <1>1, <1>2

(* evict(n) keeps a prefix of the list and unmaps exactly the keys of the  *)
(* entries it drops.                                                       *)
LEMMA EvictSound ==
  ASSUME NEW c, Sound(c), NEW n \in 0 .. Len(c.list)
  PROVE  /\ Sound(Evict(c, n))
         /\ Evict(c, n).capacity = c.capacity
         /\ Len(Evict(c, n).list) = Len(c.list) - n
         /\ \A i \in 1 .. Len(c.list) - n : Evict(c, n).list[i] = c.list[i]
         /\ \A k \in Keys : Evict(c, n).mapper[k] \in {c.mapper[k], NoPrim}
<1> DEFINE kept == Len(c.list) - n
           e == Evict(c, n)
<1>1. /\ c.list \in Seq(Primitives) /\ Len(c.list) \in Nat
      /\ c.capacity \in Nat
      /\ c.mapper \in [Keys -> Primitives \cup {NoPrim}]
      /\ kept \in Nat /\ kept <= Len(c.list)
  BY SoundFacts, SMTT(30)
<1>2. /\ e.list \in Seq(Primitives)
      /\ Len(e.list) = kept
      /\ \A i \in 1 .. kept : e.list[i] = c.list[i]
  BY <1>1, SubSeqProperties, SMTT(30) DEF Evict
<1>3. /\ e.capacity = c.capacity
      /\ e.mapper = [k \in Keys |->
            IF \E i \in kept + 1 .. Len(c.list) : c.list[i].key = k
            THEN NoPrim ELSE c.mapper[k]]
      /\ e \in Caches
  BY <1>1, <1>2 DEF Evict, Caches
<1>4. /\ \A i \in 1 .. Len(c.list) :
            c.list[i].key \in Keys /\ c.mapper[c.list[i].key] = c.list[i]
      /\ \A i, j \in 1 .. Len(c.list) : c.list[i].key = c.list[j].key => i = j
  BY SoundFacts
<1> HIDE DEF e
<1>5. NoDuplicates(e)
  <2> SUFFICES ASSUME NEW i \in 1 .. Len(e.list), NEW j \in 1 .. Len(e.list),
                      e.list[i].key = e.list[j].key
               PROVE  i = j
    BY DEF NoDuplicates
  <2>1. i \in 1 .. Len(c.list) /\ j \in 1 .. Len(c.list)
    BY <1>1, <1>2, SMTT(30)
  <2>2. e.list[i] = c.list[i] /\ e.list[j] = c.list[j]
    BY <1>2
  <2>3. QED
    BY <2>1, <2>2, <1>4
<1>6. Consistent(e)
  <2>1. ASSUME NEW i \in 1 .. Len(e.list)
        PROVE  e.mapper[e.list[i].key] = e.list[i]
    <3>1. ~ \E j \in kept + 1 .. Len(c.list) : c.list[j].key = c.list[i].key
      BY <1>1, <1>2, <1>4, SMTT(30)
    <3>2. i \in 1 .. Len(c.list) /\ e.list[i] = c.list[i]
      BY <1>1, <1>2, SMTT(30)
    <3>3. QED
      BY <3>1, <3>2, <1>3, <1>4, SMTT(30)
  <2>2. ASSUME NEW k \in Keys, e.mapper[k] # NoPrim
        PROVE  \E i \in 1 .. Len(e.list) : e.list[i] = e.mapper[k] /\ e.list[i].key = k
    <3>1. /\ ~ \E i \in kept + 1 .. Len(c.list) : c.list[i].key = k
          /\ e.mapper[k] = c.mapper[k]
      BY <2>2, <1>3
    <3>2. PICK i \in 1 .. Len(c.list) : c.list[i] = c.mapper[k] /\ c.list[i].key = k
      BY <2>2, <3>1, SoundFacts
    <3>3. i \in 1 .. kept
      BY <3>1, <3>2, <1>1, SMTT(30)
    <3>4. QED
      BY <3>1, <3>2, <3>3, <1>2, ZenonT(30)
  <2>3. QED
    BY <2>1, <2>2 DEF Consistent
<1>7. \A k \in Keys : e.mapper[k] \in {c.mapper[k], NoPrim}
  BY <1>3
<1>8. QED
  BY <1>2, <1>3, <1>5, <1>6, <1>7 DEF Sound, e

(* The insertion of a primitive whose key is not cached. *)
LEMMA EmplaceFrontSound ==
  ASSUME NEW c, Sound(c), NEW x \in Primitives, c.mapper[x.key] = NoPrim
  PROVE  /\ Sound(EmplaceFront(c, x))
         /\ EmplaceFront(c, x).capacity = c.capacity
         /\ EmplaceFront(c, x).mapper = [c.mapper EXCEPT ![x.key] = x]
         /\ Len(EmplaceFront(c, x).list) = Len(c.list) + 1
         /\ Prepended(c.list, EmplaceFront(c, x).list, x)
<1> DEFINE e == EmplaceFront(c, x)
<1>1. /\ c.list \in Seq(Primitives) /\ Len(c.list) \in Nat
      /\ c.capacity \in Nat
      /\ c.mapper \in [Keys -> Primitives \cup {NoPrim}]
  BY SoundFacts
<1>a. x.key \in Keys
  BY DEF Primitives
<1>b. <<x>> \in Seq(Primitives) /\ Len(<<x>>) = 1 /\ <<x>>[1] = x
  BY SingletonSeq
<1>2. /\ e.capacity = c.capacity
      /\ e.mapper = [c.mapper EXCEPT ![x.key] = x]
      /\ e.list = <<x>> \o c.list
  BY DEF EmplaceFront
<1>3. /\ e.list \in Seq(Primitives)
      /\ Len(e.list) = Len(c.list) + 1
      /\ e.list[1] = x
      /\ \A i \in 2 .. Len(c.list) + 1 : e.list[i] = c.list[i - 1]
  BY <1>1, <1>b, <1>2, ConcatProperties, SMTT(30)
<1>4. e \in Caches
  BY <1>1, <1>2, <1>3, ZenonT(30) DEF EmplaceFront, Caches
<1>5. /\ \A i \in 1 .. Len(c.list) :
            /\ c.list[i] \in Primitives
            /\ c.list[i].key \in Keys
            /\ c.mapper[c.list[i].key] = c.list[i]
      /\ \A i, j \in 1 .. Len(c.list) : c.list[i].key = c.list[j].key => i = j
  BY SoundFacts
<1>6. \A i \in 1 .. Len(c.list) : c.list[i].key # x.key
  BY <1>5, NoPrimAssumption
<1> HIDE DEF e
<1>7. \A i \in 1 .. Len(e.list) : i = 1 \/ (i - 1 \in 1 .. Len(c.list) /\ e.list[i] = c.list[i - 1])
  BY <1>1, <1>3, SMTT(30)
<1>8. NoDuplicates(e)
  <2>1. SUFFICES ASSUME NEW i \in 1 .. Len(e.list), NEW j \in 1 .. Len(e.list),
                        e.list[i].key = e.list[j].key
                 PROVE  i = j
    BY DEF NoDuplicates
  <2>2. CASE i = 1
    BY <2>1, <2>2, <1>3, <1>6, <1>7
  <2>3. CASE j = 1
    BY <2>1, <2>3, <1>3, <1>6, <1>7
  <2>4. CASE i # 1 /\ j # 1
    <3>1. i - 1 = j - 1
      <4>1. /\ i - 1 \in 1 .. Len(c.list) /\ j - 1 \in 1 .. Len(c.list)
            /\ c.list[i - 1].key = c.list[j - 1].key
        BY <2>1, <2>4, <1>7
      <4>2. QED
        BY <4>1, <1>5
    <3>2. QED
      BY <3>1, <1>3, <1>1, SMTT(30)
  <2>5. QED
    BY <2>2, <2>3, <2>4
<1>9. Consistent(e)
  <2>1. ASSUME NEW i \in 1 .. Len(e.list)
        PROVE  e.mapper[e.list[i].key] = e.list[i]
    <3>1. CASE i = 1
      BY <3>1, <1>1, <1>a, <1>2, <1>3
    <3>2. CASE i # 1
      BY <3>2, <1>1, <1>a, <1>2, <1>5, <1>6, <1>7, SMTT(30)
    <3>3. QED
      BY <3>1, <3>2
  <2>2. ASSUME NEW k \in Keys, e.mapper[k] # NoPrim
        PROVE  \E i \in 1 .. Len(e.list) : e.list[i] = e.mapper[k] /\ e.list[i].key = k
    <3>1. CASE k = x.key
      BY <3>1, <1>1, <1>a, <1>2, <1>3, SMTT(30)
    <3>2. CASE k # x.key
      <4>1. e.mapper[k] = c.mapper[k]
        BY <3>2, <1>1, <1>2
      <4>2. PICK i \in 1 .. Len(c.list) : c.list[i] = c.mapper[k] /\ c.list[i].key = k
        BY <2>2, <4>1, SoundFacts, SMTT(30)
      <4>3. i + 1 \in 2 .. Len(c.list) + 1 /\ e.list[i + 1] = c.list[(i + 1) - 1] /\ (i + 1) - 1 = i
        BY <1>1, <1>3, SMTT(30)
      <4>4. QED
        BY <4>1, <4>2, <4>3, <1>1, <1>3, SMTT(30)
    <3>3. QED
      BY <3>1, <3>2
  <2>3. QED
    BY <2>1, <2>2 DEF Consistent
<1>10. Prepended(c.list, e.list, x)
  BY <1>3 DEF Prepended
<1>11. QED
  BY <1>2, <1>3, <1>4, <1>8, <1>9, <1>10 DEF Sound, e

(* add() on an enabled cache that does not hold the key. *)
LEMMA AddSound ==
  ASSUME NEW c, Sound(c), WithinCapacity(c),
         NEW x \in Primitives, c.mapper[x.key] = NoPrim
  PROVE  /\ Sound(Add(c, x))
         /\ WithinCapacity(Add(c, x))
         /\ Add(c, x).capacity = c.capacity
         /\ \A k \in Keys \ {x.key} : Add(c, x).mapper[k] \in {c.mapper[k], NoPrim}
<1>1. c.capacity \in Nat /\ Len(c.list) \in Nat /\ Len(c.list) <= c.capacity
      /\ x.key \in Keys
  BY SoundFacts DEF WithinCapacity, Primitives
<1>2. CASE c.capacity = 0
  BY <1>2 DEF Add
<1>3. CASE c.capacity # 0 /\ Len(c.list) >= c.capacity
  <2> DEFINE e == Evict(c, 1)
  <2>1. 1 \in 0 .. Len(c.list)
    BY <1>1, <1>3, SMTT(30)
  <2>2. /\ Sound(e) /\ e.capacity = c.capacity /\ Len(e.list) = Len(c.list) - 1
        /\ \A k \in Keys : e.mapper[k] \in {c.mapper[k], NoPrim}
    BY <1>1, <2>1, EvictSound
  <2> HIDE DEF e
  <2>3. /\ Sound(EmplaceFront(e, x))
        /\ EmplaceFront(e, x).capacity = e.capacity
        /\ Len(EmplaceFront(e, x).list) = Len(e.list) + 1
        /\ EmplaceFront(e, x).mapper = [e.mapper EXCEPT ![x.key] = x]
    BY <1>1, <2>2, EmplaceFrontSound
  <2>4. Add(c, x) = EmplaceFront(e, x)
    BY <1>3 DEF Add, e
  <2>5. e.mapper \in [Keys -> Primitives \cup {NoPrim}]
    BY <2>2, SoundFacts
  <2>6. QED
    BY <1>1, <2>2, <2>3, <2>4, <2>5, SMTT(30) DEF WithinCapacity
<1>4. CASE c.capacity # 0 /\ ~(Len(c.list) >= c.capacity)
  <2>1. Add(c, x) = EmplaceFront(c, x)
    BY <1>4 DEF Add
  <2>2. /\ Sound(EmplaceFront(c, x))
        /\ EmplaceFront(c, x).capacity = c.capacity
        /\ Len(EmplaceFront(c, x).list) = Len(c.list) + 1
        /\ EmplaceFront(c, x).mapper = [c.mapper EXCEPT ![x.key] = x]
    BY EmplaceFrontSound
  <2>3. c.mapper \in [Keys -> Primitives \cup {NoPrim}]
    BY SoundFacts
  <2>4. QED
    BY <1>1, <1>4, <2>1, <2>2, <2>3, SMTT(30) DEF WithinCapacity
<1>5. QED
  BY <1>2, <1>3, <1>4

(* set_capacity() leaves a sound cache within its new capacity. *)
LEMMA SetCapacitySound ==
  ASSUME NEW c, Sound(c), NEW n \in Nat
  PROVE  Sound(SetCapacity(c, n)) /\ WithinCapacity(SetCapacity(c, n))
<1> DEFINE r == [c EXCEPT !.capacity = n]
<1>1. /\ r \in Caches /\ r.capacity = n /\ r.list = c.list /\ r.mapper = c.mapper
      /\ Len(c.list) \in Nat
  BY SoundFacts, SMTT(30) DEF Caches
<1> HIDE DEF r
<1>2. Sound(r)
  BY <1>1, SMTT(30) DEF Sound, Consistent, NoDuplicates
<1>3. CASE Len(c.list) > n
  <2>1. SetCapacity(c, n) = Evict(r, Len(c.list) - n)
    BY <1>3 DEF SetCapacity, r
  <2>2. Len(c.list) - n \in 0 .. Len(r.list)
    BY <1>1, <1>3, SMTT(30)
  <2> DEFINE d == Len(c.list) - n
  <2> HIDE DEF d
  <2>a. d \in 0 .. Len(r.list) /\ Len(r.list) - d = n
    BY <1>1, <2>2, SMTT(30) DEF d
  <2>b. /\ Sound(Evict(r, d))
        /\ Evict(r, d).capacity = r.capacity
        /\ Len(Evict(r, d).list) = Len(r.list) - d
    BY <1>2, <2>a, EvictSound
  <2>3. /\ Sound(Evict(r, Len(c.list) - n))
        /\ Evict(r, Len(c.list) - n).capacity = n
        /\ Len(Evict(r, Len(c.list) - n).list) = n
    BY <1>1, <2>a, <2>b DEF d
  <2>4. QED
    BY <2>1, <2>3, SMTT(30) DEF WithinCapacity
<1>4. CASE ~(Len(c.list) > n)
  <2>1. SetCapacity(c, n) = r
    BY <1>4 DEF SetCapacity, r
  <2>2. QED
    BY <1>1, <1>2, <1>4, <2>1, SMTT(30) DEF WithinCapacity
<1>5. QED
  BY <1>3, <1>4

(* get() finds what the mapper holds; a disabled cache maps nothing. *)
LEMMA FindIsMapped ==
  ASSUME NEW c, Sound(c), WithinCapacity(c), NEW k \in Keys
  PROVE  Find(c, k) = c.mapper[k]
<1>1. c.capacity \in Nat /\ Len(c.list) \in Nat /\ Len(c.list) <= c.capacity
  BY SoundFacts DEF WithinCapacity
<1>2. CASE c.capacity = 0
  <2>1. 1 .. Len(c.list) = {}
    BY <1>1, <1>2, SMTT(30)
  <2>2. c.mapper[k] = NoPrim
    BY <2>1, SoundFacts
  <2>3. QED
    BY <1>2, <2>2 DEF Find
<1>3. CASE c.capacity # 0
  BY <1>3 DEF Find
<1>4. QED
  BY <1>2, <1>3

(* A splice moves one entry to the front and keeps the others in order. *)
LEMMA SpliceSound ==
  ASSUME NEW c, Sound(c), NEW k \in Keys, c.mapper[k] # NoPrim
  PROVE  /\ Sound(Splice(c, c.mapper[k]))
         /\ Splice(c, c.mapper[k]).capacity = c.capacity
         /\ Splice(c, c.mapper[k]).mapper = c.mapper
         /\ Len(Splice(c, c.mapper[k]).list) = Len(c.list)
         /\ Splice(c, c.mapper[k]).list # << >>
         /\ Splice(c, c.mapper[k]).list[1] = c.mapper[k]
         /\ c.mapper[k].key = k
         /\ MovedToFront(c.list, Splice(c, c.mapper[k]).list, c.mapper[k])
<1> DEFINE node == c.mapper[k]
           s == Splice(c, node)
           i == CHOOSE j \in 1 .. Len(c.list) : c.list[j] = node
           front == SubSeq(c.list, 1, i - 1)
           back == SubSeq(c.list, i + 1, Len(c.list))
<1>1. /\ c \in Caches /\ c.capacity \in Nat /\ c.list \in Seq(Primitives) /\ Len(c.list) \in Nat
      /\ c.mapper \in [Keys -> Primitives \cup {NoPrim}]
      /\ \A j \in 1 .. Len(c.list) :
            /\ c.list[j] \in Primitives
            /\ c.list[j].key \in Keys
            /\ c.mapper[c.list[j].key] = c.list[j]
      /\ \A a, b \in 1 .. Len(c.list) : c.list[a].key = c.list[b].key => a = b
  BY SoundFacts
<1>2. \E j \in 1 .. Len(c.list) : c.list[j] = node /\ c.list[j].key = k
  BY SoundFacts
<1>3. i \in 1 .. Len(c.list) /\ c.list[i] = node /\ node.key = k /\ node \in Primitives
  BY <1>1, <1>2
<1>4. s = [c EXCEPT !.list = <<node>> \o (front \o back)]
  BY DEF Splice
<1> HIDE DEF i, s, node
<1>5. /\ front \in Seq(Primitives) /\ Len(front) = i - 1
      /\ \A j \in 1 .. i - 1 : front[j] = c.list[j]
  BY <1>1, <1>3, SubSeqProperties, SMTT(30)
<1>6. /\ back \in Seq(Primitives) /\ Len(back) = Len(c.list) - i
      /\ \A j \in 1 .. Len(c.list) - i : back[j] = c.list[i + j]
  BY <1>1, <1>3, SubSeqProperties, SMTT(30)
<1> HIDE DEF front, back
<1>7. /\ front \o back \in Seq(Primitives) /\ Len(front \o back) = Len(c.list) - 1
      /\ \A j \in 1 .. Len(c.list) - 1 :
            (front \o back)[j] = IF j <= i - 1 THEN c.list[j] ELSE c.list[j + 1]
  <2>1. /\ front \o back \in Seq(Primitives)
        /\ Len(front \o back) = Len(c.list) - 1
        /\ \A j \in 1 .. Len(front) + Len(back) :
              (front \o back)[j] = IF j <= Len(front) THEN front[j] ELSE back[j - Len(front)]
    <3>1. /\ front \o back \in Seq(Primitives)
          /\ Len(front \o back) = Len(front) + Len(back)
          /\ \A j \in 1 .. Len(front) + Len(back) :
                (front \o back)[j] = IF j <= Len(front) THEN front[j] ELSE back[j - Len(front)]
      BY <1>5, <1>6, ConcatProperties, ZenonT(30)
    <3>2. QED
      BY <3>1, <1>1, <1>3, <1>5, <1>6, SMTT(30)
  <2>2. ASSUME NEW j \in 1 .. Len(c.list) - 1
        PROVE  (front \o back)[j] = IF j <= i - 1 THEN c.list[j] ELSE c.list[j + 1]
    <3>1. (front \o back)[j] = IF j <= i - 1 THEN front[j] ELSE back[j - (i - 1)]
      BY <2>1, <1>1, <1>3, <1>5, <1>6, SMTT(30)
    <3>2. CASE j <= i - 1
      BY <3>1, <3>2, <1>1, <1>3, <1>5, SMTT(30)
    <3>3. CASE ~(j <= i - 1)
      <4>1. j - (i - 1) \in 1 .. Len(c.list) - i /\ i + (j - (i - 1)) = j + 1
        BY <3>3, <1>1, <1>3, SMTT(30)
      <4>2. QED
        BY <3>1, <3>3, <4>1, <1>6
    <3>4. QED
      BY <3>2, <3>3, ZenonT(30)
  <2>3. QED
    BY <2>1, <2>2
<1>8. /\ s.list \in Seq(Primitives) /\ Len(s.list) = Len(c.list)
      /\ s.list[1] = node
      /\ \A j \in 2 .. Len(c.list) : s.list[j] = (front \o back)[j - 1]
  <2>1. s.list = <<node>> \o (front \o back)
    BY <1>1, <1>4 DEF Caches
  <2>2. <<node>> \in Seq(Primitives) /\ Len(<<node>>) = 1 /\ <<node>>[1] = node
    BY <1>3, SingletonSeq
  <2>3. QED
    BY <2>1, <2>2, <1>1, <1>3, <1>7, ConcatProperties, SMTT(30)
<1>9. \A j \in 1 .. Len(c.list) :
         s.list[j] = IF j = 1 THEN c.list[i] ELSE IF j <= i THEN c.list[j - 1] ELSE c.list[j]
  <2> SUFFICES ASSUME NEW j \in 1 .. Len(c.list)
               PROVE  s.list[j] = IF j = 1 THEN c.list[i]
                                  ELSE IF j <= i THEN c.list[j - 1] ELSE c.list[j]
    OBVIOUS
  <2>1. CASE j = 1
    BY <2>1, <1>3, <1>8
  <2>2. CASE j # 1
    <3>1. j \in 2 .. Len(c.list) /\ j - 1 \in 1 .. Len(c.list) - 1 /\ (j - 1) + 1 = j
      BY <2>2, <1>1, SMTT(30)
    <3>2. s.list[j] = IF j - 1 <= i - 1 THEN c.list[j - 1] ELSE c.list[j]
      BY <3>1, <1>7, <1>8, ZenonT(30)
    <3>3. QED
      BY <2>2, <3>1, <3>2, <1>3, SMTT(30)
  <2>3. QED
    BY <2>1, <2>2
<1>10. s.capacity = c.capacity /\ s.mapper = c.mapper /\ s \in Caches
  <2>1. s.capacity = c.capacity /\ s.mapper = c.mapper
    BY <1>1, <1>4 DEF Caches
  <2>2. <<node>> \o (front \o back) \in Seq(Primitives)
    BY <1>1, <1>4, <1>8 DEF Caches
  <2>3. QED
    BY <2>1, <2>2, <1>1, <1>4, ZenonT(30) DEF Caches
<1>11. NoDuplicates(s)
  <2> SUFFICES ASSUME NEW a \in 1 .. Len(s.list), NEW b \in 1 .. Len(s.list),
                      s.list[a].key = s.list[b].key
               PROVE  a = b
    BY DEF NoDuplicates
  <2> DEFINE at(j) == IF j = 1 THEN i ELSE IF j <= i THEN j - 1 ELSE j
  <2>1. /\ at(a) \in 1 .. Len(c.list) /\ at(b) \in 1 .. Len(c.list)
        /\ s.list[a] = c.list[at(a)] /\ s.list[b] = c.list[at(b)]
    BY <1>1, <1>3, <1>8, <1>9, SMTT(30)
  <2>2. at(a) = at(b)
    BY <2>1, <1>1
  <2>3. QED
    BY <2>2, <1>1, <1>3, <1>8, SMTT(30)
<1>12. Consistent(s)
  <2>1. ASSUME NEW a \in 1 .. Len(s.list)
        PROVE  s.mapper[s.list[a].key] = s.list[a]
    <3> DEFINE at == IF a = 1 THEN i ELSE IF a <= i THEN a - 1 ELSE a
    <3>1. a \in 1 .. Len(c.list) /\ at \in 1 .. Len(c.list)
      BY <1>1, <1>3, <1>8, SMTT(30)
    <3>2. s.list[a] = c.list[at]
      BY <3>1, <1>9
    <3> HIDE DEF at
    <3>3. QED
      BY <3>1, <3>2, <1>1, <1>10
  <2>2. ASSUME NEW l \in Keys, s.mapper[l] # NoPrim
        PROVE  \E a \in 1 .. Len(s.list) : s.list[a] = s.mapper[l] /\ s.list[a].key = l
    <3>1. PICK b \in 1 .. Len(c.list) : c.list[b] = c.mapper[l] /\ c.list[b].key = l
      BY <2>2, <1>10, SoundFacts, SMTT(30)
    <3>2. \E a \in 1 .. Len(c.list) : s.list[a] = c.list[b]
      <4>1. CASE b = i
        <5>1. 1 \in 1 .. Len(c.list) /\ s.list[1] = c.list[b]
          BY <4>1, <1>1, <1>3, <1>8, SMTT(30)
        <5>2. QED
          BY <5>1
      <4>2. CASE b < i
        <5>1. b + 1 \in 1 .. Len(c.list) /\ s.list[b + 1] = c.list[(b + 1) - 1] /\ (b + 1) - 1 = b
          BY <4>2, <1>1, <1>3, <1>9, SMTT(30)
        <5>2. QED
          BY <5>1
      <4>3. CASE b > i
        BY <4>3, <1>1, <1>3, <1>9, SMTT(30)
      <4>4. QED
        BY <4>1, <4>2, <4>3, <1>1, <1>3, SMTT(30)
    <3>3. QED
      BY <3>1, <3>2, <1>8, <1>10
  <2>3. QED
    BY <2>1, <2>2 DEF Consistent
<1>13. s.list # << >>
  BY <1>1, <1>3, <1>8, EmptySeq, SMTT(30)
<1>14. MovedToFront(c.list, s.list, node)
  BY <1>3, <1>9 DEF MovedToFront
<1>15. QED
  BY <1>3, <1>8, <1>10, <1>11, <1>12, <1>13, <1>14 DEF Sound, s, node

-----------------------------------------------------------------------------
(* UnnamedOf keeps the keys of the primitives alone; it commutes with      *)
(* every operation of a sound cache.                                       *)

(* Two caches are equal when their parts are. *)
LEMMA SameCache ==
  ASSUME NEW c \in Caches, NEW d \in Caches, c.capacity = d.capacity,
         Len(c.list) = Len(d.list), \A i \in 1 .. Len(c.list) : c.list[i] = d.list[i],
         \A k \in Keys : c.mapper[k] = d.mapper[k]
  PROVE  c = d
<1>1. c.list \in Seq(Primitives) /\ d.list \in Seq(Primitives)
  BY DEF Caches
<1>2. c.list = d.list
  BY <1>1, SeqEqual
<1>3. c.mapper \in [Keys -> Primitives \cup {NoPrim}] /\ d.mapper \in [Keys -> Primitives \cup {NoPrim}]
  BY DEF Caches
<1>4. c.mapper = d.mapper
  BY <1>3, SMTT(30)
<1>5. QED
  BY <1>2, <1>4, SMTT(30) DEF Caches

(* What is left of a primitive is a primitive with the same key. *)
LEMMA UnnamedPrimitive ==
  ASSUME NEW q \in Primitives
  PROVE  /\ Unnamed(q) \in Primitives /\ Unnamed(q).key = q.key
         /\ Unnamed(q) = [key |-> q.key, id |-> 0, whole |-> TRUE]
         /\ Unnamed(q) # NoPrim
<1>1. q # NoPrim
  BY NoPrimAssumption
<1>2. Unnamed(q) = [key |-> q.key, id |-> 0, whole |-> TRUE]
  BY <1>1 DEF Unnamed, Primitives
<1>3. Unnamed(q) \in Primitives
  BY <1>2, SMTT(30) DEF Primitives
<1>4. Unnamed(q).key = q.key
  BY <1>2, SMTT(30)
<1>5. QED
  BY <1>2, <1>3, <1>4, NoPrimAssumption

(* Unnaming keeps a cache sound, and entry by entry what it was. *)
LEMMA UnnamedSound ==
  ASSUME NEW c, Sound(c)
  PROVE  LET u == UnnamedOf(c)
         IN /\ Sound(u)
            /\ u.capacity = c.capacity
            /\ Len(u.list) = Len(c.list)
            /\ \A i \in 1 .. Len(c.list) : u.list[i] = Unnamed(c.list[i])
                                           /\ u.list[i].key = c.list[i].key
            /\ \A k \in Keys : u.mapper[k] = Unnamed(c.mapper[k])
            /\ \A k \in Keys : u.mapper[k] = NoPrim <=> c.mapper[k] = NoPrim
<1> DEFINE u == UnnamedOf(c)
<1>1. /\ c \in Caches /\ c.capacity \in Nat /\ c.list \in Seq(Primitives) /\ Len(c.list) \in Nat
      /\ c.mapper \in [Keys -> Primitives \cup {NoPrim}]
      /\ \A j \in 1 .. Len(c.list) :
            /\ c.list[j] \in Primitives
            /\ c.list[j].key \in Keys
            /\ c.mapper[c.list[j].key] = c.list[j]
      /\ \A a, b \in 1 .. Len(c.list) : c.list[a].key = c.list[b].key => a = b
  BY SoundFacts
<1>2. /\ u.capacity = c.capacity
      /\ u.list = [i \in 1 .. Len(c.list) |-> Unnamed(c.list[i])]
      /\ u.mapper = [k \in Keys |-> Unnamed(c.mapper[k])]
      /\ u = [capacity |-> u.capacity, list |-> u.list, mapper |-> u.mapper]
  BY DEF UnnamedOf
<1> HIDE DEF u
<1>3. \A i \in 1 .. Len(c.list) : u.list[i] = Unnamed(c.list[i])
                                  /\ Unnamed(c.list[i]) \in Primitives
                                  /\ u.list[i].key = c.list[i].key
  BY <1>1, <1>2, UnnamedPrimitive, SMTT(30)
<1>4. u.list \in Seq(Primitives) /\ Len(u.list) = Len(c.list)
  <2>1. u.list \in [1 .. Len(c.list) -> Primitives]
    BY <1>2, <1>3
  <2>2. QED
    BY <1>1, <2>1, SeqDef, LenProperties, SMTT(30)
<1>5. \A k \in Keys : /\ u.mapper[k] = Unnamed(c.mapper[k])
                      /\ u.mapper[k] \in Primitives \cup {NoPrim}
                      /\ u.mapper[k] = NoPrim <=> c.mapper[k] = NoPrim
  <2> SUFFICES ASSUME NEW k \in Keys
               PROVE  /\ u.mapper[k] = Unnamed(c.mapper[k])
                      /\ u.mapper[k] \in Primitives \cup {NoPrim}
                      /\ u.mapper[k] = NoPrim <=> c.mapper[k] = NoPrim
    OBVIOUS
  <2>1. u.mapper[k] = Unnamed(c.mapper[k])
    BY <1>2
  <2>2. CASE c.mapper[k] = NoPrim
    BY <2>1, <2>2 DEF Unnamed
  <2>3. CASE c.mapper[k] # NoPrim
    <3>1. c.mapper[k] \in Primitives
      BY <1>1, <2>3
    <3>2. QED
      BY <2>1, <2>3, <3>1, UnnamedPrimitive
  <2>4. QED
    BY <2>2, <2>3
<1>6. u \in Caches
  <2>1. u.mapper \in [Keys -> Primitives \cup {NoPrim}]
    BY <1>2, <1>5
  <2>2. QED
    BY <1>1, <1>2, <1>4, <2>1 DEF Caches
<1>7. Consistent(u)
  <2>1. ASSUME NEW i \in 1 .. Len(u.list) PROVE u.mapper[u.list[i].key] = u.list[i]
    BY <1>1, <1>3, <1>4, <1>5, SMTT(30)
  <2>2. ASSUME NEW k \in Keys, u.mapper[k] # NoPrim
        PROVE  \E i \in 1 .. Len(u.list) : u.list[i] = u.mapper[k] /\ u.list[i].key = k
    <3>1. PICK i \in 1 .. Len(c.list) : c.list[i] = c.mapper[k] /\ c.list[i].key = k
      BY <1>5, <2>2, SoundFacts, SMTT(30)
    <3>2. QED
      BY <1>3, <1>4, <1>5, <3>1
  <2>3. QED
    BY <2>1, <2>2 DEF Consistent
<1>8. NoDuplicates(u)
  BY <1>1, <1>3, <1>4 DEF NoDuplicates
<1>9. QED
  BY <1>2, <1>3, <1>4, <1>5, <1>6, <1>7, <1>8 DEF Sound, u

(* A lookup finds the same entry. *)
LEMMA UnnamedFind ==
  ASSUME NEW c, Sound(c), NEW k \in Keys
  PROVE  /\ Find(UnnamedOf(c), k) = NoPrim <=> Find(c, k) = NoPrim
         /\ Find(c, k) # NoPrim => /\ Find(c, k) = c.mapper[k]
                                   /\ Find(UnnamedOf(c), k) = UnnamedOf(c).mapper[k]
BY UnnamedSound DEF Find

(* splice *)
LEMMA UnnamedSplice ==
  ASSUME NEW c, Sound(c), NEW k \in Keys, c.mapper[k] # NoPrim
  PROVE  UnnamedOf(Splice(c, c.mapper[k])) = Splice(UnnamedOf(c), UnnamedOf(c).mapper[k])
<1> DEFINE u == UnnamedOf(c)
           s == Splice(c, c.mapper[k])
           v == Splice(u, u.mapper[k])
           w == UnnamedOf(s)
<1>1. /\ Sound(u) /\ u.capacity = c.capacity /\ Len(u.list) = Len(c.list)
      /\ \A i \in 1 .. Len(c.list) : u.list[i] = Unnamed(c.list[i])
                                     /\ u.list[i].key = c.list[i].key
      /\ \A l \in Keys : u.mapper[l] = Unnamed(c.mapper[l])
      /\ u.mapper[k] # NoPrim
  BY UnnamedSound
<1>2. /\ Sound(s) /\ s.capacity = c.capacity /\ s.mapper = c.mapper
      /\ Len(s.list) = Len(c.list) /\ MovedToFront(c.list, s.list, c.mapper[k])
      /\ c.mapper[k].key = k
  BY SpliceSound
<1> HIDE DEF u
<1>3. /\ Sound(v) /\ v.capacity = u.capacity /\ v.mapper = u.mapper
      /\ Len(v.list) = Len(u.list) /\ MovedToFront(u.list, v.list, u.mapper[k])
      /\ u.mapper[k].key = k
  BY <1>1, SpliceSound
<1> HIDE DEF s, v
<1>4. /\ Sound(w) /\ w.capacity = s.capacity /\ Len(w.list) = Len(s.list)
      /\ \A i \in 1 .. Len(s.list) : w.list[i] = Unnamed(s.list[i])
      /\ \A l \in Keys : w.mapper[l] = Unnamed(s.mapper[l])
  BY <1>2, UnnamedSound
<1> HIDE DEF w
<1>5. PICK i \in 1 .. Len(c.list) :
         /\ c.list[i] = c.mapper[k]
         /\ \A j \in 1 .. Len(c.list) :
              s.list[j] = IF j = 1 THEN c.list[i] ELSE IF j <= i THEN c.list[j - 1] ELSE c.list[j]
  BY <1>2 DEF MovedToFront
<1>6. PICK h \in 1 .. Len(u.list) :
         /\ u.list[h] = u.mapper[k]
         /\ \A j \in 1 .. Len(u.list) :
              v.list[j] = IF j = 1 THEN u.list[h] ELSE IF j <= h THEN u.list[j - 1] ELSE u.list[j]
  BY <1>3 DEF MovedToFront
<1>7. h = i
  <2>1. c.list[h].key = c.list[i].key
    BY <1>1, <1>2, <1>3, <1>5, <1>6
  <2>2. QED
    BY <1>1, <2>1, SoundFacts
<1>8. Len(c.list) \in Nat
  BY SoundFacts
<1>9. ASSUME NEW j \in 1 .. Len(w.list) PROVE w.list[j] = v.list[j]
  <2>1. j \in 1 .. Len(c.list) /\ w.list[j] = Unnamed(s.list[j])
    BY <1>2, <1>4
  <2>2. CASE j = 1
    BY <1>1, <1>5, <1>6, <1>7, <2>1, <2>2
  <2>3. CASE j # 1 /\ j <= i
    <3>1. j - 1 \in 1 .. Len(c.list)
      BY <1>8, <2>1, <2>3, SMTT(30)
    <3>2. s.list[j] = c.list[j - 1] /\ v.list[j] = u.list[j - 1]
      BY <1>1, <1>5, <1>6, <1>7, <2>1, <2>3
    <3>3. QED
      BY <1>1, <2>1, <3>1, <3>2
  <2>4. CASE j # 1 /\ ~(j <= i)
    <3>1. s.list[j] = c.list[j] /\ v.list[j] = u.list[j]
      BY <1>1, <1>5, <1>6, <1>7, <2>1, <2>4
    <3>2. QED
      BY <1>1, <2>1, <3>1
  <2>5. QED
    BY <2>2, <2>3, <2>4
<1>10. w \in Caches /\ v \in Caches
  BY <1>3, <1>4 DEF Sound
<1>11. w = v
  BY <1>1, <1>2, <1>3, <1>4, <1>9, <1>10, SameCache, SMTT(30)
<1>12. QED
  BY <1>11 DEF w, v, s, u

(* evict *)
LEMMA UnnamedEvict ==
  ASSUME NEW c, Sound(c), NEW n \in 0 .. Len(c.list)
  PROVE  UnnamedOf(Evict(c, n)) = Evict(UnnamedOf(c), n)
<1> DEFINE u == UnnamedOf(c)
           e == Evict(c, n)
           v == Evict(u, n)
           w == UnnamedOf(e)
<1>1. /\ Sound(u) /\ u.capacity = c.capacity /\ Len(u.list) = Len(c.list)
      /\ \A i \in 1 .. Len(c.list) : u.list[i] = Unnamed(c.list[i])
                                     /\ u.list[i].key = c.list[i].key
      /\ \A k \in Keys : u.mapper[k] = Unnamed(c.mapper[k])
  BY UnnamedSound
<1>2. /\ Sound(e) /\ e.capacity = c.capacity /\ Len(e.list) = Len(c.list) - n
      /\ \A i \in 1 .. Len(c.list) - n : e.list[i] = c.list[i]
  BY EvictSound
<1>3. e.mapper = [k \in Keys |->
                    IF \E i \in Len(c.list) - n + 1 .. Len(c.list) : c.list[i].key = k
                    THEN NoPrim ELSE c.mapper[k]]
  BY DEF Evict
<1> HIDE DEF u, e
<1>4. /\ Sound(v) /\ v.capacity = u.capacity /\ Len(v.list) = Len(u.list) - n
      /\ \A i \in 1 .. Len(u.list) - n : v.list[i] = u.list[i]
  BY <1>1, EvictSound, SMTT(30)
<1>5. v.mapper = [k \in Keys |->
                    IF \E i \in Len(u.list) - n + 1 .. Len(u.list) : u.list[i].key = k
                    THEN NoPrim ELSE u.mapper[k]]
  BY DEF Evict
<1>6. /\ Sound(w) /\ w.capacity = e.capacity /\ Len(w.list) = Len(e.list)
      /\ \A i \in 1 .. Len(e.list) : w.list[i] = Unnamed(e.list[i])
      /\ \A k \in Keys : w.mapper[k] = Unnamed(e.mapper[k])
  BY <1>2, UnnamedSound
<1> HIDE DEF v, w
<1>7. Len(c.list) \in Nat
  BY SoundFacts
<1>8. ASSUME NEW i \in 1 .. Len(w.list) PROVE w.list[i] = v.list[i]
  BY <1>1, <1>2, <1>4, <1>6, <1>7, SMTT(30)
<1>9. ASSUME NEW k \in Keys PROVE w.mapper[k] = v.mapper[k]
  <2> DEFINE Gone == \E i \in Len(c.list) - n + 1 .. Len(c.list) : c.list[i].key = k
  <2>1. (\E i \in Len(u.list) - n + 1 .. Len(u.list) : u.list[i].key = k) <=> Gone
    BY <1>1, <1>7, SMTT(30)
  <2>2. v.mapper[k] = IF Gone THEN NoPrim ELSE u.mapper[k]
    BY <1>5, <2>1
  <2>3. e.mapper[k] = IF Gone THEN NoPrim ELSE c.mapper[k]
    BY <1>3
  <2> HIDE DEF Gone
  <2>4. Unnamed(NoPrim) = NoPrim
    BY DEF Unnamed
  <2>5. QED
    BY <1>1, <1>6, <2>2, <2>3, <2>4
<1>10. w \in Caches /\ v \in Caches
  BY <1>4, <1>6 DEF Sound
<1>11. w = v
  BY <1>1, <1>2, <1>4, <1>6, <1>8, <1>9, <1>10, SameCache, SMTT(30)
<1>12. QED
  BY <1>11 DEF w, v, e, u

(* emplace_front *)
LEMMA UnnamedEmplaceFront ==
  ASSUME NEW c, Sound(c), NEW q \in Primitives, c.mapper[q.key] = NoPrim
  PROVE  UnnamedOf(EmplaceFront(c, q)) = EmplaceFront(UnnamedOf(c), Unnamed(q))
<1> DEFINE u == UnnamedOf(c)
           e == EmplaceFront(c, q)
           r == Unnamed(q)
           v == EmplaceFront(u, r)
           w == UnnamedOf(e)
<1>0. q.key \in Keys
  BY DEF Primitives
<1>1. /\ Sound(u) /\ u.capacity = c.capacity /\ Len(u.list) = Len(c.list)
      /\ \A i \in 1 .. Len(c.list) : u.list[i] = Unnamed(c.list[i])
      /\ \A k \in Keys : u.mapper[k] = Unnamed(c.mapper[k])
      /\ u.mapper[q.key] = NoPrim
  BY <1>0, UnnamedSound
<1>2. /\ Sound(e) /\ e.capacity = c.capacity /\ Len(e.list) = Len(c.list) + 1
      /\ e.mapper = [c.mapper EXCEPT ![q.key] = q] /\ Prepended(c.list, e.list, q)
  BY EmplaceFrontSound
<1>3. r \in Primitives /\ r.key = q.key
  BY UnnamedPrimitive
<1> HIDE DEF u, e, r
<1>4. /\ Sound(v) /\ v.capacity = u.capacity /\ Len(v.list) = Len(u.list) + 1
      /\ v.mapper = [u.mapper EXCEPT ![q.key] = r] /\ Prepended(u.list, v.list, r)
  <2>1. u.mapper[r.key] = NoPrim
    BY <1>1, <1>3
  <2>2. /\ Sound(v) /\ v.capacity = u.capacity /\ Len(v.list) = Len(u.list) + 1
        /\ v.mapper = [u.mapper EXCEPT ![r.key] = r] /\ Prepended(u.list, v.list, r)
    BY <1>1, <1>3, <2>1, EmplaceFrontSound
  <2>3. QED
    BY <1>3, <2>2
<1>5. /\ Sound(w) /\ w.capacity = e.capacity /\ Len(w.list) = Len(e.list)
      /\ \A i \in 1 .. Len(e.list) : w.list[i] = Unnamed(e.list[i])
      /\ \A k \in Keys : w.mapper[k] = Unnamed(e.mapper[k])
  BY <1>2, UnnamedSound
<1> HIDE DEF v, w
<1>6. Len(c.list) \in Nat /\ c.mapper \in [Keys -> Primitives \cup {NoPrim}]
      /\ u.mapper \in [Keys -> Primitives \cup {NoPrim}]
  BY <1>1, SoundFacts
<1>7. ASSUME NEW i \in 1 .. Len(w.list) PROVE w.list[i] = v.list[i]
  <2>1. i \in 1 .. Len(c.list) + 1 /\ w.list[i] = Unnamed(e.list[i])
    BY <1>2, <1>5
  <2>2. CASE i = 1
    BY <1>2, <1>4, <2>1, <2>2 DEF Prepended, r
  <2>3. CASE i # 1
    <3>1. i \in 2 .. Len(c.list) + 1 /\ i - 1 \in 1 .. Len(c.list)
      BY <1>6, <2>1, <2>3, SMTT(30)
    <3>2. e.list[i] = c.list[i - 1] /\ v.list[i] = u.list[i - 1]
      BY <1>1, <1>2, <1>4, <3>1 DEF Prepended
    <3>3. QED
      BY <1>1, <2>1, <3>1, <3>2
  <2>4. QED
    BY <2>2, <2>3
<1>8. ASSUME NEW k \in Keys PROVE w.mapper[k] = v.mapper[k]
  <2>1. CASE k = q.key
    BY <1>2, <1>4, <1>5, <1>6, <2>1, SMTT(30) DEF r
  <2>2. CASE k # q.key
    BY <1>1, <1>2, <1>4, <1>5, <1>6, <2>2, SMTT(30)
  <2>3. QED
    BY <2>1, <2>2
<1>9. /\ w \in Caches /\ v \in Caches
      /\ w.capacity = v.capacity /\ Len(w.list) = Len(v.list)
  BY <1>1, <1>2, <1>4, <1>5 DEF Sound
<1>10. w = v
  BY <1>7, <1>8, <1>9, SameCache
<1>11. QED
  BY <1>10 DEF w, v, e, u, r

(* add *)
LEMMA UnnamedAdd ==
  ASSUME NEW c, Sound(c), WithinCapacity(c), NEW q \in Primitives, c.mapper[q.key] = NoPrim
  PROVE  UnnamedOf(Add(c, q)) = Add(UnnamedOf(c), Unnamed(q))
<1> DEFINE u == UnnamedOf(c)
<1>1. /\ Sound(u) /\ u.capacity = c.capacity /\ Len(u.list) = Len(c.list)
  BY UnnamedSound
<1>2. c.capacity \in Nat /\ Len(c.list) \in Nat /\ Len(c.list) <= c.capacity /\ q.key \in Keys
  BY SoundFacts DEF WithinCapacity, Primitives
<1>3. CASE c.capacity = 0
  BY <1>1, <1>3 DEF Add
<1>4. CASE c.capacity # 0 /\ Len(c.list) >= c.capacity
  <2> DEFINE e == Evict(c, 1)
  <2>1. 1 \in 0 .. Len(c.list)
    BY <1>2, <1>4, SMTT(30)
  <2>2. Sound(e) /\ e.mapper[q.key] = NoPrim
    BY <1>2, <2>1, EvictSound
  <2>3. UnnamedOf(e) = Evict(u, 1)
    BY <2>1, UnnamedEvict
  <2>4. Add(c, q) = EmplaceFront(e, q) /\ Add(u, Unnamed(q)) = EmplaceFront(Evict(u, 1), Unnamed(q))
    BY <1>1, <1>4 DEF Add
  <2> HIDE DEF e, u
  <2>5. UnnamedOf(EmplaceFront(e, q)) = EmplaceFront(UnnamedOf(e), Unnamed(q))
    BY <2>2, UnnamedEmplaceFront
  <2>6. QED
    BY <2>3, <2>4, <2>5 DEF u
<1>5. CASE c.capacity # 0 /\ ~(Len(c.list) >= c.capacity)
  <2>1. Add(c, q) = EmplaceFront(c, q) /\ Add(u, Unnamed(q)) = EmplaceFront(u, Unnamed(q))
    BY <1>1, <1>5 DEF Add
  <2>2. QED
    BY <2>1, UnnamedEmplaceFront
<1>6. QED
  BY <1>3, <1>4, <1>5

(* set_capacity *)
LEMMA UnnamedSetCapacity ==
  ASSUME NEW c, Sound(c), NEW n \in Nat
  PROVE  UnnamedOf(SetCapacity(c, n)) = SetCapacity(UnnamedOf(c), n)
<1> DEFINE u == UnnamedOf(c)
           r == [c EXCEPT !.capacity = n]
           v == [u EXCEPT !.capacity = n]
<1>1. /\ Sound(u) /\ u.capacity = c.capacity /\ Len(u.list) = Len(c.list)
  BY UnnamedSound
<1>2. c \in Caches /\ Len(c.list) \in Nat
  BY SoundFacts
<1>3. r \in Caches /\ r.capacity = n /\ r.list = c.list /\ r.mapper = c.mapper
  BY <1>2 DEF Caches
<1>4. v = [capacity |-> n, list |-> u.list, mapper |-> u.mapper]
  BY <1>1, SMTT(30) DEF Sound, Caches
<1>5. UnnamedOf(r) = v
  BY <1>3, <1>4 DEF UnnamedOf
<1> HIDE DEF r
<1>6. Sound(r)
  BY <1>3, SMTT(30) DEF Sound, Consistent, NoDuplicates
<1>7. CASE Len(c.list) > n
  <2>1. SetCapacity(c, n) = Evict(r, Len(c.list) - n)
        /\ SetCapacity(u, n) = Evict(v, Len(c.list) - n)
    BY <1>1, <1>7 DEF SetCapacity, r
  <2>2. Len(c.list) - n \in 0 .. Len(r.list)
    BY <1>2, <1>3, <1>7, SMTT(30)
  <2>3. UnnamedOf(Evict(r, Len(c.list) - n)) = Evict(UnnamedOf(r), Len(c.list) - n)
    BY <1>6, <2>2, UnnamedEvict
  <2>4. QED
    BY <1>5, <2>1, <2>3
<1>8. CASE ~(Len(c.list) > n)
  BY <1>1, <1>5, <1>8 DEF SetCapacity, r
<1>9. QED
  BY <1>7, <1>8

-----------------------------------------------------------------------------
(* The list is in the order of last use, for times u. *)
InOrder(c, u) ==
    \A i, j \in 1 .. Len(c.list) : i < j => u[c.list[j].key] < u[c.list[i].key]

(* What the replacement policy keeps after n lookups. *)
Policy(c, n, u) ==
    /\ Sound(c) /\ WithinCapacity(c) /\ n \in Nat /\ u \in [Keys -> Nat]
    /\ InOrder(c, u) /\ \A k \in Keys : u[k] <= n

(* The list after add(): the new primitive, then a prefix of the old list. *)
LEMMA AddShape ==
  ASSUME NEW c, Sound(c), WithinCapacity(c), c.capacity # 0,
         NEW x \in Primitives, c.mapper[x.key] = NoPrim
  PROVE  /\ Len(Add(c, x).list) >= 1
         /\ Len(Add(c, x).list) <= Len(c.list) + 1
         /\ Add(c, x).list[1] = x
         /\ \A i \in 2 .. Len(Add(c, x).list) : Add(c, x).list[i] = c.list[i - 1]
<1>1. c.capacity \in Nat /\ Len(c.list) \in Nat /\ Len(c.list) <= c.capacity /\ x.key \in Keys
  BY SoundFacts DEF WithinCapacity, Primitives
<1>2. CASE Len(c.list) >= c.capacity
  <2> DEFINE e == Evict(c, 1)
  <2>1. 1 \in 0 .. Len(c.list)
    BY <1>1, <1>2, SMTT(30)
  <2>2. /\ Sound(e) /\ Len(e.list) = Len(c.list) - 1
        /\ \A i \in 1 .. Len(c.list) - 1 : e.list[i] = c.list[i]
        /\ \A k \in Keys : e.mapper[k] \in {c.mapper[k], NoPrim}
    BY <2>1, EvictSound
  <2> HIDE DEF e
  <2>a. e.mapper[x.key] = NoPrim
    BY <1>1, <2>2
  <2>b. Prepended(e.list, EmplaceFront(e, x).list, x)
    BY <2>2, <2>a, EmplaceFrontSound, ZenonT(30)
  <2>3. /\ Len(EmplaceFront(e, x).list) = Len(e.list) + 1
        /\ EmplaceFront(e, x).list[1] = x
        /\ \A i \in 2 .. Len(e.list) + 1 : EmplaceFront(e, x).list[i] = e.list[i - 1]
    BY <2>b DEF Prepended
  <2>4. Add(c, x) = EmplaceFront(e, x)
    BY <1>2 DEF Add, e
  <2>5. \A i \in 2 .. Len(c.list) : e.list[i - 1] = c.list[i - 1]
    BY <1>1, <2>2, SMTT(30)
  <2>6. Len(e.list) + 1 = Len(c.list)
    BY <1>1, <2>2, SMTT(30)
  <2>7. QED
    BY <1>1, <2>1, <2>3, <2>4, <2>5, <2>6, SMTT(30)
<1>3. CASE ~(Len(c.list) >= c.capacity)
  <2>1. Add(c, x) = EmplaceFront(c, x)
    BY <1>3 DEF Add
  <2>a. Prepended(c.list, EmplaceFront(c, x).list, x)
    BY EmplaceFrontSound, ZenonT(30)
  <2>2. /\ Len(EmplaceFront(c, x).list) = Len(c.list) + 1
        /\ EmplaceFront(c, x).list[1] = x
        /\ \A i \in 2 .. Len(c.list) + 1 : EmplaceFront(c, x).list[i] = c.list[i - 1]
    BY <2>a DEF Prepended
  <2>3. QED
    BY <1>1, <2>1, <2>2, SMTT(30)
<1>4. QED
  BY <1>2, <1>3

(* The list after set_capacity(): a prefix of the old one. *)
LEMMA SetCapacityShape ==
  ASSUME NEW c, Sound(c), NEW n \in Nat
  PROVE  /\ Len(SetCapacity(c, n).list) <= Len(c.list)
         /\ \A i \in 1 .. Len(SetCapacity(c, n).list) : SetCapacity(c, n).list[i] = c.list[i]
<1> DEFINE r == [c EXCEPT !.capacity = n]
           d == Len(c.list) - n
<1>1. /\ r \in Caches /\ r.list = c.list /\ r.mapper = c.mapper
      /\ Len(c.list) \in Nat
  BY SoundFacts, SMTT(30) DEF Caches
<1>2. Sound(r)
  BY <1>1, SMTT(30) DEF Sound, Consistent, NoDuplicates
<1>3. CASE Len(c.list) > n
  <2>1. SetCapacity(c, n) = Evict(r, d)
    BY <1>3 DEF SetCapacity
  <2>2. d \in 0 .. Len(r.list) /\ Len(r.list) - d = n
    BY <1>1, <1>3, SMTT(30)
  <2> HIDE DEF r, d
  <2>3. /\ Len(Evict(r, d).list) = Len(r.list) - d
        /\ \A i \in 1 .. Len(r.list) - d : Evict(r, d).list[i] = r.list[i]
    BY <1>2, <2>2, EvictSound
  <2>4. QED
    BY <1>1, <1>3, <2>1, <2>2, <2>3, SMTT(30)
<1>4. CASE ~(Len(c.list) > n)
  <2>1. SetCapacity(c, n) = r
    BY <1>4 DEF SetCapacity
  <2>2. QED
    BY <1>1, <2>1, SMTT(30)
<1>5. QED
  BY <1>3, <1>4

(* A lookup that hits. *)
LEMMA HitInOrder ==
  ASSUME NEW c, NEW n, NEW u, Policy(c, n, u), NEW k \in Keys, c.mapper[k] # NoPrim,
         NEW d, d = GetCache(c, k), NEW v, v = [u EXCEPT ![k] = n + 1]
  PROVE  /\ Sound(d) /\ WithinCapacity(d) /\ InOrder(d, v)
         /\ d.mapper = c.mapper
<1>1. /\ Sound(c) /\ WithinCapacity(c) /\ Find(c, k) = c.mapper[k]
      /\ n \in Nat /\ u \in [Keys -> Nat] /\ \A l \in Keys : u[l] <= n
  BY FindIsMapped DEF Policy
<1>2. d = Splice(c, c.mapper[k])
  BY <1>1 DEF GetCache
<1>3. /\ Sound(d) /\ d.capacity = c.capacity
      /\ d.mapper = c.mapper
      /\ Len(d.list) = Len(c.list)
      /\ c.mapper[k].key = k
      /\ MovedToFront(c.list, d.list, c.mapper[k])
  BY <1>1, <1>2, SpliceSound, SMTT(30)
<1>4. PICK i \in 1 .. Len(c.list) :
            /\ c.list[i] = c.mapper[k]
            /\ \A j \in 1 .. Len(c.list) :
                 d.list[j] = IF j = 1 THEN c.list[i]
                                  ELSE IF j <= i THEN c.list[j - 1] ELSE c.list[j]
  BY <1>3 DEF MovedToFront
<1>5. /\ Len(c.list) \in Nat
      /\ \A j \in 1 .. Len(c.list) : c.list[j].key \in Keys
      /\ \A a, b \in 1 .. Len(c.list) : c.list[a].key = c.list[b].key => a = b
  BY <1>1, SoundFacts
<1>6. InOrder(d, v)
  <2> SUFFICES ASSUME NEW a \in 1 .. Len(c.list), NEW b \in 1 .. Len(c.list), a < b
               PROVE  v[d.list[b].key] < v[d.list[a].key]
    BY <1>3 DEF InOrder
  <2> DEFINE at(j) == IF j = 1 THEN i ELSE IF j <= i THEN j - 1 ELSE j
  <2>1. /\ at(a) \in 1 .. Len(c.list) /\ at(b) \in 1 .. Len(c.list)
        /\ d.list[a] = c.list[at(a)] /\ d.list[b] = c.list[at(b)]
    <3>1. i \in 1 .. Len(c.list) /\ Len(c.list) \in Nat
      BY <1>5
    <3>2. at(a) \in 1 .. Len(c.list) /\ at(b) \in 1 .. Len(c.list)
      BY <3>1, SMTT(30)
    <3>3. \A j \in 1 .. Len(c.list) : d.list[j] = c.list[at(j)]
      BY <1>4
    <3>4. QED
      BY <3>2, <3>3
  <2>2. at(b) # i /\ (a # 1 => at(a) # i /\ at(a) < at(b))
    BY <1>5, SMTT(30)
  <2>3. v[d.list[b].key] = u[c.list[at(b)].key]
        /\ u[c.list[at(b)].key] <= n
    <3>1. c.list[at(b)].key # k /\ c.list[at(b)].key \in Keys
      BY <1>3, <1>4, <1>5, <2>1, <2>2
    <3>2. QED
      BY <1>1, <2>1, <3>1
  <2>4. CASE a = 1
    <3>1. d.list[a].key = k
      BY <1>3, <1>4, <2>4
    <3>2. v[d.list[a].key] = n + 1
      BY <1>1, <3>1
    <3>3. u[c.list[at(b)].key] \in Nat
      BY <1>1, <1>5, <2>1
    <3>4. QED
      BY <1>1, <2>3, <3>2, <3>3, SMTT(30)
  <2>5. CASE a # 1
    <3>1. c.list[at(a)].key # k /\ c.list[at(a)].key \in Keys
      <4>1. at(a) # i /\ at(a) \in 1 .. Len(c.list)
        BY <2>1, <2>2, <2>5
      <4> HIDE DEF at
      <4>2. QED
        BY <1>3, <1>4, <1>5, <4>1, SMTT(30)
    <3>2. v[d.list[a].key] = u[c.list[at(a)].key]
      BY <1>1, <2>1, <3>1
    <3>3. at(a) < at(b)
      BY <2>2, <2>5
    <3> HIDE DEF at
    <3>4. u[c.list[at(b)].key] < u[c.list[at(a)].key]
      BY <2>1, <3>3 DEF Policy, InOrder
    <3>5. QED
      BY <2>3, <3>2, <3>4
  <2>6. QED
    BY <2>4, <2>5
<1>7. QED
  BY <1>1, <1>3, <1>6 DEF WithinCapacity

(* A lookup that misses. *)
LEMMA MissInOrder ==
  ASSUME NEW c, NEW n, NEW u, Policy(c, n, u), NEW k \in Keys, c.mapper[k] = NoPrim,
         NEW new \in Primitives, new.key = k, NEW d, d = Add(c, new),
         NEW v, v = [u EXCEPT ![k] = n + 1]
  PROVE  Sound(d) /\ WithinCapacity(d) /\ InOrder(d, v)
<1>1. /\ Sound(c) /\ WithinCapacity(c) /\ Find(c, k) = c.mapper[k]
      /\ n \in Nat /\ u \in [Keys -> Nat] /\ \A l \in Keys : u[l] <= n
  BY FindIsMapped DEF Policy
<1>2. Sound(d) /\ WithinCapacity(d) /\ d.capacity = c.capacity
  BY <1>1, AddSound
<1>3. /\ Len(c.list) \in Nat /\ Len(d.list) \in Nat
      /\ \A j \in 1 .. Len(c.list) :
            c.list[j].key \in Keys /\ c.mapper[c.list[j].key] = c.list[j]
            /\ c.list[j] \in Primitives
  BY <1>1, <1>2, SoundFacts
<1>4. \A j \in 1 .. Len(c.list) : c.list[j].key # k
  BY <1>3, NoPrimAssumption
<1>5. CASE c.capacity = 0
  <2>1. Len(d.list) = 0
    BY <1>2, <1>3, <1>5, SMTT(30) DEF WithinCapacity
  <2>2. QED
    BY <1>2, <2>1, SMTT(30) DEF InOrder
<1>6. CASE c.capacity # 0
  <2>1. /\ Len(d.list) <= Len(c.list) + 1
        /\ d.list[1] = new
        /\ \A i \in 2 .. Len(d.list) : d.list[i] = c.list[i - 1]
    BY <1>1, <1>6, AddShape
  <2> SUFFICES ASSUME NEW a \in 1 .. Len(d.list), NEW b \in 1 .. Len(d.list), a < b
               PROVE  v[d.list[b].key] < v[d.list[a].key]
    BY <1>2 DEF InOrder
  <2>2. b - 1 \in 1 .. Len(c.list) /\ d.list[b] = c.list[b - 1]
    BY <1>3, <2>1, SMTT(30)
  <2>3. /\ v[d.list[b].key] = u[c.list[b - 1].key]
        /\ u[c.list[b - 1].key] <= n /\ u[c.list[b - 1].key] \in Nat
    BY <1>1, <1>3, <1>4, <2>2
  <2>4. CASE a = 1
    <3>1. v[d.list[a].key] = n + 1
      BY <1>1, <2>1, <2>4
    <3>2. QED
      BY <1>1, <2>3, <3>1, SMTT(30)
  <2>5. CASE a # 1
    <3>1. a - 1 \in 1 .. Len(c.list) /\ d.list[a] = c.list[a - 1] /\ a - 1 < b - 1
      BY <1>3, <2>1, <2>5, SMTT(30)
    <3>2. v[d.list[a].key] = u[c.list[a - 1].key]
      BY <1>1, <1>3, <1>4, <3>1
    <3>3. u[c.list[b - 1].key] < u[c.list[a - 1].key]
      BY <2>2, <3>1 DEF Policy, InOrder
    <3>4. QED
      BY <2>3, <3>2, <3>3
  <2>6. QED
    BY <2>4, <2>5
<1>7. QED
  BY <1>5, <1>6

(* A change of capacity. *)
LEMMA ResizeInOrder ==
  ASSUME NEW c, NEW n, NEW u, Policy(c, n, u), NEW m \in Nat, NEW d, d = SetCapacity(c, m)
  PROVE  /\ Sound(d) /\ WithinCapacity(d) /\ InOrder(d, u)
         /\ Len(d.list) <= Len(c.list)
         /\ \A i \in 1 .. Len(d.list) : d.list[i] = c.list[i]
<1>1. Sound(c)
  BY DEF Policy
<1>2. Sound(d) /\ WithinCapacity(d)
  BY <1>1, SetCapacitySound
<1>3. /\ Len(d.list) <= Len(c.list)
      /\ \A i \in 1 .. Len(d.list) : d.list[i] = c.list[i]
  BY <1>1, SetCapacityShape
<1>4. Len(c.list) \in Nat /\ Len(d.list) \in Nat
  BY <1>1, <1>2, SoundFacts
<1>5. InOrder(d, u)
  <2> SUFFICES ASSUME NEW a \in 1 .. Len(d.list), NEW b \in 1 .. Len(d.list), a < b
               PROVE  u[d.list[b].key] < u[d.list[a].key]
    BY DEF InOrder
  <2>1. a \in 1 .. Len(c.list) /\ b \in 1 .. Len(c.list)
    BY <1>3, <1>4, SMTT(30)
  <2>2. d.list[a] = c.list[a] /\ d.list[b] = c.list[b]
    BY <1>3
  <2>3. QED
    BY <1>1, <2>1, <2>2 DEF Policy, InOrder
<1>6. QED
  BY <1>2, <1>3, <1>5

(* Where a cached key that stays and one that goes are in the lists. *)
LEMMA WhereKeysAre ==
  ASSUME NEW c, Sound(c), NEW d, Sound(d), NEW x \in Keys, NEW y \in Keys,
         c.mapper[x] # NoPrim, d.mapper[x] = NoPrim, d.mapper[y] # NoPrim
  PROVE  /\ \E i \in 1 .. Len(c.list) : c.list[i].key = x
         /\ \E j \in 1 .. Len(d.list) : d.list[j].key = y
         /\ \A m \in 1 .. Len(d.list) : d.list[m].key # x
<1>1. \E i \in 1 .. Len(c.list) : c.list[i].key = x
  BY SoundFacts, SMTT(30)
<1>2. \E j \in 1 .. Len(d.list) : d.list[j].key = y
  BY SoundFacts, SMTT(30)
<1>3. \A m \in 1 .. Len(d.list) :
        d.list[m] \in Primitives /\ d.mapper[d.list[m].key] = d.list[m]
  BY SoundFacts
<1>4. \A m \in 1 .. Len(d.list) : d.list[m].key # x
  BY <1>3, NoPrimAssumption
<1>5. QED
  BY <1>1, <1>2, <1>4

(* What add() evicts was used before everything that stays. *)
LEMMA MissEvicts ==
  ASSUME NEW c, NEW n, NEW u, Policy(c, n, u), NEW k \in Keys, c.mapper[k] = NoPrim,
         NEW new \in Primitives, new.key = k, NEW d, d = Add(c, new),
         NEW v, v = [u EXCEPT ![k] = n + 1], NEW x \in Keys, NEW y \in Keys,
         c.mapper[x] # NoPrim, d.mapper[x] = NoPrim, c.mapper[y] # NoPrim, d.mapper[y] # NoPrim
  PROVE  u[x] < v[y]
<1>1. Sound(c) /\ WithinCapacity(c) /\ u \in [Keys -> Nat] /\ y # k
  BY DEF Policy
<1>2. Sound(d) /\ Len(c.list) \in Nat /\ Len(d.list) \in Nat
  <2>1. Sound(d)
    BY MissInOrder
  <2>2. QED
    BY <1>1, <2>1, SoundFacts
<1>3. PICK i \in 1 .. Len(c.list) : c.list[i].key = x
  BY <1>1, <1>2, WhereKeysAre, SMTT(30)
<1>4. PICK j \in 1 .. Len(d.list) : d.list[j].key = y
  BY <1>1, <1>2, WhereKeysAre, SMTT(30)
<1>5. \A m \in 1 .. Len(d.list) : d.list[m].key # x
  BY <1>1, <1>2, WhereKeysAre, SMTT(30)
<1>6. v[y] = u[y]
  BY <1>1
<1>7. c.capacity # 0
  BY <1>1, <1>2, <1>3, SMTT(30) DEF WithinCapacity
<1>8. /\ Len(d.list) <= Len(c.list) + 1
      /\ d.list[1] = new
      /\ \A a \in 2 .. Len(d.list) : d.list[a] = c.list[a - 1]
  BY <1>1, <1>7, AddShape
<1>9. j # 1
  BY <1>1, <1>4, <1>8
<1>10. j - 1 \in 1 .. Len(c.list) /\ c.list[j - 1].key = y
  BY <1>2, <1>4, <1>8, <1>9, SMTT(30)
<1>11. ~(i + 1 <= Len(d.list))
  <2>1. SUFFICES ASSUME i + 1 <= Len(d.list) PROVE FALSE
    OBVIOUS
  <2>2. i + 1 \in 2 .. Len(d.list) /\ (i + 1) - 1 = i
    BY <1>2, <2>1, SMTT(30)
  <2>3. d.list[i + 1] = c.list[i]
    BY <1>8, <2>2
  <2>4. QED
    BY <1>2, <1>3, <1>5, <2>2, <2>3, SMTT(30)
<1>12. j - 1 < i
  BY <1>2, <1>9, <1>11, SMTT(30)
<1>13. u[c.list[i].key] < u[c.list[j - 1].key]
  BY <1>10, <1>12 DEF Policy, InOrder
<1>14. QED
  BY <1>3, <1>6, <1>10, <1>13

(* The same for set_capacity(). *)
LEMMA ResizeEvicts ==
  ASSUME NEW c, NEW n, NEW u, Policy(c, n, u), NEW m \in Nat, NEW d, d = SetCapacity(c, m),
         NEW x \in Keys, NEW y \in Keys,
         c.mapper[x] # NoPrim, d.mapper[x] = NoPrim, c.mapper[y] # NoPrim, d.mapper[y] # NoPrim
  PROVE  u[x] < u[y]
<1>1. /\ Sound(c) /\ Sound(d) /\ Len(d.list) <= Len(c.list)
      /\ \A a \in 1 .. Len(d.list) : d.list[a] = c.list[a]
  <2>1. Sound(c)
    BY DEF Policy
  <2>2. QED
    BY <2>1, ResizeInOrder, SMTT(30)
<1>2. Len(c.list) \in Nat /\ Len(d.list) \in Nat
  BY <1>1, SoundFacts
<1>3. PICK i \in 1 .. Len(c.list) : c.list[i].key = x
  BY <1>1, WhereKeysAre, SMTT(30)
<1>4. PICK j \in 1 .. Len(d.list) : d.list[j].key = y
  BY <1>1, WhereKeysAre, SMTT(30)
<1>5. \A a \in 1 .. Len(d.list) : d.list[a].key # x
  BY <1>1, WhereKeysAre, SMTT(30)
<1>6. j \in 1 .. Len(c.list) /\ c.list[j].key = y
  BY <1>1, <1>2, <1>4, SMTT(30)
<1>7. ~(i <= Len(d.list))
  BY <1>1, <1>2, <1>3, <1>5, SMTT(30)
<1>8. j < i
  BY <1>2, <1>7, SMTT(30)
<1>9. u[c.list[i].key] < u[c.list[j].key]
  BY <1>6, <1>8 DEF Policy, InOrder
<1>10. QED
  BY <1>3, <1>6, <1>9

-----------------------------------------------------------------------------
(* The threads that share the cache. *)
USE DEF Threads

(* The initial states satisfy the invariant. *)
LEMMA CacheInvInit == Init => CacheInv
<1> SUFFICES ASSUME Init PROVE CacheInv
  OBVIOUS
<1>1. PICK n \in Int : cache = EmptyCache(n)
  BY CapacitiesAssumption DEF Init
<1>2. Sound(cache) /\ WithinCapacity(cache)
  BY <1>1, EmptyCacheSound
<1>3. (CHOOSE k \in Keys : TRUE) \in Keys
  BY KeysAssumption
<1>4. TypeOK
  <2>1. torn \in BOOLEAN /\ lost \in [Threads -> BOOLEAN]
    BY ZenonT(30) DEF Init
  <2>2. calls \in [Threads -> Nat]
    BY SMTT(30) DEF Init
  <2>3. /\ pc \in [Threads -> PCs] /\ req \in [Threads -> Keys] /\ made \in Nat
        /\ p \in [Threads -> Primitives \cup {NoPrim}]
        /\ todo \in [Threads -> Nat \ {0}] /\ arg \in [Threads -> Nat]
    <3>1. pc \in [Threads -> PCs]
      BY DEF Init, PCs
    <3>2. req \in [Threads -> Keys]
      BY <1>3, ZenonT(30) DEF Init
    <3>3. p \in [Threads -> Primitives \cup {NoPrim}]
      BY DEF Init
    <3>4. todo \in [Threads -> Nat \ {0}]
      BY SMTT(30) DEF Init
    <3>5. arg \in [Threads -> Nat] /\ made \in Nat
      BY DEF Init
    <3>6. QED
      BY <3>1, <3>2, <3>3, <3>4, <3>5
  <2>4. cache \in Caches /\ readers \in SUBSET Threads /\ writer \in Threads \cup {NoThread}
    BY <1>2 DEF Init, Sound
  <2>5. QED
    BY <2>1, <2>2, <2>3, <2>4, ZenonT(30) DEF TypeOK
<1>5. LockDiscipline /\ KnowledgeHolds
  BY ThreadsAssumption DEF Init, LockDiscipline, KnowledgeHolds, ReadSteps, WriteSteps
<1>6. QED
  BY <1>2, <1>4, <1>5 DEF CacheInv, CacheSound, CapacityRespected, Sound

(* Under CacheInv, a lookup at any key is what the mapper says. *)
LEMMA CacheFacts ==
  ASSUME CacheInv
  PROVE  /\ Sound(cache) /\ WithinCapacity(cache)
         /\ \A k \in Keys : Find(cache, k) = cache.mapper[k]
<1>1. Sound(cache) /\ WithinCapacity(cache)
  BY DEF CacheInv, TypeOK, CacheSound, CapacityRespected, Sound
<1>2. QED
  BY <1>1, FindIsMapped

(* get() as a whole on the cache of CacheInv. *)
LEMMA GetSound ==
  ASSUME CacheInv, NEW k \in Keys
  PROVE  /\ Sound(GetCache(cache, k)) /\ WithinCapacity(GetCache(cache, k))
         /\ GetCache(cache, k).mapper = cache.mapper
         /\ GetValue(cache, k) \in Primitives \cup {NoPrim}
         /\ GetValue(cache, k) = cache.mapper[k]
<1>1. /\ Sound(cache) /\ WithinCapacity(cache) /\ Find(cache, k) = cache.mapper[k]
      /\ cache.mapper[k] \in Primitives \cup {NoPrim}
  BY CacheFacts, SoundFacts, SMTT(30)
<1>2. CASE cache.mapper[k] = NoPrim
  BY <1>1, <1>2 DEF GetCache, GetValue
<1>3. CASE cache.mapper[k] # NoPrim
  <2> DEFINE s == Splice(cache, cache.mapper[k])
  <2>1. /\ Sound(s) /\ s.capacity = cache.capacity /\ s.mapper = cache.mapper
        /\ Len(s.list) = Len(cache.list) /\ s.list # << >> /\ s.list[1] = cache.mapper[k]
    BY <1>1, <1>3, SpliceSound
  <2>2. GetCache(cache, k) = s /\ GetValue(cache, k) = Head(s.list)
    BY <1>1, <1>3 DEF GetCache, GetValue
  <2> HIDE DEF s
  <2>3. Head(s.list) = s.list[1]
    BY <2>1, SoundFacts, SMTT(30)
  <2>4. QED
    BY <1>1, <2>1, <2>2, <2>3 DEF WithinCapacity
<1>4. QED
  BY <1>2, <1>3

-----------------------------------------------------------------------------
(* A writer is alone; a reader excludes writers. *)
LEMMA Exclusion ==
  ASSUME CacheInv, NEW t \in Threads, NEW u \in Threads, t # u
  PROVE  /\ pc[t] \in WriteSteps => pc[u] \notin WriteSteps /\ pc[u] \notin ReadSteps
         /\ pc[t] \in ReadSteps => pc[u] \notin WriteSteps
BY ThreadsAssumption DEF CacheInv, LockDiscipline

(* The actions of a thread, for case analysis. *)
Actions(t) ==
    \/ \E k \in Keys : Create(t, k)
    \/ \E n \in Capacities : SetCapacityCall(t, n)
    \/ QueryCall(t)
    \/ Step(t)

(* Locking follows the discipline, step by step. *)
LEMMA LockStep ==
  ASSUME CacheInv, NEW t \in Threads, Actions(t)
  PROVE  LockDiscipline'
<1>1. /\ readers \subseteq Threads /\ pc \in [Threads -> PCs]
      /\ LockDiscipline
  BY DEF CacheInv, TypeOK
<1> USE <1>1, ThreadsAssumption DEF LockDiscipline, ReadSteps, WriteSteps, Goto
<1>2. ASSUME NEW k \in Keys, Create(t, k) PROVE LockDiscipline'
  BY <1>2 DEF Create
<1>3. ASSUME NEW n \in Capacities, SetCapacityCall(t, n) PROVE LockDiscipline'
  BY <1>3 DEF SetCapacityCall
<1>4. CASE QueryCall(t)
  BY <1>4 DEF QueryCall
<1>5. CASE CreateLockRead(t)
  BY <1>5 DEF CreateLockRead, LockRead
<1>6. CASE GetFind(t)
  BY <1>6 DEF GetFind
<1>7. CASE GetSplice(t)
  BY <1>7 DEF GetSplice
<1>8. CASE GetFront(t)
  BY <1>8 DEF GetFront
<1>9. CASE CreateHit(t)
  BY <1>9 DEF CreateHit, UnlockRead
<1>10. CASE CreateMiss(t)
  BY <1>10 DEF CreateMiss, UnlockRead
<1>11. CASE CreateLockWrite(t)
  BY <1>11 DEF CreateLockWrite, LockWrite
<1>12. CASE CreateRecheck(t)
  BY <1>12 DEF CreateRecheck
<1>13. CASE InitNested(t)
  BY <1>13 DEF InitNested
<1>14. CASE InitNestedFails(t)
  BY <1>14 DEF InitNestedFails
<1>15. CASE CreateAdd(t)
  BY <1>15 DEF CreateAdd
<1>16. CASE CreateInitFails(t)
  BY <1>16 DEF CreateInitFails
<1>17. CASE CreateUnlockWrite(t)
  BY <1>17 DEF CreateUnlockWrite, UnlockWrite
<1>18. CASE SetCapacityLock(t)
  BY <1>18 DEF SetCapacityLock, LockWrite
<1>19. CASE SetCapacityApply(t)
  BY <1>19 DEF SetCapacityApply, UnlockWrite
<1>20. CASE QueryLock(t)
  BY <1>20 DEF QueryLock, LockRead
<1>21. CASE QueryReturn(t)
  BY <1>21 DEF QueryReturn, UnlockRead
<1>22. QED
  BY SMTT(30), <1>2, <1>3, <1>4, <1>5, <1>6, <1>7, <1>8, <1>9, <1>10, <1>11, <1>12,
     <1>13, <1>14, <1>15, <1>16, <1>17, <1>18, <1>19, <1>20, <1>21
     DEF Actions, Step

(* The container stays sound and within its capacity.  A step that changes *)
(* it is the splice of a reader, which keeps the mapper, or a step under   *)
(* the write lock.                                                         *)
LEMMA ContainerStep ==
  ASSUME CacheInv, NEW t \in Threads, Actions(t)
  PROVE  /\ Sound(cache') /\ WithinCapacity(cache')
         /\ \/ cache' = cache
            \/ pc[t] = "splice" /\ cache'.mapper = cache.mapper /\ cache'.list # << >>
            \/ pc[t] \in WriteSteps
<1>1. /\ Sound(cache) /\ WithinCapacity(cache)
      /\ \A k \in Keys : Find(cache, k) = cache.mapper[k]
      /\ req[t] \in Keys /\ made \in Nat /\ made + 1 \in Nat /\ todo[t] \in Nat \ {0}
  BY CacheFacts, SMTT(30) DEF CacheInv, TypeOK
<1>2. CASE GetSplice(t)
  <2>1. CASE UNCHANGED cache
    BY <1>1, <2>1
  <2>2. CASE cache' = Splice(cache, p[t])
    <3>1. p[t] = cache.mapper[req[t]] /\ cache.mapper[req[t]] # NoPrim /\ pc[t] = "splice"
      BY <1>2 DEF GetSplice, Goto, CacheInv, KnowledgeHolds
    <3>2. /\ Sound(cache') /\ cache'.capacity = cache.capacity
          /\ cache'.mapper = cache.mapper /\ Len(cache'.list) = Len(cache.list)
          /\ cache'.list # << >>
      <4>1. cache' = Splice(cache, cache.mapper[req[t]])
        BY <2>2, <3>1
      <4>2. QED
        BY <1>1, <3>1, <4>1, SpliceSound
    <3>3. QED
      BY <1>1, <3>1, <3>2 DEF WithinCapacity
  <2>3. QED
    BY <1>2, <2>1, <2>2 DEF GetSplice
<1>3. CASE CreateRecheck(t)
  BY <1>1, <1>3, GetSound DEF CreateRecheck, Goto, WriteSteps
<1>4. CASE InitNested(t)
  <2> DEFINE k == Nested[req[t]][todo[t]]
             new == [key |-> k, id |-> made, whole |-> TRUE]
  <2>1. k \in Keys /\ pc[t] = "init"
    <3>1. /\ todo[t] <= Len(Nested[req[t]]) /\ Nested[req[t]] \in Seq(Keys)
          /\ pc[t] = "init"
      BY <1>1, <1>4, NestedAssumption DEF InitNested, Goto
    <3>2. todo[t] \in 1 .. Len(Nested[req[t]])
      BY <1>1, <3>1, LenProperties, SMTT(30)
    <3>3. QED
      BY <3>1, <3>2, ElementOfSeq
  <2>2. new \in Primitives /\ new.key = k
    BY <1>1, <2>1 DEF Primitives
  <2>3. CASE cache.mapper[k] # NoPrim
    <3>1. cache' = GetCache(cache, k)
      BY <1>1, <1>4, <2>1, <2>3 DEF InitNested
    <3>2. QED
      BY <3>1, <2>1, GetSound DEF WriteSteps
  <2>4. CASE cache.mapper[k] = NoPrim
    <3>1. cache' = Add(cache, new)
      BY <1>1, <1>4, <2>1, <2>4 DEF InitNested
    <3> HIDE DEF new, k
    <3>2. QED
      BY <3>1, <1>1, <2>1, <2>2, <2>4, AddSound DEF WriteSteps
  <2>5. QED
    BY <2>3, <2>4
<1>5. CASE CreateAdd(t)
  <2> DEFINE new == [key |-> req[t], id |-> made, whole |-> ~lost[t]]
  <2>1. new \in Primitives /\ new.key = req[t]
    BY <1>1 DEF Primitives
  <2>2. pc[t] = "init" /\ cache' = Add(cache, new) /\ cache.mapper[req[t]] = NoPrim
    BY <1>5 DEF CreateAdd, Goto, CacheInv, KnowledgeHolds
  <2> HIDE DEF new
  <2>3. QED
    BY <1>1, <2>1, <2>2, AddSound DEF WriteSteps
<1>6. CASE SetCapacityApply(t)
  <2>1. arg[t] \in Nat /\ cache' = SetCapacity(cache, arg[t]) /\ pc[t] = "set"
    BY <1>6 DEF SetCapacityApply, Goto, CacheInv, TypeOK
  <2>2. QED
    BY <1>1, <2>1, SetCapacitySound DEF WriteSteps
<1>7. CASE UNCHANGED cache
  BY <1>1, <1>7
<1>8. QED
  BY <1>2, <1>3, <1>4, <1>5, <1>6, <1>7 DEF Actions, Step, Create, SetCapacityCall,
     QueryCall, CreateLockRead, GetFind, GetFront, CreateHit, CreateMiss,
     CreateLockWrite, InitNestedFails, CreateInitFails, CreateUnlockWrite,
     SetCapacityLock, QueryLock, QueryReturn

(* Types are preserved. *)
LEMMA TypeStep ==
  ASSUME CacheInv, NEW t \in Threads, Actions(t)
  PROVE  TypeOK'
<1>1. TypeOK
  BY DEF CacheInv
<1>2. cache' \in Caches
  BY ContainerStep DEF Sound
<1>3. readers' \subseteq Threads /\ writer' \in Threads \cup {NoThread}
  <2>1. readers' = readers \/ readers' = readers \cup {t} \/ readers' = readers \ {t}
    BY ZenonT(40) DEF Actions, Step, Create, SetCapacityCall, QueryCall, locals,
       CreateLockRead, GetFind, GetSplice, GetFront, CreateHit, CreateMiss,
       CreateLockWrite, CreateRecheck, InitNested, InitNestedFails, CreateAdd,
       CreateInitFails, CreateUnlockWrite, SetCapacityLock, SetCapacityApply,
       QueryLock, QueryReturn, LockRead, LockWrite, UnlockRead, UnlockWrite
  <2>2. writer' = writer \/ writer' = t \/ writer' = NoThread
    BY ZenonT(40) DEF Actions, Step, Create, SetCapacityCall, QueryCall, locals,
       CreateLockRead, GetFind, GetSplice, GetFront, CreateHit, CreateMiss,
       CreateLockWrite, CreateRecheck, InitNested, InitNestedFails, CreateAdd,
       CreateInitFails, CreateUnlockWrite, SetCapacityLock, SetCapacityApply,
       QueryLock, QueryReturn, LockRead, LockWrite, UnlockRead, UnlockWrite
  <2>3. QED
    BY <1>1, <2>1, <2>2 DEF TypeOK
<1>4. torn' \in BOOLEAN
  BY <1>1, ZenonT(30) DEF TypeOK, Actions, Step, Create, SetCapacityCall, QueryCall,
     CreateLockRead, GetFind, GetSplice, GetFront, CreateHit, CreateMiss,
     CreateLockWrite, CreateRecheck, InitNested, InitNestedFails, CreateAdd,
     CreateInitFails, CreateUnlockWrite, SetCapacityLock, SetCapacityApply,
     QueryLock, QueryReturn
<1>5. /\ made' \in Nat
      /\ req' \in [Threads -> Keys]
      /\ todo' \in [Threads -> Nat \ {0}]
      /\ arg' \in [Threads -> Nat]
      /\ calls' \in [Threads -> Nat]
  <2>1. made' \in Nat
    <3>1. made' = made \/ made' = made + 1
      BY ZenonT(40) DEF Actions, Step, Create, SetCapacityCall, QueryCall, locals,
         CreateLockRead, GetFind, GetSplice, GetFront, CreateHit, CreateMiss,
         CreateLockWrite, CreateRecheck, InitNested, InitNestedFails, CreateAdd,
         CreateInitFails, CreateUnlockWrite, SetCapacityLock, SetCapacityApply,
         QueryLock, QueryReturn
    <3>2. QED
      BY <1>1, <3>1, SMTT(30) DEF TypeOK
  <2>2. req' \in [Threads -> Keys]
    <3>1. req' = req \/ \E k \in Keys : req' = [req EXCEPT ![t] = k]
      BY ZenonT(40) DEF Actions, Step, Create, SetCapacityCall, QueryCall, locals,
         CreateLockRead, GetFind, GetSplice, GetFront, CreateHit, CreateMiss,
         CreateLockWrite, CreateRecheck, InitNested, InitNestedFails, CreateAdd,
         CreateInitFails, CreateUnlockWrite, SetCapacityLock, SetCapacityApply,
         QueryLock, QueryReturn
    <3>2. QED
      BY <1>1, <3>1 DEF TypeOK
  <2>3. todo' \in [Threads -> Nat \ {0}]
    <3>1. \/ todo' = todo
          \/ todo' = [todo EXCEPT ![t] = 1]
          \/ todo' = [todo EXCEPT ![t] = @ + 1]
      BY ZenonT(40) DEF Actions, Step, Create, SetCapacityCall, QueryCall, locals,
         CreateLockRead, GetFind, GetSplice, GetFront, CreateHit, CreateMiss,
         CreateLockWrite, CreateRecheck, InitNested, InitNestedFails, CreateAdd,
         CreateInitFails, CreateUnlockWrite, SetCapacityLock, SetCapacityApply,
         QueryLock, QueryReturn
    <3>2. QED
      BY <1>1, <3>1, SMTT(30) DEF TypeOK
  <2>4. arg' \in [Threads -> Nat]
    <3>1. arg' = arg \/ \E n \in Int : n >= 0 /\ arg' = [arg EXCEPT ![t] = n]
      BY CapacitiesAssumption, ZenonT(30) DEF Actions, Step, Create, SetCapacityCall, QueryCall, locals,
         CreateLockRead, GetFind, GetSplice, GetFront, CreateHit, CreateMiss,
         CreateLockWrite, CreateRecheck, InitNested, InitNestedFails, CreateAdd,
         CreateInitFails, CreateUnlockWrite, SetCapacityLock, SetCapacityApply,
         QueryLock, QueryReturn
    <3>2. QED
      BY <1>1, <3>1, SMTT(30) DEF TypeOK
  <2>5. calls' \in [Threads -> Nat]
    <3>1. calls' = calls \/ calls' = [calls EXCEPT ![t] = @ + 1]
      BY ZenonT(40) DEF Actions, Step, Create, SetCapacityCall, QueryCall, locals,
         CreateLockRead, GetFind, GetSplice, GetFront, CreateHit, CreateMiss,
         CreateLockWrite, CreateRecheck, InitNested, InitNestedFails, CreateAdd,
         CreateInitFails, CreateUnlockWrite, SetCapacityLock, SetCapacityApply,
         QueryLock, QueryReturn
    <3>2. QED
      BY <1>1, <3>1, SMTT(30) DEF TypeOK
  <2>6. QED
    BY <2>1, <2>2, <2>3, <2>4, <2>5
<1>6. pc' \in [Threads -> PCs]
  <2>1. pc' = pc \/ \E x \in PCs : pc' = [pc EXCEPT ![t] = x]
    <3>1. CASE Step(t)
      BY <3>1 DEF Step, 
         CreateLockRead, GetFind, GetSplice, GetFront, CreateHit, CreateMiss,
         CreateLockWrite, CreateRecheck, InitNested, InitNestedFails, CreateAdd,
         CreateInitFails, CreateUnlockWrite, SetCapacityLock, SetCapacityApply,
         QueryLock, QueryReturn,
       Goto, PCs, ReadSteps, WriteSteps
    <3>2. CASE ~Step(t)
      BY <3>2 DEF Actions, Create, SetCapacityCall, QueryCall, Goto, PCs
    <3>3. QED
      BY <3>1, <3>2
  <2>2. QED
    BY <1>1, <2>1 DEF TypeOK
<1>7. lost' \in [Threads -> BOOLEAN]
  BY <1>1, ZenonT(30) DEF TypeOK, Actions, Step, Create, SetCapacityCall, QueryCall, locals,
     CreateLockRead, GetFind, GetSplice, GetFront, CreateHit, CreateMiss,
     CreateLockWrite, CreateRecheck, InitNested, InitNestedFails, CreateAdd,
     CreateInitFails, CreateUnlockWrite, SetCapacityLock, SetCapacityApply,
     QueryLock, QueryReturn
<1>8. p' \in [Threads -> Primitives \cup {NoPrim}]
  <2>1. /\ p \in [Threads -> Primitives \cup {NoPrim}] /\ req[t] \in Keys
        /\ made \in Nat /\ lost[t] \in BOOLEAN
    BY <1>1 DEF TypeOK
  <2>2. CASE GetFind(t)
    <3>1. Find(cache, req[t]) \in Primitives \cup {NoPrim}
      BY <2>1, CacheFacts, SoundFacts, SMTT(30)
    <3>2. QED
      BY <2>1, <2>2, <3>1 DEF GetFind
  <2>3. CASE GetFront(t)
    <3>1. cache.list # << >> /\ cache.list \in Seq(Primitives)
      BY <2>3, CacheFacts, SoundFacts DEF GetFront, Goto, CacheInv, KnowledgeHolds
    <3>2. Head(cache.list) \in Primitives
      BY <3>1, HeadTailProperties
    <3>3. QED
      BY <2>1, <2>3, <3>2 DEF GetFront
  <2>4. CASE CreateRecheck(t)
    BY <2>1, <2>4, GetSound DEF CreateRecheck
  <2>5. CASE CreateAdd(t)
    <3>1. [key |-> req[t], id |-> made, whole |-> ~lost[t]] \in Primitives
      BY <2>1 DEF Primitives
    <3>2. QED
      BY <2>1, <2>5, <3>1 DEF CreateAdd
  <2>6. CASE \E k \in Keys : Create(t, k)
    BY <2>1, <2>6 DEF Create
  <2>7. CASE UNCHANGED p
    BY <2>1, <2>7
  <2>8. QED
    BY <2>2, <2>3, <2>4, <2>5, <2>6, <2>7, ZenonT(30) DEF Actions, Step, SetCapacityCall,
       QueryCall, locals, CreateLockRead, GetSplice, CreateHit, CreateMiss,
       CreateLockWrite, InitNested, InitNestedFails, CreateInitFails,
       CreateUnlockWrite, SetCapacityLock, SetCapacityApply, QueryLock, QueryReturn
<1>9. QED
  BY <1>2, <1>3, <1>4, <1>5, <1>6, <1>7, <1>8 DEF TypeOK

(* What a thread knows about the cache stays true. *)
LEMMA KnowledgeStep ==
  ASSUME CacheInv, NEW t \in Threads, Actions(t)
  PROVE  KnowledgeHolds'
<1>1. /\ TypeOK /\ KnowledgeHolds
      /\ Sound(cache) /\ \A k \in Keys : Find(cache, k) = cache.mapper[k]
      /\ cache.mapper \in [Keys -> Primitives \cup {NoPrim}]
  BY CacheFacts, SoundFacts DEF CacheInv
<1>2. SUFFICES ASSUME NEW u \in Threads
               PROVE  /\ pc'[u] = "splice" => p'[u] # NoPrim /\ p'[u] = cache'.mapper[req'[u]]
                      /\ pc'[u] = "front" => cache'.list # << >>
                      /\ pc'[u] = "init" => cache'.mapper[req'[u]] = NoPrim
  BY DEF KnowledgeHolds
<1>3. CASE u # t
  <2>1. pc'[u] = pc[u] /\ req'[u] = req[u] /\ p'[u] = p[u]
    BY <1>1, <1>3, ZenonT(30) DEF TypeOK, Goto, Actions, Step, Create, SetCapacityCall, QueryCall,
       locals, CreateLockRead, GetFind, GetSplice, GetFront, CreateHit, CreateMiss,
       CreateLockWrite, CreateRecheck, InitNested, InitNestedFails, CreateAdd,
       CreateInitFails, CreateUnlockWrite, SetCapacityLock, SetCapacityApply,
       QueryLock, QueryReturn
  <2>2. CASE cache' = cache
    BY <1>1, <2>1, <2>2 DEF KnowledgeHolds
  <2>3. CASE pc[t] = "splice" /\ cache'.mapper = cache.mapper /\ cache'.list # << >>
    BY <1>1, <2>1, <2>3 DEF KnowledgeHolds
  <2>4. CASE pc[t] \in WriteSteps
    <3>1. pc[u] \notin WriteSteps /\ pc[u] \notin ReadSteps
      BY <1>3, <2>4, Exclusion
    <3>2. QED
      BY <2>1, <3>1 DEF WriteSteps, ReadSteps
  <2>5. QED
    BY <2>2, <2>3, <2>4, ContainerStep
<1>4. CASE u = t
  <2>1. req[t] \in Keys /\ pc \in [Threads -> PCs] /\ p \in [Threads -> Primitives \cup {NoPrim}]
    BY <1>1 DEF TypeOK
  <2>2. CASE GetFind(t)
    BY <1>1, <1>4, <2>1, <2>2 DEF GetFind, Goto
  <2>3. CASE GetSplice(t)
    <3>1. pc'[t] = "front" /\ pc[t] = "splice"
      BY <2>1, <2>3 DEF GetSplice, Goto
    <3>2. cache.list # << >>
      <4>1. cache.mapper[req[t]] # NoPrim
        BY <1>1, <3>1, ZenonT(30) DEF KnowledgeHolds
      <4>2. PICK i \in 1 .. Len(cache.list) : cache.list[i] = cache.mapper[req[t]]
        BY <1>1, <2>1, <4>1, SoundFacts, SMTT(30)
      <4>3. QED
        BY <4>2, SMTT(30)
    <3>3. cache'.list # << >>
      BY <3>1, <3>2, ContainerStep DEF WriteSteps
    <3>4. QED
      BY <1>4, <3>1, <3>3
  <2>4. CASE CreateRecheck(t)
    <3>1. cache'.mapper = cache.mapper /\ req' = req
      BY <2>1, <2>4, GetSound DEF CreateRecheck
    <3>2. QED
      BY <1>1, <1>4, <2>1, <2>4, <3>1 DEF CreateRecheck, Goto
  <2>5. CASE InitNested(t)
    <3> DEFINE k == Nested[req[t]][todo[t]]
               new == [key |-> k, id |-> made, whole |-> TRUE]
    <3>1. /\ pc[t] = "init" /\ pc'[t] = "init" /\ req' = req
          /\ cache.mapper[req[t]] = NoPrim
      BY <1>1, <2>1, <2>5 DEF InitNested, Goto, KnowledgeHolds
    <3>2. k \in Keys /\ k # req[t] /\ made \in Nat
      <4>1. todo[t] \in Nat \ {0} /\ todo[t] <= Len(Nested[req[t]]) /\ made \in Nat
            /\ Nested[req[t]] \in Seq(Keys)
        BY <1>1, <2>1, <2>5, NestedAssumption DEF InitNested, TypeOK
      <4>2. todo[t] \in 1 .. Len(Nested[req[t]])
        BY <4>1, LenProperties, SMTT(30)
      <4>3. QED
        BY <2>1, <4>1, <4>2, ElementOfSeq, NestedAssumption
    <3>3. CASE cache.mapper[k] # NoPrim
      <4>1. cache' = GetCache(cache, k)
        BY <1>1, <2>5, <3>2, <3>3 DEF InitNested
      <4>2. cache'.mapper = cache.mapper
        BY <3>2, <4>1, GetSound
      <4>3. QED
        BY <1>4, <3>1, <4>2
    <3>4. CASE cache.mapper[k] = NoPrim
      <4>1. cache' = Add(cache, new)
        BY <1>1, <2>5, <3>2, <3>4 DEF InitNested
      <4>2. new \in Primitives /\ new.key = k
        BY <3>2 DEF Primitives
      <4> HIDE DEF new, k
      <4>3. WithinCapacity(cache)
        BY CacheFacts
      <4>4. \A l \in Keys \ {new.key} : cache'.mapper[l] \in {cache.mapper[l], NoPrim}
        BY <1>1, <3>4, <4>1, <4>2, <4>3, AddSound
      <4>5. QED
        BY <1>4, <2>1, <3>1, <3>2, <4>2, <4>4
    <3>5. QED
      BY <3>3, <3>4
  <2>6. CASE InitNestedFails(t)
    BY <1>1, <1>4, <2>1, <2>6 DEF InitNestedFails, KnowledgeHolds
  <2>7. QED
    BY <1>4, <2>1, <2>2, <2>3, <2>4, <2>5, <2>6, ZenonT(30) DEF Goto, Actions, Step, Create,
       SetCapacityCall, QueryCall, CreateLockRead, GetFront, CreateHit, CreateMiss,
       CreateLockWrite, CreateAdd, CreateInitFails, CreateUnlockWrite,
       SetCapacityLock, SetCapacityApply, QueryLock, QueryReturn
<1>5. QED
  BY <1>3, <1>4

-----------------------------------------------------------------------------
(* CacheInv is inductive. *)
LEMMA CacheInvNext == CacheInv /\ [Next]_vars => CacheInv'
<1> SUFFICES ASSUME CacheInv, [Next]_vars PROVE CacheInv'
  OBVIOUS
<1>1. ASSUME NEW t \in Threads, Actions(t) PROVE CacheInv'
  BY <1>1, TypeStep, ContainerStep, LockStep, KnowledgeStep
     DEF CacheInv, CacheSound, CapacityRespected, Sound
<1>2. CASE UNCHANGED vars
  BY <1>2 DEF vars, CacheInv, TypeOK, CacheSound, CapacityRespected,
     LockDiscipline, KnowledgeHolds
<1>3. QED
  BY <1>1, <1>2 DEF Next, Call, Actions, Stopped

(* Every reachable state satisfies CacheInv, for every number of threads.  *)
THEOREM CacheInvariant == Spec => []CacheInv
BY CacheInvInit, CacheInvNext, PTL DEF Spec

(* List and mapper always name the same entries, each key once. *)
THEOREM CacheStaysSound == Spec => []CacheSound
<1>1. CacheInv => CacheSound
  BY DEF CacheInv
<1>2. QED
  BY <1>1, CacheInvariant, PTL

(* The number of entries never exceeds the capacity. *)
THEOREM CacheStaysWithinCapacity == Spec => []CapacityRespected
<1>1. CacheInv => CapacityRespected
  BY DEF CacheInv
<1>2. QED
  BY <1>1, CacheInvariant, PTL

(* No reader splices a node that has been evicted. *)
THEOREM NoDanglingIterator == Spec => []IteratorsValid
<1>1. CacheInv => IteratorsValid
  <2> SUFFICES ASSUME CacheInv, NEW t \in Threads, pc[t] = "splice"
               PROVE  \E i \in 1 .. Len(cache.list) : cache.list[i] = p[t]
    BY DEF IteratorsValid
  <2>1. /\ p[t] = cache.mapper[req[t]] /\ cache.mapper[req[t]] # NoPrim
        /\ req[t] \in Keys /\ Sound(cache)
    BY CacheFacts DEF CacheInv, KnowledgeHolds, TypeOK
  <2>2. QED
    BY <2>1, MappedKey, SMTT(30)
<1>2. QED
  BY <1>1, CacheInvariant, PTL

-----------------------------------------------------------------------------
(* One creating thread inside a call.  Between its splice and its front()  *)
(* no other thread can splice, and writers are locked out.                 *)
OneCreator == \A c, d \in Creators : pc[c] # "idle" /\ pc[d] # "idle" => c = d

(* Every step keeps the answers that calls have returned right. *)
LEMMA AnswerStep ==
  ASSUME OneCreator, CacheInv, AnswerHolds, NEW t \in Threads,
         \/ t \in Creators /\ \E k \in Keys : Create(t, k)
         \/ t \in Admins /\ \E n \in Capacities : SetCapacityCall(t, n)
         \/ t \in Admins /\ QueryCall(t)
         \/ Step(t)
  PROVE  AnswerHolds'
<1>1. /\ TypeOK /\ KnowledgeHolds
      /\ Sound(cache) /\ \A k \in Keys : Find(cache, k) = cache.mapper[k]
      /\ req[t] \in Keys /\ pc \in [Threads -> PCs]
      /\ p \in [Threads -> Primitives \cup {NoPrim}]
  BY CacheFacts DEF CacheInv, TypeOK
<1>a. Actions(t)
  BY DEF Actions
<1>2. SUFFICES ASSUME NEW u \in Threads
               PROVE  /\ pc'[u] \in CreateSteps => u \in Creators
                      /\ pc'[u] = "front" => cache'.list[1].key = req'[u]
                      /\ pc'[u] = "init" => p'[u] = NoPrim
                      /\ pc'[u] \in {"unlock_hit", "unlock_write"} /\ p'[u] # NoPrim
                            => p'[u].key = req'[u]
  BY DEF AnswerHolds
<1>3. CASE u # t
  <2>1. pc'[u] = pc[u] /\ req'[u] = req[u] /\ p'[u] = p[u]
    BY <1>1, <1>3, ZenonT(30) DEF TypeOK, Goto, Step, Create, SetCapacityCall, QueryCall,
       locals, CreateLockRead, GetFind, GetSplice, GetFront, CreateHit, CreateMiss,
       CreateLockWrite, CreateRecheck, InitNested, InitNestedFails, CreateAdd,
       CreateInitFails, CreateUnlockWrite, SetCapacityLock, SetCapacityApply,
       QueryLock, QueryReturn
  <2>2. pc[u] = "front" => cache' = cache
    <3> SUFFICES ASSUME pc[u] = "front" PROVE cache' = cache
      OBVIOUS
    <3>1. pc[t] \notin WriteSteps
      BY <1>3, Exclusion DEF ReadSteps
    <3>2. pc[t] # "splice"
      BY <1>3 DEF AnswerHolds, CreateSteps, OneCreator
    <3>3. QED
      BY <3>1, <3>2, <1>a, ContainerStep, ZenonT(30)
  <2>3. QED
    BY <2>1, <2>2 DEF AnswerHolds
<1>4. CASE u = t
  <2>1. CASE GetSplice(t)
    <3>1. /\ pc[t] = "splice" /\ pc'[t] = "front" /\ req' = req /\ p' = p
          /\ p[t] = cache.mapper[req[t]] /\ cache.mapper[req[t]] # NoPrim
          /\ t \in Creators
      BY <1>1, <2>1, ZenonT(30) DEF GetSplice, Goto, locals, KnowledgeHolds, AnswerHolds, CreateSteps
    <3>2. \A v \in Threads \ {t} : pc[v] # "splice"
      BY <3>1, ZenonT(30) DEF AnswerHolds, CreateSteps, OneCreator
    <3>3. cache' = Splice(cache, cache.mapper[req[t]])
      BY <2>1, <3>1, <3>2 DEF GetSplice
    <3>4. cache'.list[1] = cache.mapper[req[t]] /\ cache.mapper[req[t]].key = req[t]
      BY <1>1, <3>1, <3>3, SpliceSound
    <3>5. QED
      BY <1>4, <3>1, <3>4, ZenonT(30)
  <2>2. CASE GetFront(t)
    <3>1. cache.list # << >> /\ cache.list \in Seq(Primitives)
      BY <1>1, <2>2, SoundFacts DEF GetFront, Goto, KnowledgeHolds
    <3>2. Head(cache.list) = cache.list[1]
      BY <3>1, SMTT(30)
    <3>3. /\ pc[t] = "front" /\ pc'[t] = "unlock_hit" /\ req' = req
          /\ p'[t] = Head(cache.list) /\ cache.list[1].key = req[t] /\ t \in Creators
      BY <1>1, <2>2 DEF GetFront, Goto, AnswerHolds, CreateSteps
    <3>4. QED
      BY <1>4, <3>2, <3>3
  <2>3. CASE CreateRecheck(t)
    <3>1. /\ pc[t] = "recheck" /\ req' = req /\ p'[t] = cache.mapper[req[t]]
          /\ pc'[t] = IF cache.mapper[req[t]] = NoPrim THEN "init" ELSE "unlock_write"
          /\ t \in Creators
      BY <1>1, <2>3, GetSound DEF CreateRecheck, Goto, AnswerHolds, CreateSteps
    <3>2. cache.mapper[req[t]] # NoPrim => cache.mapper[req[t]].key = req[t]
      BY <1>1, MappedKey
    <3>3. QED
      BY <1>4, <3>1, <3>2
  <2>4. CASE CreateAdd(t)
    <3>1. /\ pc'[t] = "unlock_write" /\ req' = req /\ p'[t].key = req[t] /\ t \in Creators
      BY <1>1, <2>4 DEF CreateAdd, Goto, AnswerHolds, CreateSteps
    <3>2. QED
      BY <1>4, <3>1
  <2>5. CASE t \in Creators /\ \E k \in Keys : Create(t, k)
    BY <1>1, <1>4, <2>5 DEF Create, Goto
  <2>6. CASE CreateLockRead(t) \/ GetFind(t) \/ CreateMiss(t) \/ CreateLockWrite(t)
    BY <1>1, <1>4, <2>6 DEF CreateLockRead, GetFind, CreateMiss, CreateLockWrite,
       Goto, AnswerHolds, CreateSteps
  <2>7. CASE InitNested(t) \/ InitNestedFails(t) \/ CreateInitFails(t)
    BY <1>1, <1>4, <2>7, ZenonT(30) DEF InitNested, InitNestedFails, CreateInitFails, locals,
       Goto, AnswerHolds, CreateSteps
  <2>8. CASE pc'[t] \in {"idle", "lock_set", "set", "lock_query", "query"}
    BY <1>4, <2>8 DEF CreateSteps
  <2>9. QED
    BY <1>1, <2>1, <2>2, <2>3, <2>4, <2>5, <2>6, <2>7, <2>8, ZenonT(30) DEF Step, Goto,
       SetCapacityCall, QueryCall, CreateHit, CreateUnlockWrite, SetCapacityLock,
       SetCapacityApply, QueryLock, QueryReturn
<1>5. QED
  BY <1>3, <1>4

(* Every step of t moves t alone. *)
LEMMA MovesAlone ==
  ASSUME CacheInv, NEW t \in Threads, Actions(t)
  PROVE  /\ \E x : pc' = [pc EXCEPT ![t] = x]
         /\ \A u \in Threads \ {t} : todo'[u] = todo[u]
<1>1. /\ pc \in [Threads -> PCs] /\ todo \in [Threads -> Nat \ {0}]
  BY DEF CacheInv, TypeOK
<1>2. \E x : pc' = [pc EXCEPT ![t] = x]
  <2>1. pc = [pc EXCEPT ![t] = pc[t]]
    BY <1>1
  <2>2. QED
    BY <2>1, ZenonT(30) DEF Actions, Goto, Step, Create, SetCapacityCall, QueryCall,
       CreateLockRead, GetFind, GetSplice, GetFront, CreateHit, CreateMiss,
       CreateLockWrite, CreateRecheck, InitNested, InitNestedFails, CreateAdd,
       CreateInitFails, CreateUnlockWrite, SetCapacityLock, SetCapacityApply,
       QueryLock, QueryReturn
<1>3. \A u \in Threads \ {t} : todo'[u] = todo[u]
  BY <1>1, ZenonT(30) DEF Actions, Step, Create, SetCapacityCall, QueryCall,
     locals, CreateLockRead, GetFind, GetSplice, GetFront, CreateHit, CreateMiss,
     CreateLockWrite, CreateRecheck, InitNested, InitNestedFails, CreateAdd,
     CreateInitFails, CreateUnlockWrite, SetCapacityLock, SetCapacityApply,
     QueryLock, QueryReturn
<1>4. QED
  BY <1>2, <1>3

(* A thread that has made no call is in none. *)
IdleUntilCalled == \A t \in Threads : calls[t] = 0 => pc[t] = "idle"

(* At most one creating thread has made a call so far. *)
Alone == \E c \in Creators : \A t \in Creators \ {c} : calls[t] = 0

(* A step counts the call it begins, and moves only inside a call. *)
LEMMA CallsCounted ==
  ASSUME CacheInv, IdleUntilCalled, NEW t \in Threads, Actions(t)
  PROVE  IdleUntilCalled' /\ (Alone' => Alone)
<1>1. calls \in [Threads -> Nat] /\ pc \in [Threads -> PCs]
  BY DEF CacheInv, TypeOK
<1> HIDE DEF Threads
<1>2. \/ calls' = [calls EXCEPT ![t] = @ + 1]
      \/ calls' = calls /\ pc[t] # "idle"
  BY ZenonT(60) DEF Actions, Goto, Step, Create, SetCapacityCall, QueryCall, locals,
     CreateLockRead, GetFind, GetSplice, GetFront, CreateHit, CreateMiss,
     CreateLockWrite, CreateRecheck, InitNested, InitNestedFails, CreateAdd,
     CreateInitFails, CreateUnlockWrite, SetCapacityLock, SetCapacityApply,
     QueryLock, QueryReturn
<1>3. PICK x : pc' = [pc EXCEPT ![t] = x]
  BY MovesAlone DEF Threads
<1>4. \A u \in Threads : u # t => calls'[u] = calls[u] /\ pc'[u] = pc[u]
  BY <1>1, <1>2, <1>3
<1>5. calls'[t] # 0
  BY <1>1, <1>2, SMTT(30) DEF IdleUntilCalled
<1>6. IdleUntilCalled'
  BY <1>4, <1>5 DEF IdleUntilCalled
<1>7. \A u \in Threads : calls'[u] = 0 => calls[u] = 0
  BY <1>4, <1>5
<1>8. QED
  BY <1>6, <1>7 DEF Alone, Threads

(* As long as one thread alone has created primitives, among any number of *)
(* threads that change the capacity meanwhile, a call never returns a      *)
(* primitive for another key.  With a second creating thread it may: see   *)
(* the run cache_front_race.                                               *)
THEOREM AloneCreatorReturnsRequested == Spec => []AloneReturnsRequested
<1> DEFINE AloneInv == IdleUntilCalled /\ (Alone => AnswerHolds)
<1>1. Init => AloneInv
  BY DEF Init, AnswerHolds, CreateSteps, IdleUntilCalled
<1>2. CacheInv /\ AloneInv /\ [Next]_vars => AloneInv'
  <2> SUFFICES ASSUME CacheInv, AloneInv, [Next]_vars PROVE AloneInv'
    OBVIOUS
  <2>1. CASE UNCHANGED vars
    BY <2>1 DEF vars, AnswerHolds, IdleUntilCalled, Alone
  <2>2. ASSUME NEW t \in Threads, Call(t) \/ Step(t) PROVE AloneInv'
    <3>1. Actions(t)
      BY <2>2 DEF Call, Actions
    <3>2. IdleUntilCalled' /\ (Alone' => Alone)
      BY <3>1, CallsCounted
    <3>3. Alone => OneCreator
      BY DEF Alone, OneCreator, IdleUntilCalled
    <3>4. Alone => AnswerHolds'
      BY <2>2, <3>3, AnswerStep DEF Call
    <3>5. QED
      BY <3>2, <3>4
  <2>3. QED
    BY <2>1, <2>2 DEF Next, Stopped
<1>3. AloneInv => AloneReturnsRequested
  BY DEF AnswerHolds, ReturnsRequested, AloneReturnsRequested, Alone
<1>4. QED
  BY <1>1, <1>2, <1>3, CacheInvariant, PTL DEF Spec
-----------------------------------------------------------------------------
(* Threads that create primitives at once implement the policy of          *)
(* LruReplacement.                                                         *)

(* What the mapping needs beside CacheInv: an argument of set_capacity is  *)
(* one that was asked for, and the history has its type.                   *)
ArgsAsked == \A t \in Threads : pc[t] \in {"lock_set", "set"} => arg[t] \in Capacities
HistoryOK == now \in Nat /\ used \in [Keys -> Nat]

MappingInv == CacheInv /\ ArgsAsked /\ HistoryOK

(* A step of t looks nothing up for another thread. *)
LEMMA OthersLookNothingUp ==
  ASSUME NEW t \in Threads, NEW u \in Threads, u # t, NEW x,
         pc \in [Threads -> PCs], pc' = [pc EXCEPT ![t] = x],
         todo'[u] = todo[u]
  PROVE  ~LooksUp(u) /\ ~LooksUpNested(u)
<1>1. pc'[u] = pc[u]
  OBVIOUS
<1>2. QED
  BY <1>1 DEF LooksUp, LooksUpNested, Moves

(* So what a step of t looks up is what t looks up. *)
LEMMA LookedUpBy ==
  ASSUME CacheInv, NEW t \in Threads, Actions(t)
  PROVE  LookedUp = (IF LooksUp(t) THEN {req[t]} ELSE {})
                      \cup (IF LooksUpNested(t) THEN {Nested[req[t]][todo[t]]} ELSE {})
<1>1. \A u \in Threads \ {t} : ~LooksUp(u) /\ ~LooksUpNested(u)
  <2>1. pc \in [Threads -> PCs]
    BY DEF CacheInv, TypeOK
  <2>2. QED
    BY <2>1, MovesAlone, OthersLookNothingUp
<1> HIDE DEF Threads
<1>2. QED
  BY <1>1 DEF LookedUp

HistoryStep ==
    /\ now' = IF LookedUp = {} THEN now ELSE now + 1
    /\ used' = [k \in Keys |-> IF k \in LookedUp THEN now + 1 ELSE used[k]]

(* A step that looks nothing up and leaves the cache alone is invisible. *)
LEMMA InvisibleStep ==
  ASSUME HistoryOK, HistoryStep, LookedUp = {}, cache' = cache
  PROVE  UNCHANGED Lru!vars
<1>1. now' = now /\ used' = used
  BY DEF HistoryOK, HistoryStep
<1>2. UnnamedOf(cache)' = UnnamedOf(cache)
  BY DEF UnnamedOf
<1>3. QED
  BY <1>1, <1>2 DEF Lru!vars

(* A step that looks up one key, as get() or add() would. *)
LEMMA LookupStep ==
  ASSUME MappingInv, HistoryStep, NEW k \in Keys, LookedUp = {k},
         \/ Find(cache, k) # NoPrim /\ cache' = Splice(cache, cache.mapper[k])
         \/ /\ Find(cache, k) = NoPrim
            /\ \E q \in Primitives : q.key = k /\ cache' = Add(cache, q)
  PROVE  Lru!Lookup(k)
<1> DEFINE u == UnnamedOf(cache)
<1>1. Sound(cache) /\ WithinCapacity(cache) /\ Find(cache, k) = cache.mapper[k]
  BY CacheFacts DEF MappingInv
<1>2. /\ Sound(u)
      /\ Find(u, k) = NoPrim <=> Find(cache, k) = NoPrim
      /\ Find(cache, k) # NoPrim => Find(u, k) = u.mapper[k]
  BY <1>1, UnnamedSound, UnnamedFind
<1>3. now' = now + 1 /\ used' = [used EXCEPT ![k] = now + 1]
  BY DEF MappingInv, HistoryOK, HistoryStep
<1>4. Lru!Find(u, k) = Find(u, k)
  BY DEF Lru!Find, Find
<1>5. UnnamedOf(cache)' = UnnamedOf(cache')
  BY DEF UnnamedOf
<1>6. UnnamedOf(cache') = IF Lru!Find(u, k) # NoPrim THEN Lru!GetCache(u, k)
                          ELSE Lru!Add(u, [key |-> k, id |-> 0, whole |-> TRUE])
  <2>1. CASE Find(cache, k) # NoPrim
    <3>1. UnnamedOf(cache') = Splice(u, u.mapper[k])
      BY <1>1, <2>1, UnnamedSplice
    <3>2. Lru!GetCache(u, k) = Splice(u, u.mapper[k])
      <4>1. Lru!GetCache(u, k) = Lru!Splice(u, u.mapper[k])
        BY <1>2, <1>4, <2>1 DEF Lru!GetCache
      <4>2. QED
        BY <4>1, ZenonT(30) DEF Lru!Splice, Splice
    <3>3. QED
      BY <1>2, <1>4, <2>1, <3>1, <3>2
  <2>2. CASE Find(cache, k) = NoPrim
    <3>1. PICK q \in Primitives : q.key = k /\ cache' = Add(cache, q)
      BY <2>2
    <3>2. UnnamedOf(cache') = Add(u, Unnamed(q))
      BY <1>1, <2>2, <3>1, UnnamedAdd
    <3>3. Unnamed(q) = [key |-> k, id |-> 0, whole |-> TRUE]
      BY <3>1, UnnamedPrimitive
    <3>4. \A x : Lru!Add(u, x) = Add(u, x)
      BY ZenonT(30) DEF Lru!Add, Add, Lru!EmplaceFront, EmplaceFront, Lru!Evict, Evict
    <3>5. QED
      BY <1>2, <1>4, <2>2, <3>2, <3>3, <3>4
  <2>3. QED
    BY <2>1, <2>2
<1>7. QED
  BY <1>3, <1>5, <1>6 DEF Lru!Lookup

(* set_capacity *)
LEMMA ResizeStep ==
  ASSUME MappingInv, HistoryStep, LookedUp = {}, NEW n \in Capacities \cap Nat,
         cache' = SetCapacity(cache, n)
  PROVE  Lru!Resize(n)
<1> DEFINE u == UnnamedOf(cache)
<1>1. Sound(cache)
  BY CacheFacts DEF MappingInv
<1>2. now' = now /\ used' = used
  BY DEF MappingInv, HistoryOK, HistoryStep
<1>3. UnnamedOf(cache)' = SetCapacity(u, n)
  <2>1. UnnamedOf(cache)' = UnnamedOf(cache')
    BY DEF UnnamedOf
  <2>2. QED
    BY <1>1, <2>1, UnnamedSetCapacity
<1>4. Lru!SetCapacity(u, n) = SetCapacity(u, n)
  BY DEF Lru!SetCapacity, SetCapacity, Lru!Evict, Evict
<1>5. QED
  BY <1>2, <1>3, <1>4 DEF Lru!Resize

(* Every step of a thread is a lookup, a change of the capacity, or        *)
(* invisible.                                                              *)
LEMMA ActionImplements ==
  ASSUME MappingInv, HistoryStep, ~torn, NEW t \in Threads, Actions(t)
  PROVE  Lru!Next \/ UNCHANGED Lru!vars
<1> DEFINE nested == Nested[req[t]][todo[t]]
<1>1. /\ CacheInv /\ TypeOK /\ KnowledgeHolds /\ HistoryOK
      /\ Sound(cache) /\ \A k \in Keys : Find(cache, k) = cache.mapper[k]
      /\ pc \in [Threads -> PCs] /\ req[t] \in Keys /\ arg[t] \in Nat /\ made \in Nat
      /\ lost[t] \in BOOLEAN
  BY CacheFacts DEF MappingInv, CacheInv, TypeOK
<1>2. LookedUp = (IF LooksUp(t) THEN {req[t]} ELSE {})
                   \cup (IF LooksUpNested(t) THEN {nested} ELSE {})
  BY <1>1, LookedUpBy, ZenonT(30)
<1>3. ASSUME NEW k \in Keys, Lru!Lookup(k) PROVE Lru!Next
  BY <1>3 DEF Lru!Next
<1> HIDE DEF Threads
<1>4. CASE GetSplice(t)
  <2>1. pc[t] = "splice" /\ pc'[t] = "front"
    BY <1>1, <1>4 DEF GetSplice, Goto
  <2>2. ~LooksUpNested(t) /\ (LooksUp(t) <=> ~torn')
    BY <2>1 DEF LooksUp, LooksUpNested, Moves
  <2>3. CASE torn' = TRUE /\ cache' = cache
    BY <1>1, <1>2, <2>2, <2>3, InvisibleStep
  <2>4. CASE torn' = torn /\ cache' = Splice(cache, p[t])
    <3>1. LookedUp = {req[t]}
      BY <1>2, <2>2, <2>4
    <3>2. p[t] # NoPrim /\ p[t] = cache.mapper[req[t]]
      BY <1>1, <2>1 DEF KnowledgeHolds
    <3>3. Lru!Lookup(req[t])
      BY <1>1, <2>4, <3>1, <3>2, LookupStep
    <3>4. QED
      BY <1>1, <1>3, <3>3
  <2>5. QED
    BY <1>4, <2>3, <2>4 DEF GetSplice
<1>5. CASE CreateRecheck(t)
  <2>1. pc[t] = "recheck" /\ cache' = GetCache(cache, req[t])
        /\ pc'[t] = IF Find(cache, req[t]) = NoPrim THEN "init" ELSE "unlock_write"
    BY <1>1, <1>5 DEF CreateRecheck, Goto
  <2>2. ~LooksUpNested(t) /\ (LooksUp(t) <=> Find(cache, req[t]) # NoPrim)
    BY <2>1 DEF LooksUp, LooksUpNested, Moves
  <2>3. CASE Find(cache, req[t]) = NoPrim
    <3>1. cache' = cache
      BY <2>1, <2>3 DEF GetCache
    <3>2. QED
      BY <1>1, <1>2, <2>2, <2>3, <3>1, InvisibleStep
  <2>4. CASE Find(cache, req[t]) # NoPrim
    <3>1. LookedUp = {req[t]}
      BY <1>2, <2>2, <2>4
    <3>2. cache' = Splice(cache, cache.mapper[req[t]])
      BY <1>1, <2>1, <2>4 DEF GetCache
    <3>3. Lru!Lookup(req[t])
      BY <1>1, <2>4, <3>1, <3>2, LookupStep
    <3>4. QED
      BY <1>1, <1>3, <3>3
  <2>5. QED
    BY <2>3, <2>4
<1>6. CASE InitNested(t)
  <2>1. /\ pc[t] = "init" /\ pc'[t] = "init" /\ todo[t] <= Len(Nested[req[t]])
        /\ todo' = [todo EXCEPT ![t] = @ + 1]
        /\ IF Find(cache, nested) # NoPrim
           THEN cache' = GetCache(cache, nested) /\ made' = made
           ELSE /\ cache' = Add(cache, [key |-> nested, id |-> made, whole |-> TRUE])
                /\ made' = made + 1
    BY <1>1, <1>6 DEF InitNested, Goto
  <2>2. todo \in [Threads -> Nat \ {0}] /\ todo[t] \in Nat \ {0}
    BY <1>1 DEF TypeOK
  <2>3. todo'[t] # todo[t]
    <3>1. t \in DOMAIN todo
      BY <1>1, <2>2
    <3>2. todo'[t] = todo[t] + 1
      BY <2>1, <3>1
    <3>3. QED
      BY <2>2, <3>2, SMTT(30)
  <2>4. nested \in Keys
    <3> DEFINE inner == Nested[req[t]]
    <3>1. inner \in Seq(Keys)
      BY <1>1, NestedAssumption
    <3>2. Len(inner) \in Nat
      BY <3>1, LenProperties
    <3>3. todo[t] <= Len(inner)
      BY <2>1
    <3>4. nested = inner[todo[t]]
      OBVIOUS
    <3> HIDE DEF inner, nested
    <3>5. todo[t] \in 1 .. Len(inner)
      BY <2>2, <3>2, <3>3, SMTT(30)
    <3>6. QED
      BY <3>1, <3>4, <3>5, ElementOfSeq
  <2> HIDE DEF nested
  <2>5. made' # made \/ Find(cache, nested) # NoPrim
    BY <1>1, <2>1, SMTT(30)
  <2>6. LooksUpNested(t) /\ ~LooksUp(t)
    BY <2>1, <2>3, <2>5, ZenonT(30) DEF LooksUp, LooksUpNested, Moves, nested
  <2>7. LookedUp = {nested}
    BY <1>2, <2>6
  <2>8. Lru!Lookup(nested)
    <3>1. CASE Find(cache, nested) # NoPrim
      <4>1. cache' = Splice(cache, cache.mapper[nested])
        BY <1>1, <2>1, <2>4, <3>1 DEF GetCache
      <4>2. QED
        BY <2>4, <2>7, <3>1, <4>1, LookupStep
    <3>2. CASE Find(cache, nested) = NoPrim
      <4> DEFINE q == [key |-> nested, id |-> made, whole |-> TRUE]
      <4>1. q \in Primitives /\ q.key = nested
        BY <1>1, <2>4 DEF Primitives
      <4>2. cache' = Add(cache, q)
        BY <2>1, <3>2, ZenonT(30)
      <4> HIDE DEF q
      <4>3. QED
        BY <2>4, <2>7, <3>2, <4>1, <4>2, LookupStep
    <3>3. QED
      BY <3>1, <3>2
  <2>9. QED
    BY <1>3, <2>4, <2>8
<1>7. CASE CreateAdd(t)
  <2> DEFINE q == [key |-> req[t], id |-> made, whole |-> ~lost[t]]
  <2>1. /\ pc[t] = "init" /\ pc'[t] = "unlock_write" /\ made' = made + 1
        /\ cache' = Add(cache, q)
    BY <1>1, <1>7 DEF CreateAdd, Goto
  <2>2. q \in Primitives /\ q.key = req[t]
    BY <1>1 DEF Primitives
  <2> HIDE DEF q
  <2>3. LooksUp(t) /\ ~LooksUpNested(t)
    BY <1>1, <2>1, SMTT(30) DEF LooksUp, LooksUpNested, Moves
  <2>4. LookedUp = {req[t]}
    BY <1>2, <2>3
  <2>5. Find(cache, req[t]) = NoPrim
    BY <1>1, <2>1 DEF KnowledgeHolds
  <2>6. Lru!Lookup(req[t])
    BY <1>1, <2>1, <2>2, <2>4, <2>5, LookupStep
  <2>7. QED
    BY <1>1, <1>3, <2>6
<1>8. CASE SetCapacityApply(t)
  <2>1. pc[t] = "set" /\ cache' = SetCapacity(cache, arg[t])
    BY <1>1, <1>8 DEF SetCapacityApply, Goto
  <2>2. ~LooksUp(t) /\ ~LooksUpNested(t)
    BY <2>1, ZenonT(30) DEF LooksUp, LooksUpNested, Moves
  <2>3. arg[t] \in Capacities \cap Nat
    BY <1>1, <2>1 DEF MappingInv, ArgsAsked
  <2>4. Lru!Resize(arg[t])
    BY <1>2, <2>1, <2>2, <2>3, ResizeStep
  <2>5. QED
    BY <2>3, <2>4 DEF Lru!Next
<1>9. CASE InitNestedFails(t)
  <2>1. /\ pc[t] = "init" /\ pc'[t] \in {"init", "unlock_write"}
        /\ cache' = cache /\ made' = made /\ Find(cache, nested) = NoPrim
    BY <1>1, <1>9 DEF InitNestedFails
  <2>2. ~LooksUp(t) /\ ~LooksUpNested(t)
    BY <2>1 DEF LooksUp, LooksUpNested, Moves
  <2>3. QED
    BY <1>1, <1>2, <2>1, <2>2, InvisibleStep
<1>10. CASE CreateInitFails(t)
  <2>1. pc[t] = "init" /\ pc'[t] = "unlock_write" /\ cache' = cache /\ made' = made
    BY <1>1, <1>10 DEF CreateInitFails, Goto
  <2>2. ~LooksUp(t) /\ ~LooksUpNested(t)
    BY <2>1 DEF LooksUp, LooksUpNested, Moves
  <2>3. QED
    BY <1>1, <1>2, <2>1, <2>2, InvisibleStep
<1>11. CASE cache' = cache /\ pc[t] \notin {"splice", "recheck", "init"}
  <2>1. ~LooksUp(t) /\ ~LooksUpNested(t)
    BY <1>11 DEF LooksUp, LooksUpNested, Moves
  <2>2. QED
    BY <1>1, <1>2, <1>11, <2>1, InvisibleStep
<1>12. QED
  BY <1>4, <1>5, <1>6, <1>7, <1>8, <1>9, <1>10, <1>11, ZenonT(30)
     DEF Actions, Step, Goto, Create, SetCapacityCall, QueryCall, CreateLockRead, GetFind,
         GetFront, CreateHit, CreateMiss, CreateLockWrite, CreateUnlockWrite,
         SetCapacityLock, QueryLock, QueryReturn

(* The mapping's invariant holds initially and is preserved. *)
LEMMA MappingInvHolds ==
  /\ HistoryInit => MappingInv
  /\ MappingInv /\ [HistoryNext]_<<vars, history>> => MappingInv'
<1>1. HistoryInit => MappingInv
  <2> SUFFICES ASSUME HistoryInit PROVE MappingInv
    OBVIOUS
  <2>1. CacheInv
    BY CacheInvInit DEF HistoryInit
  <2>2. QED
    BY <2>1 DEF HistoryInit, Init, MappingInv, ArgsAsked, HistoryOK
<1>2. MappingInv /\ [HistoryNext]_<<vars, history>> => MappingInv'
  <2> SUFFICES ASSUME MappingInv, [HistoryNext]_<<vars, history>> PROVE MappingInv'
    OBVIOUS
  <2>1. CASE UNCHANGED <<vars, history>>
    <3>1. CacheInv'
      BY <2>1, CacheInvNext DEF MappingInv
    <3>2. QED
      BY <2>1, <3>1 DEF MappingInv, ArgsAsked, HistoryOK, vars, history
  <2>2. CASE HistoryNext
    <3>1. CacheInv'
      BY <2>2, CacheInvNext DEF MappingInv, HistoryNext
    <3>2. HistoryOK'
      BY <2>2, SMTT(30) DEF MappingInv, HistoryOK, HistoryNext
    <3>3. ASSUME NEW t \in Threads, Actions(t) PROVE ArgsAsked'
      <4>1. pc \in [Threads -> PCs] /\ arg \in [Threads -> Nat] /\ ArgsAsked
        BY DEF MappingInv, CacheInv, TypeOK
      <4> HIDE DEF Threads
      <4>2. QED
        <5>1. CASE \E n \in Capacities : SetCapacityCall(t, n)
          BY <4>1, <5>1 DEF SetCapacityCall, Goto, ArgsAsked
        <5>2. CASE SetCapacityLock(t)
          BY <4>1, <5>2 DEF SetCapacityLock, Goto, ArgsAsked, locals
        <5>3. CASE arg' = arg /\ \E x : x \notin {"lock_set", "set"} /\ pc' = [pc EXCEPT ![t] = x]
          BY <4>1, <5>3 DEF ArgsAsked
        <5>4. CASE InitNestedFails(t)
          BY <4>1, <5>4 DEF InitNestedFails, ArgsAsked
        <5>5. QED
          BY <3>3, <5>1, <5>2, <5>3, <5>4, ZenonT(60) DEF Actions, Goto, Step, Create, QueryCall,
             locals, CreateLockRead, GetFind, GetSplice, GetFront, CreateHit, CreateMiss,
             CreateLockWrite, CreateRecheck, InitNested, CreateAdd,
             CreateInitFails, CreateUnlockWrite, SetCapacityApply,
             QueryLock, QueryReturn
    <3>4. ArgsAsked'
      <4>1. CASE Stopped
        BY <4>1 DEF Stopped, vars, MappingInv, ArgsAsked
      <4>2. CASE \E t \in Threads : Call(t) \/ Step(t)
        BY <3>3, <4>2 DEF Call, Actions
      <4>3. QED
        BY <2>2, <4>1, <4>2 DEF HistoryNext, Next
    <3>5. QED
      BY <3>1, <3>2, <3>4 DEF MappingInv
  <2>3. QED
    BY <2>1, <2>2
<1>3. QED
  BY <1>1, <1>2

(* The concurrent cache, with any number of threads, keys and capacities,  *)
(* implements the replacement policy, as long as no two splices overlap:   *)
(* create_primitive_common as a whole is one lookup, also where an init()  *)
(* fails or ignores that a nested creation failed.                         *)
THEOREM CacheImplementsLru == HistorySpec => ImplementsLru
<1>1. HistoryInit => Lru!Init
  <2> SUFFICES ASSUME HistoryInit PROVE Lru!Init
    OBVIOUS
  <2>1. PICK n \in Capacities : cache = EmptyCache(n)
    BY DEF HistoryInit, Init
  <2>2. UnnamedOf(cache) = Lru!EmptyCache(n)
    <3>1. n \in Int
      BY CapacitiesAssumption
    <3>2. Sound(cache) /\ cache.list = << >> /\ \A k \in Keys : cache.mapper[k] = NoPrim
      BY <2>1, <3>1, EmptyCacheSound DEF EmptyCache
    <3>3. Sound(UnnamedOf(cache)) /\ UnnamedOf(cache).capacity = cache.capacity
          /\ Len(UnnamedOf(cache).list) = Len(cache.list)
          /\ \A k \in Keys : UnnamedOf(cache).mapper[k] = NoPrim
      BY <3>2, UnnamedSound
    <3>4. Len(cache.list) = 0
      BY <3>2, SMTT(30)
    <3>5. UnnamedOf(cache) = cache
      <4>1. \A i \in 1 .. Len(UnnamedOf(cache).list) : UnnamedOf(cache).list[i] = cache.list[i]
        BY <3>3, <3>4, SMTT(30)
      <4>2. \A k \in Keys : UnnamedOf(cache).mapper[k] = cache.mapper[k]
        BY <3>2, <3>3
      <4>3. QED
        BY <3>2, <3>3, <4>1, <4>2, SameCache DEF Sound
    <3>6. QED
      BY <2>1, <3>5 DEF Lru!EmptyCache, EmptyCache
  <2>3. QED
    BY <2>1, <2>2 DEF HistoryInit, Lru!Init
<1>2. MappingInv /\ [HistoryNext]_<<vars, history>> => [Lru!Next]_(Lru!vars)
  <2> SUFFICES ASSUME MappingInv, [HistoryNext]_<<vars, history>>
               PROVE  Lru!Next \/ UNCHANGED Lru!vars
    OBVIOUS
  <2>1. CASE UNCHANGED <<vars, history>>
    BY <2>1 DEF vars, history, Lru!vars, UnnamedOf
  <2>2. CASE HistoryNext
    <3>1. HistoryStep
      BY <2>2 DEF HistoryNext, HistoryStep
    <3>2. CASE Stopped
      <4>1. cache' = cache /\ pc' = pc /\ todo' = todo
        BY <3>2 DEF Stopped, vars
      <4>2. LookedUp = {}
        BY <4>1 DEF LookedUp, LooksUp, LooksUpNested, Moves
      <4>3. QED
        BY <3>1, <4>1, <4>2, InvisibleStep DEF MappingInv
    <3>3. CASE ~torn /\ \E t \in Threads : Call(t) \/ Step(t)
      <4>1. PICK t \in Threads : Call(t) \/ Step(t)
        BY <3>3
      <4>2. Actions(t)
        BY <4>1 DEF Call, Actions
      <4>3. QED
        BY <3>1, <3>3, <4>2, ActionImplements
    <3>4. QED
      BY <2>2, <3>2, <3>3 DEF HistoryNext, Next
  <2>3. QED
    BY <2>1, <2>2
<1>3. QED
  BY <1>1, <1>2, MappingInvHolds, PTL DEF HistorySpec, ImplementsLru, Lru!Spec

-----------------------------------------------------------------------------
(* The invariant of the policy: the list is in the order of last use. *)
PolicyKept == Policy(UnnamedOf(cache), now, used)

(* A lookup keeps it, and what it evicts was used before what stays. *)
LEMMA PolicyLookup ==
  ASSUME PolicyKept, NEW k \in Keys, Lru!Lookup(k)
  PROVE  /\ PolicyKept'
         /\ \A x, y \in Keys :
              /\ UnnamedOf(cache).mapper[x] # NoPrim /\ UnnamedOf(cache)'.mapper[x] = NoPrim
              /\ UnnamedOf(cache).mapper[y] # NoPrim /\ UnnamedOf(cache)'.mapper[y] # NoPrim
              => used[x] < used'[y]
<1> DEFINE c == UnnamedOf(cache)
           d == UnnamedOf(cache)'
           new == [key |-> k, id |-> 0, whole |-> TRUE]
<1>1. /\ Policy(c, now, used) /\ Sound(c) /\ WithinCapacity(c)
      /\ now \in Nat /\ used \in [Keys -> Nat] /\ \A l \in Keys : used[l] <= now
  BY DEF PolicyKept, Policy
<1>2. /\ now' = now + 1 /\ used' = [used EXCEPT ![k] = now + 1]
      /\ d = IF Lru!Find(c, k) # NoPrim THEN Lru!GetCache(c, k) ELSE Lru!Add(c, new)
  BY DEF Lru!Lookup
<1>3. PolicyKept' <=> Policy(d, now', used')
  BY DEF PolicyKept
<1>4. new \in Primitives /\ new.key = k
  BY DEF Primitives
<1>5. Lru!Find(c, k) = Find(c, k)
  BY DEF Lru!Find, Find
<1>6. Lru!Add(c, new) = Add(c, new)
  BY ZenonT(30) DEF Lru!Add, Add, Lru!EmplaceFront, EmplaceFront, Lru!Evict, Evict
<1>7. Lru!GetCache(c, k) = GetCache(c, k)
  <2>1. \A x : Lru!Splice(c, x) = Splice(c, x)
    BY ZenonT(30) DEF Lru!Splice, Splice
  <2>2. QED
    BY <1>5, <2>1 DEF Lru!GetCache, GetCache
<1> HIDE DEF c, d, new
<1>8. Find(c, k) = c.mapper[k]
  BY <1>1, FindIsMapped
<1>9. used' \in [Keys -> Nat] /\ now' \in Nat /\ \A l \in Keys : used'[l] <= now'
  BY <1>1, <1>2, SMTT(30)
<1>10. CASE c.mapper[k] # NoPrim
  <2>1. d = GetCache(c, k)
    BY <1>2, <1>5, <1>7, <1>8, <1>10
  <2>2. Sound(d) /\ WithinCapacity(d) /\ InOrder(d, used') /\ d.mapper = c.mapper
    <3>1. Policy(c, now, used) /\ used' = [used EXCEPT ![k] = now + 1]
      BY <1>1, <1>2
    <3>2. QED
      BY <1>10, <2>1, <3>1, HitInOrder
  <2>3. Policy(d, now', used')
    BY <1>9, <2>2 DEF Policy
  <2>4. QED
    BY <1>3, <2>2, <2>3 DEF c, d
<1>11. CASE c.mapper[k] = NoPrim
  <2>1. d = Add(c, new)
    BY <1>2, <1>5, <1>6, <1>8, <1>11
  <2>2. Sound(d) /\ WithinCapacity(d) /\ InOrder(d, used')
    BY <1>1, <1>2, <1>4, <1>11, <2>1, MissInOrder
  <2>3. Policy(d, now', used')
    BY <1>9, <2>2 DEF Policy
  <2>4. ASSUME NEW x \in Keys, NEW y \in Keys,
               c.mapper[x] # NoPrim, d.mapper[x] = NoPrim, c.mapper[y] # NoPrim, d.mapper[y] # NoPrim
        PROVE  used[x] < used'[y]
    BY <1>1, <1>2, <1>4, <1>11, <2>1, <2>4, MissEvicts, SMTT(30)
  <2>5. QED
    BY <1>3, <2>3, <2>4 DEF c, d
<1>12. QED
  BY <1>10, <1>11

(* A change of the capacity keeps it, and evicts in the same way. *)
LEMMA PolicyResize ==
  ASSUME PolicyKept, NEW n \in Nat, Lru!Resize(n)
  PROVE  /\ PolicyKept'
         /\ \A x, y \in Keys :
              /\ UnnamedOf(cache).mapper[x] # NoPrim /\ UnnamedOf(cache)'.mapper[x] = NoPrim
              /\ UnnamedOf(cache).mapper[y] # NoPrim /\ UnnamedOf(cache)'.mapper[y] # NoPrim
              => used[x] < used'[y]
<1> DEFINE c == UnnamedOf(cache)
           d == UnnamedOf(cache)'
<1>1. Policy(c, now, used) /\ (PolicyKept' <=> Policy(d, now', used'))
  BY DEF PolicyKept
<1>2. d = SetCapacity(c, n) /\ now' = now /\ used' = used
  BY DEF Lru!Resize, Lru!SetCapacity, SetCapacity, Lru!Evict, Evict
<1> HIDE DEF c, d
<1>3. Sound(d) /\ WithinCapacity(d) /\ InOrder(d, used)
  BY <1>1, <1>2, ResizeInOrder
<1>4. Policy(d, now', used')
  BY <1>1, <1>2, <1>3 DEF Policy
<1>5. ASSUME NEW x \in Keys, NEW y \in Keys,
             c.mapper[x] # NoPrim, d.mapper[x] = NoPrim, c.mapper[y] # NoPrim, d.mapper[y] # NoPrim
      PROVE  used[x] < used'[y]
  BY <1>1, <1>2, <1>5, ResizeEvicts
<1>6. QED
  BY <1>1, <1>4, <1>5 DEF c, d

(* Whoever follows the policy evicts the least recently used: the list,    *)
(* which the code never sorts, is in the order of last use, and evict()    *)
(* drops from its end.                                                     *)
THEOREM LruEviction == ImplementsLru => []PolicyKept /\ EvictsLeastRecent
<1> DEFINE A == \A k, l \in Keys :
                  Lru!Cached(k) /\ ~Lru!Cached(k)' /\ Lru!Cached(l) /\ Lru!Cached(l)'
                     => used[k] < used'[l]
<1>1. Lru!Init => PolicyKept
  <2> SUFFICES ASSUME Lru!Init PROVE PolicyKept
    OBVIOUS
  <2>1. PICK n \in Int : UnnamedOf(cache) = EmptyCache(n)
    BY CapacitiesAssumption DEF Lru!Init, Lru!EmptyCache, EmptyCache
  <2>2. Sound(UnnamedOf(cache)) /\ WithinCapacity(UnnamedOf(cache)) /\ Len(UnnamedOf(cache).list) = 0
    <3>1. Len(EmptyCache(n).list) = 0
      BY DEF EmptyCache
    <3>2. QED
      BY <2>1, <3>1, EmptyCacheSound
  <2>3. now = 0 /\ used = [k \in Keys |-> 0]
    BY DEF Lru!Init
  <2>4. QED
    BY <2>2, <2>3, SMTT(30) DEF PolicyKept, Policy, InOrder
<1>2. PolicyKept /\ [Lru!Next]_(Lru!vars) => PolicyKept' /\ [A]_(Lru!vars)
  <2> SUFFICES ASSUME PolicyKept, [Lru!Next]_(Lru!vars)
               PROVE  PolicyKept' /\ (A \/ UNCHANGED Lru!vars)
    OBVIOUS
  <2>1. CASE UNCHANGED Lru!vars
    BY <2>1 DEF Lru!vars, PolicyKept
  <2>2. ASSUME NEW k \in Keys, Lru!Lookup(k) PROVE PolicyKept' /\ A
    BY <2>2, PolicyLookup DEF Lru!Cached
  <2>3. ASSUME NEW n \in Capacities \cap Nat, Lru!Resize(n) PROVE PolicyKept' /\ A
    BY <2>3, PolicyResize DEF Lru!Cached
  <2>4. QED
    BY <2>1, <2>2, <2>3 DEF Lru!Next
<1>3. QED
  BY <1>1, <1>2, PTL DEF ImplementsLru, Lru!Spec, EvictsLeastRecent, Lru!EvictsLeastRecent

(* Threads that create primitives at once evict the least recently used    *)
(* ("The cache uses LRU replacement policy"): an entry that goes was last  *)
(* looked up, by whichever thread, before every entry that stays.          *)
THEOREM ThreadsEvictLeastRecent == HistorySpec => EvictsLeastRecent
BY CacheImplementsLru, LruEviction, PTL
=============================================================================
