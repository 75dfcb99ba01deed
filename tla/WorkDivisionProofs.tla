------------------------- MODULE WorkDivisionProofs -------------------------
(***************************************************************************)
(* The ways in which the library divides work between threads leave        *)
(* nothing out and give nothing to two threads, for every size and team:   *)
(* balance211, partition_1d of the GEMM driver, and the groups, jobs and   *)
(* buffers of the reducers.                                                *)
(*                                                                         *)
(* balance211: with q the smaller share and T1 the number of threads that  *)
(* get one item more, thread t starts at t * q + min(t, T1); everything    *)
(* follows from that form.                                                 *)
(***************************************************************************)
EXTENDS GemmThreading, ReduceBalancer, TLAPS

(* What integer division promises. *)
LEMMA DivFacts ==
    ASSUME NEW a \in Nat, NEW b \in Nat \ {0}
    PROVE  /\ a \div b \in Nat
           /\ (a \div b) * b <= a
           /\ a < (a \div b) * b + b
  BY SMTT(30)

(* A larger factor gives a larger product. *)
LEMMA TimesMonotone ==
    ASSUME NEW a \in Nat, NEW b \in Nat, NEW q \in Nat, a <= b
    PROVE  a * q <= b * q
  BY SMTT(30)

(* One more of a factor. *)
LEMMA TimesSucc ==
    ASSUME NEW a \in Nat, NEW q \in Nat
    PROVE  (a + 1) * q = a * q + q /\ a * q \in Nat
  BY SMTT(30)

(* What the remainder of a division promises. *)
LEMMA ModFacts ==
    ASSUME NEW a \in Nat, NEW b \in Nat \ {0}
    PROVE  /\ a \div b \in Nat
           /\ a % b \in 0 .. b - 1
           /\ a = (a \div b) * b + (a % b)
  BY SMTT(30)

(* There is only one quotient and one remainder. *)
LEMMA DivModUnique ==
  ASSUME NEW q \in Nat, NEW b \in Nat \ {0}, NEW r \in 0 .. b - 1, NEW j \in Nat,
         j = q * b + r
  PROVE  j \div b = q /\ j % b = r
BY SMTT(30)

(* The number of items in front of item <<x, y>>. *)
LEMMA PlaceBelow ==
  ASSUME NEW a \in Nat, NEW b \in Nat \ {0}, NEW x \in 0 .. a - 1, NEW y \in 0 .. b - 1
  PROVE  x * b + y \in 0 .. a * b - 1
<1>1. (x + 1) * b <= a * b
  BY TimesMonotone
<1>2. (x + 1) * b = x * b + b /\ x * b \in Nat /\ a * b \in Nat
  BY SMTT(30)
<1> DEFINE p == x * b
           w == a * b
<1> HIDE DEF p, w
<1>3. p + b <= w /\ p \in Nat /\ w \in Nat
  BY <1>1, <1>2 DEF p, w
<1>4. p + y \in 0 .. w - 1
  BY <1>3
<1>5. QED
  BY <1>4 DEF p, w

(* The quotient of a place inside the shape is an index. *)
LEMMA QuotientBelow ==
  ASSUME NEW a \in Nat, NEW b \in Nat \ {0}, NEW j \in 0 .. a * b - 1
  PROVE  j \div b \in 0 .. a - 1
<1>1. j \in Nat /\ a * b \in Nat
  OBVIOUS
<1>2. j \div b \in Nat /\ (j \div b) * b <= j
  BY <1>1, DivFacts
<1>3. SUFFICES ASSUME a <= j \div b PROVE FALSE
  BY <1>2
<1>4. a * b <= (j \div b) * b
  BY <1>2, <1>3, TimesMonotone
<1>5. (j \div b) * b \in Nat
  BY <1>2
<1>6. QED
  BY <1>1, <1>2, <1>4, <1>5

(* The smaller share and the number of threads with one item more. *)
Small(n, team) == DivUp(n, team) - 1
Large(n, team) == n - Small(n, team) * team

(* At least one thread has the larger share, and at most all. *)
LEMMA ShareFacts ==
    ASSUME NEW n \in Nat \ {0}, NEW team \in Nat \ {0}
    PROVE  /\ Small(n, team) \in Nat
           /\ Large(n, team) \in 1 .. team
           /\ n = Small(n, team) * team + Large(n, team)
<1> DEFINE d == DivUp(n, team)
<1>1. /\ n + team - 1 \in Nat
      /\ d = (n + team - 1) \div team
  BY DEF DivUp
<1>2. d \in Nat /\ d * team <= n + team - 1 /\ n + team - 1 < d * team + team
  BY <1>1, DivFacts
<1> HIDE DEF d
<1>3. d # 0
  BY <1>2, SMTT(30)
<1>4. (d - 1) * team = d * team - team
  BY <1>2, SMTT(30)
<1>5. Small(n, team) = d - 1 /\ d * team \in Nat
  BY <1>2, SMTT(30) DEF Small, d
<1>6. Large(n, team) = n - (d * team - team)
  BY <1>4, <1>5 DEF Large
<1>7. Small(n, team) * team = d * team - team
  BY <1>4, <1>5
<1> QED
  BY <1>2, <1>3, <1>5, <1>6, <1>7, SMTT(30)

(* The closed form of a thread's share. *)
LEMMA ShareForm ==
    ASSUME NEW n \in Nat \ {0}, NEW team \in Nat, team > 1,
           NEW tid \in 0 .. team - 1
    PROVE  LET q == Small(n, team)
               T1 == Large(n, team)
               b == Balance211(n, team, tid)
           IN /\ b.start = tid * q + Lower(tid, T1)
              /\ b.end = (tid + 1) * q + Lower(tid + 1, T1)
<1> DEFINE q == Small(n, team)
           T1 == Large(n, team)
           b == Balance211(n, team, tid)
<1>1. q \in Nat /\ T1 \in 1 .. team
  BY ShareFacts
<1>2. /\ DivUp(n, team) = q + 1
      /\ DivUp(n, team) - 1 = q
      /\ n - (DivUp(n, team) - 1) * team = T1
  <2>1. DivUp(n, team) \in Int
    <3>1. n + team - 1 \in Nat
      OBVIOUS
    <3> QED
      BY <3>1, DivFacts DEF DivUp
  <2> QED
    BY <2>1 DEF Small, Large
<1>3. /\ b.start = IF tid <= T1 THEN tid * (q + 1) ELSE T1 * (q + 1) + (tid - T1) * q
      /\ b.end = b.start + Share(tid, T1, q + 1)
  BY <1>2 DEF Balance211
<1> HIDE DEF q, T1, b
<1>4. /\ tid * (q + 1) = tid * q + tid
      /\ T1 * (q + 1) + (tid - T1) * q = tid * q + T1
      /\ (tid + 1) * q = tid * q + q
      /\ tid * q \in Nat
  BY <1>1, SMTT(30)
<1>5. b.start = tid * q + Lower(tid, T1)
  BY <1>1, <1>3, <1>4 DEF Lower
<1>6. b.end = (tid + 1) * q + Lower(tid + 1, T1)
  BY <1>1, <1>3, <1>4, <1>5 DEF Lower, Share
<1> QED
  BY <1>5, <1>6 DEF q, T1, b

(* The shares follow one another without gap or overlap, the first starts  *)
(* at 0 and the last ends at n (balance211, dnnl_thread.hpp).              *)
THEOREM SharesContiguous ==
    ASSUME NEW n \in Nat \ {0}, NEW team \in Nat, team > 1
    PROVE  /\ Balance211(n, team, 0).start = 0
           /\ Balance211(n, team, team - 1).end = n
           /\ \A t \in 0 .. team - 2 :
                Balance211(n, team, t).end = Balance211(n, team, t + 1).start
<1> DEFINE q == Small(n, team)
           T1 == Large(n, team)
<1>1. q \in Nat /\ T1 \in 1 .. team /\ n = q * team + T1
  BY ShareFacts
<1>2. \A t \in 0 .. team - 1 :
        /\ Balance211(n, team, t).start = t * q + Lower(t, T1)
        /\ Balance211(n, team, t).end = (t + 1) * q + Lower(t + 1, T1)
  BY ShareForm
<1> HIDE DEF q, T1
<1>3. Balance211(n, team, 0).start = 0
  BY <1>1, <1>2 DEF Lower
<1>4. Balance211(n, team, team - 1).end = n
  <2>1. Balance211(n, team, team - 1).end = (team - 1 + 1) * q + Lower(team - 1 + 1, T1)
    BY <1>2
  <2>2. team - 1 + 1 = team /\ team * q = q * team
    BY <1>1
  <2>3. Lower(team, T1) = T1
    BY <1>1 DEF Lower
  <2> QED
    BY <1>1, <2>1, <2>2, <2>3
<1>5. ASSUME NEW t \in 0 .. team - 2
      PROVE  Balance211(n, team, t).end = Balance211(n, team, t + 1).start
  BY <1>2
<1> QED
  BY <1>3, <1>4, <1>5

(* No item belongs to two threads: a thread with a larger number starts    *)
(* where a smaller one has ended, or later (balance211).                   *)
THEOREM SharesDisjoint ==
    ASSUME NEW n \in Nat \ {0}, NEW team \in Nat, team > 1,
           NEW t \in 0 .. team - 1, NEW u \in 0 .. team - 1, t < u
    PROVE  Balance211(n, team, t).end <= Balance211(n, team, u).start
<1> DEFINE q == Small(n, team)
           T1 == Large(n, team)
<1>1. q \in Nat /\ T1 \in 1 .. team
  BY ShareFacts
<1>2. /\ Balance211(n, team, t).end = (t + 1) * q + Lower(t + 1, T1)
      /\ Balance211(n, team, u).start = u * q + Lower(u, T1)
  BY ShareForm
<1> HIDE DEF q, T1
<1>3. (t + 1) * q <= u * q
  BY <1>1, TimesMonotone
<1>4. Lower(t + 1, T1) <= Lower(u, T1) /\ Lower(t + 1, T1) \in Int /\ Lower(u, T1) \in Int
  BY <1>1 DEF Lower
<1>5. (t + 1) * q \in Int /\ u * q \in Int
  BY <1>1
<1> QED
  BY <1>2, <1>3, <1>4, <1>5

(* Every item belongs to some thread (balance211): the thread is found by  *)
(* dividing by the larger share below T1 * (q + 1), by the smaller above.  *)
THEOREM SharesCover ==
    ASSUME NEW n \in Nat \ {0}, NEW team \in Nat, team > 1, NEW i \in 0 .. n - 1
    PROVE  \E t \in 0 .. team - 1 :
             i \in Balance211(n, team, t).start .. Balance211(n, team, t).end - 1
<1> DEFINE q == Small(n, team)
           T1 == Large(n, team)
           m == T1 * (q + 1)
<1>1. q \in Nat /\ T1 \in 1 .. team /\ n = q * team + T1
  BY ShareFacts
<1>2. ASSUME NEW t \in 0 .. team - 1,
             t * q + Lower(t, T1) <= i, i < (t + 1) * q + Lower(t + 1, T1)
      PROVE  i \in Balance211(n, team, t).start .. Balance211(n, team, t).end - 1
  <2>1. /\ Balance211(n, team, t).start = t * q + Lower(t, T1)
        /\ Balance211(n, team, t).end = (t + 1) * q + Lower(t + 1, T1)
    BY ShareForm
  <2> HIDE DEF q, T1
  <2>2. t * q + Lower(t, T1) \in Int /\ (t + 1) * q + Lower(t + 1, T1) \in Int
    BY <1>1 DEF Lower
  <2> QED
    BY <1>2, <2>1, <2>2
<1> HIDE DEF q, T1
<1>3. m \in Nat
  BY <1>1
<1>4. CASE i < m
  <2> DEFINE t == i \div (q + 1)
  <2>1. t \in Nat /\ t * (q + 1) <= i /\ i < t * (q + 1) + (q + 1)
    <3>1. i \in Nat /\ q + 1 \in Nat \ {0}
      BY <1>1
    <3> QED
      BY <3>1, DivFacts
  <2> HIDE DEF t
  <2>2. t < T1
    <3>1. SUFFICES ASSUME T1 <= t PROVE FALSE
      BY <1>1, <2>1
    <3>2. T1 * (q + 1) <= t * (q + 1)
      BY <1>1, <2>1, <3>1, TimesMonotone
    <3> QED
      BY <1>1, <1>3, <1>4, <2>1, <3>2
  <2>3. t * (q + 1) = t * q + t /\ (t + 1) * q = t * q + q /\ t * q \in Nat
    BY <1>1, <2>1
  <2>4. t * q + Lower(t, T1) <= i /\ i < (t + 1) * q + Lower(t + 1, T1)
    BY <1>1, <2>1, <2>2, <2>3 DEF Lower
  <2> QED
    BY <1>1, <1>2, <2>1, <2>2, <2>4
<1>5. CASE m <= i
  <2> DEFINE t == T1 + (i - m) \div q
  <2>1. m = T1 * q + T1 /\ n = team * q + T1
    BY <1>1
  <2>2. q # 0
    BY <1>1, <1>5, <2>1
  <2>3. /\ (i - m) \div q \in Nat
        /\ ((i - m) \div q) * q <= i - m
        /\ i - m < ((i - m) \div q) * q + q
    BY <1>1, <1>3, <1>5, <2>2, DivFacts
  <2>4. t \in Nat /\ t >= T1 /\ t * q = T1 * q + ((i - m) \div q) * q
    BY <1>1, <2>3
  <2>5. t * q + T1 <= i /\ i < t * q + q + T1
    <3>1. T1 * q \in Nat /\ ((i - m) \div q) * q \in Nat
      BY <1>1, <2>3
    <3> HIDE DEF t, m
    <3> QED
      BY <1>1, <1>3, <2>1, <2>3, <2>4, <3>1
  <2> HIDE DEF t
  <2>6. t < team
    <3>1. SUFFICES ASSUME team <= t PROVE FALSE
      BY <2>4
    <3>2. team * q <= t * q
      BY <1>1, <2>4, <3>1, TimesMonotone
    <3>3. team * q \in Nat /\ t * q \in Nat
      BY <1>1, <2>4
    <3> QED
      BY <1>1, <2>1, <2>5, <3>2, <3>3
  <2>7. (t + 1) * q = t * q + q
    BY <1>1, <2>4
  <2>8. t * q + Lower(t, T1) <= i /\ i < (t + 1) * q + Lower(t + 1, T1)
    BY <1>1, <2>4, <2>5, <2>7 DEF Lower
  <2> QED
    BY <1>2, <2>4, <2>6, <2>8
<1> QED
  BY <1>3, <1>4, <1>5

(* The shares of balance211 for any team, of one thread included, and for  *)
(* no work: inside the work, apart from each other, and leaving nothing    *)
(* out.                                                                    *)
LEMMA TeamShares ==
  ASSUME NEW w \in Nat, NEW n \in Nat \ {0}
  PROVE  /\ \A i \in 0 .. n - 1 :
               /\ Balance211(w, n, i).start \in Nat /\ Balance211(w, n, i).end \in Nat
               /\ Balance211(w, n, i).start <= Balance211(w, n, i).end
               /\ Balance211(w, n, i).end <= w
         /\ \A i, k \in 0 .. n - 1 : i < k =>
               Balance211(w, n, i).end <= Balance211(w, n, k).start
         /\ \A j \in 0 .. w - 1 : \E i \in 0 .. n - 1 :
               Balance211(w, n, i).start <= j /\ j < Balance211(w, n, i).end
<1>1. CASE n = 1 \/ w = 0
  <2>1. \A i : Balance211(w, n, i) = [start |-> 0, end |-> w]
    BY <1>1 DEF Balance211
  <2>2. \A i : Balance211(w, n, i).start = 0 /\ Balance211(w, n, i).end = w
    BY <2>1
  <2>3. \A i, k \in 0 .. n - 1 : i < k => w = 0
    BY <1>1
  <2>4. ASSUME NEW i \in 0 .. n - 1, NEW k \in 0 .. n - 1, i < k
        PROVE  Balance211(w, n, i).end <= Balance211(w, n, k).start
    BY <2>2, <2>3, <2>4
  <2>5. ASSUME NEW j \in 0 .. w - 1
        PROVE  \E i \in 0 .. n - 1 : Balance211(w, n, i).start <= j /\ j < Balance211(w, n, i).end
    <3>1. 0 \in 0 .. n - 1 /\ 0 <= j /\ j < w
      OBVIOUS
    <3>2. QED
      BY <2>2, <3>1
  <2>6. QED
    BY <2>2, <2>4, <2>5
<1>2. CASE n > 1 /\ w # 0
  <2>1. ASSUME NEW i \in 0 .. n - 1
        PROVE  /\ Balance211(w, n, i).start \in Nat /\ Balance211(w, n, i).end \in Nat
               /\ Balance211(w, n, i).start <= Balance211(w, n, i).end
    <3> DEFINE q == Small(w, n)
               l == Large(w, n)
    <3>1. q \in Nat /\ l \in 1 .. n
      BY <1>2, ShareFacts
    <3>2. /\ Balance211(w, n, i).start = i * q + Lower(i, l)
          /\ Balance211(w, n, i).end = (i + 1) * q + Lower(i + 1, l)
      BY <1>2, ShareForm
    <3> HIDE DEF q, l
    <3>3. (i + 1) * q = i * q + q /\ i * q \in Nat
      BY <3>1
    <3>4. Lower(i, l) \in Nat /\ Lower(i + 1, l) \in Nat /\ Lower(i, l) <= Lower(i + 1, l)
      BY <3>1 DEF Lower
    <3>5. QED
      BY <3>1, <3>2, <3>3, <3>4
  <2>2. ASSUME NEW i \in 0 .. n - 1, NEW k \in 0 .. n - 1, i < k
        PROVE  Balance211(w, n, i).end <= Balance211(w, n, k).start
    BY <1>2, <2>2, SharesDisjoint
  <2>3. ASSUME NEW i \in 0 .. n - 1
        PROVE  Balance211(w, n, i).end <= w
    <3>1. Balance211(w, n, n - 1).end = w
      BY <1>2, SharesContiguous
    <3>2. CASE i = n - 1
      BY <3>1, <3>2
    <3>3. CASE i < n - 1
      <4>1. Balance211(w, n, i).end <= Balance211(w, n, n - 1).start
        BY <2>2, <3>3
      <4>2. /\ Balance211(w, n, n - 1).start \in Nat /\ Balance211(w, n, i).end \in Nat
            /\ Balance211(w, n, n - 1).start <= Balance211(w, n, n - 1).end
        BY <2>1
      <4>3. QED
        BY <3>1, <4>1, <4>2
    <3>4. QED
      BY <3>2, <3>3
  <2>4. ASSUME NEW j \in 0 .. w - 1
        PROVE  \E i \in 0 .. n - 1 : Balance211(w, n, i).start <= j /\ j < Balance211(w, n, i).end
    <3>1. PICK i \in 0 .. n - 1 :
             j \in Balance211(w, n, i).start .. Balance211(w, n, i).end - 1
      BY <1>2, SharesCover
    <3>2. Balance211(w, n, i).start \in Nat /\ Balance211(w, n, i).end \in Nat
      BY <2>1
    <3>3. QED
      BY <3>1, <3>2
  <2>5. QED
    BY <2>1, <2>2, <2>3, <2>4
<1>3. QED
  BY <1>1, <1>2

(* The same shares one after another: from 0 to the end of the work, and   *)
(* with no more threads than work nobody is without a share.               *)
LEMMA SharesInOrder ==
  ASSUME NEW w \in Nat \ {0}, NEW n \in Nat \ {0}
  PROVE  /\ Balance211(w, n, 0).start = 0
         /\ Balance211(w, n, n - 1).end = w
         /\ \A i \in 0 .. n - 2 : Balance211(w, n, i).end = Balance211(w, n, i + 1).start
         /\ n <= w => \A i \in 0 .. n - 1 : Balance211(w, n, i).start < Balance211(w, n, i).end
<1>1. CASE n = 1
  <2>1. \A i : Balance211(w, n, i).start = 0 /\ Balance211(w, n, i).end = w
    BY <1>1 DEF Balance211
  <2>2. 0 .. n - 2 = {}
    BY <1>1
  <2> QED
    BY <2>1, <2>2
<1>2. CASE n > 1
  <2>1. ASSUME n <= w, NEW i \in 0 .. n - 1
        PROVE  Balance211(w, n, i).start < Balance211(w, n, i).end
    <3> DEFINE q == Small(w, n)
               l == Large(w, n)
    <3>1. q \in Nat /\ l \in 1 .. n /\ w = q * n + l
      BY <1>2, ShareFacts
    <3>2. /\ Balance211(w, n, i).start = i * q + Lower(i, l)
          /\ Balance211(w, n, i).end = (i + 1) * q + Lower(i + 1, l)
      BY <1>2, ShareForm
    <3> HIDE DEF q, l
    <3>3. (i + 1) * q = i * q + q /\ i * q \in Nat
      BY <3>1, TimesSucc
    <3>4. q = 0 => l = n
      <4>1. q = 0 => w = l
        BY <3>1
      <4> QED
        BY <2>1, <3>1, <4>1
    <3>5. Lower(i, l) \in Nat /\ Lower(i + 1, l) \in Nat /\ Lower(i, l) <= Lower(i + 1, l)
          /\ (l = n => Lower(i, l) < Lower(i + 1, l))
      BY <3>1 DEF Lower
    <3> QED
      BY <3>1, <3>2, <3>3, <3>4, <3>5
  <2> QED
    BY <1>2, <2>1, SharesContiguous
<1> QED
  BY <1>1, <1>2

-----------------------------------------------------------------------------
(* partition_1d of the GEMM driver: the size that all bands but the last   *)
(* have.                                                                   *)
BandSize(nthrs, n) ==
    LET q == n \div nthrs IN IF n - (nthrs - 1) * q > q + 1 THEN q + 1 ELSE q

InBand(i, ithr, nthrs, n) ==
    LET b == Partition1d(ithr, nthrs, n) IN i \in b.off .. b.off + b.size - 1

(* The common size is a natural number. *)
LEMMA BandSizeNat ==
    ASSUME NEW n \in Nat, NEW nthrs \in Nat \ {0}
    PROVE  BandSize(nthrs, n) \in Nat
<1>1. n \div nthrs \in Nat
  BY DivFacts
<1> QED
  BY <1>1 DEF BandSize

(* The items of a band: those from its offset on, up to the next band's    *)
(* offset or, for the last thread, to the end.                             *)
LEMMA BandForm ==
    ASSUME NEW n \in Nat, NEW nthrs \in Nat \ {0}, NEW ithr \in 0 .. nthrs - 1,
           NEW i \in 0 .. n - 1
    PROVE  InBand(i, ithr, nthrs, n) <=>
             /\ ithr * BandSize(nthrs, n) <= i
             /\ ithr < nthrs - 1 => i < (ithr + 1) * BandSize(nthrs, n)
<1> DEFINE band == BandSize(nthrs, n)
           off == ithr * band
           size == IF ithr < nthrs - 1 THEN band ELSE n - (nthrs - 1) * band
<1>1. band \in Nat
  BY BandSizeNat
<1>2. Partition1d(ithr, nthrs, n) =
        IF off >= n THEN [off |-> 0, size |-> 0]
        ELSE [off |-> off, size |-> Smaller(size, n - off)]
  BY DEF Partition1d, BandSize
<1> HIDE DEF band
<1>3. off \in Nat /\ size \in Int /\ (ithr + 1) * band = off + band
  BY <1>1, SMTT(30)
<1>4. ithr >= nthrs - 1 => (nthrs - 1) * band = off
  BY <1>1
<1> HIDE DEF off
<1>5. InBand(i, ithr, nthrs, n) <=> /\ off <= i
                                    /\ ithr < nthrs - 1 => i < off + band
  <2>1. CASE off >= n
    BY <1>1, <1>2, <1>3, <2>1 DEF InBand
  <2>2. CASE off < n
    <3>1. Partition1d(ithr, nthrs, n) = [off |-> off, size |-> Smaller(size, n - off)]
      BY <1>2, <1>3, <2>2
    <3>2. InBand(i, ithr, nthrs, n) <=> off <= i /\ i < off + Smaller(size, n - off)
      BY <1>3, <3>1 DEF InBand, Smaller
    <3> QED
      BY <1>1, <1>3, <1>4, <2>2, <3>2 DEF Smaller
  <2> QED
    BY <1>3, <2>1, <2>2
<1> QED
  BY <1>3, <1>5 DEF off, band

(* partition_1d gives every row (or column) of C to exactly one thread of  *)
(* any team: the slices that the threads of a GEMM write do not overlap    *)
(* and leave nothing out.                                                  *)
THEOREM Partition1dExact ==
    ASSUME NEW n \in Nat, NEW nthrs \in Nat \ {0}, NEW i \in 0 .. n - 1
    PROVE  /\ \E t \in 0 .. nthrs - 1 : InBand(i, t, nthrs, n)
           /\ \A t, u \in 0 .. nthrs - 1 :
                InBand(i, t, nthrs, n) /\ InBand(i, u, nthrs, n) => t = u
<1> DEFINE band == BandSize(nthrs, n)
<1>1. band \in Nat
  BY BandSizeNat
<1>2. \A t \in 0 .. nthrs - 1 :
        InBand(i, t, nthrs, n) <=> /\ t * band <= i
                                   /\ t < nthrs - 1 => i < (t + 1) * band
  BY BandForm
<1> HIDE DEF band
<1>3. ASSUME NEW t \in 0 .. nthrs - 1, NEW u \in 0 .. nthrs - 1, t < u,
             InBand(i, t, nthrs, n), InBand(i, u, nthrs, n)
      PROVE  FALSE
  <2>1. i < (t + 1) * band /\ u * band <= i
    BY <1>2, <1>3
  <2>2. (t + 1) * band <= u * band
    BY <1>1, <1>3, TimesMonotone
  <2>3. (t + 1) * band \in Nat /\ u * band \in Nat
    BY <1>1
  <2> QED
    BY <2>1, <2>2, <2>3
<1>4. CASE (nthrs - 1) * band <= i
  BY <1>1, <1>2, <1>4
<1>5. CASE i < (nthrs - 1) * band
  <2> DEFINE t == i \div band
  <2>1. band # 0
    BY <1>1, <1>5
  <2>2. t \in Nat /\ t * band <= i /\ i < t * band + band
    BY <1>1, <2>1, DivFacts
  <2> HIDE DEF t
  <2>3. t < nthrs - 1
    <3>1. SUFFICES ASSUME nthrs - 1 <= t PROVE FALSE
      BY <2>2
    <3>2. (nthrs - 1) * band <= t * band
      BY <1>1, <2>2, <3>1, TimesMonotone
    <3>3. (nthrs - 1) * band \in Nat /\ t * band \in Nat
      BY <1>1, <2>2
    <3> QED
      BY <1>5, <2>2, <3>2, <3>3
  <2>4. (t + 1) * band = t * band + band
    BY <1>1, <2>2
  <2>5. InBand(i, t, nthrs, n)
    BY <1>2, <2>2, <2>3, <2>4
  <2> QED
    BY <1>3, <2>2, <2>3, <2>5
<1>6. (nthrs - 1) * band \in Nat
  BY <1>1
<1> QED
  BY <1>3, <1>4, <1>5, <1>6

(* nocopy_checker is monotone in the number of threads: a multiplication   *)
(* that is left to the kernels without copying by a small team is left to  *)
(* them by a larger one too.  So a team that is smaller than the one that  *)
(* the driver asked with cannot turn to those kernels after the buffers    *)
(* were set up.                                                            *)
THEOREM NocopyMonotone ==
    ASSUME NEW g \in [m : Nat, n : Nat, k : Nat, lda : Nat, ldb : Nat, ldc : Nat,
                      transa : BOOLEAN, transb : BOOLEAN],
           NEW small \in Nat \ {0}, NEW large \in Nat, small <= large
    PROVE  /\ NocopyAvx2(small, g) => NocopyAvx2(large, g)
           /\ NocopyAvx512(small, g) => NocopyAvx512(large, g)
<1>1. /\ small * 378 <= large * 378
      /\ small * 28 <= large * 28
      /\ small * 16 <= large * 16
      /\ small * 2 <= large * 2
      /\ small * 1 <= large * 1
  OBVIOUS
<1>2. NocopyAvx2(small, g) => NocopyAvx2(large, g)
  BY <1>1 DEF NocopyAvx2
<1>3. NocopyAvx512(small, g) => NocopyAvx512(large, g)
  BY <1>1 DEF NocopyAvx512
<1> QED
  BY <1>2, <1>3

-----------------------------------------------------------------------------
(* A question that reduce_balancer_t::init may be asked: the assertion at  *)
(* the head of balance().                                                  *)
Questions ==
    [nthr : Nat \ {0}, job_size : Nat \ {0}, njobs : Nat \ {0},
     reduction_size : Nat \ {0}, max_buffer_size : Nat, allow_nthr_in_group : BOOLEAN]

(* There is room in the buffer for one job of each thread.  The callers    *)
(* that size the buffer by the team see to it; the weights of the avx2     *)
(* convolution, whose buffer is a heuristic constant, and the trivial      *)
(* balance of the default constructor do not.                              *)
RoomForTeam(b) == b.nthr * b.job_size <= b.max_buffer_size

(* What follows from any number of jobs per group that is at most all. *)
LEMMA AssumptionFacts ==
    ASSUME NEW b \in Questions, NEW c \in 1 .. b.njobs
    PROVE  LET d == Assumption(b, c)
           IN /\ d.ngroups \in 1 .. b.nthr /\ d.ngroups <= b.njobs
              /\ d.nthr_per_group \in 1 .. b.reduction_size
              /\ d.ngroups * d.nthr_per_group <= b.nthr
              /\ ~b.allow_nthr_in_group => d.nthr_per_group = 1
              /\ d.njobs_per_group_ub \in Nat \ {0}
<1> DEFINE g == Lower(b.njobs \div c, b.nthr)
           p == Lower(b.nthr \div g, b.reduction_size)
<1>1. /\ b.nthr \in Nat \ {0} /\ b.njobs \in Nat \ {0} /\ b.reduction_size \in Nat \ {0}
      /\ b.allow_nthr_in_group \in BOOLEAN /\ c \in Nat \ {0}
  BY DEF Questions
<1>2. b.njobs \div c \in 1 .. b.njobs
  <2>1. /\ b.njobs \div c \in Nat
        /\ (b.njobs \div c) * c <= b.njobs
        /\ b.njobs < (b.njobs \div c) * c + c
    BY <1>1, DivFacts, SMTT(30)
  <2> DEFINE e == b.njobs \div c
  <2> HIDE DEF e
  <2>2. e \in Nat /\ e * c <= b.njobs /\ b.njobs < e * c + c
    BY <2>1 DEF e
  <2>3. e # 0
    BY <1>1, <2>2
  <2>4. 1 * e <= c * e /\ c * e = e * c
    BY <1>1, <2>2, TimesMonotone
  <2> QED
    BY <1>1, <2>2, <2>3, <2>4 DEF e
<1>3. g \in 1 .. b.nthr /\ g <= b.njobs
  BY <1>1, <1>2 DEF Lower
<1> HIDE DEF g
<1>4. b.nthr \div g \in Nat /\ (b.nthr \div g) * g <= b.nthr /\ b.nthr < (b.nthr \div g) * g + g
  <2>1. g \in Nat \ {0}
    BY <1>1, <1>3
  <2> QED
    BY <1>1, <2>1, DivFacts
<1>5. p \in 1 .. b.reduction_size /\ p <= b.nthr \div g
  <2> DEFINE e == b.nthr \div g
  <2> HIDE DEF e
  <2>1. e \in Nat /\ b.nthr < e * g + g
    BY <1>4 DEF e
  <2>2. e # 0
    BY <1>1, <1>3, <2>1
  <2> QED
    BY <1>1, <2>1, <2>2 DEF Lower, e
<1>6. g * p <= b.nthr
  <2>1. p * g <= (b.nthr \div g) * g
    BY <1>1, <1>3, <1>4, <1>5, TimesMonotone
  <2>2. p * g = g * p /\ p * g \in Nat /\ (b.nthr \div g) * g \in Nat
    BY <1>1, <1>3, <1>4, <1>5
  <2> QED
    BY <1>1, <1>4, <2>1, <2>2
<1>7. DivUp(b.njobs, g) \in Nat \ {0}
  <2> DEFINE y == DivUp(b.njobs, g)
  <2>1. b.njobs + g - 1 \in Nat /\ g \in Nat \ {0}
    BY <1>1, <1>3
  <2>2. y \in Nat /\ b.njobs + g - 1 < y * g + g
    BY <2>1, DivFacts DEF DivUp
  <2> HIDE DEF y
  <2>3. y # 0
    BY <1>1, <2>1, <2>2
  <2> QED
    BY <2>2, <2>3 DEF y
<1>8. Assumption(b, c) = [ngroups |-> g,
                          nthr_per_group |-> IF b.allow_nthr_in_group THEN p ELSE 1,
                          njobs_per_group_ub |-> DivUp(b.njobs, g)]
  BY DEF Assumption, g
<1> HIDE DEF p
<1> QED
  BY <1>1, <1>3, <1>5, <1>6, <1>7, <1>8

(* The initial guess: either there are as many groups as threads, or one   *)
(* job for each group.                                                     *)
LEMMA GuessFits ==
    ASSUME NEW b \in Questions
    PROVE  LET d == Assumption(b, MinNjobsPerGroup(b))
           IN /\ MinNjobsPerGroup(b) \in 1 .. b.njobs
              /\ d.nthr_per_group = 1 \/ d.njobs_per_group_ub = 1
<1> DEFINE c == MinNjobsPerGroup(b)
           d == Assumption(b, c)
           e == b.njobs \div b.nthr
<1>1. b.nthr \in Nat \ {0} /\ b.njobs \in Nat \ {0} /\ b.reduction_size \in Nat \ {0}
  BY DEF Questions
<1>2. e \in Nat /\ e * b.nthr <= b.njobs /\ b.njobs < e * b.nthr + b.nthr
  BY <1>1, DivFacts, ZenonT(30)
<1>3. c = AtLeastOne(e)
  BY DEF MinNjobsPerGroup
<1> HIDE DEF c, e
<1>4. c \in 1 .. b.njobs
  <2>1. 1 * e <= b.nthr * e /\ b.nthr * e = e * b.nthr
    BY <1>1, <1>2, TimesMonotone
  <2> QED
    BY <1>1, <1>2, <1>3, <2>1 DEF AtLeastOne
<1>5. CASE e = 0
  <2>1. c = 1 /\ b.njobs < b.nthr
    BY <1>1, <1>2, <1>3, <1>5 DEF AtLeastOne
  <2>2. b.njobs \div 1 = b.njobs
    BY <1>1
  <2>3. d.ngroups = b.njobs
    BY <1>1, <2>1, <2>2 DEF Assumption, Lower
  <2>4. DivUp(b.njobs, b.njobs) = 1
    <3> DEFINE x == b.njobs
               y == DivUp(x, x)
    <3> HIDE DEF x
    <3>1. x \in Nat \ {0} /\ x + x - 1 \in Nat
      BY <1>1 DEF x
    <3>2. y \in Nat /\ y * x <= x + x - 1 /\ x + x - 1 < y * x + x
      BY <3>1, DivFacts DEF DivUp
    <3> HIDE DEF y
    <3>3. y < 2
      <4>1. SUFFICES ASSUME 2 <= y PROVE FALSE
        BY <3>2
      <4>2. 2 * x <= y * x
        BY <3>1, <3>2, <4>1, TimesMonotone
      <4> QED
        BY <3>1, <3>2, <4>2
    <3>4. y # 0
      BY <3>1, <3>2
    <3> QED
      BY <3>2, <3>3, <3>4 DEF y, x
  <2>5. d.njobs_per_group_ub = DivUp(b.njobs, d.ngroups)
    BY DEF Assumption
  <2> QED
    BY <1>4, <2>3, <2>4, <2>5 DEF c
<1>6. CASE e # 0
  <2>1. c = e
    BY <1>2, <1>3, <1>6 DEF AtLeastOne
  <2>2. b.njobs \div e \in Nat /\ b.njobs < (b.njobs \div e) * e + e
    BY <1>1, <1>2, <1>6, DivFacts, ZenonT(30)
  <2>3. b.njobs \div e >= b.nthr
    <3> DEFINE f == b.njobs \div e
    <3> HIDE DEF f
    <3>1. f \in Nat /\ b.njobs < f * e + e
      BY <2>2 DEF f
    <3>2. SUFFICES ASSUME f + 1 <= b.nthr PROVE FALSE
      BY <1>1, <3>1 DEF f
    <3>3. (f + 1) * e <= b.nthr * e
      BY <1>1, <1>2, <3>1, <3>2, TimesMonotone
    <3>4. (f + 1) * e = f * e + e /\ b.nthr * e = e * b.nthr /\ f * e \in Nat
      BY <1>1, <1>2, <3>1
    <3> QED
      BY <1>1, <1>2, <3>1, <3>3, <3>4
  <2>4. d.ngroups = b.nthr
    BY <1>1, <2>1, <2>2, <2>3 DEF Assumption, Lower
  <2>5. b.nthr \div b.nthr = 1
    BY <1>1
  <2>6. d.nthr_per_group = 1
    BY <1>1, <2>4, <2>5 DEF Assumption, Lower
  <2> QED
    BY <1>4, <2>6 DEF c
<1> QED
  BY <1>5, <1>6

(* The assertions at the end of balance(), for every question: the groups  *)
(* fit into the team, no thread of a group is without a part of the        *)
(* reduction, and the jobs of a group are within the limit wherever there  *)
(* is something to reduce.  The remaining one, "no reduction buffer        *)
(* overflow", holds exactly when nothing is reduced or one job of each     *)
(* thread fits into the buffer: the limit is never less than one job, so   *)
(* with a smaller buffer that assertion of the code fails.                 *)
THEOREM BalanceAsserted ==
    ASSUME NEW b \in Questions
    PROVE  LET d == Balance(b)
           IN /\ d.ngroups \in 1 .. b.nthr /\ d.ngroups <= b.njobs
              /\ d.nthr_per_group \in 1 .. b.reduction_size
              /\ d.ngroups * d.nthr_per_group <= b.nthr
              /\ d.nthr_per_group = 1 \/ d.njobs_per_group_ub <= MaxNjobsPerGroup(b)
              /\ (d.nthr_per_group = 1
                    \/ d.njobs_per_group_ub * (b.nthr * b.job_size) <= b.max_buffer_size)
                 <=> (d.nthr_per_group = 1 \/ RoomForTeam(b))
              /\ ~b.allow_nthr_in_group => d.nthr_per_group = 1
<1> DEFINE c == IF Best(b) # {} THEN CHOOSE e \in Best(b) : TRUE ELSE MinNjobsPerGroup(b)
           d == Assumption(b, c)
           room == b.nthr * b.job_size
<1>1. /\ b.nthr \in Nat \ {0} /\ b.njobs \in Nat \ {0} /\ b.job_size \in Nat \ {0}
      /\ b.max_buffer_size \in Nat
  BY DEF Questions
<1>2. room \in Nat \ {0} /\ (RoomForTeam(b) <=> room <= b.max_buffer_size)
  BY <1>1, SMTT(30) DEF RoomForTeam
<1>3. /\ MaxNjobsPerGroup(b) \in Nat /\ 1 <= MaxNjobsPerGroup(b)
      /\ RoomForTeam(b) => MaxNjobsPerGroup(b) * room <= b.max_buffer_size
  <2>1. /\ b.max_buffer_size \div room \in Nat
        /\ (b.max_buffer_size \div room) * room <= b.max_buffer_size
    BY <1>1, <1>2, DivFacts, ZenonT(30)
  <2>2. MaxNjobsPerGroup(b) = AtLeastOne(b.max_buffer_size \div room)
    BY DEF MaxNjobsPerGroup
  <2> HIDE DEF room
  <2>3. 1 * room = room
    BY <1>2
  <2> QED
    BY <1>2, <2>1, <2>2, <2>3 DEF AtLeastOne
<1>4. MinNjobsPerGroup(b) \in 1 .. b.njobs
  BY GuessFits
<1>5. c \in 1 .. b.njobs /\ (d.nthr_per_group = 1 \/ d.njobs_per_group_ub <= MaxNjobsPerGroup(b))
  <2>1. CASE Best(b) = {}
    <3>1. c = MinNjobsPerGroup(b)
      BY <2>1
    <3> HIDE DEF c
    <3>2. d.nthr_per_group = 1 \/ d.njobs_per_group_ub = 1
      BY <3>1, GuessFits
    <3> QED
      BY <1>3, <1>4, <3>1, <3>2
  <2>2. CASE Best(b) # {}
    <3>1. c \in Best(b)
      BY <2>2
    <3> HIDE DEF c
    <3>2. c \in Candidates(b)
      BY <3>1 DEF Best
    <3>3. /\ c \in MinNjobsPerGroup(b) .. b.njobs - 1
          /\ d.nthr_per_group > 1 => d.njobs_per_group_ub <= MaxNjobsPerGroup(b)
      BY <3>2 DEF Candidates
    <3>4. c \in 1 .. b.njobs
      BY <1>1, <1>4, <3>3
    <3>5. d.nthr_per_group \in 1 .. b.reduction_size
      BY <3>4, AssumptionFacts
    <3> QED
      BY <3>3, <3>4, <3>5
  <2> QED
    BY <2>1, <2>2
<1>6. Balance(b) = d
  BY DEF Balance
<1> HIDE DEF c
<1>7. /\ d.ngroups \in 1 .. b.nthr /\ d.ngroups <= b.njobs
      /\ d.nthr_per_group \in 1 .. b.reduction_size
      /\ d.ngroups * d.nthr_per_group <= b.nthr
      /\ ~b.allow_nthr_in_group => d.nthr_per_group = 1
      /\ d.njobs_per_group_ub \in Nat \ {0}
  BY <1>5, AssumptionFacts
<1> HIDE DEF d
<1>8. ASSUME d.njobs_per_group_ub <= MaxNjobsPerGroup(b), RoomForTeam(b)
      PROVE  d.njobs_per_group_ub * room <= b.max_buffer_size
  <2> DEFINE ub == d.njobs_per_group_ub
             max == MaxNjobsPerGroup(b)
  <2>1. ub \in Nat /\ max \in Nat /\ ub <= max /\ max * room <= b.max_buffer_size
    BY <1>3, <1>7, <1>8
  <2> HIDE DEF ub, max, room
  <2>2. ub * room <= max * room
    BY <1>2, <2>1, TimesMonotone
  <2>3. ub * room \in Nat /\ max * room \in Nat
    BY <1>2, <2>1
  <2>4. ub * room <= b.max_buffer_size
    BY <1>1, <2>1, <2>2, <2>3
  <2> QED
    BY <2>4 DEF ub
<1>9. ASSUME d.njobs_per_group_ub * room <= b.max_buffer_size
      PROVE  RoomForTeam(b)
  <2> DEFINE ub == d.njobs_per_group_ub
  <2>1. ub \in Nat /\ 1 <= ub /\ ub * room <= b.max_buffer_size
    BY <1>7, <1>9
  <2> HIDE DEF ub, room
  <2>2. 1 * room <= ub * room
    BY <1>2, <2>1, TimesMonotone
  <2>3. 1 * room = room /\ ub * room \in Nat
    BY <1>2, <2>1
  <2> QED
    BY <1>1, <1>2, <2>1, <2>2, <2>3
<1>10. (d.nthr_per_group = 1 \/ d.njobs_per_group_ub * room <= b.max_buffer_size)
       <=> (d.nthr_per_group = 1 \/ RoomForTeam(b))
  BY <1>5, <1>8, <1>9, Zenon
<1> QED
  BY <1>5, <1>6, <1>7, <1>10, Zenon

(* The jobs of the groups follow one another from 0 to njobs, and no group *)
(* has more than njobs_per_group_ub of them (grp_njobs, grp_job_off).      *)
THEOREM GroupsShareJobs ==
    ASSUME NEW b \in Questions, NEW grp \in Nat, grp < Balance(b).ngroups
    PROVE  LET d == Balance(b)
           IN /\ GrpJobOff(b, d, 0) = 0
              /\ GrpJobOff(b, d, grp) + GrpNjobs(b, d, grp) = GrpJobOff(b, d, grp + 1)
              /\ GrpNjobs(b, d, grp) \in 1 .. d.njobs_per_group_ub
<1> DEFINE d == Balance(b)
           g == d.ngroups
           n == b.njobs
           q == n \div g
           r == n % g
<1>1. n \in Nat \ {0} /\ g \in Nat \ {0} /\ g <= n
  <2>1. b.nthr \in Nat /\ b.njobs \in Nat \ {0}
    BY DEF Questions
  <2> QED
    BY <2>1, BalanceAsserted
<1>2. d.njobs_per_group_ub = DivUp(n, g)
  BY DEF Balance, Assumption
<1>3. /\ GrpNjobs(b, d, grp) = q + (IF grp < r THEN 1 ELSE 0)
      /\ GrpJobOff(b, d, grp) = q * grp + Lower(grp, r)
      /\ GrpJobOff(b, d, 0) = q * 0 + Lower(0, r)
      /\ GrpJobOff(b, d, grp + 1) =
             IF grp + 1 >= g THEN n ELSE q * (grp + 1) + Lower(grp + 1, r)
  BY <1>1 DEF GrpNjobs, GrpJobOff
<1> HIDE DEF d, n
<1>4. q \in Nat /\ r \in 0 .. g - 1 /\ n = q * g + r
  BY <1>1, ModFacts, ZenonT(30)
<1> HIDE DEF g
<1>5. DivUp(n, g) = IF r = 0 THEN q ELSE q + 1
  <2> DEFINE y == DivUp(n, g)
  <2>1. n + g - 1 \in Nat
    BY <1>1
  <2>2. y \in Nat /\ y * g <= n + g - 1 /\ n + g - 1 < y * g + g
    BY <1>1, <2>1, DivFacts DEF DivUp
  <2> HIDE DEF y, q, r
  <2>3. y * g \in Nat /\ q * g \in Nat /\ (q + 1) * g = q * g + g /\ (q + 2) * g = q * g + g + g
        /\ (y + 1) * g = y * g + g
    BY <1>1, <1>4, <2>2
  <2>4. y < q + 2
    <3>1. SUFFICES ASSUME q + 2 <= y PROVE FALSE
      BY <1>4, <2>2
    <3>2. (q + 2) * g <= y * g
      BY <1>1, <1>4, <2>2, <3>1, TimesMonotone
    <3> QED
      BY <1>1, <1>4, <2>2, <2>3, <3>2
  <2>5. y >= q
    <3>1. SUFFICES ASSUME y + 1 <= q PROVE FALSE
      BY <1>4, <2>2
    <3>2. (y + 1) * g <= q * g
      BY <1>1, <1>4, <2>2, <3>1, TimesMonotone
    <3> QED
      BY <1>1, <1>4, <2>2, <2>3, <3>2
  <2>6. y = q \/ y = q + 1
    BY <1>4, <2>2, <2>4, <2>5
  <2>7. r = 0 => y = q
    BY <1>1, <1>4, <2>2, <2>3, <2>6
  <2>8. r # 0 => y = q + 1
    BY <1>1, <1>4, <2>2, <2>3, <2>6
  <2> QED
    BY <2>7, <2>8 DEF y
<1> HIDE DEF q, r
<1>6. q # 0
  BY <1>1, <1>4
<1>7. q * (grp + 1) = q * grp + q /\ q * grp \in Nat /\ q * 0 = 0
  BY <1>4
<1>8. grp + 1 >= g => q * (grp + 1) = q * g
  <2>1. grp + 1 >= g => grp + 1 = g
    BY <1>1 DEF g, d
  <2> QED
    BY <2>1
<1>9. GrpJobOff(b, d, grp) + GrpNjobs(b, d, grp) = GrpJobOff(b, d, grp + 1)
  <2> DEFINE a == q * grp
             v == q * (grp + 1)
             one == IF grp < r THEN 1 ELSE 0
  <2>1. v = a + q /\ a \in Nat /\ q \in Nat /\ r \in 0 .. g - 1 /\ g \in Nat \ {0}
    BY <1>1, <1>4, <1>7
  <2>2. grp + 1 >= g => n = v + r
    BY <1>4, <1>8
  <2>3. GrpJobOff(b, d, grp + 1) = IF grp + 1 >= g THEN n ELSE v + Lower(grp + 1, r)
    BY <1>3
  <2>4. GrpJobOff(b, d, grp) = a + Lower(grp, r) /\ GrpNjobs(b, d, grp) = q + one
    BY <1>3
  <2> HIDE DEF a, v
  <2>5. GrpJobOff(b, d, grp + 1) = v + Lower(grp + 1, r)
    <3>1. CASE grp + 1 >= g
      <4>1. Lower(grp + 1, r) = r
        BY <2>1, <3>1 DEF Lower
      <4> QED
        BY <2>2, <2>3, <3>1, <4>1
    <3>2. CASE ~(grp + 1 >= g)
      BY <2>3, <3>2
    <3> QED
      BY <3>1, <3>2
  <2>6. Lower(grp, r) \in Nat /\ one \in Nat /\ Lower(grp, r) + one = Lower(grp + 1, r)
    BY <2>1 DEF Lower
  <2> HIDE DEF one
  <2>7. (a + Lower(grp, r)) + (q + one) = (a + q) + (Lower(grp, r) + one)
    BY <2>1, <2>6
  <2> QED
    BY <2>1, <2>4, <2>5, <2>6, <2>7
<1>10. GrpNjobs(b, d, grp) \in 1 .. d.njobs_per_group_ub
  BY <1>2, <1>3, <1>4, <1>5, <1>6
<1>11. GrpJobOff(b, d, 0) = 0
  BY <1>3, <1>4, <1>7 DEF Lower
<1> QED
  BY <1>9, <1>10, <1>11 DEF d

(* cpu_reducer_t: the threads that do not work in the destination have     *)
(* places of their own in the space that init_scratchpad booked: the jobs  *)
(* of one end before those of the next begin, and the last end within it.  *)
THEOREM ReducerPlacesApart ==
    ASSUME NEW b \in Questions, NEW t \in Nat, NEW u \in Nat, t < u,
           ~IdleThread(Balance(b), t), ~IdleThread(Balance(b), u),
           IdInGroup(Balance(b), t) # 0, IdInGroup(Balance(b), u) # 0
    PROVE  LET d == Balance(b)
           IN /\ LocalPtr(b, d, t)[2] + GrpNjobs(b, d, GroupId(d, t)) <= LocalPtr(b, d, u)[2]
              /\ LocalPtr(b, d, u)[2] + GrpNjobs(b, d, GroupId(d, u)) <= SpaceSize(d)
<1> DEFINE d == Balance(b)
           p == d.nthr_per_group
           g == d.ngroups
           ub == d.njobs_per_group_ub
           Gid(x) == x \div p
           Id(x) == x % p
           F(x) == Gid(x) * (p - 1) + Id(x) - 1
<1>1. p \in Nat \ {0} /\ g \in Nat \ {0}
  <2>1. b.nthr \in Nat /\ b.reduction_size \in Nat
    BY DEF Questions
  <2> QED
    BY <2>1, BalanceAsserted
<1>2. /\ LocalPtr(b, d, t)[2] = F(t) * ub
      /\ LocalPtr(b, d, u)[2] = F(u) * ub
      /\ SpaceSize(d) = g * (p - 1) * ub
  BY DEF LocalPtr, SpaceSize, IdInGroup, GroupId
<1>3. /\ Gid(t) \in Nat /\ Id(t) \in 1 .. p - 1 /\ t = Gid(t) * p + Id(t)
      /\ Gid(u) \in Nat /\ Id(u) \in 1 .. p - 1 /\ u = Gid(u) * p + Id(u)
      /\ t < p * g /\ u < p * g
  <2>1. /\ Gid(t) \in Nat /\ Id(t) \in 0 .. p - 1 /\ t = Gid(t) * p + Id(t)
        /\ Gid(u) \in Nat /\ Id(u) \in 0 .. p - 1 /\ u = Gid(u) * p + Id(u)
    BY <1>1, ModFacts, ZenonT(30)
  <2>2. Id(t) # 0 /\ Id(u) # 0
    BY DEF IdInGroup
  <2>3. t < p * g /\ u < p * g
    BY <1>1 DEF IdleThread
  <2> QED
    BY <2>1, <2>2, <2>3
<1> HIDE DEF d, p, g, ub, Gid, Id
<1>4. ASSUME NEW x \in {t, u}
      PROVE  /\ Gid(x) < g
             /\ F(x) \in Nat
             /\ F(x) + 1 <= (Gid(x) + 1) * (p - 1)
             /\ (Gid(x) + 1) * (p - 1) <= g * (p - 1)
             /\ Gid(x) * (p - 1) <= F(x)
  <2>1. Gid(x) \in Nat /\ Id(x) \in 1 .. p - 1 /\ x = Gid(x) * p + Id(x) /\ x < p * g
    BY <1>3
  <2> DEFINE i == Gid(x)
             j == Id(x)
  <2> HIDE DEF i, j
  <2>2. i \in Nat /\ j \in 1 .. p - 1 /\ i * p + j < p * g
    BY <2>1 DEF i, j
  <2>3. i < g
    <3>1. SUFFICES ASSUME g <= i PROVE FALSE
      BY <1>1, <2>2
    <3>2. g * p <= i * p /\ g * p = p * g
      BY <1>1, <2>2, <3>1, TimesMonotone
    <3>3. g * p \in Nat /\ i * p \in Nat
      BY <1>1, <2>2
    <3> QED
      BY <1>1, <2>2, <3>2, <3>3
  <2>4. (i + 1) * (p - 1) <= g * (p - 1)
    BY <1>1, <2>2, <2>3, TimesMonotone
  <2>5. (i + 1) * (p - 1) = i * (p - 1) + (p - 1) /\ i * (p - 1) \in Nat
    BY <1>1, <2>2
  <2>6. F(x) = i * (p - 1) + j - 1
    BY DEF i, j
  <2>7. F(x) \in Nat /\ F(x) + 1 <= (i + 1) * (p - 1) /\ i * (p - 1) <= F(x)
    BY <1>1, <2>2, <2>5, <2>6
  <2> QED
    BY <2>3, <2>4, <2>7 DEF i
<1>5. F(t) + 1 <= F(u)
  <2>1. CASE Gid(t) = Gid(u)
    <3>1. Gid(t) * p \in Nat
      BY <1>1, <1>3
    <3>2. Id(t) + 1 <= Id(u)
      BY <1>1, <1>3, <2>1, <3>1
    <3>3. Gid(t) * (p - 1) \in Nat
      BY <1>1, <1>3
    <3> QED
      BY <1>1, <1>3, <2>1, <3>2, <3>3
  <2>2. CASE Gid(t) < Gid(u)
    <3>1. (Gid(t) + 1) * (p - 1) <= Gid(u) * (p - 1)
      BY <1>1, <1>3, <2>2, TimesMonotone
    <3>2. (Gid(t) + 1) * (p - 1) \in Nat /\ Gid(u) * (p - 1) \in Nat
      BY <1>1, <1>3
    <3>3. /\ F(t) \in Nat /\ F(t) + 1 <= (Gid(t) + 1) * (p - 1)
          /\ F(u) \in Nat /\ Gid(u) * (p - 1) <= F(u)
      BY <1>4
    <3> HIDE DEF F
    <3> QED
      BY <3>1, <3>2, <3>3
  <2>3. CASE Gid(u) < Gid(t)
    <3>1. (Gid(u) + 1) * p <= Gid(t) * p
      BY <1>1, <1>3, <2>3, TimesMonotone
    <3>2. (Gid(u) + 1) * p = Gid(u) * p + p /\ Gid(u) * p \in Nat /\ Gid(t) * p \in Nat
      BY <1>1, <1>3
    <3> QED
      BY <1>1, <1>3, <3>1, <3>2
  <2> QED
    BY <1>3, <2>1, <2>2, <2>3
<1>6. ub \in Nat /\ GrpNjobs(b, d, Gid(t)) \in 1 .. ub /\ GrpNjobs(b, d, Gid(u)) \in 1 .. ub
  <2>1. Gid(t) \in Nat /\ Gid(t) < d.ngroups /\ Gid(u) \in Nat /\ Gid(u) < d.ngroups
    BY <1>3, <1>4 DEF g
  <2>2. GrpNjobs(b, d, Gid(t)) \in 1 .. ub /\ GrpNjobs(b, d, Gid(u)) \in 1 .. ub
    BY <2>1, GroupsShareJobs DEF d, ub
  <2>3. ub \in Nat
    <3>1. ub = DivUp(b.njobs, g)
      BY DEF ub, g, d, Balance, Assumption
    <3>2. b.njobs \in Nat \ {0}
      BY DEF Questions
    <3>3. b.njobs + g - 1 \in Nat
      BY <1>1, <3>2
    <3> QED
      BY <1>1, <3>1, <3>3, DivFacts DEF DivUp
  <2> QED
    BY <2>2, <2>3
<1>7. F(t) \in Nat /\ F(u) \in Nat /\ F(u) + 1 <= g * (p - 1) /\ g * (p - 1) \in Nat
  <2>1. /\ F(t) \in Nat /\ F(u) \in Nat
        /\ F(u) + 1 <= (Gid(u) + 1) * (p - 1)
        /\ (Gid(u) + 1) * (p - 1) <= g * (p - 1)
    BY <1>4
  <2>2. (Gid(u) + 1) * (p - 1) \in Nat /\ g * (p - 1) \in Nat
    BY <1>1, <1>3
  <2> HIDE DEF F
  <2> QED
    BY <2>1, <2>2
<1> DEFINE s == g * (p - 1)
<1>8. F(t) \in Nat /\ F(u) \in Nat /\ F(u) + 1 <= s /\ s \in Nat /\ F(t) + 1 <= F(u)
  BY <1>5, <1>7
<1> HIDE DEF F, s
<1>9. (F(t) + 1) * ub <= F(u) * ub /\ (F(u) + 1) * ub <= s * ub
  BY <1>6, <1>8, TimesMonotone
<1>10. /\ (F(t) + 1) * ub = F(t) * ub + ub
       /\ (F(u) + 1) * ub = F(u) * ub + ub
       /\ F(t) * ub \in Nat /\ F(u) * ub \in Nat /\ s * ub \in Nat
  BY <1>6, <1>8, TimesSucc, SMTT(30)
<1>11. /\ F(t) * ub + GrpNjobs(b, d, Gid(t)) <= F(u) * ub
       /\ F(u) * ub + GrpNjobs(b, d, Gid(u)) <= s * ub
  BY <1>6, <1>9, <1>10
<1>12. GroupId(d, t) = Gid(t) /\ GroupId(d, u) = Gid(u)
  BY DEF GroupId, Gid, p
<1> QED
  BY <1>2, <1>11, <1>12 DEF d, s
=============================================================================
