--------------------------- MODULE GemmSumProofs ----------------------------
(***************************************************************************)
(* The parts of C that the threads of gemm_threading_driver work on: they  *)
(* cover C and are apart, for any number of threads, any sizes and blocks; *)
(* and the sums over k, when several threads share a part.                 *)
(***************************************************************************)
EXTENDS GemmDriverProofs

USE ZenonT(30)

-----------------------------------------------------------------------------
NoFail == \A i \in Threads : arg[i].result = "success"

(* An element that has received the terms below u. *)
State(u) ==
    [base |-> IF u = 0 THEN "old" ELSE "beta",
     sum |-> [k \in 0 .. prob.k - 1 |-> IF k < u THEN 1 ELSE 0],
     co |-> IF u = prob.k THEN 1 ELSE 0]

Parts == 0 .. Nthrs(info) - 1
InPart(x, i) == x[1] \in Rows(slice[i]) /\ x[2] \in Cols(slice[i])
Owner(i) == i % nthr

(* How far the element in row m of part i has come. *)
Upto(i, m) ==
    LET t == Owner(i)
        end == slice[i].off_m + pos[t].m + (IF pc[t] = "computed" THEN SizeM(t) ELSE 0)
    IN IF ithr[t] > i \/ (ithr[t] = i /\ pc[t] = "dispatched") THEN prob.k
       ELSE IF ithr[t] = i /\ pc[t] \in Blocked
            THEN IF m < end THEN pos[t].k + SizeK(t) ELSE pos[t].k
       ELSE 0

(* Part i has been computed. *)
Handled(i) ==
    \/ at # "section"
    \/ ithr[Owner(i)] > i
    \/ ithr[Owner(i)] = i /\ pc[Owner(i)] \in {"dispatched", "sum"}

(* How many matrices part i has added. *)
Summed(i) ==
    IF ~(at = "section" /\ Sums) /\ at # "sum_section" THEN 0
    ELSE IF ithr[Owner(i)] > i THEN forced.nthrs_k - 1
    ELSE IF ithr[Owner(i)] = i /\ pc[Owner(i)] = "sum" THEN pos[Owner(i)].k
    ELSE 0

(* The columns of C to which part i adds. *)
InShare(x, i) ==
    LET cols == Partition1d(slice[i].ithr_k, forced.nthrs_k, slice[i].n)
        first == slice[i].off_n + cols.off
    IN x[1] \in Rows(slice[i]) /\ x[2] \in first .. first + cols.size - 1

Has(i, q) == IF q = 0 THEN Handled(Peer(i, 0)) ELSE \E n \in 0 .. Summed(i) - 1 : Order(i, n) = q

SumState(i) ==
    [base |-> IF Handled(Peer(i, 0)) THEN "beta" ELSE "old",
     sum |-> [k \in 0 .. prob.k - 1 |->
                IF \E q \in 0 .. forced.nthrs_k - 1 : k \in Ks(slice[Peer(i, q)]) /\ Has(i, q)
                THEN 1 ELSE 0],
     co |-> IF Handled(Peer(i, 0)) THEN 1 ELSE 0]

InSection == at = "section" /\ info # NoInfo
Summing == k_summing /\ (InSection \/ at \in {"spawn_sum", "sum_section"})

(* What part i has left in C: without a split of k ... *)
Result(i) ==
    NoFail => \A x \in Elements(prob) : InPart(x, i) => C[x] = State(Upto(i, x[1]))

(* ... and with one. *)
SumResult(i) ==
    /\ NoFail /\ Handled(i) /\ slice[i].ithr_k > 0 => local[i]
    /\ Summed(i) > 0 => Handled(Peer(i, 0))
    /\ NoFail => \A x \in Elements(prob) : InShare(x, i) => C[x] = SumState(i)

Flagged(i) ==
    arg[i].done <=> Sums /\ Handled(i) /\ ~(ithr[Owner(i)] = i /\ pc[Owner(i)] = "dispatched")

(* What the elements of C hold at each point of the driver, as long as no  *)
(* thread has failed.                                                      *)
ResultInv ==
    /\ DOMAIN C = Elements(prob)
    /\ at \in Before => \A x \in Elements(prob) : C[x] = State(0)
    /\ at \in {"free", "returned"} /\ ret = "success" => \A x \in Elements(prob) : C[x] = State(prob.k)
    /\ at \in {"spawn_sum", "sum_section", "free"} /\ ret = "success" => NoFail
    /\ at = "section" /\ info = NoInfo =>
          /\ \A t \in Threads : t # 0 => pc[t] = "out"
          /\ NoFail => \A x \in Elements(prob) : C[x] = State(IF pc[0] = "whole" THEN 0 ELSE prob.k)
    /\ InSection /\ ~ForceThreading => info.nthrs_k = 1
    /\ InSection /\ ~k_summing => \A i \in Parts : Result(i)
    /\ Summing => \A i \in Parts : SumResult(i)
    /\ InSection => \A i \in Parts : Flagged(i)
-----------------------------------------------------------------------------
(* How the driver divides a problem. *)

(* An item is in one layer at most. *)
LEMMA LayersApart ==
  ASSUME NEW x \in Nat, NEW z \in Nat, NEW n \in Nat,
         NEW t \in 0 .. n - 1, NEW u \in 0 .. n - 1, Layer(x, t, z, n), Layer(x, u, z, n)
  PROVE  t = u
<1>1. ASSUME NEW a \in 0 .. n - 1, NEW b \in 0 .. n - 1, a < b, Layer(x, a, z, n), Layer(x, b, z, n)
      PROVE  FALSE
  <2>1. x < (a + 1) * z /\ b * z <= x
    BY <1>1, SMTT(30) DEF Layer
  <2>2. a + 1 \in Nat /\ b \in Nat /\ a + 1 <= b
    BY <1>1, SMTT(30)
  <2>3. (a + 1) * z <= b * z
    BY <2>2, TimesMonotone
  <2>4. (a + 1) * z \in Nat /\ b * z \in Nat
    BY <2>2, SMTT(30)
  <2>5. QED
    BY <2>1, <2>3, <2>4, SMTT(30)
<1>2. t < u \/ u < t \/ t = u
  BY SMTT(30)
<1>3. QED
  BY <1>1, <1>2

(* An item is in some layer. *)
LEMMA LayersCover ==
  ASSUME NEW x \in Nat, NEW z \in Nat, NEW n \in Positive
  PROVE  \E t \in 0 .. n - 1 : Layer(x, t, z, n)
<1>1. n - 1 \in Nat /\ (n - 1) * z \in Nat /\ n - 1 \in 0 .. n - 1
  BY SMTT(30) DEF Positive
<1>2. CASE (n - 1) * z <= x
  <2>1. Layer(x, n - 1, z, n)
    BY <1>1, <1>2, SMTT(30) DEF Layer
  <2>2. QED
    BY <1>1, <2>1
<1>3. CASE x < (n - 1) * z
  <2> DEFINE t == x \div z
  <2>1. z \in Nat \ {0}
    BY <1>1, <1>3, SMTT(30)
  <2>2. t \in Nat /\ t * z <= x /\ x < t * z + z
    BY <2>1, DivFacts
  <2> HIDE DEF t
  <2>3. (t + 1) * z = t * z + z /\ t * z \in Nat
    BY <2>2, TimesSucc
  <2>4. ASSUME n - 1 <= t PROVE FALSE
    <3>1. (n - 1) * z <= t * z
      BY <1>1, <2>2, <2>4, TimesMonotone
    <3>2. QED
      BY <1>1, <1>3, <2>2, <2>3, <3>1, SMTT(30)
  <2>5. t \in 0 .. n - 1
    BY <1>1, <2>2, <2>4, SMTT(30) DEF Positive
  <2>6. QED
    BY <2>2, <2>3, <2>5 DEF Layer
<1>4. QED
  BY <1>1, <1>2, <1>3, SMTT(30)

-----------------------------------------------------------------------------
(* Coordinates determine the thread. *)
LEMMA CoordinatesUnique ==
  ASSUME NEW a \in Positive, NEW b \in Positive, NEW t \in Nat, NEW u \in Nat,
         t % a = u % a, (t \div a) % b = (u \div a) % b, (t \div a) \div b = (u \div a) \div b
  PROVE  t = u
<1>1. a \in Nat \ {0} /\ b \in Nat \ {0}
  BY DEF Positive
<1>2. /\ t = (t \div a) * a + (t % a) /\ u = (u \div a) * a + (u % a)
      /\ t \div a \in Nat /\ u \div a \in Nat
  BY <1>1, ModFacts
<1>3. /\ t \div a = ((t \div a) \div b) * b + ((t \div a) % b)
      /\ u \div a = ((u \div a) \div b) * b + ((u \div a) % b)
  BY <1>1, <1>2, ModFacts
<1>4. t \div a = u \div a
  BY <1>3
<1>5. QED
  BY <1>2, <1>4

(* With few rows of tiles every band of rows has a thread. *)
LEMMA RowBandsUsed ==
  ASSUME NEW m \in Positive, NEW n \in {1, 2, 4, 8},
         n = 4 => m >= 20, n = 8 => m >= 112
  PROVE  Bands(m, n, TRUE).used = n
<1> DEFINE q == m \div n
           last == m - (n - 1) * q
           val == IF last <= q + 1 THEN q
                  ELSE IF TRUE /\ last > n THEN q + 2 ELSE q + 1
<1>1. /\ last <= q + 1 => Bands(m, n, TRUE).used = n
      /\ ~(last <= q + 1) => Bands(m, n, TRUE).used = DivUp(m, val)
  <2> DEFINE u == IF last <= q + 1 THEN n ELSE DivUp(m, val)
             bands == Bands(m, n, TRUE)
  <2>1. bands = [val |-> val, used |-> u]
    BY DEF Bands
  <2> HIDE DEF q, last, val, u, bands
  <2>2. bands.used = u
    BY <2>1, SMTT(30)
  <2>3. QED
    BY <2>2 DEF u, bands
<1>2. CASE n = 1
  <2>1. last <= q + 1
    BY <1>2, SMTT(30) DEF Positive
  <2>2. QED
    BY <1>1, <2>1
<1>3. CASE n = 2
  <2>1. last <= q + 1
    BY <1>3, SMTT(30) DEF Positive
  <2>2. QED
    BY <1>1, <2>1
<1>4. CASE n \in {4, 8}
  <2>1. /\ q \in Nat
        /\ n = 4 => q >= 5 /\ m >= 4 * q /\ m <= 4 * q + 3 /\ last = m - 3 * q
        /\ n = 8 => q >= 14 /\ m >= 8 * q /\ m <= 8 * q + 7 /\ last = m - 7 * q
    BY <1>4, SMTT(30) DEF Positive
  <2>2. CASE ~(last <= q + 1)
    <3>1. val = q + 2
      BY <1>4, <2>1, <2>2, SMTT(30) DEF Positive
    <3>2. DivUp(m, val) = (m + q + 1) \div (q + 2)
      <4>1. m + val - 1 = m + q + 1
        BY <2>1, <3>1, SMTT(30) DEF Positive
      <4>2. QED
        BY <3>1, <4>1 DEF DivUp
    <3> DEFINE b == q + 2
               r == IF n = 4 THEN m + q + 1 - 4 * b ELSE m + q + 1 - 8 * b
    <3> HIDE DEF q
    <3>3. /\ r \in 0 .. b - 1 /\ b \in Nat \ {0} /\ n \in Nat /\ m + q + 1 \in Nat
          /\ m + q + 1 = n * b + r
      <4>1. CASE n = 4
        BY <2>1, <2>2, <4>1, SMTT(30) DEF Positive
      <4>2. CASE n = 8
        BY <2>1, <2>2, <4>2, SMTT(30) DEF Positive
      <4>3. QED
        BY <1>4, <4>1, <4>2
    <3> HIDE DEF r, b, val
    <3>4. (m + q + 1) \div b = n
      <4> DEFINE a == m + q + 1
      <4>1. a \in Nat /\ a = n * b + r
        BY <3>3
      <4> HIDE DEF a
      <4>2. a \div b = n
        BY <3>3, <4>1, DivModUnique
      <4>3. QED
        BY <4>2 DEF a
    <3>5. DivUp(m, val) = n
      BY <3>2, <3>4 DEF b
    <3> HIDE DEF last
    <3>6. QED
      BY <1>1, <2>2, <3>5
  <2>3. QED
    BY <1>1, <2>2
<1>5. QED
  BY <1>2, <1>3, <1>4

(* Where a slice lies: the layers of its rows and its columns. *)
InRows(s, p, a, z, n) == \A r \in 0 .. p.m - 1 : r \in Rows(s) <=> Layer(r, a, z, n)
(* A decomposition of the rows. *)
LEMMA SliceRow ==
  ASSUME NEW i, NEW p, Sized(p), Legal(i, p), i.partition = "row_1d", NEW t \in 0 .. Nthrs(i) - 1
  PROVE  LET s == SliceOf(i, t, p)
         IN /\ InRows(s, p, t, BandSize(Nthrs(i), p.m), Nthrs(i))
            /\ Cols(s) = 0 .. p.n - 1 /\ WholeK(s, p)
<1> DEFINE d == Partition1d(t, Nthrs(i), p.m)
           s == SliceOf(i, t, p)
<1>1. p.m \in Nat /\ p.n \in Nat /\ p.k \in Nat /\ 0 \in Nat /\ Nthrs(i) \in Positive
  BY LegalFacts DEF Sized, Positive
<1>2. /\ d \in Bounds(p.m)
      /\ \A x \in 0 .. p.m - 1 : x \in Items(d) <=> Layer(x, t, BandSize(Nthrs(i), p.m), Nthrs(i))
  BY <1>1, Partition1dLayer
<1>3. s = Slice(d, Whole(p.n), Whole(p.k), 0)
  BY SliceKinds
<1> HIDE DEF d
<1>4. /\ Whole(p.n) \in Bounds(p.n) /\ Whole(p.k) \in Bounds(p.k)
      /\ Items(Whole(p.n)) = 0 .. p.n - 1 /\ Whole(p.k).off = 0 /\ Whole(p.k).size = p.k
  BY <1>1, WholeBounds
<1>5. /\ Rows(s) = Items(d) /\ Cols(s) = Items(Whole(p.n)) /\ s.ithr_k = 0
      /\ s.off_k = Whole(p.k).off /\ s.k = Whole(p.k).size
  <2> HIDE DEF s
  <2>1. MadeOf(Slice(d, Whole(p.n), Whole(p.k), 0), d, Whole(p.n), Whole(p.k), 0)
    BY <1>1, <1>2, <1>4, SliceMade
  <2>2. MadeOf(s, d, Whole(p.n), Whole(p.k), 0)
    BY <1>3, <2>1
  <2>3. QED
    BY <2>2 DEF MadeOf
<1>6. QED
  BY <1>2, <1>4, <1>5 DEF InRows, WholeK

(* get_thread_slice for col_major_2d: row band a and column band b of      *)
(* thread t, or nothing.                                                   *)
LEMMA SliceGrid ==
  ASSUME NEW i, NEW p, Sized(p), Tiled(p), Legal(i, p), i.partition = "col_major_2d",
         NEW t \in 0 .. Nthrs(i) - 1
  PROVE  LET s == SliceOf(i, t, p)
             bm == Bands(p.m, i.nthrs_m, TRUE)
             bn == Bands(p.n, i.nthrs_n, FALSE)
             a == t % i.nthrs_m
             b == t \div i.nthrs_m
         IN /\ bm.used = i.nthrs_m /\ bm.val \in Nat
            /\ bn.used \in 1 .. i.nthrs_n /\ bn.val \in Nat
            /\ a \in 0 .. i.nthrs_m - 1 /\ b \in Nat
            /\ t < i.nthrs_m * bn.used => b < bn.used
            /\ b < bn.used => t < i.nthrs_m * bn.used
            /\ t < i.nthrs_m * bn.used => /\ InRows(s, p, a, bm.val, i.nthrs_m)
                                          /\ InCols(s, p, b, bn.val, bn.used)
            /\ ~(t < i.nthrs_m * bn.used) => Rows(s) = {} /\ Cols(s) = {}
            /\ WholeK(s, p)
<1> DEFINE bm == Bands(p.m, i.nthrs_m, TRUE)
           bn == Bands(p.n, i.nthrs_n, FALSE)
           a == t % i.nthrs_m
           b == t \div i.nthrs_m
           s == SliceOf(i, t, p)
           dm == Band(a, bm, p.m)
           dn == Band(b, bn, p.n)
<1>1. /\ a \in 0 .. i.nthrs_m - 1 /\ b \in Nat
      /\ bm.val \in Nat /\ bm.used \in 1 .. i.nthrs_m /\ (bm.used - 1) * bm.val < p.m
      /\ bn.val \in Nat /\ bn.used \in 1 .. i.nthrs_n /\ (bn.used - 1) * bn.val < p.n
      /\ dm \in Bounds(p.m) /\ dn \in Bounds(p.n)
      /\ t < bm.used * bn.used => s = Slice(dm, dn, Whole(p.k), 0)
      /\ ~(t < bm.used * bn.used) => s = Slice(Whole(0), Whole(0), Whole(p.k), 0)
  BY Slice2d
<1>2. i.nthrs_m \in Positive /\ i.nthrs_n \in Positive /\ Nthrs(i) \in Positive
  BY LegalFacts
<1>3. p.m \in Positive /\ p.n \in Positive /\ p.k \in Nat /\ 0 \in Nat
  BY DEF Sized, Positive
<1>4. bm.used = i.nthrs_m
  <2>1. i.nthrs_m \in RowBands /\ (i.nthrs_m > 1 => p.m >= i.nthrs_m * Um)
    BY DEF Legal
  <2>2. i.nthrs_m \in {1, 2, 4, 8} /\ (i.nthrs_m = 8 => Avx512)
    <3>1. \A x \in {1, 2, 4} : x # 8
      BY SMTT(30)
    <3>2. QED
      BY <2>1, <3>1 DEF RowBands
  <2>3. (i.nthrs_m = 4 => p.m >= 20) /\ (i.nthrs_m = 8 => p.m >= 112)
    BY <2>1, <2>2, SMTT(30) DEF Tiled
  <2>4. QED
    BY <1>3, <2>2, <2>3, RowBandsUsed
<1>5. t \in Nat /\ i.nthrs_m \in Nat \ {0} /\ a \in Nat
  BY <1>1, <1>2, SMTT(30) DEF Positive
<1>6. t = b * i.nthrs_m + a
  BY <1>5, ModFacts
<1> HIDE DEF bm, bn, a, b, s
<1>7. bn.used \in Nat /\ bn.used \in Positive /\ bm.used \in Positive
  BY <1>1, <1>2, <1>4, SMTT(30) DEF Positive
<1>8. ASSUME t < i.nthrs_m * bn.used PROVE b < bn.used
  <2>1. SUFFICES ASSUME bn.used <= b PROVE FALSE
    BY <1>1, <1>7, SMTT(30)
  <2>2. bn.used * i.nthrs_m <= b * i.nthrs_m
    BY <1>1, <1>5, <1>7, <2>1, TimesMonotone
  <2>3. bn.used * i.nthrs_m = i.nthrs_m * bn.used /\ bn.used * i.nthrs_m \in Nat /\ b * i.nthrs_m \in Nat
    BY <1>1, <1>5, <1>7, SMTT(30)
  <2>4. QED
    BY <1>5, <1>6, <1>8, <2>2, <2>3, SMTT(30)
<1>9. ASSUME b < bn.used PROVE t < i.nthrs_m * bn.used
  <2>1. b + 1 <= bn.used /\ b + 1 \in Nat
    BY <1>1, <1>7, <1>9, SMTT(30)
  <2>2. (b + 1) * i.nthrs_m <= bn.used * i.nthrs_m
    BY <1>5, <1>7, <2>1, TimesMonotone
  <2>3. /\ bn.used * i.nthrs_m = i.nthrs_m * bn.used /\ bn.used * i.nthrs_m \in Nat
        /\ b * i.nthrs_m \in Nat /\ (b + 1) * i.nthrs_m = b * i.nthrs_m + i.nthrs_m
    BY <1>1, <1>5, <1>7, SMTT(30)
  <2>4. QED
    BY <1>1, <1>5, <1>6, <2>2, <2>3, SMTT(30)
<1>10. /\ Whole(p.k) \in Bounds(p.k) /\ Whole(p.k).off = 0 /\ Whole(p.k).size = p.k
       /\ Whole(0) \in Bounds(p.m) /\ Whole(0) \in Bounds(p.n) /\ Items(Whole(0)) = {}
  <2>1. Whole(0) \in [off : Nat, size : Nat] /\ Whole(0).off = 0 /\ Whole(0).size = 0
    BY WholeBounds, SMTT(30) DEF Bounds
  <2>2. 0 + 0 <= p.m /\ 0 + 0 <= p.n
    BY <1>3, SMTT(30) DEF Positive
  <2>3. Whole(0) \in Bounds(p.m) /\ Whole(0) \in Bounds(p.n)
    BY <2>1, <2>2 DEF Bounds
  <2>4. Items(Whole(0)) = {}
    BY <2>1, SMTT(30) DEF Items
  <2>5. QED
    BY <1>3, <2>3, <2>4, WholeBounds
<1>11. CASE t < i.nthrs_m * bn.used
  <2>1. s = Slice(dm, dn, Whole(p.k), 0)
    BY <1>1, <1>4, <1>11
  <2>2. b < bn.used /\ a < bm.used
    BY <1>1, <1>4, <1>5, <1>8, <1>11, SMTT(30)
  <2>3. /\ \A x \in 0 .. p.m - 1 : x \in Items(dm) <=> Layer(x, a, bm.val, bm.used)
        /\ \A x \in 0 .. p.n - 1 : x \in Items(dn) <=> Layer(x, b, bn.val, bn.used)
    BY <1>1, <1>3, <1>5, <1>7, <2>2, BandLayer
  <2> HIDE DEF dm, dn
  <2>4. /\ Rows(s) = Items(dm) /\ Cols(s) = Items(dn) /\ s.ithr_k = 0
        /\ s.off_k = Whole(p.k).off /\ s.k = Whole(p.k).size
    <3>1. MadeOf(Slice(dm, dn, Whole(p.k), 0), dm, dn, Whole(p.k), 0)
      BY <1>1, <1>3, <1>10, SliceMade
    <3>2. MadeOf(s, dm, dn, Whole(p.k), 0)
      BY <2>1, <3>1
    <3>3. QED
      BY <3>2 DEF MadeOf
  <2>5. /\ InRows(s, p, a, bm.val, i.nthrs_m) /\ InCols(s, p, b, bn.val, bn.used)
        /\ WholeK(s, p)
    BY <1>4, <1>10, <2>3, <2>4 DEF InRows, InCols, WholeK
  <2>6. QED
    BY <1>1, <1>4, <1>8, <1>9, <1>11, <2>5 DEF bm, bn, a, b, s
<1>12. CASE ~(t < i.nthrs_m * bn.used)
  <2>1. s = Slice(Whole(0), Whole(0), Whole(p.k), 0)
    BY <1>1, <1>4, <1>12
  <2>2. /\ Rows(s) = {} /\ Cols(s) = {} /\ s.ithr_k = 0
        /\ s.off_k = Whole(p.k).off /\ s.k = Whole(p.k).size
    <3>1. MadeOf(Slice(Whole(0), Whole(0), Whole(p.k), 0), Whole(0), Whole(0), Whole(p.k), 0)
      BY <1>3, <1>10, SliceMade
    <3>2. MadeOf(s, Whole(0), Whole(0), Whole(p.k), 0)
      BY <2>1, <3>1
    <3>3. QED
      BY <1>10, <3>2 DEF MadeOf
  <2>3. WholeK(s, p)
    BY <1>10, <2>2 DEF WholeK
  <2>6. QED
    BY <1>1, <1>4, <1>8, <1>9, <1>12, <2>2, <2>3 DEF bm, bn, a, b, s
<1>13. QED
  BY <1>11, <1>12

(* Blocks in m, n and k. *)
LEMMA SliceBlocks ==
  ASSUME NEW i, NEW p, Sized(p), Legal(i, p), i.partition = "mnk_3d", NEW t \in 0 .. Nthrs(i) - 1
  PROVE  LET s == SliceOf(i, t, p)
             c == (t \div i.nthrs_m) \div i.nthrs_n
         IN /\ InRows(s, p, t % i.nthrs_m, i.thread_m, i.nthrs_m)
            /\ InCols(s, p, (t \div i.nthrs_m) % i.nthrs_n, i.thread_n, i.nthrs_n)
            /\ \A k \in 0 .. p.k - 1 : k \in Ks(s) <=> Layer(k, c, i.thread_k, i.nthrs_k)
            /\ s.ithr_k = c
            /\ i.nthrs_k = 1 => WholeK(s, p)
<1> DEFINE s == SliceOf(i, t, p)
           a == t % i.nthrs_m
           b == (t \div i.nthrs_m) % i.nthrs_n
           c == (t \div i.nthrs_m) \div i.nthrs_n
           dm == Block(a, i.thread_m, p.m)
           dn == Block(b, i.thread_n, p.n)
           dk == Block(c, i.thread_k, p.k)
<1>1. /\ a \in 0 .. i.nthrs_m - 1 /\ b \in 0 .. i.nthrs_n - 1 /\ c \in 0 .. i.nthrs_k - 1
      /\ Blocks(i.nthrs_m, i.thread_m, p.m) /\ Blocks(i.nthrs_n, i.thread_n, p.n)
      /\ Blocks(i.nthrs_k, i.thread_k, p.k)
      /\ dm \in Bounds(p.m) /\ dn \in Bounds(p.n) /\ dk \in Bounds(p.k)
      /\ s = Slice(dm, dn, dk, c)
  BY Slice3d
<1> HIDE DEF s, a, b, c
<1>2. p.m \in Nat /\ p.n \in Nat /\ p.k \in Nat /\ c \in Nat /\ p.k \in Positive
  BY <1>1, SMTT(30) DEF Sized, Positive
<1>3. /\ \A x \in 0 .. p.m - 1 : x \in Items(dm) <=> Layer(x, a, i.thread_m, i.nthrs_m)
      /\ \A x \in 0 .. p.n - 1 : x \in Items(dn) <=> Layer(x, b, i.thread_n, i.nthrs_n)
      /\ \A x \in 0 .. p.k - 1 : x \in Items(dk) <=> Layer(x, c, i.thread_k, i.nthrs_k)
  BY <1>1, <1>2, BlockLayer
<1>4. ASSUME i.nthrs_k = 1 PROVE c = 0 /\ dk.off = 0 /\ dk.size = p.k
  <2>1. c = 0 /\ i.thread_k \in Positive /\ p.k <= i.thread_k
    BY <1>1, <1>2, <1>4, SMTT(30) DEF Blocks, Positive
  <2>2. QED
    BY <1>2, <2>1, SMTT(30) DEF Block, Positive, Smaller, Larger
<1> HIDE DEF dm, dn, dk
<1>5. /\ Rows(s) = Items(dm) /\ Cols(s) = Items(dn) /\ Ks(s) = Items(dk) /\ s.ithr_k = c
      /\ s.off_k = dk.off /\ s.k = dk.size
  <2>1. MadeOf(Slice(dm, dn, dk, c), dm, dn, dk, c)
    BY <1>1, <1>2, SliceMade
  <2>2. MadeOf(s, dm, dn, dk, c)
    BY <1>1, <2>1
  <2>3. QED
    BY <2>2 DEF MadeOf
<1>6. /\ InRows(s, p, a, i.thread_m, i.nthrs_m) /\ InCols(s, p, b, i.thread_n, i.nthrs_n)
      /\ \A k \in 0 .. p.k - 1 : k \in Ks(s) <=> Layer(k, c, i.thread_k, i.nthrs_k)
      /\ i.nthrs_k = 1 => WholeK(s, p)
  BY <1>3, <1>4, <1>5 DEF InRows, InCols, WholeK
<1>7. QED
  BY <1>5, <1>6 DEF s, a, b, c

(* Two parts that divide k alike have no element of C in common. *)
LEMMA PartsApart ==
  ASSUME NEW i, NEW p, Sized(p), Tiled(p), Legal(i, p),
         NEW t \in 0 .. Nthrs(i) - 1, NEW u \in 0 .. Nthrs(i) - 1,
         NEW r \in 0 .. p.m - 1, NEW c \in 0 .. p.n - 1,
         r \in Rows(SliceOf(i, t, p)), c \in Cols(SliceOf(i, t, p)),
         r \in Rows(SliceOf(i, u, p)), c \in Cols(SliceOf(i, u, p)),
         SliceOf(i, t, p).ithr_k = SliceOf(i, u, p).ithr_k
  PROVE  t = u
<1> DEFINE s == SliceOf(i, t, p)
           v == SliceOf(i, u, p)
           nm == i.nthrs_m
           nn == i.nthrs_n
           nk == i.nthrs_k
           N == Nthrs(i)
<1>1. /\ nm \in Positive /\ nn \in Positive /\ nk \in Positive /\ N \in Positive
      /\ i.partition \in {"row_1d", "col_1d", "col_major_2d", "mnk_3d"}
  BY LegalFacts
<1>2. /\ p.m \in Nat /\ p.n \in Nat /\ N \in Nat \ {0} /\ N \in Nat
      /\ nm \in Nat /\ nm \in Nat \ {0} /\ nn \in Nat
  BY <1>1 DEF Sized, Positive
<1>3. r \in Nat /\ c \in Nat /\ t \in Nat /\ u \in Nat
  BY SMTT(30)
<1>4. r \in Rows(s) /\ c \in Cols(s) /\ r \in Rows(v) /\ c \in Cols(v) /\ s.ithr_k = v.ithr_k
  OBVIOUS
<1>5. CASE i.partition = "row_1d"
  <2> DEFINE z == BandSize(N, p.m)
  <2>1. z \in Nat
    BY <1>2, BandSizeNat
  <2>2. InRows(s, p, t, z, N) /\ InRows(v, p, u, z, N)
    BY <1>5, SliceRow
  <2> HIDE DEF z, s, v, N
  <2>3. Layer(r, t, z, N) /\ Layer(r, u, z, N)
    BY <1>4, <2>2 DEF InRows
  <2>4. t \in 0 .. N - 1 /\ u \in 0 .. N - 1
    BY DEF N
  <2>5. QED
    BY <1>2, <1>3, <2>1, <2>3, <2>4, LayersApart
<1>6. CASE i.partition = "col_1d"
  <2> DEFINE z == BandSize(N, p.n)
  <2>1. z \in Nat
    BY <1>2, BandSizeNat
  <2>2. InCols(s, p, t, z, N) /\ InCols(v, p, u, z, N)
    BY <1>6, SliceCol
  <2> HIDE DEF z, s, v, N
  <2>3. Layer(c, t, z, N) /\ Layer(c, u, z, N)
    BY <1>4, <2>2 DEF InCols
  <2>4. t \in 0 .. N - 1 /\ u \in 0 .. N - 1
    BY DEF N
  <2>5. QED
    BY <1>2, <1>3, <2>1, <2>3, <2>4, LayersApart
<1>7. CASE i.partition = "col_major_2d"
  <2> DEFINE zm == Bands(p.m, nm, TRUE).val
             bn == Bands(p.n, nn, FALSE)
             zn == bn.val
             un == bn.used
  <2>1. /\ zm \in Nat /\ zn \in Nat /\ un \in 1 .. nn
        /\ t % nm \in 0 .. nm - 1 /\ t \div nm \in Nat /\ (t < nm * un => t \div nm < un)
        /\ t < nm * un => InRows(s, p, t % nm, zm, nm) /\ InCols(s, p, t \div nm, zn, un)
        /\ ~(t < nm * un) => Rows(s) = {}
    BY <1>7, SliceGrid
  <2>2. /\ u % nm \in 0 .. nm - 1 /\ u \div nm \in Nat /\ (u < nm * un => u \div nm < un)
        /\ u < nm * un => InRows(v, p, u % nm, zm, nm) /\ InCols(v, p, u \div nm, zn, un)
        /\ ~(u < nm * un) => Rows(v) = {}
    BY <1>7, SliceGrid
  <2> HIDE DEF zm, zn, un, s, v, nm
  <2>3. /\ Layer(r, t % nm, zm, nm) /\ Layer(c, t \div nm, zn, un)
        /\ Layer(r, u % nm, zm, nm) /\ Layer(c, u \div nm, zn, un)
        /\ t \div nm < un /\ u \div nm < un
    BY <1>4, <2>1, <2>2 DEF InRows, InCols
  <2>4. t % nm = u % nm
    BY <1>2, <1>3, <2>1, <2>2, <2>3, LayersApart
  <2>5. un \in Nat /\ t \div nm \in 0 .. un - 1 /\ u \div nm \in 0 .. un - 1
    <3> DEFINE a == t \div nm
               b == u \div nm
    <3>1. a \in Nat /\ b \in Nat /\ a < un /\ b < un /\ un \in 1 .. nn
      BY <2>1, <2>2, <2>3
    <3> HIDE DEF a, b, nn
    <3>2. un \in Nat /\ a \in 0 .. un - 1 /\ b \in 0 .. un - 1
      BY <3>1, SMTT(30)
    <3>3. QED
      BY <3>2 DEF a, b
  <2>6. t \div nm = u \div nm
    BY <1>3, <2>1, <2>3, <2>5, LayersApart
  <2>7. t = (t \div nm) * nm + (t % nm) /\ u = (u \div nm) * nm + (u % nm)
    BY <1>2, <1>3, ModFacts
  <2>8. QED
    BY <2>4, <2>6, <2>7
<1>8. CASE i.partition = "mnk_3d"
  <2>1. /\ InRows(s, p, t % nm, i.thread_m, nm) /\ InRows(v, p, u % nm, i.thread_m, nm)
        /\ InCols(s, p, (t \div nm) % nn, i.thread_n, nn)
        /\ InCols(v, p, (u \div nm) % nn, i.thread_n, nn)
        /\ s.ithr_k = (t \div nm) \div nn /\ v.ithr_k = (u \div nm) \div nn
    BY <1>8, SliceBlocks
  <2>2. /\ t \in 0 .. nm * nn * nk - 1 /\ u \in 0 .. nm * nn * nk - 1
    BY DEF Nthrs
  <2>3. i.thread_m \in Nat /\ i.thread_n \in Nat
    BY <1>8, SMTT(30) DEF Legal
  <2> HIDE DEF s, v, nm, nn, nk
  <2>4. /\ t % nm \in 0 .. nm - 1 /\ (t \div nm) % nn \in 0 .. nn - 1
        /\ u % nm \in 0 .. nm - 1 /\ (u \div nm) % nn \in 0 .. nn - 1
    BY <1>1, <2>2, Coordinates
  <2>5. /\ Layer(r, t % nm, i.thread_m, nm) /\ Layer(r, u % nm, i.thread_m, nm)
        /\ Layer(c, (t \div nm) % nn, i.thread_n, nn) /\ Layer(c, (u \div nm) % nn, i.thread_n, nn)
    BY <1>4, <2>1 DEF InRows, InCols
  <2>6. t % nm = u % nm
    BY <1>2, <1>3, <2>3, <2>4, <2>5, LayersApart
  <2>7. (t \div nm) % nn = (u \div nm) % nn
    BY <1>2, <1>3, <2>3, <2>4, <2>5, LayersApart
  <2>8. (t \div nm) \div nn = (u \div nm) \div nn
    BY <1>4, <2>1
  <2>9. QED
    BY <1>1, <1>3, <2>6, <2>7, <2>8, CoordinatesUnique
<1>9. QED
  BY <1>1, <1>5, <1>6, <1>7, <1>8

(* Every element of C is in a part that computes into C itself. *)
LEMMA PartsCover ==
  ASSUME NEW i, NEW p, Sized(p), Tiled(p), Legal(i, p), NEW r \in 0 .. p.m - 1, NEW c \in 0 .. p.n - 1
  PROVE  \E t \in 0 .. Nthrs(i) - 1 :
            /\ r \in Rows(SliceOf(i, t, p)) /\ c \in Cols(SliceOf(i, t, p))
            /\ SliceOf(i, t, p).ithr_k = 0
<1> DEFINE nm == i.nthrs_m
           nn == i.nthrs_n
           nk == i.nthrs_k
           N == Nthrs(i)
<1>1. /\ nm \in Positive /\ nn \in Positive /\ nk \in Positive /\ N \in Positive
      /\ N = nm * nn * nk
      /\ i.partition \in {"row_1d", "col_1d", "col_major_2d", "mnk_3d"}
  BY LegalFacts
<1>2. /\ p.m \in Nat /\ p.n \in Nat /\ N \in Nat \ {0} /\ nm \in Nat \ {0} /\ nn \in Nat \ {0}
  BY <1>1 DEF Sized, Positive
<1>3. r \in Nat /\ c \in Nat
  BY SMTT(30)
<1>4. ASSUME NEW a \in 0 .. nm - 1, NEW b \in 0 .. nn - 1
      PROVE  /\ b * nm + a \in 0 .. N - 1
             /\ (b * nm + a) \div nm = b /\ (b * nm + a) % nm = a /\ b \div nn = 0 /\ b % nn = b
  <2> HIDE DEF nm, nn, nk, N
  <2>1. a \in Nat /\ b \in Nat /\ b + 1 \in Nat /\ b + 1 <= nn /\ nm \in Nat /\ nn \in Nat /\ nk \in Nat
    BY <1>1, <1>2, SMTT(30) DEF Positive
  <2> DEFINE w == b * nm
             v == nn * nm
  <2>2. w \in Nat /\ (b + 1) * nm = w + nm /\ nm * nn = v /\ v \in Nat
    BY <2>1, SMTT(30)
  <2>3. (b + 1) * nm <= v
    BY <2>1, TimesMonotone
  <2>4. v <= N
    <3>1. nm * nn \in Positive
      BY <1>1, TimesPositive
    <3>2. nm * nn <= (nm * nn) * nk
      BY <1>1, <3>1, TimesPositive
    <3>3. QED
      BY <1>1, <2>2, <3>2
  <2> HIDE DEF w, v
  <2>5. w + a \in 0 .. N - 1 /\ w + a \in Nat
    BY <1>2, <2>1, <2>2, <2>3, <2>4, SMTT(30)
  <2>6. (w + a) \div nm = b /\ (w + a) % nm = a
    BY <1>2, <2>1, DivModPlace DEF w
  <2>7. b \div nn = 0 /\ b % nn = b
    <3>1. 0 \in Nat /\ b = 0 * nn + b
      BY <2>1, SMTT(30)
    <3>2. QED
      BY <1>2, <2>1, <3>1, SMTT(30)
  <2>8. QED
    BY <2>5, <2>6, <2>7 DEF w
<1>5. CASE i.partition = "row_1d"
  <2> DEFINE z == BandSize(N, p.m)
  <2>1. z \in Nat
    BY <1>2, BandSizeNat
  <2>2. PICK t \in 0 .. N - 1 : Layer(r, t, z, N)
    BY <1>1, <1>3, <2>1, LayersCover
  <2>3. InRows(SliceOf(i, t, p), p, t, z, N) /\ Cols(SliceOf(i, t, p)) = 0 .. p.n - 1
        /\ WholeK(SliceOf(i, t, p), p)
    BY <1>5, SliceRow
  <2>4. QED
    BY <2>2, <2>3 DEF InRows, WholeK
<1>6. CASE i.partition = "col_1d"
  <2> DEFINE z == BandSize(N, p.n)
  <2>1. z \in Nat
    BY <1>2, BandSizeNat
  <2>2. PICK t \in 0 .. N - 1 : Layer(c, t, z, N)
    BY <1>1, <1>3, <2>1, LayersCover
  <2>3. InCols(SliceOf(i, t, p), p, t, z, N) /\ Rows(SliceOf(i, t, p)) = 0 .. p.m - 1
        /\ WholeK(SliceOf(i, t, p), p)
    BY <1>6, SliceCol
  <2>4. QED
    BY <2>2, <2>3 DEF InCols, WholeK
<1>7. CASE i.partition = "col_major_2d"
  <2> DEFINE zm == Bands(p.m, nm, TRUE).val
             bn == Bands(p.n, nn, FALSE)
             zn == bn.val
             un == bn.used
  <2>1. /\ zm \in Nat /\ zn \in Nat /\ un \in 1 .. nn
    <3>1. 0 \in 0 .. N - 1
      BY <1>2, SMTT(30)
    <3>2. QED
      BY <1>7, <3>1, SliceGrid
  <2>2. un \in Positive
    <3> HIDE DEF un, nn
    <3>1. QED
      BY <1>2, <2>1, SMTT(30) DEF Positive
  <2>3. PICK a \in 0 .. nm - 1 : Layer(r, a, zm, nm)
    BY <1>1, <1>3, <2>1, LayersCover
  <2>4. PICK b \in 0 .. un - 1 : Layer(c, b, zn, un)
    <3> HIDE DEF un, zn
    <3>1. QED
      BY <1>3, <2>1, <2>2, LayersCover
  <2>5. b \in 0 .. nn - 1 /\ b < un
    <3> HIDE DEF un, nn
    <3>1. QED
      BY <1>2, <2>1, SMTT(30)
  <2> DEFINE t == b * nm + a
             s == SliceOf(i, t, p)
  <2>6. t \in 0 .. N - 1 /\ t \div nm = b /\ t % nm = a
    BY <1>4, <2>5
  <2> HIDE DEF t
  <2>7. /\ t \div nm < un => t < nm * un
        /\ t < nm * un => InRows(s, p, t % nm, zm, nm) /\ InCols(s, p, t \div nm, zn, un)
        /\ WholeK(s, p)
    BY <1>7, <2>6, SliceGrid
  <2> HIDE DEF s, un, zn, zm, nm
  <2>8. InRows(s, p, a, zm, nm) /\ InCols(s, p, b, zn, un) /\ WholeK(s, p)
    BY <2>5, <2>6, <2>7
  <2>9. r \in Rows(s) /\ c \in Cols(s) /\ s.ithr_k = 0
    BY <2>3, <2>4, <2>8 DEF InRows, InCols, WholeK
  <2>10. QED
    BY <2>6, <2>9 DEF s
<1>8. CASE i.partition = "mnk_3d"
  <2>1. i.thread_m \in Nat /\ i.thread_n \in Nat
    BY <1>8, SMTT(30) DEF Legal
  <2>2. PICK a \in 0 .. nm - 1 : Layer(r, a, i.thread_m, nm)
    BY <1>1, <1>3, <2>1, LayersCover
  <2>3. PICK b \in 0 .. nn - 1 : Layer(c, b, i.thread_n, nn)
    BY <1>1, <1>3, <2>1, LayersCover
  <2> DEFINE t == b * nm + a
             s == SliceOf(i, t, p)
  <2>4. t \in 0 .. N - 1 /\ t \div nm = b /\ t % nm = a /\ b \div nn = 0 /\ b % nn = b
    BY <1>4
  <2> HIDE DEF t
  <2>5. /\ InRows(s, p, t % nm, i.thread_m, nm)
        /\ InCols(s, p, (t \div nm) % nn, i.thread_n, nn)
        /\ s.ithr_k = (t \div nm) \div nn
    BY <1>8, <2>4, SliceBlocks
  <2> HIDE DEF s, nm, nn
  <2>6. InRows(s, p, a, i.thread_m, nm) /\ InCols(s, p, b, i.thread_n, nn) /\ s.ithr_k = 0
    BY <2>4, <2>5
  <2>7. r \in Rows(s) /\ c \in Cols(s) /\ s.ithr_k = 0
    BY <2>2, <2>3, <2>6 DEF InRows, InCols
  <2>8. QED
    BY <2>4, <2>7 DEF s
<1>9. QED
  BY <1>1, <1>5, <1>6, <1>7, <1>8

-----------------------------------------------------------------------------
(* The parts of a block that share the k dimension. *)

(* Column x, row y and layer q of a grid of a columns and b rows. *)
Cell(i, a, b, x, y, q) == i % a = x /\ (i \div a) % b = y /\ (i \div a) \div b = q

(* A place in a grid of n layers, and its coordinates. *)
LEMMA Stacked ==
  ASSUME NEW a \in Positive, NEW b \in Positive, NEW n \in Positive,
         NEW q \in 0 .. n - 1, NEW y \in 0 .. b - 1, NEW x \in 0 .. a - 1
  PROVE  /\ (q * b + y) * a + x \in 0 .. a * b * n - 1
         /\ Cell((q * b + y) * a + x, a, b, x, y, q)
<1> DEFINE m == q * b + y
           i == m * a + x
<1>1. a \in Nat \ {0} /\ b \in Nat \ {0} /\ n \in Nat \ {0} /\ q \in Nat /\ y \in Nat /\ x \in Nat
      /\ y < b /\ x < a /\ q + 1 <= n
  BY SMTT(30) DEF Positive
<1>2. m \div b = q /\ m % b = y
  BY <1>1, DivModPlace
<1>3. m \in Nat /\ m < (q + 1) * b
  <2>1. (q + 1) * b = q * b + b /\ q * b \in Nat
    BY <1>1, SMTT(30)
  <2> DEFINE w == q * b
  <2>2. (q + 1) * b = w + b /\ w \in Nat
    BY <2>1
  <2> HIDE DEF w
  <2>3. w + y \in Nat /\ w + y < w + b
    BY <1>1, <2>2, SMTT(30)
  <2>4. QED
    BY <2>2, <2>3 DEF w
<1> HIDE DEF m
<1>4. i \div a = m /\ i % a = x
  BY <1>1, <1>3, DivModPlace
<1>5. (q + 1) * b <= n * b
  <2>1. q + 1 \in Nat /\ n \in Nat /\ b \in Nat /\ q + 1 <= n
    BY <1>1, SMTT(30)
  <2>2. QED
    BY <2>1, TimesMonotone
<1>6. m + 1 <= n * b /\ n * b \in Nat /\ m + 1 \in Nat
  <2> DEFINE w == n * b
             v == (q + 1) * b
  <2>1. w \in Nat /\ v \in Nat
    BY <1>1, SMTT(30)
  <2>2. m < v /\ v <= w
    BY <1>3, <1>5
  <2> HIDE DEF w, v
  <2>3. m + 1 <= w /\ m + 1 \in Nat
    BY <1>3, <2>1, <2>2, SMTT(30)
  <2>4. QED
    BY <2>1, <2>3 DEF w
<1>7. (m + 1) * a <= (n * b) * a
  <2>1. a \in Nat
    BY <1>1
  <2>2. QED
    BY <1>6, <2>1, TimesMonotone
<1>8. (m + 1) * a = m * a + a /\ m * a \in Nat /\ (n * b) * a \in Nat /\ a * b * n = (n * b) * a
  BY <1>1, <1>3, SMTT(30)
<1> DEFINE w == m * a
           v == (n * b) * a
<1>9. w + a <= v /\ w \in Nat /\ v \in Nat
  BY <1>7, <1>8
<1> HIDE DEF w, v
<1>10. w + x \in 0 .. v - 1
  BY <1>1, <1>9, SMTT(30)
<1>11. i \in 0 .. a * b * n - 1
  BY <1>8, <1>10 DEF w, v
<1>12. QED
  BY <1>2, <1>4, <1>11 DEF m, Cell

(* The decomposition that splits k, as a fact about the state. *)
SplitPlan == at \in After /\ info # NoInfo /\ k_summing

(* What a decomposition with a split of k looks like. *)
LEMMA SplitFacts ==
  ASSUME DriverInv, SplitPlan
  PROVE  /\ info = forced /\ Legal(info, prob) /\ info.partition = "mnk_3d" /\ info.copy # "shared_a"
         /\ forced.nthrs_k \in Nat /\ forced.nthrs_k > 1 /\ forced.nthrs_k \in Positive
         /\ forced.nthrs_m \in Positive /\ forced.nthrs_n \in Positive
         /\ Nthrs(info) = forced.nthrs_m * forced.nthrs_n * forced.nthrs_k
         /\ prob.goal = Nthrs(info) /\ NthrEff = Nthrs(info)
         /\ Sized(prob) /\ Tiled(prob)
<1>1. /\ info = forced /\ Legal(info, prob) /\ info.partition = "mnk_3d" /\ prob.goal = Nthrs(info)
      /\ NthrEff = Nthrs(info)
  BY SectionFacts DEF SplitPlan
<1>2. info.copy # "shared_a"
  <2>1. info.copy = "shared_a" => info.partition = "col_1d"
    BY <1>1 DEF Legal
  <2>2. QED
    BY <1>1, <2>1
<1>3. /\ info.nthrs_m \in Positive /\ info.nthrs_n \in Positive /\ info.nthrs_k \in Positive
      /\ Nthrs(info) = info.nthrs_m * info.nthrs_n * info.nthrs_k
  BY <1>1, LegalFacts
<1>4. Sized(prob) /\ Tiled(prob)
  BY PlanSizes DEF DriverInv
<1>5. QED
  BY <1>1, <1>2, <1>3, <1>4 DEF SplitPlan, k_summing, Positive

(* The part with thr_k = q of the block of part i. *)
LEMMA PeerPlace ==
  ASSUME DriverInv, SplitPlan, NEW i \in Parts, NEW q \in 0 .. forced.nthrs_k - 1
  PROVE  /\ Peer(i, q) \in Parts /\ slice[Peer(i, q)].ithr_k = q
         /\ Peer(i, q) % forced.nthrs_m = i % forced.nthrs_m
         /\ (Peer(i, q) \div forced.nthrs_m) % forced.nthrs_n
              = (i \div forced.nthrs_m) % forced.nthrs_n
         /\ slice[i].ithr_k = (i \div forced.nthrs_m) \div forced.nthrs_n
         /\ slice[i].ithr_k \in 0 .. forced.nthrs_k - 1 /\ slice[i].ithr_k \in Nat
<1> DEFINE a == forced.nthrs_m
           b == forced.nthrs_n
           n == forced.nthrs_k
           x == i % a
           y == (i \div a) % b
           c == (i \div a) \div b
           j == (q * b + y) * a + x
<1>1. /\ info = forced /\ Legal(info, prob) /\ info.partition = "mnk_3d" /\ Sized(prob)
      /\ a \in Positive /\ b \in Positive /\ n \in Positive /\ Nthrs(info) = a * b * n
  BY SplitFacts
<1>2. i \in 0 .. Nthrs(info) - 1 /\ i \in 0 .. a * b * n - 1
  BY <1>1 DEF Parts
<1>3. ASSUME NEW u \in 0 .. Nthrs(info) - 1 PROVE slice[u].ithr_k = (u \div a) \div b
  <2>1. slice[u] = SliceOf(info, u, prob)
    BY PartSlice DEF SplitPlan
  <2>2. SliceOf(info, u, prob).ithr_k = (u \div info.nthrs_m) \div info.nthrs_n
    BY <1>1, SliceBlocks
  <2>3. QED
    BY <1>1, <2>1, <2>2
<1>4. /\ x \in 0 .. a - 1 /\ y \in 0 .. b - 1 /\ c \in 0 .. n - 1
      /\ i = (i \div a) * a + x /\ i \div a = c * b + y
  <2>1. a \in Positive /\ b \in Positive /\ n \in Positive /\ i \in 0 .. a * b * n - 1
    BY <1>1, <1>2
  <2> HIDE DEF a, b, n
  <2>2. /\ i % a \in 0 .. a - 1 /\ (i \div a) % b \in 0 .. b - 1 /\ (i \div a) \div b \in 0 .. n - 1
    BY <2>1, Coordinates
  <2>6. i \in Nat /\ a \in Nat \ {0} /\ b \in Nat \ {0}
    BY <2>1, SMTT(30) DEF Positive
  <2>3. i = (i \div a) * a + (i % a) /\ i \div a \in Nat
    BY <2>6, SMTT(30)
  <2> DEFINE d == i \div a
  <2>7. d \in Nat
    BY <2>3
  <2> HIDE DEF d
  <2>8. d = (d \div b) * b + (d % b)
    BY <2>6, <2>7, SMTT(30)
  <2>4. i \div a = ((i \div a) \div b) * b + ((i \div a) % b)
    BY <2>8 DEF d
  <2>5. QED
    BY <2>2, <2>3, <2>4
<1>5. slice[i].ithr_k = c
  BY <1>2, <1>3
<1>6. Peer(i, q) = i + (q - c) * (a * b)
  BY <1>5 DEF Peer, ThrKStride
<1>7. j \in 0 .. a * b * n - 1 /\ j % a = x /\ (j \div a) % b = y /\ (j \div a) \div b = q
  <2>1. /\ q \in 0 .. n - 1 /\ y \in 0 .. b - 1 /\ x \in 0 .. a - 1
        /\ a \in Positive /\ b \in Positive /\ n \in Positive
    BY <1>1, <1>4
  <2> HIDE DEF a, b, n, x, y
  <2>2. j \in 0 .. a * b * n - 1 /\ Cell(j, a, b, x, y, q)
    BY <2>1, Stacked
  <2>3. QED
    BY <2>2 DEF Cell
<1>8. Peer(i, q) = j
  <2>1. a \in Int /\ b \in Int /\ c \in Int /\ x \in Int /\ y \in Int /\ q \in Int
    <3>1. q \in 0 .. n - 1
      OBVIOUS
    <3> HIDE DEF a, b, n, x, y, c
    <3>2. QED
      BY <1>1, <1>4, <3>1, SMTT(30) DEF Positive
  <2>2. i = (c * b + y) * a + x
    BY <1>4
  <2>3. Peer(i, q) = ((c * b + y) * a + x) + (q - c) * (a * b)
    BY <1>6, <2>2
  <2> HIDE DEF a, b, c, x, y
  <2>4. ((c * b + y) * a + x) + (q - c) * (a * b) = (q * b + y) * a + x
    BY <2>1, SMTT(30)
  <2>5. QED
    BY <2>3, <2>4
<1>9. Peer(i, q) \in 0 .. Nthrs(info) - 1
  BY <1>1, <1>7, <1>8
<1>10. c \in Nat
  <2> HIDE DEF c, n
  <2>1. QED
    BY <1>1, <1>4, SMTT(30) DEF Positive
<1>11. QED
  BY <1>3, <1>4, <1>5, <1>7, <1>8, <1>9, <1>10 DEF Parts

(* What part u of a grid has. *)
LEMMA GridSlice ==
  ASSUME DriverInv, SplitPlan, NEW u \in Parts
  PROVE  /\ u \in Threads /\ u \in Nat
         /\ slice[u].off_m \in Nat /\ slice[u].m \in Nat /\ slice[u].off_n \in Nat /\ slice[u].n \in Nat
         /\ slice[u].off_n + slice[u].n <= prob.n
         /\ \A k \in 0 .. prob.k - 1 :
              k \in Ks(slice[u]) <=> Layer(k, slice[u].ithr_k, forced.thread_k, forced.nthrs_k)
         /\ MadeOf(slice[u], Block(u % forced.nthrs_m, forced.thread_m, prob.m),
                   Block((u \div forced.nthrs_m) % forced.nthrs_n, forced.thread_n, prob.n),
                   Block((u \div forced.nthrs_m) \div forced.nthrs_n, forced.thread_k, prob.k),
                   (u \div forced.nthrs_m) \div forced.nthrs_n)
<1>1. /\ info = forced /\ Legal(info, prob) /\ info.partition = "mnk_3d" /\ Sized(prob)
  BY SplitFacts
<1>2. u \in 0 .. Nthrs(info) - 1
  BY DEF Parts
<1>3. u \in Threads /\ slice[u] = SliceOf(info, u, prob) /\ Fits(slice[u], prob)
  BY <1>2, PartSlice DEF SplitPlan
<1> DEFINE a == u % info.nthrs_m
           b == (u \div info.nthrs_m) % info.nthrs_n
           c == (u \div info.nthrs_m) \div info.nthrs_n
<1>4. /\ c \in 0 .. info.nthrs_k - 1
      /\ Block(a, info.thread_m, prob.m) \in Bounds(prob.m)
      /\ Block(b, info.thread_n, prob.n) \in Bounds(prob.n)
      /\ Block(c, info.thread_k, prob.k) \in Bounds(prob.k)
      /\ SliceOf(info, u, prob) = Slice(Block(a, info.thread_m, prob.m), Block(b, info.thread_n, prob.n),
                                        Block(c, info.thread_k, prob.k), c)
  BY <1>1, <1>2, Slice3d
<1>5. c \in Nat
  <2>1. info.nthrs_k \in Positive
    BY <1>1, LegalFacts
  <2> HIDE DEF c
  <2>2. QED
    BY <1>4, <2>1, SMTT(30) DEF Positive
<1> HIDE DEF a, b, c
<1>6. MadeOf(slice[u], Block(a, info.thread_m, prob.m), Block(b, info.thread_n, prob.n),
             Block(c, info.thread_k, prob.k), c)
  <2>1. Sized(prob)
    BY <1>1
  <2> DEFINE bm == Block(a, info.thread_m, prob.m)
             bn == Block(b, info.thread_n, prob.n)
             bk == Block(c, info.thread_k, prob.k)
  <2>2. bm \in Bounds(prob.m) /\ bn \in Bounds(prob.n) /\ bk \in Bounds(prob.k)
    BY <1>4
  <2>3. slice[u] = Slice(bm, bn, bk, c)
    BY <1>3, <1>4
  <2> HIDE DEF bm, bn, bk
  <2>4. MadeOf(Slice(bm, bn, bk, c), bm, bn, bk, c)
    BY <1>5, <2>1, <2>2, SliceMade
  <2>5. QED
    BY <2>3, <2>4 DEF bm, bn, bk
<1>7. /\ slice[u].off_m \in Nat /\ slice[u].m \in Nat /\ slice[u].off_n \in Nat /\ slice[u].n \in Nat
      /\ slice[u].off_n + slice[u].n <= prob.n
  <2> DEFINE s == slice[u]
  <2>1. s \in Sizes /\ s.off_n + s.n <= prob.n
    BY <1>3 DEF Fits
  <2> HIDE DEF s
  <2>2. s.off_m \in Nat /\ s.m \in Nat /\ s.off_n \in Nat /\ s.n \in Nat
    BY <2>1, SMTT(30) DEF Sizes
  <2>3. QED
    BY <2>1, <2>2 DEF s
<1>8. \A k \in 0 .. prob.k - 1 :
         k \in Ks(slice[u]) <=> Layer(k, slice[u].ithr_k, info.thread_k, info.nthrs_k)
  <2>1. /\ SliceOf(info, u, prob).ithr_k = c
        /\ \A k \in 0 .. prob.k - 1 :
             k \in Ks(SliceOf(info, u, prob)) <=> Layer(k, c, info.thread_k, info.nthrs_k)
    BY <1>1, <1>2, SliceBlocks DEF c
  <2>2. QED
    BY <1>3, <2>1
<1>9. u \in Nat
  BY <1>3, SMTT(30) DEF Threads
<1>10. QED
  BY <1>1, <1>3, <1>6, <1>7, <1>8, <1>9 DEF a, b, c

(* The parts of a block have its rows and columns and one layer of k each. *)
LEMMA PeerSlice ==
  ASSUME DriverInv, SplitPlan, NEW i \in Parts, NEW q \in 0 .. forced.nthrs_k - 1
  PROVE  /\ Peer(i, q) \in Parts /\ slice[Peer(i, q)].ithr_k = q
         /\ Rows(slice[Peer(i, q)]) = Rows(slice[i]) /\ Cols(slice[Peer(i, q)]) = Cols(slice[i])
         /\ slice[Peer(i, q)].off_n = slice[i].off_n /\ slice[Peer(i, q)].n = slice[i].n
         /\ \A k \in 0 .. prob.k - 1 :
              k \in Ks(slice[Peer(i, q)]) <=> Layer(k, q, forced.thread_k, forced.nthrs_k)
<1> DEFINE p == Peer(i, q)
           a == i % forced.nthrs_m
           b == (i \div forced.nthrs_m) % forced.nthrs_n
           bm == Block(a, forced.thread_m, prob.m)
           bn == Block(b, forced.thread_n, prob.n)
<1>1. p \in Parts /\ slice[p].ithr_k = q
      /\ p % forced.nthrs_m = a /\ (p \div forced.nthrs_m) % forced.nthrs_n = b
  BY PeerPlace
<1> DEFINE ci == (i \div forced.nthrs_m) \div forced.nthrs_n
           cp == (p \div forced.nthrs_m) \div forced.nthrs_n
<1>2. MadeOf(slice[i], bm, bn, Block(ci, forced.thread_k, prob.k), ci)
  BY GridSlice
<1> HIDE DEF p, a, b, ci, cp
<1>3. MadeOf(slice[p], Block(p % forced.nthrs_m, forced.thread_m, prob.m),
                       Block((p \div forced.nthrs_m) % forced.nthrs_n, forced.thread_n, prob.n),
                       Block(cp, forced.thread_k, prob.k), cp)
  BY <1>1, GridSlice DEF cp
<1>4. MadeOf(slice[p], bm, bn, Block(cp, forced.thread_k, prob.k), cp)
  BY <1>1, <1>3
<1>5. \A k \in 0 .. prob.k - 1 : k \in Ks(slice[p]) <=> Layer(k, q, forced.thread_k, forced.nthrs_k)
  <2>1. \A k \in 0 .. prob.k - 1 :
           k \in Ks(slice[p]) <=> Layer(k, slice[p].ithr_k, forced.thread_k, forced.nthrs_k)
    BY <1>1, GridSlice
  <2>2. QED
    BY <1>1, <2>1
<1> HIDE DEF bm, bn
<1>6. QED
  BY <1>1, <1>2, <1>4, <1>5 DEF MadeOf, p

(* A part is the peer of itself at its own place along k. *)
LEMMA PeerSelf ==
  ASSUME DriverInv, SplitPlan, NEW i \in Parts
  PROVE  Peer(i, slice[i].ithr_k) = i
<1>1. /\ i \in Nat /\ slice[i].ithr_k \in Nat
      /\ forced.nthrs_m \in Positive /\ forced.nthrs_n \in Positive
  <2>1. 0 \in 0 .. forced.nthrs_k - 1
    BY SplitFacts, SMTT(30)
  <2>2. slice[i].ithr_k \in Nat
    BY <2>1, PeerPlace
  <2>3. QED
    BY <2>2, GridSlice, SplitFacts
<1> DEFINE c == slice[i].ithr_k
           z == forced.nthrs_m * forced.nthrs_n
<1>2. Peer(i, c) = i + (c - c) * z
  BY DEF Peer, ThrKStride
<1>3. z \in Int /\ c \in Int /\ i \in Int
  <2> HIDE DEF c
  <2>1. z \in Positive
    BY <1>1, TimesPositive
  <2> HIDE DEF z
  <2>2. QED
    BY <1>1, <2>1, SMTT(30) DEF Positive, c
<1> HIDE DEF c, z
<1>4. i + (c - c) * z = i
  BY <1>3, SMTT(30)
<1>5. QED
  BY <1>2, <1>4 DEF c

(* An element of C and its row and column. *)
LEMMA ElementFacts ==
  ASSUME NEW x \in Elements(prob)
  PROVE  x[1] \in 0 .. prob.m - 1 /\ x[2] \in 0 .. prob.n - 1
BY SMTT(30) DEF Elements

(* The columns that part i adds up are one layer of its block. *)
LEMMA ShareLayer ==
  ASSUME DriverInv, SplitPlan, NEW i \in Parts, NEW x \in Elements(prob)
  PROVE  InShare(x, i) <=>
            /\ InPart(x, i)
            /\ Layer(x[2] - slice[i].off_n, slice[i].ithr_k, BandSize(forced.nthrs_k, slice[i].n),
                     forced.nthrs_k)
<1> DEFINE o == slice[i].off_n
           w == slice[i].n
           q == slice[i].ithr_k
           nk == forced.nthrs_k
           cols == Partition1d(q, nk, w)
           c == x[2]
<1>1. o \in Nat /\ w \in Nat /\ nk \in Positive /\ nk \in Nat /\ q \in 0 .. nk - 1
  <2>1. 0 \in 0 .. forced.nthrs_k - 1
    BY SplitFacts, SMTT(30)
  <2>2. QED
    BY <2>1, GridSlice, SplitFacts, PeerPlace
<1>2. c \in Nat
  <2>1. x[2] \in 0 .. prob.n - 1 /\ prob.n \in Positive
    BY ElementFacts, PlanSizes DEF DriverInv
  <2>2. QED
    BY <2>1, SMTT(30) DEF Positive
<1>3. /\ cols \in Bounds(w)
      /\ \A y \in 0 .. w - 1 : y \in Items(cols) <=> Layer(y, q, BandSize(nk, w), nk)
  <2> HIDE DEF w, q, nk
  <2>1. QED
    BY <1>1, Partition1dLayer
<1>4. InShare(x, i) <=> x[1] \in Rows(slice[i]) /\ c \in o + cols.off .. o + cols.off + cols.size - 1
  BY DEF InShare
<1>5. InPart(x, i) <=> x[1] \in Rows(slice[i]) /\ c \in o .. o + w - 1
  BY DEF InPart, Cols
<1> HIDE DEF o, w, q, nk, cols, c
<1>6. cols.off \in Nat /\ cols.size \in Nat /\ cols.off + cols.size <= w
  BY <1>3, SMTT(30) DEF Bounds
<1>7. c \in o + cols.off .. o + cols.off + cols.size - 1 <=>
         c \in o .. o + w - 1 /\ c - o \in cols.off .. cols.off + cols.size - 1
  BY <1>1, <1>2, <1>6, SMTT(30)
<1>8. c \in o .. o + w - 1 => c - o \in 0 .. w - 1
  BY <1>1, <1>2, SMTT(30)
<1>9. c \in o .. o + w - 1 =>
         (c - o \in cols.off .. cols.off + cols.size - 1 <=> Layer(c - o, q, BandSize(nk, w), nk))
  BY <1>3, <1>8 DEF Items
<1>10. InShare(x, i) <=> InPart(x, i) /\ Layer(c - o, q, BandSize(nk, w), nk)
  BY <1>4, <1>5, <1>7, <1>9
<1>11. QED
  BY <1>10 DEF c, o, q, nk, w

(* The columns of a part's share, counted from the part's first one. *)
LEMMA ShareType ==
  ASSUME DriverInv, SplitPlan, NEW i \in Parts, NEW x \in Elements(prob), InPart(x, i)
  PROVE  /\ x[2] - slice[i].off_n \in Nat
         /\ BandSize(forced.nthrs_k, slice[i].n) \in Nat
<1> DEFINE o == slice[i].off_n
           w == slice[i].n
           nk == forced.nthrs_k
           c == x[2]
<1>1. o \in Nat /\ w \in Nat /\ nk \in Positive
  BY GridSlice, SplitFacts
<1>2. c \in o .. o + w - 1
  BY DEF InPart, Cols
<1> HIDE DEF o, w, c
<1>3. c - o \in Nat
  BY <1>1, <1>2, SMTT(30)
<1> HIDE DEF nk
<1>4. BandSize(nk, w) \in Nat
  BY <1>1, BandSizeNat DEF Positive
<1>5. QED
  BY <1>3, <1>4 DEF o, w, c, nk

(* Every element is in the block of one part without a thr_k. *)
LEMMA BaseUnique ==
  ASSUME DriverInv, SplitPlan, NEW i \in Parts, NEW j \in Parts, NEW x \in Elements(prob),
         InPart(x, i), InPart(x, j)
  PROVE  Peer(i, 0) = Peer(j, 0)
<1>1. 0 \in 0 .. forced.nthrs_k - 1
  BY SplitFacts, SMTT(30)
<1> DEFINE u == Peer(i, 0)
           v == Peer(j, 0)
<1>2. u \in Parts /\ slice[u].ithr_k = 0 /\ Rows(slice[u]) = Rows(slice[i]) /\ Cols(slice[u]) = Cols(slice[i])
  BY <1>1, PeerSlice
<1>3. v \in Parts /\ slice[v].ithr_k = 0 /\ Rows(slice[v]) = Rows(slice[j]) /\ Cols(slice[v]) = Cols(slice[j])
  BY <1>1, PeerSlice
<1> HIDE DEF u, v
<1>4. u \in 0 .. Nthrs(info) - 1 /\ v \in 0 .. Nthrs(info) - 1
  BY <1>2, <1>3 DEF Parts
<1>5. slice[u] = SliceOf(info, u, prob) /\ slice[v] = SliceOf(info, v, prob)
  BY <1>4, PartSlice DEF SplitPlan
<1>6. x[1] \in Rows(slice[u]) /\ x[2] \in Cols(slice[u]) /\ x[1] \in Rows(slice[v]) /\ x[2] \in Cols(slice[v])
  BY <1>2, <1>3 DEF InPart
<1>7. /\ x[1] \in 0 .. prob.m - 1 /\ x[2] \in 0 .. prob.n - 1
      /\ Sized(prob) /\ Tiled(prob) /\ Legal(info, prob)
  BY ElementFacts, SplitFacts
<1>8. u = v
  BY <1>2, <1>3, <1>4, <1>5, <1>6, <1>7, PartsApart
<1>9. QED
  BY <1>8 DEF u, v

(* No two parts add to the same element ... *)
LEMMA SumSharesApart ==
  ASSUME DriverInv, SplitPlan, NEW i \in Parts, NEW j \in Parts, NEW x \in Elements(prob),
         InShare(x, i), InShare(x, j)
  PROVE  i = j
<1>1. InPart(x, i) /\ InPart(x, j)
  BY ShareLayer
<1>2. Peer(i, 0) = Peer(j, 0)
  BY <1>1, BaseUnique
<1>3. 0 \in 0 .. forced.nthrs_k - 1
  BY SplitFacts, SMTT(30)
<1>4. slice[i].off_n = slice[j].off_n /\ slice[i].n = slice[j].n
  <2>1. slice[Peer(i, 0)].off_n = slice[i].off_n /\ slice[Peer(i, 0)].n = slice[i].n
    BY <1>3, PeerSlice
  <2>2. slice[Peer(j, 0)].off_n = slice[j].off_n /\ slice[Peer(j, 0)].n = slice[j].n
    BY <1>3, PeerSlice
  <2>3. QED
    BY <1>2, <2>1, <2>2
<1> DEFINE y == x[2] - slice[i].off_n
           z == BandSize(forced.nthrs_k, slice[i].n)
           ci == slice[i].ithr_k
           cj == slice[j].ithr_k
           nk == forced.nthrs_k
<1>5. Layer(y, ci, z, nk) /\ Layer(y, cj, z, nk)
  BY <1>4, ShareLayer
<1>6. y \in Nat /\ z \in Nat /\ nk \in Nat /\ ci \in 0 .. nk - 1 /\ cj \in 0 .. nk - 1
  BY <1>1, <1>3, ShareType, SplitFacts, PeerPlace
<1>7. ci = cj
  <2> HIDE DEF y, z, ci, cj, nk
  <2>1. QED
    BY <1>5, <1>6, LayersApart
<1>8. /\ i % forced.nthrs_m = j % forced.nthrs_m
      /\ (i \div forced.nthrs_m) % forced.nthrs_n = (j \div forced.nthrs_m) % forced.nthrs_n
  <2>1. /\ Peer(i, 0) % forced.nthrs_m = i % forced.nthrs_m
        /\ (Peer(i, 0) \div forced.nthrs_m) % forced.nthrs_n = (i \div forced.nthrs_m) % forced.nthrs_n
    BY <1>3, PeerPlace
  <2>2. /\ Peer(j, 0) % forced.nthrs_m = j % forced.nthrs_m
        /\ (Peer(j, 0) \div forced.nthrs_m) % forced.nthrs_n = (j \div forced.nthrs_m) % forced.nthrs_n
    BY <1>3, PeerPlace
  <2>3. QED
    BY <1>2, <2>1, <2>2
<1>9. (i \div forced.nthrs_m) \div forced.nthrs_n = (j \div forced.nthrs_m) \div forced.nthrs_n
  <2>1. slice[i].ithr_k = (i \div forced.nthrs_m) \div forced.nthrs_n
    BY <1>3, PeerPlace
  <2>2. slice[j].ithr_k = (j \div forced.nthrs_m) \div forced.nthrs_n
    BY <1>3, PeerPlace
  <2>3. QED
    BY <1>7, <2>1, <2>2
<1>10. i \in Nat /\ j \in Nat /\ forced.nthrs_m \in Positive /\ forced.nthrs_n \in Positive
  BY GridSlice, SplitFacts
<1>11. QED
  BY <1>8, <1>9, <1>10, CoordinatesUnique

(* The order in which a part adds the matrices: each once. *)
LEMMA OrderFacts ==
  ASSUME DriverInv, SplitPlan, NEW i \in Parts
  PROVE  /\ \A n \in 0 .. forced.nthrs_k - 2 : Order(i, n) \in 1 .. forced.nthrs_k - 1
         /\ \A n \in 0 .. forced.nthrs_k - 2, m \in 0 .. forced.nthrs_k - 2 :
               Order(i, n) = Order(i, m) => n = m
         /\ \A q \in 1 .. forced.nthrs_k - 1 : \E n \in 0 .. forced.nthrs_k - 2 : Order(i, n) = q
<1> DEFINE own == slice[i].ithr_k
           nk == forced.nthrs_k
           ord(n) == IF own = 0 THEN n + 1
                     ELSE IF n = 0 THEN own
                     ELSE IF n < own THEN n ELSE n + 1
<1>1. own \in 0 .. nk - 1 /\ nk \in Nat /\ nk > 1
  <2>1. 0 \in 0 .. forced.nthrs_k - 1
    BY SplitFacts, SMTT(30)
  <2>2. QED
    BY <2>1, PeerPlace, SplitFacts
<1>2. \A n : Order(i, n) = ord(n)
  BY DEF Order
<1> HIDE DEF own, nk
<1>3. \A n \in 0 .. nk - 2 : ord(n) \in 1 .. nk - 1
  BY <1>1, SMTT(30)
<1>4. \A n \in 0 .. nk - 2, m \in 0 .. nk - 2 : ord(n) = ord(m) => n = m
  BY <1>1, SMTT(30)
<1>5. ASSUME NEW q \in 1 .. nk - 1 PROVE \E n \in 0 .. nk - 2 : ord(n) = q
  <2> DEFINE n == IF own = 0 THEN q - 1 ELSE IF q = own THEN 0 ELSE IF q < own THEN q ELSE q - 1
  <2>1. n \in 0 .. nk - 2 /\ ord(n) = q
    BY <1>1, SMTT(30)
  <2>2. QED
    BY <2>1
<1> HIDE DEF ord
<1>6. \A n \in 0 .. nk - 2 : Order(i, n) \in 1 .. nk - 1
  BY <1>2, <1>3
<1>7. \A n \in 0 .. nk - 2, m \in 0 .. nk - 2 : Order(i, n) = Order(i, m) => n = m
  BY <1>2, <1>4
<1>8. \A q \in 1 .. nk - 1 : \E n \in 0 .. nk - 2 : Order(i, n) = q
  <2>1. SUFFICES ASSUME NEW q \in 1 .. nk - 1 PROVE \E n \in 0 .. nk - 2 : Order(i, n) = q
    OBVIOUS
  <2>2. PICK n \in 0 .. nk - 2 : ord(n) = q
    BY <1>5
  <2>3. QED
    BY <1>2, <2>2
<1>9. QED
  BY <1>6, <1>7, <1>8 DEF nk

(* The layers of k of two parts of a block are disjoint, and cover k. *)
LEMMA KsApart ==
  ASSUME DriverInv, SplitPlan, NEW i \in Parts, NEW k \in 0 .. prob.k - 1,
         NEW q \in 0 .. forced.nthrs_k - 1, NEW r \in 0 .. forced.nthrs_k - 1,
         k \in Ks(slice[Peer(i, q)]), k \in Ks(slice[Peer(i, r)])
  PROVE  q = r
<1>1. /\ Layer(k, q, forced.thread_k, forced.nthrs_k) /\ Layer(k, r, forced.thread_k, forced.nthrs_k)
  BY PeerSlice
<1>2. forced.thread_k \in Nat /\ forced.nthrs_k \in Nat /\ k \in Nat
  <2>1. Legal(forced, prob) /\ prob.k \in Positive
    BY SplitFacts, PlanSizes DEF DriverInv
  <2>2. forced.thread_k \in Nat /\ forced.nthrs_k \in Positive
    BY <2>1, SMTT(30) DEF Legal
  <2>3. QED
    BY <2>1, <2>2, SMTT(30) DEF Positive
<1>3. QED
  BY <1>1, <1>2, LayersApart

(* The slices of k of a part's peers cover k. *)
LEMMA KsCover ==
  ASSUME DriverInv, SplitPlan, NEW i \in Parts, NEW k \in 0 .. prob.k - 1
  PROVE  \E q \in 0 .. forced.nthrs_k - 1 : k \in Ks(slice[Peer(i, q)])
<1>1. forced.thread_k \in Nat /\ forced.nthrs_k \in Positive /\ k \in Nat
  <2>1. Legal(forced, prob) /\ prob.k \in Positive
    BY SplitFacts, PlanSizes DEF DriverInv
  <2>2. forced.thread_k \in Nat /\ forced.nthrs_k \in Positive
    BY <2>1, SMTT(30) DEF Legal
  <2>3. QED
    BY <2>1, <2>2, SMTT(30) DEF Positive
<1>2. PICK q \in 0 .. forced.nthrs_k - 1 : Layer(k, q, forced.thread_k, forced.nthrs_k)
  BY <1>1, LayersCover
<1>3. k \in Ks(slice[Peer(i, q)])
  BY <1>2, PeerSlice
<1>4. QED
  BY <1>3

(* Part i has added all matrices: its elements are complete. *)
LEMMA SumComplete ==
  ASSUME DriverInv, SplitPlan, NEW i \in Parts, Handled(Peer(i, 0)), Summed(i) = forced.nthrs_k - 1
  PROVE  SumState(i) = State(prob.k)
<1>1. \A q \in 0 .. forced.nthrs_k - 1 : Has(i, q)
  <2>1. SUFFICES ASSUME NEW q \in 0 .. forced.nthrs_k - 1 PROVE Has(i, q)
    OBVIOUS
  <2>2. CASE q = 0
    BY <2>2 DEF Has
  <2>3. CASE q # 0
    <3> DEFINE nk == forced.nthrs_k
               s == Summed(i)
    <3>1. q \in 1 .. nk - 1 /\ nk \in Nat /\ s = nk - 1
      <4>1. nk \in Nat /\ q \in 0 .. nk - 1 /\ s = nk - 1
        BY SplitFacts
      <4> HIDE DEF nk, s
      <4>2. QED
        BY <2>3, <4>1, SMTT(30)
    <3>2. PICK n \in 0 .. nk - 2 : Order(i, n) = q
      BY <3>1, OrderFacts
    <3>3. n \in 0 .. s - 1
      <4> HIDE DEF nk, s
      <4>1. QED
        BY <3>1, SMTT(30)
    <3>4. QED
      BY <2>3, <3>2, <3>3 DEF Has
  <2>4. QED
    BY <2>2, <2>3
<1>2. \A k \in 0 .. prob.k - 1 :
          (IF \E q \in 0 .. forced.nthrs_k - 1 : k \in Ks(slice[Peer(i, q)]) /\ Has(i, q) THEN 1 ELSE 0)
             = (IF k < prob.k THEN 1 ELSE 0)
  <2>1. SUFFICES ASSUME NEW k \in 0 .. prob.k - 1
                 PROVE /\ \E q \in 0 .. forced.nthrs_k - 1 : k \in Ks(slice[Peer(i, q)]) /\ Has(i, q)
                       /\ k < prob.k
    OBVIOUS
  <2>2. PICK q \in 0 .. forced.nthrs_k - 1 : k \in Ks(slice[Peer(i, q)])
    BY KsCover
  <2>3. k < prob.k
    <3>1. prob.k \in Positive
      BY PlanSizes DEF DriverInv
    <3>2. QED
      BY <3>1, SMTT(30) DEF Positive
  <2>4. QED
    BY <1>1, <2>2, <2>3
<1>3. prob.k # 0
  <2>1. prob.k \in Positive
    BY PlanSizes DEF DriverInv
  <2>2. QED
    BY <2>1 DEF Positive
<1>4. [k \in 0 .. prob.k - 1 |->
          IF \E q \in 0 .. forced.nthrs_k - 1 : k \in Ks(slice[Peer(i, q)]) /\ Has(i, q) THEN 1 ELSE 0]
        = [k \in 0 .. prob.k - 1 |-> IF k < prob.k THEN 1 ELSE 0]
  BY <1>2
<1>5. QED
  BY <1>3, <1>4 DEF SumState, State

(* Nothing has been computed yet for the elements of part i. *)
LEMMA SumNothing ==
  ASSUME DriverInv, SplitPlan, NEW i \in Parts, ~Handled(Peer(i, 0)), Summed(i) = 0
  PROVE  SumState(i) = State(0)
<1>1. \A q \in 0 .. forced.nthrs_k - 1 : ~Has(i, q)
  <2>1. 0 .. Summed(i) - 1 = {}
    BY SMTT(30)
  <2>2. QED
    BY <2>1 DEF Has
<1>2. prob.k # 0 /\ \A k \in 0 .. prob.k - 1 : ~(k < 0)
  <2>1. prob.k \in Positive
    BY PlanSizes DEF DriverInv
  <2>2. QED
    BY <2>1, SMTT(30) DEF Positive
<1>3. [k \in 0 .. prob.k - 1 |->
          IF \E q \in 0 .. forced.nthrs_k - 1 : k \in Ks(slice[Peer(i, q)]) /\ Has(i, q) THEN 1 ELSE 0]
        = [k \in 0 .. prob.k - 1 |-> IF k < 0 THEN 1 ELSE 0]
  BY <1>1, <1>2
<1>4. QED
  BY <1>2, <1>3 DEF SumState, State

-----------------------------------------------------------------------------
(* The thread that works on a part. *)

(* Two parts of a thread are at least a team apart. *)
LEMMA TeamApart ==
  ASSUME NEW i \in Nat, NEW j \in Nat, NEW n \in Nat \ {0}, i % n = j % n, i > j
  PROVE  i >= j + n
<1> DEFINE p == i \div n
           q == j \div n
           r == i % n
<1>1. p \in Nat /\ q \in Nat /\ r \in Nat
  BY SMTT(30)
<1>2. i = p * n + r
  BY SMTT(30)
<1>3. j = q * n + r
  <2>1. j = q * n + (j % n)
    BY SMTT(30)
  <2>2. QED
    BY <2>1
<1> HIDE DEF p, q, r
<1>4. p > q
  <2>1. SUFFICES ASSUME p <= q PROVE FALSE
    BY <1>1, SMTT(30)
  <2>2. p * n <= q * n
    BY <1>1, <2>1, TimesMonotone
  <2> DEFINE x == p * n
             y == q * n
  <2>3. i = x + r /\ j = y + r /\ x <= y /\ x \in Nat /\ y \in Nat
    <3>1. x \in Nat /\ y \in Nat
      BY <1>1, SMTT(30)
    <3>2. QED
      BY <1>2, <1>3, <2>2, <3>1
  <2> HIDE DEF x, y
  <2>4. QED
    BY <1>1, <2>3, SMTT(30)
<1>5. (q + 1) * n <= p * n
  <2>1. q + 1 \in Nat /\ q + 1 <= p /\ n \in Nat
    BY <1>1, <1>4, SMTT(30)
  <2>2. QED
    BY <1>1, <2>1, TimesMonotone
<1>6. (q + 1) * n = q * n + n /\ q * n \in Nat /\ p * n \in Nat
  BY <1>1, SMTT(30)
<1> DEFINE x == p * n
           y == q * n
<1>7. y + n <= x /\ x \in Nat /\ y \in Nat /\ i = x + r /\ j = y + r
  BY <1>2, <1>3, <1>5, <1>6
<1> HIDE DEF x, y
<1>8. QED
  BY <1>1, <1>7, SMTT(30)

(* A part belongs to a thread of the team. *)
LEMMA OwnerFacts ==
  ASSUME DriverInv, at \in After, info # NoInfo, NEW i \in Parts
  PROVE  /\ Owner(i) \in Team /\ Owner(i) \in Threads /\ Owner(i) \in Nat /\ Owner(i) < nthr
         /\ i \in Threads /\ i \in Nat /\ i < Nthrs(info) /\ Owner(i) <= i
<1>1. nthr \in 1 .. NthrMax /\ nthr \in Nat \ {0} /\ Nthrs(info) \in Nat
  BY SectionFacts
<1>2. i \in 0 .. Nthrs(info) - 1 /\ i \in Threads
  BY PartSlice DEF Parts
<1>3. i \in Nat /\ i < Nthrs(info)
  <2> DEFINE N == Nthrs(info)
  <2>1. i \in 0 .. N - 1 /\ N \in Nat
    BY <1>1, <1>2
  <2> HIDE DEF N
  <2>2. i \in Nat /\ i < N
    BY <2>1, SMTT(30)
  <2>3. QED
    BY <2>2 DEF N
<1>4. i % nthr \in 0 .. nthr - 1 /\ i % nthr <= i
  <2> DEFINE d == i \div nthr
             r == i % nthr
  <2>1. d \in Nat /\ r \in 0 .. nthr - 1 /\ i = d * nthr + r
    BY <1>1, <1>3, SMTT(30)
  <2> HIDE DEF d, r
  <2>2. d * nthr \in Nat
    BY <1>1, <2>1, SMTT(30)
  <2> DEFINE x == d * nthr
  <2>3. x \in Nat /\ i = x + r
    BY <2>1, <2>2
  <2> HIDE DEF x
  <2>4. r <= i
    BY <1>1, <2>1, <2>3, SMTT(30)
  <2>5. QED
    BY <2>1, <2>4 DEF r
<1> DEFINE w == i % nthr
<1>5. w \in 0 .. nthr - 1
  BY <1>4
<1> HIDE DEF w
<1>6. w \in Nat /\ w < nthr /\ w \in 0 .. NthrMax - 1
  <2>1. nthr \in 1 .. NthrMax /\ NthrMax \in Positive
    BY <1>1, Consts
  <2>2. QED
    BY <1>5, <2>1, SMTT(30) DEF Positive
<1>7. QED
  BY <1>2, <1>3, <1>4, <1>5, <1>6 DEF w, Owner, Team, Threads

(* What a step of thread t leaves as it was for the parts of the others, ...*)
SamePart(i) ==
    /\ \A m \in 0 .. prob.m - 1 : Upto(i, m)' = Upto(i, m)
    /\ Handled(i)' <=> Handled(i)
    /\ Summed(i)' = Summed(i)
    /\ (ithr[Owner(i)] = i /\ pc[Owner(i)] = "dispatched")'
          <=> (ithr[Owner(i)] = i /\ pc[Owner(i)] = "dispatched")

(* What a step of a thread leaves alone. *)
LEMMA PartFrame ==
  ASSUME DriverInv, UNCHANGED <<section, at>>, at # "start"
  PROVE  /\ nthr' = nthr /\ slice' = slice /\ prob' = prob /\ forced' = forced /\ info' = info
         /\ Parts' = Parts /\ (Sums' <=> Sums) /\ \A i : Owner(i)' = Owner(i)
         /\ \A i, q : Peer(i, q)' = Peer(i, q)
         /\ \A i, n : Order(i, n)' = Order(i, n)
         /\ \A i, x : (InPart(x, i)' <=> InPart(x, i)) /\ (InShare(x, i)' <=> InShare(x, i))
         /\ \A u : State(u)' = State(u)
         /\ Elements(prob)' = Elements(prob)
         /\ (k_summing' <=> k_summing) /\ at' = at
         /\ (InSection' <=> InSection) /\ (Summing' <=> Summing)
<1>1. UNCHANGED <<prob, forced, info, nthr, slice>> /\ (Sums' <=> Sums) /\ (k_summing' <=> k_summing)
  BY ThreadFrame
<1>2. Parts' = Parts /\ \A i : Owner(i)' = Owner(i)
  BY <1>1 DEF Parts, Owner, Nthrs
<1>3. (\A i, q : Peer(i, q)' = Peer(i, q)) /\ \A i, n : Order(i, n)' = Order(i, n)
  BY <1>1 DEF Peer, Order
<1>4. \A i, x : (InPart(x, i)' <=> InPart(x, i)) /\ (InShare(x, i)' <=> InShare(x, i))
  BY <1>1 DEF InPart, InShare
<1>5. (\A u : State(u)' = State(u)) /\ Elements(prob)' = Elements(prob)
  BY <1>1 DEF State, Elements
<1>6. (InSection' <=> InSection) /\ (Summing' <=> Summing)
  BY <1>1 DEF InSection, Summing
<1>7. QED
  BY <1>1, <1>2, <1>3, <1>4, <1>5, <1>6

(* A part of another thread stays as it is. *)
LEMMA OthersPart ==
  ASSUME DriverInv, UNCHANGED <<section, at>>, at \in After, info # NoInfo, NEW t \in Threads, Others(t),
         NEW i \in Parts, Owner(i) # t
  PROVE  SamePart(i)
<1> DEFINE w == Owner(i)
<1>1. at # "start" /\ w \in Threads
  BY OwnerFacts DEF After
<1>2. pc'[w] = pc[w] /\ ithr'[w] = ithr[w] /\ pos'[w] = pos[w]
  BY <1>1 DEF Others
<1>3. slice' = slice /\ prob' = prob /\ forced' = forced /\ Owner(i)' = w /\ (Sums' <=> Sums) /\ at' = at
  BY <1>1, PartFrame
<1>4. SizeM(w)' = SizeM(w) /\ SizeK(w)' = SizeK(w)
  BY <1>2, <1>3 DEF SizeM, SizeK
<1>5. \A m : Upto(i, m)' = Upto(i, m)
  BY <1>2, <1>3, <1>4 DEF Upto
<1>6. (Handled(i)' <=> Handled(i)) /\ Summed(i)' = Summed(i)
  BY <1>2, <1>3 DEF Handled, Summed
<1>7. QED
  BY <1>2, <1>3, <1>5, <1>6 DEF SamePart

(* ... and for the other parts of its own. *)
LEMMA OwnPart ==
  ASSUME DriverInv, UNCHANGED <<section, at>>, at \in After, info # NoInfo, NEW t \in Threads,
         NEW i \in Parts, Owner(i) = t, ithr[t] # i,
         \/ ithr'[t] = ithr[t]
         \/ /\ ithr'[t] = ithr[t] + nthr /\ ithr[t] % nthr = t
            /\ pc'[t] \in {"loop", "sum", "out"} /\ (at = "section" => pc'[t] = "loop")
            /\ pc'[t] = "sum" => pos'[t].k = 0
  PROVE  SamePart(i)
<1>1. at # "start" /\ i \in Nat /\ nthr \in Nat \ {0} /\ ithr[t] \in Nat
  BY OwnerFacts, SectionFacts, Unmoved DEF After
<1>2. slice' = slice /\ prob' = prob /\ forced' = forced /\ Owner(i)' = t /\ (Sums' <=> Sums) /\ at' = at
  BY <1>1, PartFrame
<1>3. (ithr'[t] > i <=> ithr[t] > i)
      /\ (ithr'[t] = i => ithr'[t] # ithr[t] /\ ~(ithr[t] > i) /\ ~(ithr'[t] > i))
  <2>1. CASE ithr'[t] = ithr[t]
    BY <2>1
  <2>2. CASE ithr'[t] = ithr[t] + nthr /\ ithr[t] % nthr = t
    <3> DEFINE j == ithr[t]
    <3>1. j \in Nat /\ ithr'[t] = j + nthr /\ j % nthr = i % nthr /\ j # i
      BY <1>1, <2>2 DEF Owner
    <3> HIDE DEF j
    <3>2. i > j => i >= j + nthr
      BY <1>1, <3>1, TeamApart
    <3>3. (j + nthr > i <=> j > i) /\ (j + nthr = i => j + nthr # j /\ ~(j > i) /\ ~(j + nthr > i))
      BY <1>1, <3>1, <3>2, SMTT(30)
    <3>4. QED
      BY <3>1, <3>3 DEF j
  <2>3. QED
    BY <2>1, <2>2
<1>4. ithr'[t] = i => /\ pc'[t] \in {"loop", "sum", "out"} /\ (at = "section" => pc'[t] = "loop")
                      /\ pc'[t] = "sum" => pos'[t].k = 0
  BY <1>3
<1>5. ithr'[t] = i => pc'[t] \notin Blocked /\ pc'[t] # "dispatched"
  BY <1>4 DEF Blocked
<1>6. \A m : Upto(i, m)' = Upto(i, m)
  BY <1>2, <1>3, <1>5 DEF Upto
<1>7. Handled(i)' <=> Handled(i)
  BY <1>2, <1>3, <1>4 DEF Handled
<1>8. Summed(i)' = Summed(i)
  <2>1. CASE ithr[t] > i
    BY <1>2, <1>3, <2>1 DEF Summed
  <2>2. CASE ~(ithr[t] > i)
    <3>1. Summed(i) = 0
      BY <2>2 DEF Summed
    <3>2. Summed(i)' = 0
      BY <1>2, <1>3, <1>4, <2>2 DEF Summed
    <3>3. QED
      BY <3>1, <3>2
  <2>3. QED
    BY <2>1, <2>2
<1>9. QED
  BY <1>2, <1>5, <1>6, <1>7, <1>8 DEF SamePart

(* Both. *)
LEMMA OtherParts ==
  ASSUME DriverInv, UNCHANGED <<section, at>>, at \in After, info # NoInfo, NEW t \in Threads, Others(t),
         \/ ithr'[t] = ithr[t]
         \/ /\ ithr'[t] = ithr[t] + nthr /\ ithr[t] % nthr = t
            /\ pc'[t] \in {"loop", "sum", "out"} /\ (at = "section" => pc'[t] = "loop")
            /\ pc'[t] = "sum" => pos'[t].k = 0
  PROVE  \A i \in Parts : ithr[t] # i => SamePart(i)
BY OthersPart, OwnPart

-----------------------------------------------------------------------------
(* The result, for each step of the driver. *)

(* What part i sums is the same. *)
LEMMA SumSame ==
  ASSUME slice' = slice, forced' = forced, prob' = prob, NEW i,
         Handled(Peer(i, 0))' <=> Handled(Peer(i, 0)), Summed(i)' = Summed(i)
  PROVE  SumState(i)' = SumState(i)
<1>1. /\ \A q : Peer(i, q)' = Peer(i, q)
      /\ \A n : Order(i, n)' = Order(i, n)
  BY DEF Peer, Order
<1>2. \A q : Has(i, q)' <=> Has(i, q)
  BY <1>1 DEF Has
<1>3. \A q : slice'[Peer(i, q)'] = slice[Peer(i, q)]
  BY <1>1
<1>4. \A k : (\E q \in 0 .. forced'.nthrs_k - 1 : k \in Ks(slice'[Peer(i, q)']) /\ Has(i, q)')
             <=> \E q \in 0 .. forced.nthrs_k - 1 : k \in Ks(slice[Peer(i, q)]) /\ Has(i, q)
  BY <1>2, <1>3
<1>5. [k \in 0 .. prob'.k - 1 |->
          IF \E q \in 0 .. forced'.nthrs_k - 1 : k \in Ks(slice'[Peer(i, q)']) /\ Has(i, q)'
          THEN 1 ELSE 0]
      = [k \in 0 .. prob.k - 1 |->
          IF \E q \in 0 .. forced.nthrs_k - 1 : k \in Ks(slice[Peer(i, q)]) /\ Has(i, q)
          THEN 1 ELSE 0]
  BY <1>4
<1>6. QED
  BY <1>5 DEF SumState

-----------------------------------------------------------------------------
(* The result, for each step of a thread. *)

(* The invariant again, from what the step leaves of each part. *)
LEMMA SectionMade ==
  ASSUME DriverInv, ResultInv, UNCHANGED <<section, at>>, at \in {"section", "sum_section"},
         info # NoInfo, DOMAIN C' = DOMAIN C,
         at = "sum_section" => arg' = arg,
         ~k_summing => \A i \in Parts : Result(i)',
         k_summing => \A i \in Parts : SumResult(i)',
         at = "section" => \A i \in Parts : Flagged(i)'
  PROVE  ResultInv'
<1>1. at # "start" /\ at \notin Before
  BY DEF Before
<1>2. /\ prob' = prob /\ forced' = forced /\ info' = info /\ at' = at
      /\ Parts' = Parts /\ Elements(prob)' = Elements(prob)
      /\ (k_summing' <=> k_summing) /\ (InSection' <=> InSection) /\ (Summing' <=> Summing)
  BY <1>1, PartFrame
<1>3. ret' = ret /\ (ForceThreading' <=> ForceThreading)
  BY <1>2 DEF section, ForceThreading
<1>4. at = "sum_section" /\ ret = "success" => NoFail'
  BY DEF ResultInv, NoFail
<1>5. DOMAIN C' = Elements(prob)'
  BY <1>2 DEF ResultInv
<1>6. (InSection /\ ~ForceThreading => info.nthrs_k = 1)'
  BY <1>2, <1>3 DEF ResultInv
<1>7. QED
  BY <1>1, <1>2, <1>3, <1>4, <1>5, <1>6 DEF ResultInv, InSection, Summing

(* What a part has left in C, with a split of k, when nothing of it moves. *)
LEMMA SameSum ==
  ASSUME DriverInv, ResultInv, UNCHANGED <<section, at>>, SplitPlan, Summing, NEW i \in Parts,
         NoFail' => NoFail, local[i] => local'[i], Handled(i)' <=> Handled(i),
         Summed(i)' = Summed(i), Handled(Peer(i, 0))' <=> Handled(Peer(i, 0)),
         NoFail' => \A x \in Elements(prob) : InShare(x, i) => C'[x] = C[x]
  PROVE  SumResult(i)'
<1>1. at # "start"
  BY DEF SplitPlan, After
<1>2. /\ slice' = slice /\ prob' = prob /\ forced' = forced
      /\ Peer(i, 0)' = Peer(i, 0)
      /\ \A x : InShare(x, i)' <=> InShare(x, i)
      /\ Elements(prob)' = Elements(prob)
  BY <1>1, PartFrame
<1>3. SumResult(i)
  BY DEF ResultInv
<1>4. SumState(i)' = SumState(i)
  BY <1>2, SumSame
<1>5. QED
  BY <1>2, <1>3, <1>4 DEF SumResult

(* The flag of a part when nothing of it moves. *)
LEMMA SameFlag ==
  ASSUME DriverInv, ResultInv, UNCHANGED <<section, at>>, InSection, NEW i \in Parts,
         arg'[i].done = arg[i].done, SamePart(i) \/ ~Sums
  PROVE  Flagged(i)'
<1>1. at # "start"
  BY DEF InSection
<1>2. (Sums' <=> Sums) /\ Owner(i)' = Owner(i)
  BY <1>1, PartFrame
<1>3. Flagged(i)
  BY DEF ResultInv
<1>4. QED
  BY <1>2, <1>3 DEF Flagged, SamePart

(* How far the part of a thread has come, by where the thread is. *)
BlockEnd(t) == pos[t].m + (IF pc[t] = "computed" THEN SizeM(t) ELSE 0)

UptoPlace ==
    \A t \in Threads, j \in Parts : ithr[t] = j /\ j % nthr = t =>
       /\ pc[t] = "dispatched" => \A m : Upto(j, m) = prob.k
       /\ pc[t] \in Blocked =>
            \A m : Upto(j, m) = IF m < BlockEnd(t) THEN pos[t].k + SizeK(t) ELSE pos[t].k
       /\ pc[t] \notin Blocked \cup {"dispatched"} => \A m : Upto(j, m) = 0
       /\ Handled(j) <=> pc[t] \in {"dispatched", "sum"}
       /\ pc[t] # "sum" => Summed(j) = 0

(* The terms a part has added, by the place of its thread. *)
LEMMA OwnUpto == DriverInv /\ InSection => UptoPlace
<1>1. SUFFICES ASSUME DriverInv, InSection, NEW t \in Threads, NEW j \in Parts,
                      ithr[t] = j, j % nthr = t
               PROVE  /\ pc[t] = "dispatched" => \A m : Upto(j, m) = prob.k
                      /\ pc[t] \in Blocked =>
                           \A m : Upto(j, m)
                                    = IF m < BlockEnd(t) THEN pos[t].k + SizeK(t) ELSE pos[t].k
                      /\ pc[t] \notin Blocked \cup {"dispatched"} => \A m : Upto(j, m) = 0
                      /\ Handled(j) <=> pc[t] \in {"dispatched", "sum"}
                      /\ pc[t] # "sum" => Summed(j) = 0
  BY DEF UptoPlace
<1>2. Owner(j) = t /\ at = "section"
  BY <1>1 DEF Owner, InSection
<1>3. j \in Nat
  BY <1>1, Unmoved
<1>4. ~(j > j)
  BY <1>3, SMTT(30)
<1>5. ~(ithr[t] > j) /\ ithr[t] = j
  BY <1>1, <1>4
<1>6. pc[t] = "dispatched" => \A m : Upto(j, m) = prob.k
  BY <1>2, <1>5 DEF Upto
<1>7. /\ pc[t] \notin Blocked \cup {"dispatched"} => \A m : Upto(j, m) = 0
      /\ Handled(j) <=> pc[t] \in {"dispatched", "sum"}
      /\ pc[t] # "sum" => Summed(j) = 0
  BY <1>2, <1>5 DEF Upto, Handled, Summed
<1>8. ASSUME pc[t] \in Blocked, NEW m
      PROVE  Upto(j, m) = IF m < BlockEnd(t) THEN pos[t].k + SizeK(t) ELSE pos[t].k
  <2>1. slice[j].off_m = 0 /\ pos[t].m \in Nat /\ SizeM(t) \in 1 .. MPadd
    BY <1>1, <1>8, BlockFacts
  <2> DEFINE pm == pos[t].m
             sm == IF pc[t] = "computed" THEN SizeM(t) ELSE 0
  <2>2. pm \in Nat /\ sm \in Nat
    BY <2>1, Consts, SMTT(30) DEF Positive
  <2> HIDE DEF pm, sm
  <2>3. 0 + pm + sm = pm + sm
    BY <2>2, SMTT(30)
  <2>4. slice[j].off_m + pos[t].m + (IF pc[t] = "computed" THEN SizeM(t) ELSE 0) = BlockEnd(t)
    BY <2>1, <2>3 DEF BlockEnd, pm, sm
  <2>5. pc[t] # "dispatched"
    BY <1>8 DEF Blocked
  <2>6. QED
    BY <1>2, <1>5, <1>8, <2>4, <2>5 DEF Upto
<1>9. QED
  BY <1>6, <1>7, <1>8

(* ... and after a step. *)
LEMMA OwnNext ==
  ASSUME DriverInv, DriverInv', InSection, UNCHANGED <<section, at>>, NEW t \in Threads,
         NEW j \in Parts, ithr'[t] = j, j % nthr = t
  PROVE  /\ pc'[t] = "dispatched" => \A m : Upto(j, m)' = prob.k
         /\ pc'[t] \in Blocked =>
              \A m : Upto(j, m)' = IF m < BlockEnd(t)' THEN pos'[t].k + SizeK(t)' ELSE pos'[t].k
         /\ pc'[t] \notin Blocked \cup {"dispatched"} => \A m : Upto(j, m)' = 0
         /\ Handled(j)' <=> pc'[t] \in {"dispatched", "sum"}
         /\ pc'[t] # "sum" => Summed(j)' = 0
<1>1. at # "start"
  BY DEF InSection
<1>2. nthr' = nthr /\ Parts' = Parts /\ prob' = prob /\ InSection'
  BY <1>1, PartFrame
<1>3. (DriverInv /\ InSection => UptoPlace)'
  BY OwnUpto, PTL
<1>4. QED
  BY <1>2, <1>3 DEF UptoPlace

(* A thread with a part. *)
LEMMA ThreadPart ==
  ASSUME DriverInv, NEW t \in Threads, pc[t] \notin {"out", "whole", "sum"}
  PROVE  /\ InSection /\ at \in After /\ at # "start" /\ ithr[t] % nthr = t
         /\ pc[t] # "loop" => ithr[t] \in Parts
BY ThreadFacts DEF InSection, Parts

(* The flag of a part is not set before it is summed. *)
LEMMA OwnFlag ==
  ASSUME DriverInv, DriverInv', ResultInv, UNCHANGED <<section, at>>, NEW t \in Threads,
         pc[t] \notin {"out", "whole", "sum", "dispatched"}, pc'[t] # "sum", ithr'[t] = ithr[t],
         NEW j \in Parts, ithr[t] = j, arg'[j].done = arg[j].done
  PROVE  Flagged(j)'
<1>1. InSection /\ at # "start" /\ j % nthr = t
  BY ThreadPart
<1>2. ~Handled(j)
  BY <1>1, OwnUpto DEF UptoPlace
<1>3. Handled(j)' => pc'[t] = "dispatched"
  BY <1>1, OwnNext
<1>4. Owner(j)' = t
  BY <1>1, PartFrame DEF Owner
<1>5. Flagged(j)
  BY <1>1 DEF ResultInv
<1>6. QED
  BY <1>2, <1>3, <1>4, <1>5 DEF Flagged

(* Steps in which the part of the thread fails. *)
LEMMA FailResult ==
  ASSUME DriverInv, DriverInv', ResultInv, UNCHANGED <<section, at>>, NEW t \in Threads, Others(t),
         ithr' = ithr, pc[t] \notin {"out", "whole", "loop", "sum", "dispatched"}, pc'[t] # "sum",
         Fail(ithr[t]), DOMAIN C' = DOMAIN C
  PROVE  ResultInv'
<1> DEFINE i0 == ithr[t]
<1>1. InSection /\ at # "start" /\ at \in After /\ i0 \in Parts /\ i0 % nthr = t
  BY ThreadPart
<1>2. arg \in Args /\ i0 \in Threads
  BY <1>1, OwnerFacts DEF DriverInv, TypeOK, Args, InSection
<1>3. arg' = [arg EXCEPT ![i0].result = "out_of_memory"]
  BY DEF Fail
<1>4. arg'[i0].result = "out_of_memory" /\ \A i \in Threads : arg'[i].done = arg[i].done
  BY <1>2, <1>3, SMTT(30) DEF Args
<1>5. ~NoFail'
  BY <1>2, <1>4 DEF NoFail
<1>6. ithr'[t] = ithr[t]
  OBVIOUS
<1>7. \A i \in Parts : i0 # i => SamePart(i)
  BY <1>1, <1>6, OtherParts DEF InSection
<1>8. \A i \in Parts : i \in Threads
  BY <1>1, OwnerFacts DEF InSection
<1>9. ASSUME NEW i \in Parts PROVE Flagged(i)'
  <2>1. CASE i0 = i
    BY <1>4, <1>6, <1>8, <2>1, OwnFlag
  <2>2. CASE i0 # i
    BY <1>1, <1>4, <1>7, <1>8, <2>2, SameFlag
  <2>3. QED
    BY <2>1, <2>2
<1>10. ASSUME k_summing, NEW i \in Parts PROVE SumResult(i)'
  <2>1. SplitPlan /\ Summing
    BY <1>1, <1>10 DEF SplitPlan, Summing, InSection
  <2>2. 0 \in 0 .. forced.nthrs_k - 1
    BY <2>1, SplitFacts, SMTT(30)
  <2>3. Peer(i, 0) \in Parts /\ Peer(i, 0)' = Peer(i, 0)
    BY <1>1, <2>1, <2>2, PeerPlace, PartFrame
  <2>4. SumResult(i)
    BY <2>1 DEF ResultInv
  <2>5. ~(0 > 0)
    BY SMTT(30)
  <2>6. \A j \in Parts : i0 = j => ~Handled(j) /\ Summed(j)' = 0
    BY <1>1, OwnUpto, OwnNext DEF UptoPlace
  <2>7. Summed(i)' > 0 => Summed(i) > 0
    BY <1>7, <2>5, <2>6 DEF SamePart
  <2>8. \A j \in Parts : Handled(j) => Handled(j)'
    BY <1>7, <2>6 DEF SamePart
  <2>9. Handled(Peer(i, 0)) => Handled(Peer(i, 0))'
    <3> DEFINE j == Peer(i, 0)
    <3>1. j \in Parts /\ Peer(i, 0)' = j
      BY <2>3
    <3>2. QED
      BY <2>8, <3>1 DEF Handled
  <2>10. QED
    BY <1>5, <2>4, <2>7, <2>9 DEF SumResult
<1>11. ASSUME ~k_summing, NEW i \in Parts PROVE Result(i)'
  BY <1>5 DEF Result
<1>12. at = "section" /\ info # NoInfo
  BY <1>1 DEF InSection
<1>13. QED
  BY <1>9, <1>10, <1>11, <1>12, SectionMade

-----------------------------------------------------------------------------
(* The sums over k. *)

(* An element that has received the terms of a set. *)
Terms(base, S, co) ==
    [base |-> base, sum |-> [k \in 0 .. prob.k - 1 |-> IF k \in S THEN 1 ELSE 0], co |-> co]

(* The terms that the share of part i has received. *)
Received(i) ==
    {k \in 0 .. prob.k - 1 :
        \E q \in 0 .. forced.nthrs_k - 1 : k \in Ks(slice[Peer(i, q)]) /\ Has(i, q)}

(* The elements of a share, by the terms they have received. *)
LEMMA SumTerms ==
  ASSUME NEW i
  PROVE  SumState(i) = Terms(IF Handled(Peer(i, 0)) THEN "beta" ELSE "old", Received(i),
                             IF Handled(Peer(i, 0)) THEN 1 ELSE 0)
<1>1. [k \in 0 .. prob.k - 1 |->
         IF \E q \in 0 .. forced.nthrs_k - 1 : k \in Ks(slice[Peer(i, q)]) /\ Has(i, q) THEN 1 ELSE 0]
      = [k \in 0 .. prob.k - 1 |-> IF k \in Received(i) THEN 1 ELSE 0]
  BY DEF Received
<1>2. QED
  BY <1>1 DEF SumState, Terms

(* Adding terms that are not in the element yet. *)
LEMMA PlusSet ==
  ASSUME NEW base, base # "bad", NEW co, NEW S, NEW T,
         \A k \in 0 .. prob.k - 1 : ~(k \in S /\ k \in T)
  PROVE  Plus(Terms(base, S, co), T) = Terms(base, S \cup T, co)
<1> DEFINE D == 0 .. prob.k - 1
           f == [k \in D |-> IF k \in S THEN 1 ELSE 0]
           h == [x \in D |-> f[x] + (IF x \in T THEN 1 ELSE 0)]
           g == [k \in D |-> IF k \in S \cup T THEN 1 ELSE 0]
           e == [base |-> base, sum |-> f, co |-> co]
<1>1. h = g
  <2>1. ASSUME NEW x \in D
        PROVE  (IF x \in S THEN 1 ELSE 0) + (IF x \in T THEN 1 ELSE 0)
                  = IF x \in S \cup T THEN 1 ELSE 0
    <3>1. ~(x \in S /\ x \in T)
      BY <2>1
    <3>2. 0 + 0 = 0 /\ 1 + 0 = 1 /\ 0 + 1 = 1
      BY SMTT(30)
    <3>3. CASE x \in S
      BY <3>1, <3>2, <3>3
    <3>4. CASE x \notin S /\ x \in T
      BY <3>2, <3>4
    <3>5. CASE x \notin S /\ x \notin T
      BY <3>2, <3>5
    <3>6. QED
      BY <3>3, <3>4, <3>5
  <2>2. \A x \in D : f[x] = IF x \in S THEN 1 ELSE 0
    OBVIOUS
  <2>3. QED
    BY <2>1, <2>2
<1>2. DOMAIN f = D
  OBVIOUS
<1> HIDE DEF f, D
<1>3. e.base = base /\ e.sum = f
  BY SMTT(30)
<1>4. Plus(e, T) = [e EXCEPT !.sum = h]
  BY <1>2, <1>3 DEF Plus
<1> HIDE DEF h
<1>5. [e EXCEPT !.sum = h] = [base |-> base, sum |-> h, co |-> co]
  BY SMTT(30)
<1>6. Terms(base, S, co) = e /\ Terms(base, S \cup T, co) = [base |-> base, sum |-> g, co |-> co]
  BY DEF Terms, D, f
<1>7. QED
  BY <1>1, <1>4, <1>5, <1>6

(* The part with the first terms scales by beta and adds the offset. *)
LEMMA FirstTerms ==
  ASSUME PlanInv, NEW T
  PROVE  Multiplied(State(0), T, TRUE, TRUE) = Terms("beta", T, 1)
<1> DEFINE D == 0 .. prob.k - 1
           z == [k \in D |-> IF k < 0 THEN 1 ELSE 0]
           e == State(0)
           f == Fresh(e, IF e.base = "old" THEN "beta" ELSE "bad")
<1>1. e.base = "old" /\ DOMAIN e.sum = D
  BY SMTT(30) DEF State
<1>2. f = Terms("beta", {}, 0)
  <2> HIDE DEF e
  <2>1. f = [base |-> "beta", sum |-> [x \in D |-> 0], co |-> 0]
    BY <1>1 DEF Fresh
  <2>2. [x \in D |-> 0] = [k \in D |-> IF k \in {} THEN 1 ELSE 0]
    OBVIOUS
  <2>3. QED
    BY <2>1, <2>2 DEF Terms
<1> DEFINE u == Terms("beta", T, 0)
<1>3. Plus(f, T) = u
  <2>1. Plus(Terms("beta", {}, 0), T) = Terms("beta", {} \cup T, 0)
    <3>1. \A k \in 0 .. prob.k - 1 : ~(k \in {} /\ k \in T)
      OBVIOUS
    <3>2. "beta" # "bad"
      OBVIOUS
    <3>3. QED
      BY <3>1, <3>2, PlusSet, SMTT(30)
  <2>2. {} \cup T = T
    OBVIOUS
  <2>3. QED
    BY <1>2, <2>1, <2>2
<1>4. f.base = "beta"
  BY <1>2, SMTT(30) DEF Terms
<1>5. Multiplied(e, T, TRUE, TRUE) = [u EXCEPT !.co = @ + 1]
  <2> HIDE DEF u, e
  <2>1. (IF ~TRUE THEN e ELSE f) = f
    OBVIOUS
  <2>2. (IF TRUE /\ f.base # "bad" THEN 1 ELSE 0) = 1
    BY <1>4
  <2> HIDE DEF f
  <2>3. QED
    BY <1>3, <2>1, <2>2 DEF Multiplied, f
<1>6. [u EXCEPT !.co = @ + 1] = Terms("beta", T, 1)
  <2> DEFINE g == [k \in D |-> IF k \in T THEN 1 ELSE 0]
  <2> HIDE DEF g
  <2>1. u = [base |-> "beta", sum |-> g, co |-> 0]
    BY DEF Terms, g
  <2> HIDE DEF u
  <2>2. [u EXCEPT !.co = @ + 1] = [base |-> "beta", sum |-> g, co |-> 1]
    BY <2>1, SMTT(30)
  <2>3. QED
    BY <2>2 DEF Terms, g
<1>7. QED
  BY <1>5, <1>6

(* Two places of C of one block belong to one grid cell. *)
LEMMA ShareInPart ==
  ASSUME DriverInv, SplitPlan, NEW i \in Parts, NEW x \in Elements(prob), InShare(x, i)
  PROVE  InPart(x, i) /\ InPart(x, Peer(i, 0)) /\ Peer(i, 0) \in Parts /\ slice[Peer(i, 0)].ithr_k = 0
<1>1. InPart(x, i)
  BY ShareLayer
<1>2. 0 \in 0 .. forced.nthrs_k - 1
  BY SplitFacts, SMTT(30)
<1>3. QED
  BY <1>1, <1>2, PeerSlice DEF InPart

(* No part is summed before its first terms are computed. *)
LEMMA NotYet ==
  ASSUME DriverInv, ResultInv, InSection, SplitPlan, NEW i \in Parts, ~Handled(Peer(i, 0))
  PROVE  Summed(i) = 0
<1>1. ~(Summed(i) > 0)
  BY DEF ResultInv, SumResult, Summing, SplitPlan
<1>2. Summed(i) \in Nat
  <2>1. Owner(i) \in Threads
    BY OwnerFacts DEF SplitPlan
  <2>2. pos[Owner(i)].k \in Nat
    BY <2>1, Unmoved
  <2>3. forced.nthrs_k - 1 \in Nat
    BY SplitFacts, SMTT(30)
  <2>4. 0 \in Nat
    OBVIOUS
  <2>5. QED
    BY <2>2, <2>3, <2>4 DEF Summed
<1>3. QED
  BY <1>1, <1>2, SMTT(30)

(* The first terms of a block, in its shares. *)
LEMMA FirstSum ==
  ASSUME DriverInv, ResultInv, UNCHANGED <<section, at>>, InSection, SplitPlan, NEW i \in Parts,
         ~Handled(Peer(i, 0)), Handled(Peer(i, 0))', Summed(i)' = Summed(i)
  PROVE  Multiplied(SumState(i), Ks(slice[Peer(i, 0)]), TRUE, TRUE) = SumState(i)'
<1>1. Summed(i) = 0 /\ at # "start"
  BY NotYet DEF InSection
<1>2. SumState(i) = State(0)
  BY <1>1, SumNothing
<1> DEFINE T == Ks(slice[Peer(i, 0)])
<1>3. Multiplied(State(0), T, TRUE, TRUE) = Terms("beta", T, 1)
  BY FirstTerms DEF DriverInv
<1>4. /\ slice' = slice /\ prob' = prob /\ forced' = forced
      /\ \A q : Peer(i, q)' = Peer(i, q)
  BY <1>1, PartFrame
<1>5. \A q : Has(i, q)' <=> q = 0
  <2>1. 0 .. Summed(i)' - 1 = {}
    BY <1>1, SMTT(30)
  <2>2. QED
    BY <2>1 DEF Has
<1>6. 0 \in 0 .. forced'.nthrs_k - 1
  BY <1>4, SplitFacts, SMTT(30)
<1>7. slice'[Peer(i, 0)'] = slice[Peer(i, 0)]
  BY <1>4
<1>8. \A k : (\E q \in 0 .. forced'.nthrs_k - 1 : k \in Ks(slice'[Peer(i, q)']) /\ Has(i, q)')
             <=> k \in T
  BY <1>5, <1>6, <1>7
<1>9. [k \in 0 .. prob'.k - 1 |->
         IF \E q \in 0 .. forced'.nthrs_k - 1 : k \in Ks(slice'[Peer(i, q)']) /\ Has(i, q)'
         THEN 1 ELSE 0]
      = [k \in 0 .. prob.k - 1 |-> IF k \in T THEN 1 ELSE 0]
  BY <1>4, <1>8
<1> HIDE DEF T
<1>10. SumState(i)' = Terms("beta", T, 1)
  BY <1>9 DEF SumState, Terms
<1>11. QED
  BY <1>2, <1>3, <1>10 DEF T

(* gemm_kernel_driver, with a split of k. *)
LEMMA KernelSum ==
  ASSUME DriverInv, DriverInv', ResultInv, NEW t \in Threads, KernelStep(t), k_summing
  PROVE  ResultInv'
<1> DEFINE s == slice[ithr[t]]
<1>1. /\ pc[t] = "kernel" /\ UNCHANGED <<section, at>> /\ ithr' = ithr /\ pos' = pos /\ visits' = visits
      /\ pc' = [pc EXCEPT ![t] = "dispatched"]
      /\ \/ Fail(ithr[t]) /\ (C' = C \/ C' = Spoil(Rows(s), Cols(s)))
         \/ s.ithr_k > 0 /\ local' = [local EXCEPT ![ithr[t]] = TRUE] /\ arg' = arg /\ C' = C
         \/ /\ ~(s.ithr_k > 0) /\ C' = Multiply(Rows(s), Cols(s), Ks(s), TRUE, TRUE)
            /\ arg' = arg /\ local' = local
  BY DEF KernelStep, Goto, shared
<1>2. /\ InSection /\ at \in After /\ at # "start" /\ ithr[t] \in Parts /\ ithr[t] % nthr = t
      /\ info # NoInfo /\ at = "section"
  BY <1>1, ThreadPart DEF InSection
<1>3. Others(t)
  BY <1>1, StepAlone DEF StepOf
<1>4. pc'[t] = "dispatched" /\ ithr'[t] = ithr[t]
  BY <1>1 DEF DriverInv, TypeOK
<1>5. DOMAIN C' = DOMAIN C /\ DOMAIN C = Elements(prob)
  BY <1>1 DEF Spoil, Multiply, ResultInv
<1>6. pc[t] \notin {"out", "whole", "loop", "sum", "dispatched"} /\ pc'[t] # "sum"
  BY <1>1, <1>4
<1>7. CASE Fail(ithr[t])
  BY <1>1, <1>3, <1>5, <1>6, <1>7, FailResult
<1>8. CASE ~Fail(ithr[t])
  <2>1. PICK j \in Parts : ithr[t] = j
    BY <1>2
  <2>2. arg' = arg /\ (NoFail' <=> NoFail)
    BY <1>1, <1>8 DEF NoFail
  <2>3. \A i \in Parts : j # i => SamePart(i)
    BY <1>1, <1>2, <1>3, <1>4, <2>1, OtherParts
  <2>4. ~Handled(j) /\ Handled(j)' /\ Summed(j) = 0 /\ Summed(j)' = 0
    BY <1>1, <1>2, <1>4, <2>1, OwnUpto, OwnNext DEF UptoPlace
  <2>5. SplitPlan /\ Summing /\ 0 \in 0 .. forced.nthrs_k - 1
    <3>1. SplitPlan /\ Summing
      BY <1>2 DEF SplitPlan, Summing
    <3>2. QED
      BY <3>1, SplitFacts, SMTT(30)
  <2>6. ASSUME NEW i \in Parts PROVE Flagged(i)'
    <3>1. arg'[i].done = arg[i].done
      BY <2>2
    <3>2. CASE j = i
      BY <1>1, <1>4, <1>6, <2>1, <3>1, <3>2, OwnFlag
    <3>3. CASE j # i
      BY <1>1, <1>2, <2>3, <3>1, <3>3, SameFlag
    <3>4. QED
      BY <3>2, <3>3
  <2>7. ASSUME NEW i \in Parts
        PROVE  /\ Summed(i)' = Summed(i) /\ (Handled(i) => Handled(i)')
               /\ i # j => (Handled(i)' <=> Handled(i))
    BY <2>3, <2>4 DEF SamePart
  <2>8. /\ s.ithr_k > 0 => local' = [local EXCEPT ![j] = TRUE] /\ C' = C
        /\ ~(s.ithr_k > 0) => C' = Multiply(Rows(s), Cols(s), Ks(s), TRUE, TRUE) /\ local' = local
    BY <1>1, <1>8, <2>1
  <2>9. s = slice[j] /\ s.ithr_k \in Nat /\ local \in [Threads -> BOOLEAN] /\ j \in Threads
    BY <1>2, <2>1, <2>5, PeerPlace, OwnerFacts DEF DriverInv, TypeOK
  <2>10. slice' = slice /\ prob' = prob /\ forced' = forced /\ (\A i : Peer(i, 0)' = Peer(i, 0))
         /\ Elements(prob)' = Elements(prob) /\ \A i, x : InShare(x, i)' <=> InShare(x, i)
    BY <1>1, <1>2, PartFrame
  <2>11. ASSUME NEW i \in Parts PROVE SumResult(i)'
    <3>1. SumResult(i) /\ Peer(i, 0) \in Parts /\ slice[Peer(i, 0)].ithr_k = 0
      BY <2>5, PeerPlace DEF ResultInv
    <3>2. ASSUME NoFail', Handled(i)', slice[i].ithr_k > 0 PROVE local'[i]
      <4>1. CASE i = j
        BY <2>8, <2>9, <3>2, <4>1
      <4>2. CASE i # j
        <5>1. local[i]
          BY <2>2, <2>7, <3>1, <3>2, <4>2 DEF SumResult
        <5>2. local'[i] = local[i]
          <6>1. i \in Threads
            BY <1>2, OwnerFacts
          <6>2. CASE s.ithr_k > 0
            BY <2>8, <2>9, <4>2, <6>1, <6>2
          <6>3. CASE ~(s.ithr_k > 0)
            BY <2>8, <6>3
          <6>4. QED
            BY <6>2, <6>3
        <5>3. QED
          BY <5>1, <5>2
      <4>3. QED
        BY <4>1, <4>2
    <3>3. PICK p \in Parts : p = Peer(i, 0)
      BY <3>1
    <3>4. (Handled(Peer(i, 0)) <=> Handled(p)) /\ (Handled(Peer(i, 0))' <=> Handled(p)')
      BY <2>10, <3>3 DEF Handled
    <3>5. Summed(i)' > 0 => Handled(Peer(i, 0))'
      <4>1. Summed(i) > 0 => Handled(p)
        BY <3>1, <3>4 DEF SumResult
      <4>2. Summed(i)' = Summed(i) /\ (Handled(p) => Handled(p)')
        BY <2>7
      <4>3. QED
        BY <3>4, <4>1, <4>2
    <3>6. ASSUME NoFail', NEW x \in Elements(prob), InShare(x, i) PROVE C'[x] = SumState(i)'
      <4>1. C[x] = SumState(i)
        BY <2>2, <3>1, <3>6 DEF SumResult
      <4>2. InPart(x, i) /\ InPart(x, Peer(i, 0))
        BY <2>5, <3>6, ShareInPart
      <4>3. CASE Peer(i, 0) = j
        <5>1. ~(s.ithr_k > 0)
          BY <2>9, <3>1, <4>3, SMTT(30)
        <5>2. C'[x] = Multiplied(C[x], Ks(s), TRUE, TRUE)
          BY <1>5, <2>8, <2>9, <4>2, <4>3, <5>1 DEF Multiply, InPart
        <5>3. ~Handled(Peer(i, 0)) /\ Handled(Peer(i, 0))'
          BY <2>4, <3>3, <3>4, <4>3
        <5>4. Summed(i)' = Summed(i)
          BY <2>7
        <5>5. Multiplied(SumState(i), Ks(slice[Peer(i, 0)]), TRUE, TRUE) = SumState(i)'
          BY <1>1, <1>2, <2>5, <5>3, <5>4, FirstSum
        <5>6. QED
          BY <2>9, <4>1, <4>3, <5>2, <5>5
      <4>4. CASE Peer(i, 0) # j
        <5>1. Handled(Peer(i, 0))' <=> Handled(Peer(i, 0))
          BY <2>7, <3>3, <3>4, <4>4
        <5>2. SumState(i)' = SumState(i)
          BY <2>7, <2>10, <5>1, SumSame
        <5>3. CASE s.ithr_k > 0
          BY <2>8, <4>1, <5>2, <5>3
        <5>4. CASE ~(s.ithr_k > 0)
          <6>1. s.ithr_k = 0
            BY <2>9, <5>4, SMTT(30)
          <6>2. Peer(j, 0) = j
            BY <2>5, <2>9, <6>1, PeerSelf
          <6>3. ~InPart(x, j)
            BY <2>5, <3>6, <4>2, <4>4, <6>2, BaseUnique
          <6>4. C'[x] = C[x]
            BY <1>5, <2>8, <2>9, <5>4, <6>3 DEF Multiply, InPart
          <6>5. QED
            BY <4>1, <5>2, <6>4
        <5>5. QED
          BY <5>3, <5>4
      <4>5. QED
        BY <4>3, <4>4
    <3>7. QED
      BY <2>10, <3>2, <3>5, <3>6 DEF SumResult
  <2>12. QED
    BY <1>1, <1>2, <1>5, <2>6, <2>11, SectionMade
<1>9. QED
  BY <1>7, <1>8

(* What a step of sum_k_blocks moves. *)
LEMMA SumMoves ==
  ASSUME DriverInv, NEW t \in Threads, SumStep(t)
  PROVE  /\ UNCHANGED <<section, at>> /\ arg' = arg /\ local' = local /\ Others(t)
         /\ C' = Add(ithr[t], pos[t].k)
         /\ at = "section" => arg[WaitsFor(ithr[t], pos[t].k)].done
         /\ Last(ithr[t], pos[t].k) =>
              /\ ithr'[t] = ithr[t] + nthr /\ pos'[t].k = 0
              /\ pc'[t] \in {"loop", "sum", "out"} /\ (at = "section" => pc'[t] = "loop")
         /\ ~Last(ithr[t], pos[t].k) =>
              ithr'[t] = ithr[t] /\ pc'[t] = "sum" /\ pos'[t].k = pos[t].k + 1
<1> DEFINE i == ithr[t]
           n == pos[t].k
           last == Last(i, n)
           e == pos[t]
           y == IF last THEN 0 ELSE n + 1
<1>1. /\ pc[t] = "sum" /\ UNCHANGED <<section, at>> /\ arg' = arg /\ local' = local /\ visits' = visits
      /\ at = "section" => arg[WaitsFor(i, n)].done
      /\ C' = Add(i, n)
      /\ pos' = [pos EXCEPT ![t] = [e EXCEPT !.k = y]]
      /\ ~last => ithr' = ithr /\ pc' = pc
      /\ last => /\ ithr' = [ithr EXCEPT ![t] = i + nthr]
                 /\ pc' = [pc EXCEPT ![t] = IF at = "section" THEN "loop"
                                            ELSE IF ithr'[t] < prob.goal THEN "sum" ELSE "out"]
  BY DEF SumStep, Goto, shared
<1>2. /\ pc \in [Threads -> Places] /\ pos \in [Threads -> [k : Nat, m : Nat]]
      /\ ithr \in [Threads -> 0 .. 2 * NthrMax]
  BY DEF DriverInv, TypeOK, PlaceInv, Places
<1> HIDE DEF last
<1>3. pos'[t].k = y
  <2>1. e \in [k : Nat, m : Nat]
    BY <1>2
  <2>2. pos'[t] = [e EXCEPT !.k = y]
    BY <1>1, <1>2
  <2> HIDE DEF e, y
  <2>3. [e EXCEPT !.k = y].k = y
    BY <2>1, SMTT(30)
  <2>4. QED
    BY <2>2, <2>3
<1>4. last => ithr'[t] = i + nthr /\ pc'[t] \in {"loop", "sum", "out"}
              /\ (at = "section" => pc'[t] = "loop")
  BY <1>1, <1>2
<1>5. Others(t)
  <2>1. \A u \in Threads : u # t => pos'[u] = pos[u]
    BY <1>1, <1>2
  <2>2. \A u \in Threads : u # t => ithr'[u] = ithr[u] /\ pc'[u] = pc[u]
    BY <1>1, <1>2
  <2>3. QED
    BY <2>1, <2>2 DEF Others
<1>6. QED
  BY <1>1, <1>3, <1>4, <1>5 DEF last

(* The matrix that is added, and the part that computes into C, are done. *)
LEMMA SumReady ==
  ASSUME DriverInv, ResultInv, NEW t \in Threads, pc[t] = "sum",
         at = "section" => arg[WaitsFor(ithr[t], pos[t].k)].done, NEW i \in Parts, ithr[t] = i
  PROVE  /\ SplitPlan /\ Summing /\ Handled(i) /\ Handled(Peer(i, 0))
         /\ Handled(Peer(i, Order(i, pos[t].k)))
         /\ Summed(i) = pos[t].k /\ pos[t].k \in 0 .. forced.nthrs_k - 2
<1> DEFINE n == pos[t].k
           own == slice[i].ithr_k
<1>1. /\ at \in {"section", "sum_section"} /\ at \in After /\ info # NoInfo /\ k_summing
      /\ i % nthr = t /\ n \in Nat /\ n < forced.nthrs_k - 1 /\ forced.nthrs_k \in Nat
      /\ at = "section" => Sums
  BY SumFacts
<1>2. SplitPlan /\ Summing
  BY <1>1 DEF SplitPlan, Summing, InSection
<1>3. Owner(i) = t
  BY <1>1 DEF Owner
<1>4. Handled(i)
  BY <1>3 DEF Handled
<1>5. n \in 0 .. forced.nthrs_k - 2
  <2> HIDE DEF n
  <2>1. QED
    BY <1>1, SMTT(30)
<1>6. Summed(i) = n
  <2>1. i \in Nat
    BY <1>1, OwnerFacts
  <2>2. ~(i > i)
    BY <2>1, SMTT(30)
  <2>3. QED
    BY <1>1, <1>3, <2>2 DEF Summed
<1>7. /\ own \in 0 .. forced.nthrs_k - 1 /\ own \in Nat /\ 0 \in 0 .. forced.nthrs_k - 1
      /\ Order(i, n) \in 0 .. forced.nthrs_k - 1
  <2>1. 0 \in 0 .. forced.nthrs_k - 1
    BY <1>2, SplitFacts, SMTT(30)
  <2>2. Order(i, n) \in 1 .. forced.nthrs_k - 1
    BY <1>2, <1>5, OrderFacts
  <2>3. Order(i, n) \in 0 .. forced.nthrs_k - 1
    BY <1>1, <2>2, SMTT(30)
  <2>4. QED
    BY <1>2, <2>1, <2>3, PeerPlace
<1>8. Peer(i, 0) \in Parts /\ Peer(i, Order(i, n)) \in Parts /\ Peer(i, own) = i
  BY <1>2, <1>7, PeerPlace, PeerSelf
<1>9. CASE at = "sum_section"
  <2>1. \A j : Handled(j)
    BY <1>9 DEF Handled
  <2>2. QED
    BY <1>2, <1>5, <1>6, <2>1
<1>10. CASE at = "section"
  <2>1. \A j \in Parts : arg[j].done => Handled(j)
    BY <1>1, <1>10 DEF ResultInv, InSection, Flagged
  <2>2. CASE n = 0 /\ own > 0
    <3>1. WaitsFor(i, n) = Peer(i, 0)
      BY <2>2 DEF WaitsFor
    <3>2. own # 0
      BY <1>7, <2>2, SMTT(30)
    <3>3. Order(i, n) = own
      BY <2>2, <3>2 DEF Order
    <3>4. QED
      BY <1>2, <1>4, <1>5, <1>6, <1>8, <1>10, <2>1, <3>1, <3>3
  <2>3. CASE ~(n = 0 /\ own > 0)
    <3>1. WaitsFor(i, n) = Peer(i, Order(i, n))
      BY <2>3 DEF WaitsFor
    <3>2. Handled(Peer(i, Order(i, n)))
      BY <1>8, <1>10, <2>1, <3>1
    <3>3. Handled(Peer(i, 0))
      <4>1. CASE n = 0
        <5>1. own = 0
          BY <1>7, <2>3, <4>1, SMTT(30)
        <5>2. QED
          BY <1>4, <1>8, <5>1
      <4>2. CASE n # 0
        <5>1. n > 0
          BY <1>1, <4>2, SMTT(30)
        <5>2. SumResult(i)
          BY <1>2 DEF ResultInv
        <5>3. QED
          BY <1>6, <5>1, <5>2 DEF SumResult
      <4>3. QED
        BY <4>1, <4>2
    <3>4. QED
      BY <1>2, <1>4, <1>5, <1>6, <3>2, <3>3
  <2>4. QED
    BY <2>2, <2>3
<1>11. QED
  BY <1>1, <1>9, <1>10

(* The n-th matrix brings terms that the share does not have yet. *)
LEMMA NextSum ==
  ASSUME DriverInv, UNCHANGED <<section, at>>, SplitPlan, NEW i \in Parts,
         NEW n \in 0 .. forced.nthrs_k - 2, Summed(i) = n, Summed(i)' = n + 1,
         Handled(Peer(i, 0)), Handled(Peer(i, 0))'
  PROVE  Plus(SumState(i), Ks(slice[Peer(i, Order(i, n))])) = SumState(i)'
<1> DEFINE q == Order(i, n)
           S == Received(i)
           T == Ks(slice[Peer(i, q)])
<1>1. /\ at # "start" /\ n \in Nat /\ forced.nthrs_k \in Nat /\ q \in 1 .. forced.nthrs_k - 1
  <2>1. q \in 1 .. forced.nthrs_k - 1 /\ forced.nthrs_k \in Nat
    BY OrderFacts, SplitFacts
  <2>2. n \in Nat
    BY SplitFacts, SMTT(30)
  <2>3. QED
    BY <2>1, <2>2 DEF SplitPlan, After
<1>2. q # 0 /\ q \in 0 .. forced.nthrs_k - 1
  <2> HIDE DEF q
  <2>1. QED
    BY <1>1, SMTT(30)
<1>3. /\ slice' = slice /\ prob' = prob /\ forced' = forced
      /\ (\A r : Peer(i, r)' = Peer(i, r)) /\ \A m : Order(i, m)' = Order(i, m)
  BY <1>1, PartFrame
<1>4. SumState(i) = Terms("beta", S, 1)
  BY SumTerms
<1>5. \A r : Has(i, r)' <=> Has(i, r) \/ r = q
  <2>1. ASSUME NEW r, r # 0 PROVE Has(i, r)' <=> Has(i, r) \/ r = q
    <3>1. Has(i, r) <=> \E m \in 0 .. n - 1 : Order(i, m) = r
      BY <2>1 DEF Has
    <3>2. Has(i, r)' <=> \E m \in 0 .. (n + 1) - 1 : Order(i, m) = r
      BY <1>3, <2>1 DEF Has
    <3>3. 0 .. (n + 1) - 1 = (0 .. n - 1) \cup {n}
      BY <1>1, SMTT(30)
    <3>4. QED
      BY <3>1, <3>2, <3>3
  <2>2. ASSUME NEW r, r = 0 PROVE Has(i, r)' <=> Has(i, r) \/ r = q
    BY <2>2 DEF Has
  <2>3. QED
    BY <2>1, <2>2
<1>6. ~Has(i, q)
  <2>1. SUFFICES ASSUME Has(i, q) PROVE FALSE
    OBVIOUS
  <2>2. PICK m \in 0 .. n - 1 : Order(i, m) = q
    BY <1>2, <2>1 DEF Has
  <2>3. m \in 0 .. forced.nthrs_k - 2 /\ m # n
    BY <1>1, SMTT(30)
  <2>4. QED
    BY <2>2, <2>3, OrderFacts
<1>7. \A k \in 0 .. prob.k - 1 : ~(k \in S /\ k \in T)
  <2>1. SUFFICES ASSUME NEW k \in 0 .. prob.k - 1, k \in S, k \in T PROVE FALSE
    OBVIOUS
  <2>2. PICK r \in 0 .. forced.nthrs_k - 1 : k \in Ks(slice[Peer(i, r)]) /\ Has(i, r)
    BY <2>1 DEF Received
  <2>3. r = q
    BY <1>2, <2>1, <2>2, KsApart
  <2>4. QED
    BY <1>6, <2>2, <2>3
<1>8. Plus(Terms("beta", S, 1), T) = Terms("beta", S \cup T, 1)
  <2> HIDE DEF S, T
  <2>1. "beta" # "bad"
    OBVIOUS
  <2>2. QED
    BY <1>7, <2>1, PlusSet, SMTT(30)
<1>9. \A r : slice'[Peer(i, r)'] = slice[Peer(i, r)]
  BY <1>3
<1>10. ASSUME NEW k \in 0 .. prob.k - 1
       PROVE  (\E r \in 0 .. forced'.nthrs_k - 1 : k \in Ks(slice'[Peer(i, r)']) /\ Has(i, r)')
                <=> k \in S \cup T
  <2>1. (\E r \in 0 .. forced'.nthrs_k - 1 : k \in Ks(slice'[Peer(i, r)']) /\ Has(i, r)')
          <=> \E r \in 0 .. forced.nthrs_k - 1 : k \in Ks(slice[Peer(i, r)]) /\ (Has(i, r) \/ r = q)
    BY <1>3, <1>5, <1>9
  <2>2. k \in S <=> \E r \in 0 .. forced.nthrs_k - 1 : k \in Ks(slice[Peer(i, r)]) /\ Has(i, r)
    BY <1>10 DEF Received
  <2> HIDE DEF S, q
  <2>3. QED
    BY <1>2, <2>1, <2>2
<1>11. [k \in 0 .. prob'.k - 1 |->
          IF \E r \in 0 .. forced'.nthrs_k - 1 : k \in Ks(slice'[Peer(i, r)']) /\ Has(i, r)'
          THEN 1 ELSE 0]
       = [k \in 0 .. prob.k - 1 |-> IF k \in S \cup T THEN 1 ELSE 0]
  <2> HIDE DEF S, T
  <2>1. QED
    BY <1>3, <1>10
<1> HIDE DEF S, T
<1>12. SumState(i)' = Terms("beta", S \cup T, 1)
  BY <1>11 DEF SumState, Terms
<1>13. QED
  BY <1>4, <1>8, <1>12 DEF T

(* sum_k_blocks adds to the share of its part only. *)
LEMMA AddShare ==
  ASSUME DriverInv, SplitPlan, NEW i \in Parts, NEW n \in 0 .. forced.nthrs_k - 2,
         DOMAIN C = Elements(prob), NEW x \in Elements(prob)
  PROVE  /\ ~InShare(x, i) => Add(i, n)[x] = C[x]
         /\ InShare(x, i) /\ local[Peer(i, Order(i, n))] =>
              Add(i, n)[x] = Plus(C[x], Ks(slice[Peer(i, Order(i, n))]))
<1> DEFINE src == Peer(i, Order(i, n))
           cols == Partition1d(slice[i].ithr_k, forced.nthrs_k, slice[i].n)
           first == slice[src].off_n + cols.off
           own == slice[i].off_n + cols.off
<1>1. Order(i, n) \in 0 .. forced.nthrs_k - 1
  <2>1. Order(i, n) \in 1 .. forced.nthrs_k - 1 /\ forced.nthrs_k \in Nat
    BY OrderFacts, SplitFacts
  <2>2. QED
    BY <2>1, SMTT(30)
<1>2. Rows(slice[src]) = Rows(slice[i]) /\ slice[src].off_n = slice[i].off_n
  BY <1>1, PeerSlice
<1>3. InShare(x, i) <=> x[1] \in Rows(slice[src]) /\ x[2] \in first .. first + cols.size - 1
  BY <1>2 DEF InShare
<1>4. Add(i, n)[x] = IF x[1] \notin Rows(slice[src]) \/ x[2] \notin first .. first + cols.size - 1
                     THEN C[x]
                     ELSE IF local[src] THEN Plus(C[x], Ks(slice[src]))
                     ELSE Fresh(C[x], "bad")
  BY DEF Add
<1> HIDE DEF src, cols, first
<1>5. QED
  BY <1>3, <1>4 DEF src

(* A step of sum_k_blocks adds the next matrix to the thread's share. *)
LEMMA SumStepResult ==
  ASSUME DriverInv, DriverInv', ResultInv, NEW t \in Threads, SumStep(t) PROVE ResultInv'
<1>1. pc[t] = "sum"
  BY DEF SumStep
<1>2. /\ at \in {"section", "sum_section"} /\ at # "start" /\ at \in After /\ info # NoInfo /\ k_summing
      /\ ithr[t] % nthr = t /\ ithr[t] < Nthrs(info) /\ ithr[t] \in Parts
      /\ at = "section" => Sums
  BY <1>1, SumFacts DEF Parts
<1>3. PICK j \in Parts : ithr[t] = j
  BY <1>2
<1>4. PICK n : n = pos[t].k
  OBVIOUS
<1>5. /\ UNCHANGED <<section, at>> /\ arg' = arg /\ local' = local /\ Others(t) /\ C' = Add(j, n)
      /\ at = "section" => arg[WaitsFor(ithr[t], pos[t].k)].done
      /\ Last(j, n) =>
              /\ ithr'[t] = ithr[t] + nthr /\ pos'[t].k = 0
              /\ pc'[t] \in {"loop", "sum", "out"} /\ (at = "section" => pc'[t] = "loop")
      /\ ~Last(j, n) => ithr'[t] = ithr[t] /\ pc'[t] = "sum" /\ pos'[t].k = n + 1
  BY <1>3, <1>4, SumMoves
<1>6. /\ SplitPlan /\ Summing /\ Handled(j) /\ Handled(Peer(j, 0)) /\ Handled(Peer(j, Order(j, n)))
      /\ Summed(j) = n /\ n \in 0 .. forced.nthrs_k - 2
  BY <1>1, <1>3, <1>4, <1>5, SumReady
<1>7. /\ slice' = slice /\ prob' = prob /\ forced' = forced /\ at' = at
      /\ (\A i, q : Peer(i, q)' = Peer(i, q)) /\ (Sums' <=> Sums) /\ (\A i : Owner(i)' = Owner(i))
      /\ Elements(prob)' = Elements(prob) /\ \A i, x : InShare(x, i)' <=> InShare(x, i)
  BY <1>2, <1>5, PartFrame
<1>8. NoFail' <=> NoFail
  BY <1>5 DEF NoFail
<1>9. DOMAIN C' = DOMAIN C /\ DOMAIN C = Elements(prob)
  BY <1>5 DEF Add, ResultInv
<1>10. \A i \in Parts : j # i => SamePart(i)
  <2>1. CASE Last(j, n)
    BY <1>2, <1>3, <1>5, <2>1, OtherParts
  <2>2. CASE ~Last(j, n)
    BY <1>2, <1>3, <1>5, <2>2, OtherParts
  <2>3. QED
    BY <2>1, <2>2
<1>11. Owner(j) = t
  BY <1>2, <1>3 DEF Owner
<1>12. Handled(j)' /\ Summed(j)' = n + 1 /\ ~(ithr[Owner(j)] = j /\ pc[Owner(j)] = "dispatched")'
  <2>1. CASE Last(j, n)
    <3>1. ithr'[t] > j
      BY <1>2, <1>3, <1>5, <2>1, PartDone
    <3>2. n + 1 = forced.nthrs_k - 1
      BY <2>1 DEF Last
    <3>3. pc'[t] # "dispatched"
      BY <1>5, <2>1
    <3>4. QED
      BY <1>2, <1>7, <1>11, <3>1, <3>2, <3>3 DEF Handled, Summed
  <2>2. CASE ~Last(j, n)
    <3>1. j \in Nat
      BY <1>2, OwnerFacts
    <3>2. ~(j > j)
      BY <3>1, SMTT(30)
    <3>3. ithr'[t] = j /\ pc'[t] = "sum" /\ pos'[t].k = n + 1
      BY <1>3, <1>5, <2>2
    <3>4. QED
      BY <1>2, <1>7, <1>11, <3>2, <3>3 DEF Handled, Summed
  <2>3. QED
    BY <2>1, <2>2
<1>13. \A i \in Parts : Handled(i)' <=> Handled(i)
  BY <1>6, <1>10, <1>12 DEF SamePart
<1>14. ASSUME at = "section", NEW i \in Parts PROVE Flagged(i)'
  <2>1. arg'[i].done = arg[i].done /\ InSection
    BY <1>2, <1>5, <1>14 DEF InSection
  <2>2. CASE j = i
    <3>1. Flagged(j)
      BY <2>1 DEF ResultInv
    <3>2. arg[j].done
      BY <1>1, <1>2, <1>6, <1>11, <1>14, <3>1 DEF Flagged
    <3>3. QED
      BY <1>2, <1>7, <1>12, <1>14, <2>1, <2>2, <3>2 DEF Flagged
  <2>3. CASE j # i
    BY <1>5, <1>10, <2>1, <2>3, SameFlag
  <2>4. QED
    BY <2>2, <2>3
<1>15. \A i \in Parts : Peer(i, 0) \in Parts
  <2>1. 0 \in 0 .. forced.nthrs_k - 1
    BY <1>6, SplitFacts, SMTT(30)
  <2>2. QED
    BY <1>6, <2>1, PeerPlace
<1>16. ASSUME NEW i \in Parts PROVE Handled(Peer(i, 0))' <=> Handled(Peer(i, 0))
  <2>1. PICK p \in Parts : p = Peer(i, 0)
    BY <1>15
  <2>2. (Handled(Peer(i, 0)) <=> Handled(p)) /\ (Handled(Peer(i, 0))' <=> Handled(p)')
    BY <1>7, <2>1 DEF Handled
  <2>3. QED
    BY <1>13, <2>2
<1>17. ASSUME NEW i \in Parts PROVE SumResult(i)'
  <2>1. CASE j = i
    <3>1. SumResult(j)
      BY <1>6 DEF ResultInv
    <3>2. Handled(Peer(j, 0))'
      BY <1>6, <1>16
    <3>3. ASSUME NoFail', NEW x \in Elements(prob), InShare(x, j) PROVE C'[x] = SumState(j)'
      <4> DEFINE q == Order(j, n)
      <4>1. q \in 1 .. forced.nthrs_k - 1 /\ forced.nthrs_k \in Nat
        BY <1>6, OrderFacts, SplitFacts
      <4>2. q \in 0 .. forced.nthrs_k - 1 /\ q > 0
        <5> HIDE DEF q
        <5>1. QED
          BY <4>1, SMTT(30)
      <4>3. Peer(j, q) \in Parts /\ slice[Peer(j, q)].ithr_k = q
        BY <1>6, <4>2, PeerPlace
      <4>4. local[Peer(j, q)]
        <5>1. SumResult(Peer(j, q))
          BY <1>6, <4>3 DEF ResultInv
        <5>2. QED
          BY <1>6, <1>8, <3>3, <4>2, <4>3, <5>1 DEF SumResult
      <4>5. C'[x] = Plus(C[x], Ks(slice[Peer(j, q)]))
        BY <1>5, <1>6, <1>9, <3>3, <4>4, AddShare
      <4>6. C[x] = SumState(j)
        BY <1>8, <3>1, <3>3 DEF SumResult
      <4>7. Plus(SumState(j), Ks(slice[Peer(j, q)])) = SumState(j)'
        BY <1>5, <1>6, <1>12, <3>2, NextSum
      <4>8. QED
        BY <4>5, <4>6, <4>7
    <3>4. NoFail' /\ Handled(j)' /\ slice'[j].ithr_k > 0 => local'[j]
      BY <1>5, <1>6, <1>7, <1>8, <3>1 DEF SumResult
    <3>5. QED
      BY <1>7, <2>1, <3>2, <3>3, <3>4 DEF SumResult
  <2>2. CASE j # i
    <3>1. SamePart(i)
      BY <1>10, <2>2
    <3>2. Summed(i)' = Summed(i) /\ (Handled(i)' <=> Handled(i)) /\ (local[i] => local'[i])
      BY <1>5, <3>1 DEF SamePart
    <3>3. ASSUME NEW x \in Elements(prob), InShare(x, i) PROVE C'[x] = C[x]
      <4>1. ~InShare(x, j)
        BY <1>6, <2>2, <3>3, SumSharesApart
      <4>2. QED
        BY <1>5, <1>6, <1>9, <4>1, AddShare
    <3>4. NoFail' => \A x \in Elements(prob) : InShare(x, i) => C'[x] = C[x]
      BY <3>3
    <3>5. Handled(Peer(i, 0))' <=> Handled(Peer(i, 0))
      BY <1>16
    <3>6. NoFail' => NoFail
      BY <1>8
    <3>7. QED
      BY <1>5, <1>6, <3>2, <3>4, <3>5, <3>6, SameSum
  <2>3. QED
    BY <2>1, <2>2
<1>18. QED
  BY <1>2, <1>5, <1>9, <1>14, <1>17, SectionMade
=============================================================================
