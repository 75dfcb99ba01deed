-------------------------- MODULE GemmResultProofs --------------------------
(***************************************************************************)
(* What gemm_threading_driver leaves in C, for any number of threads, any  *)
(* sizes and blocks: every part adds its terms once, and the sums over k   *)
(* are complete.                                                           *)
(***************************************************************************)
EXTENDS GemmSumProofs

USE ZenonT(30)

-----------------------------------------------------------------------------
(* Without a division of k every part has all of it. *)
LEMMA PartsWholeK ==
  ASSUME NEW i, NEW p, Sized(p), Tiled(p), Legal(i, p), i.nthrs_k = 1, NEW t \in 0 .. Nthrs(i) - 1
  PROVE  WholeK(SliceOf(i, t, p), p)
<1>1. i.partition \in {"row_1d", "col_1d", "col_major_2d", "mnk_3d"}
  BY LegalFacts
<1>2. QED
  BY <1>1, SliceRow, SliceCol, SliceGrid, SliceBlocks

-----------------------------------------------------------------------------
(* What the elements of C hold. *)

Element(base, K, u, co) == [base |-> base, sum |-> [k \in 0 .. K - 1 |-> IF k < u THEN 1 ELSE 0], co |-> co]

(* The terms from a on, up to b, added to an element that has those below a. *)
LEMMA PlusTerms ==
  ASSUME NEW K \in Nat, NEW a \in Nat, NEW b \in Nat, a <= b, b <= K, NEW co
  PROVE  Plus(Element("beta", K, a, co), a .. b - 1) = Element("beta", K, b, co)
<1> DEFINE e == Element("beta", K, a, co)
           f == [k \in 0 .. K - 1 |-> IF k < a THEN 1 ELSE 0]
           g == [k \in 0 .. K - 1 |-> IF k < b THEN 1 ELSE 0]
           h == [x \in DOMAIN f |-> f[x] + (IF x \in a .. b - 1 THEN 1 ELSE 0)]
<1>1. e = [base |-> "beta", sum |-> f, co |-> co]
  BY DEF Element
<1>2. h = g
  <2>1. \A x \in 0 .. K - 1 : f[x] + (IF x \in a .. b - 1 THEN 1 ELSE 0) = g[x]
    BY SMTT(30)
  <2>2. DOMAIN f = 0 .. K - 1 /\ g = [x \in 0 .. K - 1 |-> g[x]]
    OBVIOUS
  <2> HIDE DEF f, g
  <2>3. QED
    BY <2>1, <2>2
<1> HIDE DEF f, g
<1>3. e.base = "beta" /\ e.sum = f
  BY <1>1, SMTT(30)
<1>4. Plus(e, a .. b - 1) = [e EXCEPT !.sum = h]
  BY <1>3 DEF Plus
<1> HIDE DEF h, e
<1>5. [e EXCEPT !.sum = h] = [base |-> "beta", sum |-> h, co |-> co]
  BY <1>1, SMTT(30)
<1>6. QED
  BY <1>2, <1>4, <1>5 DEF g, e, Element

(* What one block of the multiplication, the terms from a to b, leaves in an element. *)
BlockTerms(e, a, b) ==
    LET base == IF a # 0 THEN e ELSE Fresh(e, IF e.base = "old" THEN "beta" ELSE "bad")
    IN [Plus(base, a .. b - 1) EXCEPT !.co = @ + (IF b = prob.k /\ base.base # "bad" THEN 1 ELSE 0)]

(* The first block scales by beta, the last one adds the offset. *)
LEMMA BlockAdds ==
  ASSUME PlanInv, NEW a \in Nat, NEW b \in Nat, a < b, b <= prob.k
  PROVE  BlockTerms(State(a), a, b) = State(b)
<1> DEFINE K == prob.k
           e == State(a)
           c0 == IF b = K THEN 1 ELSE 0
<1>1. K \in Nat /\ K > 0 /\ b <= K /\ a # K /\ a <= b /\ b # 0
  <2>1. K \in Positive
    BY PlanSizes
  <2> HIDE DEF K
  <2>2. b <= K
    BY DEF K
  <2>3. QED
    BY <2>1, <2>2, SMTT(30) DEF Positive
<1>2. e = Element(IF a = 0 THEN "old" ELSE "beta", K, a, 0)
  BY <1>1 DEF State, Element
<1>3. State(b) = Element("beta", K, b, c0)
  BY <1>1 DEF State, Element
<1> HIDE DEF K, e
<1>4. (IF a # 0 THEN e ELSE Fresh(e, IF e.base = "old" THEN "beta" ELSE "bad")) = Element("beta", K, a, 0)
  <2>1. CASE a # 0
    BY <1>2, <2>1
  <2>2. CASE a = 0
    <3> DEFINE f == [k \in 0 .. K - 1 |-> IF k < a THEN 1 ELSE 0]
    <3>1. e = [base |-> "old", sum |-> f, co |-> 0]
      BY <1>2, <2>2 DEF Element
    <3>2. DOMAIN f = 0 .. K - 1
      OBVIOUS
    <3>3. [x \in 0 .. K - 1 |-> 0] = [k \in 0 .. K - 1 |-> IF k < a THEN 1 ELSE 0]
      <4>1. \A x \in 0 .. K - 1 : ~(x < a)
        BY <1>1, <2>2, SMTT(30)
      <4>2. QED
        BY <4>1
    <3> HIDE DEF f
    <3>4. e.base = "old" /\ e.sum = f
      BY <3>1, SMTT(30)
    <3>5. Fresh(e, "beta") = [base |-> "beta", sum |-> [x \in 0 .. K - 1 |-> 0], co |-> 0]
      BY <3>2, <3>4 DEF Fresh
    <3>6. QED
      BY <2>2, <3>3, <3>4, <3>5 DEF Element
  <2>3. QED
    BY <2>1, <2>2
<1> DEFINE d == Element("beta", K, a, 0)
           z == Element("beta", K, b, 0)
<1>5. d.base = "beta"
  BY SMTT(30) DEF Element
<1>6. Plus(d, a .. b - 1) = z
  <2>1. K \in Nat /\ a <= b /\ b <= K
    BY <1>1
  <2>2. QED
    BY <2>1, PlusTerms, SMTT(30)
<1>7. BlockTerms(e, a, b) =
         [z EXCEPT !.co = @ + (IF b = K /\ d.base # "bad" THEN 1 ELSE 0)]
  BY <1>4, <1>6 DEF BlockTerms, K
<1>8. (IF b = K /\ d.base # "bad" THEN 1 ELSE 0) = c0
  BY <1>5
<1>9. [z EXCEPT !.co = @ + c0] = Element("beta", K, b, c0)
  <2> DEFINE g == [k \in 0 .. K - 1 |-> IF k < b THEN 1 ELSE 0]
  <2>1. z = [base |-> "beta", sum |-> g, co |-> 0] /\ c0 \in Nat
    BY SMTT(30) DEF Element
  <2> HIDE DEF z, g, c0
  <2>2. [z EXCEPT !.co = @ + c0] = [base |-> "beta", sum |-> g, co |-> c0]
    BY <2>1, SMTT(30)
  <2>3. QED
    BY <2>2 DEF g, Element
<1> HIDE DEF z, c0, d
<1>10. BlockTerms(e, a, b) = [z EXCEPT !.co = @ + c0]
  BY <1>7, <1>8
<1>11. QED
  BY <1>3, <1>9, <1>10 DEF e

(* The whole product as one block. *)
LEMMA OneBlock ==
  ASSUME NEW e, NEW K, K = prob.k
  PROVE  Multiplied(e, 0 .. K - 1, TRUE, TRUE) = BlockTerms(e, 0, K)
<1> DEFINE f == Fresh(e, IF e.base = "old" THEN "beta" ELSE "bad")
           inc == IF f.base # "bad" THEN 1 ELSE 0
<1>1. Multiplied(e, 0 .. K - 1, TRUE, TRUE) = [Plus(f, 0 .. K - 1) EXCEPT !.co = @ + inc]
  <2> HIDE DEF f
  <2>1. (IF ~TRUE THEN e ELSE f) = f
    OBVIOUS
  <2>2. (IF TRUE /\ f.base # "bad" THEN 1 ELSE 0) = inc
    OBVIOUS
  <2>3. QED
    BY <2>1, <2>2 DEF Multiplied, f
<1>2. BlockTerms(e, 0, K) = [Plus(f, 0 .. K - 1) EXCEPT !.co = @ + inc]
  <2> HIDE DEF f
  <2>1. (IF 0 # 0 THEN e ELSE f) = f
    OBVIOUS
  <2>2. (IF K = prob.k /\ f.base # "bad" THEN 1 ELSE 0) = inc
    OBVIOUS
  <2>3. QED
    BY <2>1, <2>2 DEF BlockTerms, f
<1>3. QED
  BY <1>1, <1>2

(* The whole product at once. *)
LEMMA MultiplyAll ==
  ASSUME PlanInv
  PROVE  Multiplied(State(0), 0 .. prob.k - 1, TRUE, TRUE) = State(prob.k)
<1>1. prob.k \in Positive
  BY PlanSizes
<1>2. prob.k \in Nat /\ 0 < prob.k /\ prob.k <= prob.k /\ 0 \in Nat
  BY <1>1, SMTT(30) DEF Positive
<1>3. BlockTerms(State(0), 0, prob.k) = State(prob.k)
  BY <1>2, BlockAdds
<1>4. QED
  BY <1>3, OneBlock

-----------------------------------------------------------------------------
(* The parts of a block that share the k dimension. *)

(* Every element of C is in the share of some part. *)
LEMMA SumSharesCover ==
  ASSUME DriverInv, SplitPlan, NEW x \in Elements(prob)
  PROVE  \E i \in Parts : InShare(x, i)
<1>1. /\ x[1] \in 0 .. prob.m - 1 /\ x[2] \in 0 .. prob.n - 1
      /\ Sized(prob) /\ Tiled(prob) /\ Legal(info, prob)
  BY ElementFacts, SplitFacts
<1>2. PICK t \in 0 .. Nthrs(info) - 1 :
          x[1] \in Rows(SliceOf(info, t, prob)) /\ x[2] \in Cols(SliceOf(info, t, prob))
  BY <1>1, PartsCover
<1>3. t \in Parts /\ InPart(x, t)
  <2>1. slice[t] = SliceOf(info, t, prob)
    BY PartSlice DEF SplitPlan
  <2>2. QED
    BY <1>2, <2>1 DEF Parts, InPart
<1> DEFINE y == x[2] - slice[t].off_n
           z == BandSize(forced.nthrs_k, slice[t].n)
           nk == forced.nthrs_k
<1>4. y \in Nat /\ z \in Nat /\ nk \in Positive
  BY <1>3, ShareType, SplitFacts
<1>11. \E q \in 0 .. nk - 1 : Layer(y, q, z, nk)
  <2> HIDE DEF y, z, nk
  <2>1. QED
    BY <1>4, LayersCover
<1>5. PICK q \in 0 .. nk - 1 : Layer(y, q, z, nk)
  BY <1>11
<1> DEFINE w == Peer(t, q)
<1>6. /\ w \in Parts /\ slice[w].ithr_k = q
      /\ Rows(slice[w]) = Rows(slice[t]) /\ Cols(slice[w]) = Cols(slice[t])
      /\ slice[w].off_n = slice[t].off_n /\ slice[w].n = slice[t].n
  BY <1>3, PeerSlice
<1> HIDE DEF w
<1>7. InPart(x, w)
  BY <1>3, <1>6 DEF InPart
<1>8. Layer(x[2] - slice[w].off_n, slice[w].ithr_k, BandSize(forced.nthrs_k, slice[w].n), forced.nthrs_k)
  BY <1>5, <1>6
<1>9. InShare(x, w)
  BY <1>6, <1>7, <1>8, ShareLayer
<1>10. QED
  BY <1>6, <1>9

-----------------------------------------------------------------------------
(* The result, for each step of the driver. *)

(* C is untouched when the driver is called. *)
LEMMA ResultInit ==
  ASSUME Init
  PROVE  ResultInv
<1>1. DriverInv
  BY DriverInit
<1>2. prob.k \in Positive
  BY <1>1, PlanSizes DEF DriverInv
<1>3. prob.k # 0 /\ \A k \in 0 .. prob.k - 1 : ~(k < 0)
  BY <1>2, SMTT(30) DEF Positive
<1>4. State(0) = [base |-> "old", sum |-> [k \in 0 .. prob.k - 1 |-> 0], co |-> 0]
  BY <1>3 DEF State
<1>5. /\ at = "start"
      /\ C = [x \in Elements(prob) |-> [base |-> "old", sum |-> [k \in 0 .. prob.k - 1 |-> 0], co |-> 0]]
  BY DEF Init
<1>6. DOMAIN C = Elements(prob) /\ \A x \in Elements(prob) : C[x] = State(0)
  BY <1>4, <1>5
<1>7. QED
  BY <1>5, <1>6 DEF ResultInv, InSection, Summing

(* The steps that leave C and the parts alone. *)
LEMMA BeforeResult ==
  ASSUME DriverInv, ResultInv, Start \/ AllocArgs \/ AllocLocal
  PROVE  ResultInv'
<1>1. at \in Before /\ C' = C
  BY DEF Start, AllocArgs, AllocLocal, Before
<1>2. at' \in Before \/ (at' = "returned" /\ ret' # "success")
  BY DEF Start, AllocArgs, AllocLocal, Before, Return
<1>3. prob'.m = prob.m /\ prob'.n = prob.n /\ prob'.k = prob.k
  BY StartPlan DEF AllocArgs, AllocLocal, plan
<1>4. Elements(prob)' = Elements(prob) /\ State(0)' = State(0)
  BY <1>3 DEF Elements, State
<1>5. DOMAIN C' = Elements(prob)' /\ \A x \in Elements(prob)' : C'[x] = State(0)'
  BY <1>1, <1>4 DEF ResultInv
<1>6. QED
  BY <1>2, <1>5 DEF ResultInv, InSection, Summing, Before

(* All elements at once. *)
LEMMA AllElementsDone ==
  ASSUME PlanInv, DOMAIN C = Elements(prob), \A x \in Elements(prob) : C[x] = State(0)
  PROVE  /\ DOMAIN AllElements = Elements(prob)
         /\ \A x \in Elements(prob) : AllElements[x] = State(prob.k)
<1>1. \A x \in Elements(prob) : x[1] \in 0 .. prob.m - 1 /\ x[2] \in 0 .. prob.n - 1
  BY ElementFacts
<1>2. DOMAIN AllElements = Elements(prob)
  BY DEF AllElements, Multiply
<1>3. \A x \in Elements(prob) : AllElements[x] = Multiplied(C[x], 0 .. prob.k - 1, TRUE, TRUE)
  BY <1>1 DEF AllElements, Multiply
<1>4. QED
  BY <1>2, <1>3, MultiplyAll

(* One thread computes all of C. *)
LEMMA AloneResult ==
  ASSUME DriverInv, ResultInv, Alone
  PROVE  ResultInv'
<1>1. /\ at = "alone" /\ at' = "returned" /\ UNCHANGED plan
      /\ (C' = AllElements /\ ret' = "success") \/ (C' = C /\ ret' = "out_of_memory")
  BY DEF Alone
<1>2. /\ DOMAIN C = Elements(prob) /\ \A x \in Elements(prob) : C[x] = State(0)
  BY <1>1 DEF ResultInv, Before
<1>3. prob' = prob /\ State(prob.k)' = State(prob.k)
  BY <1>1 DEF plan, State
<1>4. /\ DOMAIN AllElements = Elements(prob)
      /\ \A x \in Elements(prob) : AllElements[x] = State(prob.k)
  BY <1>2, AllElementsDone DEF DriverInv
<1>5. /\ DOMAIN C' = Elements(prob)
      /\ ret' = "success" => \A x \in Elements(prob) : C'[x] = State(prob.k)
  BY <1>1, <1>2, <1>4
<1>6. Elements(prob)' = Elements(prob)
  BY <1>3
<1>7. QED
  BY <1>1, <1>3, <1>5, <1>6 DEF ResultInv, InSection, Summing, Before

(* A section that has just begun. *)
Begun ==
    /\ at = "section" /\ info # NoInfo /\ (~ForceThreading => info.nthrs_k = 1)
    /\ \A t \in Threads : ithr[t] = t /\ pc[t] \in {"loop", "out"} /\ arg[t].done = FALSE
    /\ DOMAIN C = Elements(prob) /\ \A x \in Elements(prob) : C[x] = State(0)

(* No part has been handled when a section starts. *)
LEMMA BegunParts ==
  ASSUME DriverInv, Begun, NEW i \in Parts
  PROVE  /\ ~Handled(i) /\ Summed(i) = 0 /\ \A m : Upto(i, m) = 0
<1> DEFINE w == Owner(i)
<1>1. w \in Threads /\ w <= i /\ w \in Nat /\ i \in Nat
  BY OwnerFacts DEF Begun, After
<1>2. ithr[w] = w /\ pc[w] \in {"loop", "out"}
  BY <1>1 DEF Begun
<1> HIDE DEF w
<1>3. ~(w > i)
  BY <1>1, SMTT(30)
<1>4. ~(ithr[w] > i) /\ pc[w] \notin {"dispatched", "sum"} /\ pc[w] \notin Blocked
  BY <1>2, <1>3 DEF Blocked
<1>5. at = "section"
  BY DEF Begun
<1>6. QED
  BY <1>4, <1>5 DEF Handled, Summed, Upto, w

(* The result at the start of a section. *)
LEMMA BegunInv ==
  ASSUME DriverInv, Begun
  PROVE  ResultInv
<1>1. /\ at = "section" /\ info # NoInfo /\ at \in After /\ (~ForceThreading => info.nthrs_k = 1)
      /\ DOMAIN C = Elements(prob) /\ \A x \in Elements(prob) : C[x] = State(0)
  BY DEF Begun, After
<1>2. \A i \in Parts : Result(i)
  BY <1>1, BegunParts DEF Result
<1>3. \A i \in Parts : Flagged(i)
  <2>1. SUFFICES ASSUME NEW i \in Parts PROVE Flagged(i)
    OBVIOUS
  <2>2. ~Handled(i) /\ arg[i].done = FALSE
    BY <1>1, BegunParts, OwnerFacts DEF Begun
  <2>3. QED
    BY <2>2 DEF Flagged
<1>4. ASSUME k_summing, NEW i \in Parts PROVE SumResult(i)
  <2>1. SplitPlan
    BY <1>1, <1>4 DEF SplitPlan
  <2>2. 0 \in 0 .. forced.nthrs_k - 1
    BY <2>1, SplitFacts, SMTT(30)
  <2>3. Peer(i, 0) \in Parts
    BY <2>1, <2>2, PeerPlace
  <2>4. ~Handled(i) /\ ~Handled(Peer(i, 0)) /\ Summed(i) = 0
    BY <2>3, BegunParts
  <2>5. SumState(i) = State(0)
    BY <2>1, <2>4, SumNothing
  <2>6. ~(Summed(i) > 0)
    BY <2>4, SMTT(30)
  <2>7. QED
    BY <1>1, <2>4, <2>5, <2>6 DEF SumResult
<1>5. QED
  BY <1>1, <1>2, <1>3, <1>4 DEF ResultInv, InSection, Summing, Before

(* The same as an implication, so that it can be primed. *)
LEMMA BegunResult == DriverInv /\ Begun => ResultInv
BY BegunInv

(* Only a forced decomposition divides k. *)
LEMMA SpawnWholeK ==
  ASSUME DriverInv, Spawn, info' # NoInfo
  PROVE  (~ForceThreading => info.nthrs_k = 1)'
<1> DEFINE Eff(n) == Smaller(prob.goal, n)
<1>1. SUFFICES ASSUME ~ForceThreading PROVE info'.nthrs_k = 1
  BY DEF Spawn, plan, ForceThreading
<1>2. at = "spawn" /\ info = NoInfo
  BY DEF Spawn, DriverInv, SliceInv, Before
<1>3. PICK n \in 1 .. nthr_spawn : info' = info \/ info' \in NopackInfos(Eff(n), n, prob)
  <2>1. Grants \subseteq 1 .. nthr_spawn
    BY DEF Grants
  <2> HIDE DEF nthr_spawn
  <2>2. QED
    BY <1>1, <2>1 DEF Spawn
<1>4. info' \in NopackInfos(Eff(n), n, prob)
  BY <1>2, <1>3
<1>5. prob.goal \in 1 .. NthrMax /\ prob.m \in Positive /\ prob.n \in Positive /\ prob.k \in Positive
  BY PlanSizes DEF DriverInv
<1> DEFINE g == prob.goal
<1>6. n \in 1 .. NthrMax \/ n \in 1 .. g
  BY DEF nthr_spawn
<1>7. g \in 1 .. NthrMax
  BY <1>5
<1> HIDE DEF g, Eff
<1>8. n \in 1 .. NthrMax /\ Smaller(g, n) \in 1 .. NthrMax
  BY <1>6, <1>7, Consts, SMTT(30) DEF Smaller
<1>9. Eff(n) \in 1 .. NthrMax
  BY <1>8 DEF Eff, g
<1>10. QED
  BY <1>4, <1>5, <1>8, <1>9, NopackLegal

(* The parallel section starts with C untouched. *)
LEMMA SpawnResult ==
  ASSUME DriverInv, ResultInv, Spawn
  PROVE  ResultInv'
<1>1. DriverInv'
  BY SpawnStep
<1>2. /\ at = "spawn" /\ at' = "section"
      /\ UNCHANGED <<plan, arg, local, ithr, pos, shared, C, heap, ret>>
      /\ \E n : \/ pc' = [t \in Threads |-> IF t < n THEN "whole" ELSE "out"] /\ info' = info /\ nthr' = n
                \/ pc' = [t \in Threads |-> IF t < n THEN "loop" ELSE "out"] /\ nthr' = n
  BY DEF Spawn
<1>3. /\ info = NoInfo /\ Pristine
      /\ DOMAIN C = Elements(prob) /\ \A x \in Elements(prob) : C[x] = State(0)
  BY <1>2 DEF DriverInv, SliceInv, PlaceInv, ResultInv, Before
<1>4. prob' = prob /\ C' = C /\ arg' = arg /\ ithr' = ithr
  BY <1>2 DEF plan
<1>5. Elements(prob)' = Elements(prob) /\ State(0)' = State(0)
  BY <1>4 DEF Elements, State
<1>6. DOMAIN C' = Elements(prob)' /\ \A x \in Elements(prob)' : C'[x] = State(0)'
  BY <1>3, <1>4, <1>5
<1>7. 0 \in Threads /\ \A t \in Threads : (t < 1 <=> t = 0)
  BY Consts, SMTT(30) DEF Threads, Positive
<1>8. CASE info' # NoInfo
  <2>1. \A t \in Threads : pc'[t] \in {"loop", "out"}
    BY <1>2, <1>3, <1>8
  <2>2. \A t \in Threads : ithr'[t] = t /\ arg'[t].done = FALSE
    BY <1>3, <1>4 DEF Pristine
  <2>3. (~ForceThreading => info.nthrs_k = 1)'
    BY <1>8, SpawnWholeK
  <2>4. Begun'
    BY <1>2, <1>6, <1>8, <2>1, <2>2, <2>3 DEF Begun
  <2>5. (DriverInv /\ Begun => ResultInv)'
    BY BegunResult, PTL
  <2>6. QED
    BY <1>1, <2>4, <2>5
<1>9. CASE info' = NoInfo
  <2>1. nthr' = 1
    BY <1>1, <1>2, <1>9 DEF DriverInv, SliceInv, After
  <2>2. \A t \in Threads : pc'[t] \in {"whole", "out"}
    BY <1>1, <1>2, <1>9 DEF DriverInv, PlaceInv
  <2>3. CASE \E n : pc' = [t \in Threads |-> IF t < n THEN "whole" ELSE "out"] /\ nthr' = n
    <3>1. pc' = [t \in Threads |-> IF t < 1 THEN "whole" ELSE "out"]
      BY <2>1, <2>3
    <3>2. pc'[0] = "whole" /\ \A t \in Threads : t # 0 => pc'[t] = "out"
      BY <1>7, <3>1
    <3>3. QED
      BY <1>2, <1>6, <1>9, <3>2 DEF ResultInv, InSection, Summing, Before
  <2>4. CASE \E n : pc' = [t \in Threads |-> IF t < n THEN "loop" ELSE "out"] /\ nthr' = n
    <3>1. pc' = [t \in Threads |-> IF t < 1 THEN "loop" ELSE "out"]
      BY <2>1, <2>4
    <3>2. pc'[0] = "loop"
      BY <1>7, <3>1
    <3>3. QED
      BY <1>7, <2>2, <3>2
  <2>5. QED
    BY <1>2, <2>3, <2>4
<1>10. QED
  BY <1>8, <1>9

(* At the end of the section every part is done. *)
LEMMA PartsDone ==
  ASSUME DriverInv, at = "section", info # NoInfo, Joined, NEW i \in Parts
  PROVE  /\ ithr[Owner(i)] > i /\ Handled(i) /\ \A m : Upto(i, m) = prob.k
         /\ Sums => Summed(i) = forced.nthrs_k - 1
         /\ ~Sums => Summed(i) = 0
         /\ pc[Owner(i)] # "dispatched"
<1>1. at \in After
  BY DEF After
<1> DEFINE w == Owner(i)
<1>2. w \in Threads /\ w < nthr /\ i \in Nat /\ i < Nthrs(info) /\ pc[w] = "out"
  BY <1>1, OwnerFacts DEF Joined
<1>3. Nthrs(info) \in Nat /\ ithr[w] \in Nat
  BY <1>1, <1>2, SectionFacts, Unmoved
<1>4. Placed(w)
  BY <1>2 DEF DriverInv, PlaceInv
<1>5. ithr[w] >= Nthrs(info)
  BY <1>2, <1>4 DEF Placed, PlacedAt
<1> DEFINE N == Nthrs(info)
           j == ithr[w]
<1> HIDE DEF w, N, j
<1>6. N \in Nat /\ j \in Nat /\ i \in Nat /\ i < N /\ j >= N
  BY <1>2, <1>3, <1>5 DEF N, j
<1>7. j > i
  BY <1>6, SMTT(30)
<1>8. ithr[Owner(i)] > i
  BY <1>7 DEF j, w
<1>9. QED
  BY <1>2, <1>8 DEF Handled, Upto, Summed, w

(* The parts cover C: when all are handled, C is complete. *)
LEMMA JoinResult ==
  ASSUME DriverInv, ResultInv, Join
  PROVE  ResultInv'
<1>1. /\ at = "section" /\ Joined /\ at \in After
      /\ UNCHANGED <<plan, nthr, info, slice, arg, local, pc, ithr, pos, shared, C, heap>>
      /\ ret' = "success" <=> NoFail
      /\ at' = "free" \/ (at' = "spawn_sum" /\ k_summing /\ ~arg[0].done)
      /\ k_summing /\ at' = "free" => arg[0].done
  BY DEF Join, After, NoFail
<1>2. /\ prob' = prob /\ forced' = forced /\ slice' = slice /\ info' = info /\ C' = C /\ arg' = arg
      /\ local' = local /\ (k_summing' <=> k_summing) /\ (NoFail' <=> NoFail)
      /\ Parts' = Parts /\ Elements(prob)' = Elements(prob) /\ \A u : State(u)' = State(u)
  BY <1>1 DEF plan, k_summing, NoFail, Parts, State, Nthrs
<1>3. DOMAIN C = Elements(prob)
  BY DEF ResultInv
<1>4. 0 \in Threads
  BY Consts
<1>5. CASE info = NoInfo
  <2>1. NoFail => \A x \in Elements(prob) : C[x] = State(prob.k)
    BY <1>1, <1>4, <1>5 DEF ResultInv, Joined
  <2>2. ~ForceThreading
    BY <1>1, <1>5 DEF DriverInv, SliceInv
  <2>3. forced = NoInfo
    BY <2>2 DEF ForceThreading
  <2>4. ~(0 > 1)
    BY SMTT(30)
  <2>5. ~k_summing
    BY <2>3, <2>4, NoInfoFacts DEF k_summing
  <2>6. at' = "free"
    BY <1>1, <2>5
  <2>7. QED
    BY <1>1, <1>2, <1>3, <2>1, <2>6 DEF ResultInv, Before, InSection, Summing
<1>6. CASE info # NoInfo /\ ~k_summing
  <2>1. at' = "free"
    BY <1>1, <1>6
  <2>2. ASSUME NoFail, NEW x \in Elements(prob) PROVE C[x] = State(prob.k)
    <3>1. x[1] \in 0 .. prob.m - 1 /\ x[2] \in 0 .. prob.n - 1
      BY ElementFacts
    <3>2. Sized(prob) /\ Tiled(prob) /\ Legal(info, prob)
      BY <1>1, <1>6, PlanSizes, SectionFacts DEF DriverInv
    <3>3. PICK i \in 0 .. Nthrs(info) - 1 :
             x[1] \in Rows(SliceOf(info, i, prob)) /\ x[2] \in Cols(SliceOf(info, i, prob))
      BY <3>1, <3>2, PartsCover
    <3>4. slice[i] = SliceOf(info, i, prob)
      BY <1>1, <1>6, PartSlice
    <3>5. i \in Parts /\ InPart(x, i)
      BY <3>3, <3>4 DEF InPart, Parts
    <3>6. Result(i)
      BY <1>1, <1>6, <3>5 DEF ResultInv, InSection
    <3>7. C[x] = State(Upto(i, x[1]))
      BY <2>2, <3>5, <3>6 DEF Result
    <3>8. QED
      BY <1>1, <1>6, <3>5, <3>7, PartsDone
  <2>3. QED
    BY <1>1, <1>2, <1>3, <2>1, <2>2 DEF ResultInv, Before, InSection, Summing
<1>7. CASE info # NoInfo /\ k_summing
  <2>1. SplitPlan /\ Summing /\ InSection
    BY <1>1, <1>7 DEF SplitPlan, Summing, InSection
  <2>2. Nthrs(info) \in 1 .. NthrMax
    BY <1>1, <1>7, SectionFacts
  <2>3. 0 \in 0 .. forced.nthrs_k - 1
    BY <2>1, SplitFacts, SMTT(30)
  <2>4. 0 \in Parts
    BY <2>2, SMTT(30) DEF Parts
  <2>5. \A i \in Parts : /\ Peer(i, 0) \in Parts /\ Handled(Peer(i, 0)) /\ Handled(i)
    BY <1>1, <1>7, <2>1, <2>3, PartsDone, PeerPlace
  <2>6. arg[0].done <=> Sums
    BY <1>1, <1>7, <2>1, <2>4, PartsDone DEF ResultInv, Flagged
  <2>7. CASE Sums
    <3>1. at' = "free"
      BY <1>1, <2>6, <2>7
    <3>2. ASSUME NoFail, NEW x \in Elements(prob) PROVE C[x] = State(prob.k)
      <4>1. PICK i \in Parts : InShare(x, i)
        BY <2>1, SumSharesCover
      <4>2. SumResult(i)
        BY <2>1 DEF ResultInv
      <4>3. C[x] = SumState(i)
        BY <3>2, <4>1, <4>2 DEF SumResult
      <4>4. Handled(Peer(i, 0)) /\ Summed(i) = forced.nthrs_k - 1
        BY <1>1, <1>7, <2>5, <2>7, PartsDone
      <4>5. QED
        BY <2>1, <4>3, <4>4, SumComplete
    <3>3. QED
      BY <1>1, <1>2, <1>3, <3>1, <3>2 DEF ResultInv, Before, InSection, Summing
  <2>8. CASE ~Sums
    <3>1. at' = "spawn_sum"
      BY <1>1, <1>7, <2>6, <2>8
    <3>2. ASSUME NEW i \in Parts PROVE SumResult(i)'
      <4>1. SumResult(i)
        BY <2>1 DEF ResultInv
      <4>2. \A j : Handled(j)'
        BY <3>1 DEF Handled
      <4>3. Summed(i)' = 0
        BY <3>1 DEF Summed
      <4>4. Summed(i) = 0
        BY <1>1, <1>7, <2>8, PartsDone
      <4>5. SumState(i)' = SumState(i)
        BY <1>2, <2>5, <4>2, <4>3, <4>4, SumSame
      <4>6. \A x : InShare(x, i)' <=> InShare(x, i)
        BY <1>2 DEF InShare
      <4>7. ~(Summed(i)' > 0)
        BY <4>3, SMTT(30)
      <4>8. QED
        BY <1>2, <2>5, <4>1, <4>5, <4>6, <4>7 DEF SumResult
    <3>3. QED
      BY <1>1, <1>2, <1>3, <3>1, <3>2 DEF ResultInv, Before, InSection, Summing
  <2>9. QED
    BY <2>7, <2>8
<1>8. QED
  BY <1>5, <1>6, <1>7

(* Sums over k belong to a decomposition that splits k. *)
LEMMA SplitSection ==
  ASSUME DriverInv, at \in After, k_summing
  PROVE  SplitPlan
<1>1. SUFFICES ASSUME info = NoInfo PROVE FALSE
  BY DEF SplitPlan
<1>2. ~ForceThreading
  BY <1>1 DEF DriverInv, SliceInv
<1>3. forced = NoInfo
  BY <1>2 DEF ForceThreading
<1>4. ~(0 > 1)
  BY SMTT(30)
<1>5. QED
  BY <1>3, <1>4, NoInfoFacts DEF k_summing

(* The second section has just begun. *)
SumBegun == at = "sum_section" /\ info # NoInfo /\ \A t \in Threads : ithr[t] = t /\ pos[t] = NoBlock

(* Nothing has been summed when the second section starts. *)
LEMMA SumBegunParts == DriverInv /\ SumBegun => \A i \in Parts : Summed(i) = 0
<1>1. SUFFICES ASSUME DriverInv, SumBegun, NEW i \in Parts PROVE Summed(i) = 0
  OBVIOUS
<1> DEFINE w == Owner(i)
<1>2. at \in After /\ info # NoInfo
  BY <1>1 DEF SumBegun, After
<1>3. w \in Threads /\ w <= i /\ w \in Nat /\ i \in Nat
  BY <1>1, <1>2, OwnerFacts
<1>4. ithr[w] = w /\ pos[w] = NoBlock
  BY <1>1, <1>3 DEF SumBegun
<1> HIDE DEF w
<1>5. ~(w > i)
  BY <1>3, SMTT(30)
<1>6. pos[w].k = 0
  BY <1>4, SMTT(30) DEF NoBlock
<1>7. QED
  BY <1>4, <1>5, <1>6 DEF Summed, w

(* The second section starts with what the first one has left. *)
LEMMA SpawnSumResult ==
  ASSUME DriverInv, ResultInv, SpawnSum
  PROVE  ResultInv'
<1>1. /\ at = "spawn_sum" /\ at' = "sum_section" /\ at \in After
      /\ UNCHANGED <<plan, info, slice, arg, local, pos, shared, C, heap, ret>>
      /\ ithr' = [t \in Threads |-> t]
  BY DEF SpawnSum, After
<1>2. /\ prob' = prob /\ forced' = forced /\ slice' = slice /\ info' = info /\ C' = C /\ arg' = arg
      /\ local' = local /\ pos' = pos /\ ret' = ret
      /\ (k_summing' <=> k_summing) /\ (NoFail' <=> NoFail)
      /\ Parts' = Parts /\ Elements(prob)' = Elements(prob)
  BY <1>1 DEF plan, k_summing, NoFail, Parts, Nthrs
<1>3. k_summing
  BY <1>1 DEF DriverInv, SliceInv
<1>4. SplitPlan /\ Summing /\ info # NoInfo
  BY <1>1, <1>3, SplitSection DEF Summing, SplitPlan
<1>5. DriverInv'
  BY SpawnSumStep
<1>6. \A t \in Threads : pos[t] = NoBlock
  BY <1>1 DEF DriverInv, PlaceInv, NoBlockPlaces
<1>7. SumBegun'
  BY <1>1, <1>2, <1>4, <1>6 DEF SumBegun
<1>8. (DriverInv /\ SumBegun => \A i \in Parts : Summed(i) = 0)'
  BY SumBegunParts, PTL
<1>9. ASSUME NEW i \in Parts PROVE SumResult(i)'
  <2>1. SumResult(i)
    BY <1>4 DEF ResultInv
  <2>2. \A j : Handled(j)' /\ Handled(j)
    BY <1>1 DEF Handled
  <2>3. Summed(i)' = 0
    BY <1>2, <1>5, <1>7, <1>8
  <2>4. Summed(i) = 0
    BY <1>1 DEF Summed
  <2>5. SumState(i)' = SumState(i)
    BY <1>2, <2>2, <2>3, <2>4, SumSame
  <2>6. \A x : InShare(x, i)' <=> InShare(x, i)
    BY <1>2 DEF InShare
  <2>7. ~(Summed(i)' > 0)
    BY <2>3, SMTT(30)
  <2>8. QED
    BY <1>2, <2>1, <2>2, <2>5, <2>6, <2>7 DEF SumResult
<1>10. DOMAIN C = Elements(prob) /\ (ret = "success" => NoFail)
  BY <1>1 DEF ResultInv
<1>11. QED
  BY <1>1, <1>2, <1>9, <1>10 DEF ResultInv, Before, InSection, Summing

(* The shares cover C: when all are summed, C is complete. *)
LEMMA JoinSumResult ==
  ASSUME DriverInv, ResultInv, JoinSum
  PROVE  ResultInv'
<1>1. /\ at = "sum_section" /\ at' = "free" /\ at \in After /\ Joined
      /\ UNCHANGED <<plan, nthr, info, slice, arg, local, pc, ithr, pos, shared, C, heap, ret>>
  BY DEF JoinSum, After
<1>2. /\ prob' = prob /\ C' = C /\ arg' = arg /\ ret' = ret /\ (NoFail' <=> NoFail)
      /\ Elements(prob)' = Elements(prob) /\ \A u : State(u)' = State(u)
  BY <1>1 DEF plan, NoFail, State
<1>3. k_summing
  BY <1>1 DEF DriverInv, SliceInv
<1>4. SplitPlan /\ Summing /\ info # NoInfo
  BY <1>1, <1>3, SplitSection DEF Summing, SplitPlan
<1>5. ASSUME NEW i \in Parts PROVE Summed(i) = forced.nthrs_k - 1
  <2> DEFINE w == Owner(i)
             N == Nthrs(info)
             j == ithr[w]
  <2>1. w \in Threads /\ w < nthr /\ i \in Nat /\ i < N /\ pc[w] = "out"
    BY <1>1, <1>4, OwnerFacts DEF Joined
  <2>2. N \in Nat /\ j \in Nat /\ prob.goal = N
    BY <1>1, <1>3, <1>4, <2>1, SectionFacts, Unmoved
  <2>3. ~(j < prob.goal)
    BY <1>1, <2>1 DEF DriverInv, PlaceInv
  <2> HIDE DEF N, j
  <2>4. j > i
    BY <2>1, <2>2, <2>3, SMTT(30)
  <2>5. QED
    BY <1>1, <2>4 DEF Summed, j
<1>6. DOMAIN C = Elements(prob) /\ (ret = "success" => NoFail)
  BY <1>1 DEF ResultInv
<1>7. ASSUME NoFail, NEW x \in Elements(prob) PROVE C[x] = State(prob.k)
  <2>1. PICK i \in Parts : InShare(x, i)
    BY <1>4, SumSharesCover
  <2>2. SumResult(i)
    BY <1>4 DEF ResultInv
  <2>3. C[x] = SumState(i)
    BY <1>7, <2>1, <2>2 DEF SumResult
  <2>4. Handled(Peer(i, 0))
    BY <1>1 DEF Handled
  <2>5. QED
    BY <1>4, <1>5, <2>3, <2>4, SumComplete
<1>8. QED
  BY <1>1, <1>2, <1>6, <1>7 DEF ResultInv, Before, InSection, Summing

(* Freeing memory does not touch C. *)
LEMMA FreeResult ==
  ASSUME ResultInv, Free
  PROVE  ResultInv'
<1>1. /\ at = "free" /\ at' = "returned" /\ UNCHANGED plan /\ C' = C /\ ret' = ret
  BY DEF Free
<1>2. prob' = prob /\ \A u : State(u)' = State(u)
  BY <1>1 DEF plan, State
<1>3. Elements(prob)' = Elements(prob)
  BY <1>2
<1>4. QED
  BY <1>1, <1>2, <1>3 DEF ResultInv, Before, InSection, Summing

-----------------------------------------------------------------------------
(* The result, for each step of a thread. *)

(* What a part has left in C, without a split of k, when nothing of it     *)
(* moves.                                                                  *)
LEMMA SameResult ==
  ASSUME DriverInv, ResultInv, UNCHANGED <<section, at>>, InSection, ~k_summing, NEW i \in Parts,
         NoFail' => NoFail, \A m \in 0 .. prob.m - 1 : Upto(i, m)' = Upto(i, m),
         NoFail' => \A x \in Elements(prob) : InPart(x, i) => C'[x] = C[x]
  PROVE  Result(i)'
<1>1. at # "start"
  BY DEF InSection
<1>2. /\ \A x : InPart(x, i)' <=> InPart(x, i)
      /\ \A u : State(u)' = State(u)
      /\ Elements(prob)' = Elements(prob)
  BY <1>1, PartFrame
<1>3. Result(i)
  BY DEF ResultInv
<1>4. SUFFICES ASSUME NoFail', NEW x \in Elements(prob), InPart(x, i) PROVE C'[x] = State(Upto(i, x[1]))'
  BY <1>2 DEF Result
<1>5. x[1] \in 0 .. prob.m - 1
  BY ElementFacts
<1>6. C[x] = State(Upto(i, x[1]))
  BY <1>3, <1>4 DEF Result
<1>7. State(Upto(i, x[1]))' = State(Upto(i, x[1]))
  BY <1>2, <1>5 DEF State
<1>8. QED
  BY <1>4, <1>6, <1>7

(* Steps that leave C, the status and the temporary matrices alone. *)
LEMMA QuietStep ==
  ASSUME DriverInv, ResultInv, UNCHANGED <<section, at>>, InSection, NEW t \in Threads, Others(t),
         ithr' = ithr, C' = C, arg' = arg, local' = local, \A j \in Parts : ithr[t] = j => SamePart(j)
  PROVE  ResultInv'
<1>1. at \in After /\ info # NoInfo /\ at = "section"
  BY DEF InSection, After
<1>2. \A i \in Parts : SamePart(i)
  <2>1. ithr'[t] = ithr[t]
    OBVIOUS
  <2>2. \A i \in Parts : ithr[t] # i => SamePart(i)
    BY <1>1, <2>1, OtherParts
  <2>3. QED
    BY <2>2
<1>3. NoFail' => NoFail
  BY DEF NoFail
<1>4. ASSUME ~k_summing, NEW i \in Parts PROVE Result(i)'
  <2>1. NoFail' => \A x \in Elements(prob) : InPart(x, i) => C'[x] = C[x]
    OBVIOUS
  <2>2. \A m \in 0 .. prob.m - 1 : Upto(i, m)' = Upto(i, m)
    BY <1>2 DEF SamePart
  <2>3. QED
    BY <1>3, <1>4, <2>1, <2>2, SameResult
<1>5. ASSUME k_summing, NEW i \in Parts PROVE SumResult(i)'
  <2>1. SplitPlan /\ Summing
    BY <1>1, <1>5 DEF SplitPlan, Summing, InSection
  <2>2. 0 \in 0 .. forced.nthrs_k - 1
    BY <2>1, SplitFacts, SMTT(30)
  <2>3. Peer(i, 0) \in Parts
    BY <2>1, <2>2, PeerPlace
  <2>4. at # "start"
    BY <1>1
  <2>5. Peer(i, 0)' = Peer(i, 0)
    BY <2>4, PartFrame
  <2>6. Handled(Peer(i, 0))' <=> Handled(Peer(i, 0))
    BY <1>2, <2>3, <2>5 DEF SamePart, Handled
  <2>7. QED
    BY <1>2, <1>3, <2>1, <2>6, SameSum DEF SamePart
<1>6. \A i \in Parts : Flagged(i)'
  BY <1>2, SameFlag
<1>7. QED
  BY <1>1, <1>4, <1>5, <1>6, SectionMade

(* A thread that stays in its part, before the part is computed. *)
LEMMA PartStays ==
  ASSUME DriverInv, DriverInv', UNCHANGED <<section, at>>, NEW t \in Threads,
         pc[t] \notin {"out", "whole", "sum", "dispatched"},
         pc'[t] \notin {"dispatched", "sum"}, ithr'[t] = ithr[t],
         NEW j \in Parts, ithr[t] = j, \A m \in 0 .. prob.m - 1 : Upto(j, m)' = Upto(j, m)
  PROVE  SamePart(j)
<1>1. at = "section" /\ info # NoInfo /\ j % nthr = t
  BY ThreadFacts
<1>2. InSection /\ at # "start"
  BY <1>1 DEF InSection
<1>3. ~Handled(j) /\ Summed(j) = 0
  BY <1>1, <1>2, OwnUpto DEF UptoPlace
<1>4. ~Handled(j)' /\ Summed(j)' = 0
  BY <1>1, <1>2, OwnNext
<1>5. Owner(j) = t /\ Owner(j)' = Owner(j)
  BY <1>1, <1>2, PartFrame DEF Owner
<1>6. QED
  BY <1>3, <1>4, <1>5 DEF SamePart

(* Taking the next part. *)
LEMMA LoopResult ==
  ASSUME DriverInv, DriverInv', ResultInv, NEW t \in Threads, LoopStep(t)
  PROVE  ResultInv'
<1>1. /\ pc[t] = "loop" /\ UNCHANGED <<section, at>> /\ ithr' = ithr /\ C' = C /\ arg' = arg
      /\ local' = local /\ visits' = visits
      /\ pc' = [pc EXCEPT ![t] = IF ithr[t] >= NthrEff THEN "out"
                                 ELSE IF info.copy # "shared_a" THEN "kernel"
                                 ELSE IF packedA THEN "gemm" ELSE "malloc"]
      /\ pos' = [pos EXCEPT ![t] = NoBlock]
  BY DEF LoopStep, Goto, shared
<1>2. InSection /\ at \in After /\ ithr[t] % nthr = t
  BY <1>1, ThreadPart
<1>3. Others(t)
  BY <1>1, StepAlone DEF StepOf
<1>4. pc \in [Threads -> Places] /\ pos \in [Threads -> [k : Nat, m : Nat]]
  BY DEF DriverInv, TypeOK, PlaceInv, Places
<1>5. pc'[t] \in {"out", "kernel", "gemm", "malloc"} /\ pos'[t] = NoBlock
  BY <1>1, <1>4
<1>6. ASSUME NEW j \in Parts, ithr[t] = j PROVE SamePart(j)
  <2>1. \A m : Upto(j, m) = 0
    BY <1>1, <1>2, <1>6, OwnUpto DEF UptoPlace, Blocked
  <2>2. ASSUME NEW m \in 0 .. prob.m - 1 PROVE Upto(j, m)' = 0
    <3>1. CASE pc'[t] = "gemm"
      <4>1. Upto(j, m)' = IF m < BlockEnd(t)' THEN pos'[t].k + SizeK(t)' ELSE pos'[t].k
        BY <1>1, <1>2, <1>6, <3>1, OwnNext DEF Blocked
      <4>2. pos'[t].k = 0 /\ pos'[t].m = 0
        BY <1>5, SMTT(30) DEF NoBlock
      <4>3. BlockEnd(t)' = 0 + 0
        BY <3>1, <4>2 DEF BlockEnd
      <4>4. ~(m < 0 + 0)
        BY <2>2, PlanSizes, SMTT(30) DEF Positive, DriverInv
      <4>5. QED
        BY <4>1, <4>2, <4>3, <4>4
    <3>2. CASE pc'[t] # "gemm"
      <4>1. pc'[t] \notin Blocked \cup {"dispatched"}
        BY <1>5, <3>2 DEF Blocked
      <4>2. QED
        BY <1>1, <1>2, <1>6, <4>1, OwnNext
    <3>3. QED
      BY <3>1, <3>2
  <2>3. pc'[t] \notin {"dispatched", "sum"} /\ ithr'[t] = ithr[t]
    BY <1>1, <1>5
  <2>4. \A m \in 0 .. prob.m - 1 : Upto(j, m)' = Upto(j, m)
    BY <2>1, <2>2
  <2>5. QED
    BY <1>1, <1>6, <2>3, <2>4, PartStays
<1>7. QED
  BY <1>1, <1>2, <1>3, <1>6, QuietStep

(* Steps that compute a part, or a block of it, without a split of k. *)
LEMMA ComputeResult ==
  ASSUME DriverInv, DriverInv', ResultInv, UNCHANGED <<section, at>>, NEW t \in Threads, Others(t),
         ithr' = ithr, pc[t] \notin {"out", "whole", "loop", "sum", "dispatched"}, pc'[t] # "sum",
         ~k_summing, arg' = arg, DOMAIN C' = DOMAIN C, NEW j \in Parts, ithr[t] = j,
         \A x \in Elements(prob) : ~InPart(x, j) => C'[x] = C[x],
         NoFail => \A x \in Elements(prob) : InPart(x, j) => C'[x] = State(Upto(j, x[1])'),
         \A i \in Parts, x \in Elements(prob) : InPart(x, i) /\ InPart(x, j) => i = j
  PROVE  ResultInv'
<1>1. InSection /\ at # "start" /\ at \in After
  BY ThreadPart
<1>2. ithr'[t] = ithr[t] /\ (NoFail' <=> NoFail)
  BY DEF NoFail
<1>3. \A i \in Parts : j # i => SamePart(i)
  BY <1>1, <1>2, OtherParts DEF InSection
<1>4. ASSUME NEW i \in Parts PROVE Flagged(i)'
  <2>1. arg'[i].done = arg[i].done
    OBVIOUS
  <2>2. CASE j = i
    BY <1>2, <2>1, <2>2, OwnFlag
  <2>3. CASE j # i
    BY <1>1, <1>3, <2>1, <2>3, SameFlag
  <2>4. QED
    BY <2>2, <2>3
<1>5. ASSUME NEW i \in Parts PROVE Result(i)'
  <2>1. CASE j = i
    <3>1. /\ \A x : InPart(x, j)' <=> InPart(x, j)
          /\ \A u : State(u)' = State(u)
          /\ Elements(prob)' = Elements(prob) /\ prob' = prob
      BY <1>1, PartFrame
    <3>2. SUFFICES ASSUME NoFail', NEW x \in Elements(prob), InPart(x, j)
                   PROVE  C'[x] = State(Upto(j, x[1]))'
      BY <2>1, <3>1 DEF Result
    <3>3. C'[x] = State(Upto(j, x[1])')
      BY <1>2, <3>2
    <3>4. State(Upto(j, x[1]))' = State(Upto(j, x[1])')
      BY <3>1 DEF State
    <3>5. QED
      BY <3>3, <3>4
  <2>2. CASE j # i
    <3>1. NoFail' => \A x \in Elements(prob) : InPart(x, i) => C'[x] = C[x]
      BY <2>2
    <3>2. \A m \in 0 .. prob.m - 1 : Upto(i, m)' = Upto(i, m)
      BY <1>3, <2>2 DEF SamePart
    <3>3. NoFail' => NoFail
      BY <1>2
    <3>4. QED
      BY <1>1, <3>1, <3>2, <3>3, SameResult
  <2>3. QED
    BY <2>1, <2>2
<1>6. at = "section" /\ info # NoInfo
  BY <1>1 DEF InSection
<1>7. QED
  BY <1>4, <1>5, <1>6, SectionMade

(* Without a split of k, a part is a piece of C that no other part has, with all its terms. *)
LEMMA WholeParts ==
  ASSUME DriverInv, ResultInv, InSection, ~k_summing
  PROVE  /\ \A i \in Parts, j \in Parts, x \in Elements(prob) : InPart(x, i) /\ InPart(x, j) => i = j
         /\ \A j \in Parts : Ks(slice[j]) = 0 .. prob.k - 1
<1>1. at \in After /\ info # NoInfo
  BY DEF InSection, After
<1>2. Legal(info, prob) /\ Sized(prob) /\ Tiled(prob)
  BY <1>1, SectionFacts, PlanSizes DEF DriverInv
<1>3. info.nthrs_k = 1
  <2>1. CASE ~ForceThreading
    BY <2>1 DEF ResultInv
  <2>2. CASE ForceThreading
    <3>1. info = forced
      BY <1>1, <2>2 DEF DriverInv, SliceInv
    <3> DEFINE nk == forced.nthrs_k
    <3>2. nk \in Positive /\ ~(nk > 1)
      BY <1>2, <3>1, LegalFacts DEF k_summing
    <3> HIDE DEF nk
    <3>3. nk = 1
      BY <3>2, SMTT(30) DEF Positive
    <3>4. QED
      BY <3>1, <3>3 DEF nk
  <2>3. QED
    BY <2>1, <2>2
<1>4. ASSUME NEW j \in Parts
      PROVE  slice[j] = SliceOf(info, j, prob) /\ WholeK(slice[j], prob) /\ j \in 0 .. Nthrs(info) - 1
  <2>1. j \in 0 .. Nthrs(info) - 1
    BY DEF Parts
  <2>2. slice[j] = SliceOf(info, j, prob)
    BY <1>1, <2>1, PartSlice
  <2>3. WholeK(SliceOf(info, j, prob), prob)
    BY <1>2, <1>3, <2>1, PartsWholeK
  <2>4. QED
    BY <2>1, <2>2, <2>3
<1>5. ASSUME NEW i \in Parts, NEW j \in Parts, NEW x \in Elements(prob), InPart(x, i), InPart(x, j)
      PROVE  i = j
  <2>1. x[1] \in 0 .. prob.m - 1 /\ x[2] \in 0 .. prob.n - 1
    BY ElementFacts
  <2>2. /\ x[1] \in Rows(SliceOf(info, i, prob)) /\ x[2] \in Cols(SliceOf(info, i, prob))
        /\ x[1] \in Rows(SliceOf(info, j, prob)) /\ x[2] \in Cols(SliceOf(info, j, prob))
    BY <1>4, <1>5 DEF InPart
  <2>3. SliceOf(info, i, prob).ithr_k = SliceOf(info, j, prob).ithr_k
    BY <1>4 DEF WholeK
  <2>4. i \in 0 .. Nthrs(info) - 1 /\ j \in 0 .. Nthrs(info) - 1
    BY <1>4
  <2>5. QED
    BY <1>2, <2>1, <2>2, <2>3, <2>4, PartsApart
<1>6. ASSUME NEW j \in Parts PROVE Ks(slice[j]) = 0 .. prob.k - 1
  <2>1. slice[j].off_k = 0 /\ slice[j].k = prob.k
    BY <1>4 DEF WholeK
  <2> DEFINE K == prob.k
  <2>2. K \in Nat
    BY PlanSizes DEF DriverInv, Positive
  <2> HIDE DEF K
  <2>3. 0 .. 0 + K - 1 = 0 .. K - 1
    BY <2>2, SMTT(30)
  <2>4. QED
    BY <2>1, <2>3 DEF Ks, K
<1>7. QED
  BY <1>5, <1>6

(* gemm_kernel_driver, without a split of k. *)
LEMMA KernelWhole ==
  ASSUME DriverInv, DriverInv', ResultInv, NEW t \in Threads, KernelStep(t), ~k_summing
  PROVE  ResultInv'
<1> DEFINE s == slice[ithr[t]]
<1>1. /\ pc[t] = "kernel" /\ UNCHANGED <<section, at, ithr, pos, shared>>
      /\ pc' = [pc EXCEPT ![t] = "dispatched"]
      /\ \/ Fail(ithr[t]) /\ C' = Spoil(Rows(s), Cols(s))
         \/ C' = Multiply(Rows(s), Cols(s), Ks(s), TRUE, TRUE) /\ arg' = arg
  BY DEF KernelStep, Goto
<1>2. UNCHANGED <<section, at>> /\ ithr' = ithr /\ pos' = pos /\ visits' = visits
  BY <1>1 DEF shared
<1>3. InSection /\ at \in After /\ at # "start" /\ ithr[t] \in Parts /\ ithr[t] % nthr = t
  BY <1>1, ThreadPart
<1>4. Others(t)
  BY <1>1, <1>2, StepAlone DEF StepOf
<1>5. pc'[t] = "dispatched"
  BY <1>1 DEF DriverInv, TypeOK
<1>6. DOMAIN C' = DOMAIN C
  BY <1>1 DEF Spoil, Multiply
<1>7. CASE Fail(ithr[t])
  BY <1>1, <1>2, <1>4, <1>5, <1>6, <1>7, FailResult
<1>8. CASE C' = Multiply(Rows(s), Cols(s), Ks(s), TRUE, TRUE) /\ arg' = arg
  <2>1. PICK j \in Parts : ithr[t] = j
    BY <1>3
  <2>2. DOMAIN C = Elements(prob)
    BY DEF ResultInv
  <2>3. ASSUME NEW x \in Elements(prob), ~InPart(x, j) PROVE C'[x] = C[x]
    BY <1>8, <2>1, <2>2, <2>3 DEF Multiply, InPart
  <2>4. ASSUME NoFail, NEW x \in Elements(prob), InPart(x, j) PROVE C'[x] = State(Upto(j, x[1])')
    <3>1. C'[x] = Multiplied(C[x], Ks(s), TRUE, TRUE)
      BY <1>8, <2>1, <2>2, <2>4 DEF Multiply, InPart
    <3>2. Result(j)
      BY <1>3 DEF ResultInv
    <3>3. C[x] = State(Upto(j, x[1]))
      BY <2>4, <3>2 DEF Result
    <3>4. Upto(j, x[1]) = 0
      BY <1>1, <1>3, <2>1, OwnUpto DEF UptoPlace, Blocked
    <3>5. Upto(j, x[1])' = prob.k
      BY <1>2, <1>3, <1>5, <2>1, OwnNext
    <3>6. Ks(s) = 0 .. prob.k - 1
      BY <1>3, <2>1, WholeParts
    <3>7. Multiplied(State(0), 0 .. prob.k - 1, TRUE, TRUE) = State(prob.k)
      BY MultiplyAll DEF DriverInv
    <3>8. QED
      BY <3>1, <3>3, <3>4, <3>5, <3>6, <3>7
  <2>5. \A i \in Parts, x \in Elements(prob) : InPart(x, i) /\ InPart(x, j) => i = j
    BY <1>3, WholeParts
  <2>6. /\ \A x \in Elements(prob) : ~InPart(x, j) => C'[x] = C[x]
        /\ NoFail => \A x \in Elements(prob) : InPart(x, j) => C'[x] = State(Upto(j, x[1])')
    BY <2>3, <2>4
  <2>7. pc[t] \notin {"out", "whole", "loop", "sum", "dispatched"} /\ pc'[t] # "sum"
    BY <1>1, <1>5
  <2>8. QED
    BY <1>2, <1>4, <1>6, <1>8, <2>1, <2>5, <2>6, <2>7, ComputeResult
<1>9. QED
  BY <1>1, <1>7, <1>8

(* A copy of A is shared only where k is not split. *)
LEMMA SharedWhole ==
  ASSUME DriverInv, NEW t \in Threads, pc[t] \in CopyPlaces \cup {"gemm"}
  PROVE  ~k_summing /\ pc[t] \notin {"out", "whole", "loop", "sum", "dispatched"}
<1>1. pc[t] \notin {"out", "whole", "loop", "sum", "dispatched"}
  BY DEF CopyPlaces
<1>2. at \in After /\ info # NoInfo /\ Placed(t)
  BY <1>1, ThreadFacts
<1>3. info.copy = "shared_a"
  BY <1>2 DEF Placed, PlacedAt
<1>4. QED
  BY <1>1, <1>2, <1>3, SplitFacts DEF SplitPlan

(* The steps of parallel_a_copy that leave C alone, before the first block ... *)
LEMMA BeforeBlocks ==
  ASSUME DriverInv, DriverInv', ResultInv, NEW t \in Threads, UNCHANGED <<section, at>>, Others(t),
         ithr' = ithr, C' = C, arg' = arg, local' = local, pos' = pos,
         pc[t] \in {"malloc", "malloced"}, pc'[t] \in {"malloced", "copy"}
  PROVE  ResultInv'
<1>1. InSection /\ at \in After /\ ithr[t] % nthr = t
  BY ThreadPart
<1>2. pos'[t] = NoBlock
  BY DEF DriverInv, PlaceInv, NoBlockPlaces
<1>3. ASSUME NEW j \in Parts, ithr[t] = j PROVE SamePart(j)
  <2>1. \A m : Upto(j, m) = 0
    BY <1>1, <1>3, OwnUpto DEF UptoPlace, Blocked
  <2>2. ASSUME NEW m \in 0 .. prob.m - 1 PROVE Upto(j, m)' = 0
    <3>1. CASE pc'[t] = "copy"
      <4>1. Upto(j, m)' = IF m < BlockEnd(t)' THEN pos'[t].k + SizeK(t)' ELSE pos'[t].k
        BY <1>1, <1>3, <3>1, OwnNext DEF Blocked
      <4>2. pos'[t].k = 0 /\ pos'[t].m = 0
        BY <1>2, SMTT(30) DEF NoBlock
      <4>3. BlockEnd(t)' = 0 + 0
        BY <3>1, <4>2 DEF BlockEnd
      <4>4. ~(m < 0 + 0)
        BY <2>2, PlanSizes, SMTT(30) DEF Positive, DriverInv
      <4>5. QED
        BY <4>1, <4>2, <4>3, <4>4
    <3>2. CASE pc'[t] = "malloced"
      BY <1>1, <1>3, <3>2, OwnNext DEF Blocked
    <3>3. QED
      BY <3>1, <3>2
  <2>3. \A m \in 0 .. prob.m - 1 : Upto(j, m)' = Upto(j, m)
    BY <2>1, <2>2
  <2>4. /\ pc[t] \notin {"out", "whole", "sum", "dispatched"}
        /\ pc'[t] \notin {"dispatched", "sum"} /\ ithr'[t] = ithr[t]
    OBVIOUS
  <2>5. QED
    BY <1>3, <2>3, <2>4, PartStays
<1>4. QED
  BY <1>1, <1>3, QuietStep

(* ... and on a block that is not computed yet. *)
LEMMA SameBlock ==
  ASSUME DriverInv, DriverInv', ResultInv, NEW t \in Threads, UNCHANGED <<section, at>>, Others(t),
         ithr' = ithr, C' = C, arg' = arg, local' = local, pos' = pos,
         pc[t] \in {"copy", "copied"}, pc'[t] \in {"copied", "gemm"}
  PROVE  ResultInv'
<1>1. InSection /\ at \in After /\ at # "start" /\ ithr[t] % nthr = t
  BY ThreadPart
<1>2. slice' = slice
  BY <1>1, PartFrame
<1>3. ASSUME NEW j \in Parts, ithr[t] = j PROVE SamePart(j)
  <2>1. \A m : Upto(j, m) = IF m < BlockEnd(t) THEN pos[t].k + SizeK(t) ELSE pos[t].k
    BY <1>1, <1>3, OwnUpto DEF UptoPlace, Blocked
  <2>2. \A m : Upto(j, m)' = IF m < BlockEnd(t)' THEN pos'[t].k + SizeK(t)' ELSE pos'[t].k
    BY <1>1, <1>3, OwnNext DEF Blocked
  <2>3. BlockEnd(t)' = BlockEnd(t) /\ SizeK(t)' = SizeK(t)
    BY <1>2 DEF BlockEnd, SizeK
  <2>4. \A m \in 0 .. prob.m - 1 : Upto(j, m)' = Upto(j, m)
    BY <2>1, <2>2, <2>3
  <2>5. /\ pc[t] \notin {"out", "whole", "sum", "dispatched"}
        /\ pc'[t] \notin {"dispatched", "sum"} /\ ithr'[t] = ithr[t]
    OBVIOUS
  <2>6. QED
    BY <1>3, <2>4, <2>5, PartStays
<1>4. QED
  BY <1>1, <1>3, QuietStep

(* The allocation of the shared buffer. *)
LEMMA MallocResult ==
  ASSUME DriverInv, DriverInv', ResultInv, NEW t \in Threads, MallocStep(t) PROVE ResultInv'
<1>1. /\ pc[t] = "malloc" /\ pc' = [pc EXCEPT ![t] = "malloced"] /\ UNCHANGED <<section, at>>
      /\ ithr' = ithr /\ C' = C /\ arg' = arg /\ local' = local /\ pos' = pos
      /\ visits' = [visits EXCEPT ![t] = @ + 1]
  BY DEF MallocStep, Goto, Come
<1>2. Others(t)
  BY <1>1, StepAlone DEF StepOf
<1>3. pc'[t] = "malloced"
  BY <1>1 DEF DriverInv, TypeOK
<1>4. QED
  BY <1>1, <1>2, <1>3, BeforeBlocks

(* The test of the shared buffer. *)
LEMMA MallocedResult ==
  ASSUME DriverInv, DriverInv', ResultInv, NEW t \in Threads, MallocedStep(t) PROVE ResultInv'
<1>1. /\ pc[t] = "malloced" /\ UNCHANGED <<section, at>>
      /\ ithr' = ithr /\ C' = C /\ local' = local /\ pos' = pos /\ visits' = visits
      /\ \/ Fail(ithr[t]) /\ pc' = [pc EXCEPT ![t] = "dispatched"]
         \/ arg' = arg /\ pc' = [pc EXCEPT ![t] = "copy"]
  BY DEF MallocedStep, Goto, shared
<1>2. Others(t)
  BY <1>1, StepAlone DEF StepOf
<1>3. CASE Fail(ithr[t]) /\ pc' = [pc EXCEPT ![t] = "dispatched"]
  <2>1. pc'[t] = "dispatched"
    BY <1>3 DEF DriverInv, TypeOK
  <2>2. pc[t] \notin {"out", "whole", "loop", "sum", "dispatched"} /\ pc'[t] # "sum"
        /\ DOMAIN C' = DOMAIN C
    BY <1>1, <2>1
  <2>3. QED
    BY <1>1, <1>2, <1>3, <2>2, FailResult
<1>4. CASE arg' = arg /\ pc' = [pc EXCEPT ![t] = "copy"]
  <2>1. pc'[t] = "copy"
    BY <1>4 DEF DriverInv, TypeOK
  <2>2. QED
    BY <1>1, <1>2, <1>4, <2>1, BeforeBlocks
<1>5. QED
  BY <1>1, <1>3, <1>4

(* The copy of a share of A. *)
LEMMA CopyResult ==
  ASSUME DriverInv, DriverInv', ResultInv, NEW t \in Threads, CopyStep(t) PROVE ResultInv'
<1>1. /\ pc[t] = "copy" /\ pc' = [pc EXCEPT ![t] = "copied"] /\ UNCHANGED <<section, at>>
      /\ ithr' = ithr /\ C' = C /\ arg' = arg /\ local' = local /\ pos' = pos
      /\ visits' = [visits EXCEPT ![t] = @ + 1]
  BY DEF CopyStep, Goto, Come
<1>2. Others(t)
  BY <1>1, StepAlone DEF StepOf
<1>3. pc'[t] = "copied"
  BY <1>1 DEF DriverInv, TypeOK
<1>4. QED
  BY <1>1, <1>2, <1>3, SameBlock

(* The barrier after the copy. *)
LEMMA CopiedResult ==
  ASSUME DriverInv, DriverInv', ResultInv, NEW t \in Threads, CopiedStep(t) PROVE ResultInv'
<1>1. /\ pc[t] = "copied" /\ pc' = [pc EXCEPT ![t] = "gemm"] /\ UNCHANGED <<section, at>>
      /\ ithr' = ithr /\ C' = C /\ arg' = arg /\ local' = local /\ pos' = pos
      /\ visits' = visits
  BY DEF CopiedStep, Goto, shared
<1>2. Others(t)
  BY <1>1, StepAlone DEF StepOf
<1>3. pc'[t] = "gemm"
  BY <1>1 DEF DriverInv, TypeOK
<1>4. QED
  BY <1>1, <1>2, <1>3, SameBlock

(* Going on to the next block keeps account of the rows that the block has finished. *)
LEMMA NextUpto ==
  ASSUME DriverInv, DriverInv', UNCHANGED <<section, at>>, NEW t \in Threads, pc[t] \in Blocked,
         ithr' = ithr, NEW j \in Parts, ithr[t] = j, pos'[t] = NextBlock(t),
         NextBlock(t).k < prob.k => pc'[t] \in {"copy", "gemm"},
         ~(NextBlock(t).k < prob.k) => pc'[t] = "dispatched"
  PROVE  \A m \in 0 .. prob.m - 1 :
            Upto(j, m)' = IF m < pos[t].m + SizeM(t) THEN pos[t].k + SizeK(t) ELSE pos[t].k
<1>1. pc[t] \notin {"out", "whole", "sum"}
  BY DEF Blocked
<1>2. InSection /\ at # "start" /\ ithr[t] % nthr = t
  BY <1>1, ThreadPart
<1>3. slice' = slice /\ ithr'[t] = j
  BY <1>2, PartFrame
<1> DEFINE a == pos[t].k
           b == pos[t].m
           sm == SizeM(t)
           sk == SizeK(t)
           M == prob.m
           K == prob.k
<1>4. /\ a \in Nat /\ a < K /\ b \in Nat /\ sm \in 1 .. MPadd /\ b + sm <= M
      /\ sk \in 1 .. KPadd /\ a + sk <= K
      /\ NextBlock(t) = IF b + sm < M THEN [k |-> a, m |-> b + sm] ELSE [k |-> a + sk, m |-> 0]
      /\ NextBlock(t).k < K \/ NextBlock(t) = End
  BY BlockFacts
<1>5. M \in Nat /\ K \in Nat /\ sm \in Nat /\ sk \in Nat
  BY <1>4, PlanSizes, Consts, SMTT(30) DEF Positive, DriverInv
<1>6. /\ pc'[t] = "dispatched" => \A m : Upto(j, m)' = K
      /\ pc'[t] \in Blocked =>
           \A m : Upto(j, m)' = IF m < BlockEnd(t)' THEN pos'[t].k + SizeK(t)' ELSE pos'[t].k
  BY <1>2, <1>3, OwnNext
<1>7. pc'[t] \in {"copy", "gemm"} => BlockEnd(t)' = pos'[t].m + 0 /\ pc'[t] \in Blocked
  BY DEF BlockEnd, Blocked
<1>8. SUFFICES ASSUME NEW m \in 0 .. M - 1 PROVE Upto(j, m)' = IF m < b + sm THEN a + sk ELSE a
  OBVIOUS
<1>9. CASE b + sm < M
  <2>1. pos'[t].k = a /\ pos'[t].m = b + sm
    <3> DEFINE p == pos'[t]
    <3>1. p = [k |-> a, m |-> b + sm]
      BY <1>4, <1>9
    <3> HIDE DEF p
    <3>2. p.k = a /\ p.m = b + sm
      BY <3>1, SMTT(30)
    <3>3. QED
      BY <3>2 DEF p
  <2>2. pc'[t] \in {"copy", "gemm"}
    BY <1>4, <2>1
  <2>3. SizeK(t)' = sk
    BY <1>3, <2>1 DEF SizeK
  <2>4. b + sm + 0 = b + sm
    <3> HIDE DEF b, sm
    <3>1. QED
      BY <1>4, <1>5, SMTT(30)
  <2>5. QED
    BY <1>6, <1>7, <2>1, <2>2, <2>3, <2>4
<1>10. CASE ~(b + sm < M)
  <2>1. pos'[t].k = a + sk /\ pos'[t].m = 0
    <3> DEFINE p == pos'[t]
    <3>1. p = [k |-> a + sk, m |-> 0]
      BY <1>4, <1>10
    <3> HIDE DEF p
    <3>2. p.k = a + sk /\ p.m = 0
      BY <3>1, SMTT(30)
    <3>3. QED
      BY <3>2 DEF p
  <2>2. m < b + sm /\ ~(m < 0 + 0)
    <3> HIDE DEF b, sm, M
    <3>1. QED
      BY <1>4, <1>5, <1>8, <1>10, SMTT(30)
  <2>3. CASE a + sk < K
    <3>1. pc'[t] \in {"copy", "gemm"}
      BY <2>1, <2>3
    <3>2. QED
      BY <1>6, <1>7, <2>1, <2>2, <3>1
  <2>4. CASE ~(a + sk < K)
    <3>1. pc'[t] = "dispatched"
      BY <2>1, <2>4
    <3>2. K = a + sk
      <4> HIDE DEF a, sk, K
      <4>1. QED
        BY <1>4, <1>5, <2>4, SMTT(30)
    <3>3. QED
      BY <1>6, <2>2, <3>1, <3>2
  <2>5. QED
    BY <2>3, <2>4
<1>11. QED
  BY <1>9, <1>10

(* The barrier after the multiplication: on to the next block. *)
LEMMA ComputedResult ==
  ASSUME DriverInv, DriverInv', ResultInv, NEW t \in Threads, ComputedStep(t) PROVE ResultInv'
<1> DEFINE more == NextBlock(t).k < slice[ithr[t]].k
<1>1. /\ pc[t] = "computed" /\ pc' = [pc EXCEPT ![t] = IF more THEN "copy" ELSE "dispatched"]
      /\ UNCHANGED <<section, at>> /\ pos' = [pos EXCEPT ![t] = NextBlock(t)]
      /\ ithr' = ithr /\ C' = C /\ arg' = arg /\ local' = local /\ visits' = visits
  BY DEF ComputedStep, Goto
<1>2. Others(t)
  BY <1>1, StepAlone DEF StepOf
<1>3. InSection /\ at # "start" /\ ithr[t] \in Parts /\ ithr[t] % nthr = t
  BY <1>1, ThreadPart
<1>4. ~k_summing /\ pc[t] \notin {"out", "whole", "loop", "sum", "dispatched"}
  BY <1>1, SharedWhole DEF CopyPlaces
<1>5. pc[t] \in Blocked /\ slice[ithr[t]].k = prob.k
  BY <1>1, BlockFacts DEF Blocked
<1>6. /\ pos'[t] = NextBlock(t) /\ pc'[t] # "sum" /\ DOMAIN C' = DOMAIN C
      /\ NextBlock(t).k < prob.k => pc'[t] \in {"copy", "gemm"}
      /\ ~(NextBlock(t).k < prob.k) => pc'[t] = "dispatched"
  BY <1>1, <1>5 DEF DriverInv, TypeOK, PlaceInv
<1>7. PICK j \in Parts : ithr[t] = j
  BY <1>3
<1>8. \A m \in 0 .. prob.m - 1 :
         Upto(j, m)' = IF m < pos[t].m + SizeM(t) THEN pos[t].k + SizeK(t) ELSE pos[t].k
  BY <1>1, <1>5, <1>6, <1>7, NextUpto
<1>9. \A m : Upto(j, m) = IF m < pos[t].m + SizeM(t) THEN pos[t].k + SizeK(t) ELSE pos[t].k
  <2>1. BlockEnd(t) = pos[t].m + SizeM(t)
    BY <1>1 DEF BlockEnd
  <2>2. QED
    BY <1>3, <1>5, <1>7, <2>1, OwnUpto DEF UptoPlace
<1>10. ASSUME NoFail, NEW x \in Elements(prob), InPart(x, j) PROVE C'[x] = State(Upto(j, x[1])')
  <2>1. C[x] = State(Upto(j, x[1]))
    BY <1>3, <1>4, <1>10 DEF ResultInv, Result
  <2>2. x[1] \in 0 .. prob.m - 1
    BY ElementFacts
  <2>3. QED
    BY <1>1, <1>8, <1>9, <2>1, <2>2
<1>11. \A i \in Parts, x \in Elements(prob) : InPart(x, i) /\ InPart(x, j) => i = j
  BY <1>3, <1>4, WholeParts
<1>12. /\ \A x \in Elements(prob) : ~InPart(x, j) => C'[x] = C[x]
       /\ NoFail => \A x \in Elements(prob) : InPart(x, j) => C'[x] = State(Upto(j, x[1])')
  BY <1>1, <1>10
<1>13. QED
  BY <1>1, <1>2, <1>4, <1>6, <1>7, <1>11, <1>12, ComputeResult

(* The multiplication of a block adds its terms to the part's elements. *)
LEMMA GemmResult ==
  ASSUME DriverInv, DriverInv', ResultInv, NEW t \in Threads, GemmStep(t) PROVE ResultInv'
<1> DEFINE s == slice[ithr[t]]
           a == pos[t].k
           b == pos[t].m
           sm == SizeM(t)
           sk == SizeK(t)
           more == NextBlock(t).k < s.k
<1>1. /\ pc[t] = "gemm" /\ UNCHANGED <<section, at>> /\ ithr' = ithr /\ local' = local
      /\ \/ Fail(ithr[t]) /\ C' = Spoil(Rows(s), Cols(s))
         \/ /\ C' = Multiply(s.off_m + b .. s.off_m + b + sm - 1, Cols(s), a .. a + sk - 1,
                             a = 0, a + sk = s.k)
            /\ arg' = arg
      /\ \/ /\ pos' = [pos EXCEPT ![t] = NextBlock(t)] /\ visits' = visits
            /\ pc' = [pc EXCEPT ![t] = IF more THEN "gemm" ELSE "dispatched"]
         \/ /\ visits' = [visits EXCEPT ![t] = @ + 1] /\ pos' = pos
            /\ pc' = [pc EXCEPT ![t] = "computed"]
  BY DEF GemmStep, Goto, Come
<1>2. Others(t)
  BY <1>1, StepAlone DEF StepOf
<1>3. InSection /\ at # "start" /\ ithr[t] \in Parts /\ ithr[t] % nthr = t
  BY <1>1, ThreadPart
<1>4. ~k_summing /\ pc[t] \notin {"out", "whole", "loop", "sum", "dispatched"}
  BY <1>1, SharedWhole
<1>5. /\ pc[t] \in Blocked /\ s.k = prob.k /\ s.off_m = 0 /\ s.m = prob.m
      /\ a \in Nat /\ b \in Nat /\ sm \in 1 .. MPadd /\ b + sm <= prob.m
      /\ sk \in 1 .. KPadd /\ a + sk <= prob.k
  BY <1>1, BlockFacts DEF Blocked
<1>6. pc'[t] # "sum" /\ DOMAIN C' = DOMAIN C
  BY <1>1 DEF DriverInv, TypeOK, Spoil, Multiply
<1>7. CASE Fail(ithr[t])
  BY <1>1, <1>2, <1>4, <1>6, <1>7, FailResult
<1>8. PICK j \in Parts : ithr[t] = j
  BY <1>3
<1>9. \A m \in 0 .. prob.m - 1 : Upto(j, m)' = IF m < b + sm THEN a + sk ELSE a
  <2>1. CASE /\ pos' = [pos EXCEPT ![t] = NextBlock(t)]
             /\ pc' = [pc EXCEPT ![t] = IF more THEN "gemm" ELSE "dispatched"]
    <3>1. /\ pos'[t] = NextBlock(t)
          /\ NextBlock(t).k < prob.k => pc'[t] \in {"copy", "gemm"}
          /\ ~(NextBlock(t).k < prob.k) => pc'[t] = "dispatched"
      <4>1. more <=> NextBlock(t).k < prob.k
        BY <1>5
      <4> HIDE DEF more
      <4>2. pos'[t] = NextBlock(t) /\ pc'[t] = IF more THEN "gemm" ELSE "dispatched"
        <5>1. pc \in [Threads -> Places] /\ pos \in [Threads -> [k : Nat, m : Nat]]
          BY DEF DriverInv, TypeOK, PlaceInv, Places
        <5> DEFINE b2 == NextBlock(t)
        <5> HIDE DEF b2
        <5>2. pos' = [pos EXCEPT ![t] = b2]
          BY <2>1 DEF b2
        <5>3. pos'[t] = b2
          BY <5>1, <5>2
        <5>4. QED
          BY <2>1, <5>1, <5>3 DEF b2
      <4>3. QED
        BY <4>1, <4>2
    <3>2. QED
      BY <1>1, <1>5, <1>8, <3>1, NextUpto
  <2>2. CASE pos' = pos /\ pc' = [pc EXCEPT ![t] = "computed"]
    <3>1. pc'[t] = "computed" /\ slice' = slice
      BY <1>1, <1>3, <2>2, PartFrame DEF DriverInv, TypeOK
    <3>2. BlockEnd(t)' = b + sm /\ SizeK(t)' = sk
      BY <1>1, <2>2, <3>1 DEF BlockEnd, SizeM, SizeK
    <3>3. \A m : Upto(j, m)' = IF m < BlockEnd(t)' THEN pos'[t].k + SizeK(t)' ELSE pos'[t].k
      BY <1>1, <1>3, <1>8, <3>1, OwnNext DEF Blocked
    <3>4. QED
      BY <2>2, <3>2, <3>3
  <2>3. QED
    BY <1>1, <2>1, <2>2
<1>10. \A m : Upto(j, m) = IF m < b + 0 THEN a + sk ELSE a
  <2>1. BlockEnd(t) = b + 0
    BY <1>1 DEF BlockEnd
  <2>2. QED
    BY <1>3, <1>5, <1>8, <2>1, OwnUpto DEF UptoPlace
<1>11. CASE /\ C' = Multiply(s.off_m + b .. s.off_m + b + sm - 1, Cols(s), a .. a + sk - 1,
                             a = 0, a + sk = s.k)
            /\ arg' = arg
  <2>1. DOMAIN C = Elements(prob)
    BY DEF ResultInv
  <2>2. /\ prob.m \in Nat /\ sm \in Nat /\ sm > 0 /\ sk \in Nat /\ sk > 0
        /\ a + sk \in Nat /\ a < a + sk
    <3>1. prob.m \in Nat /\ sm \in Nat /\ sm > 0 /\ sk \in Nat /\ sk > 0
      BY <1>5, PlanSizes, Consts, SMTT(30) DEF Positive, DriverInv
    <3> HIDE DEF a, sk
    <3>2. a + sk \in Nat /\ a < a + sk
      BY <1>5, <3>1, SMTT(30)
    <3>3. QED
      BY <3>1, <3>2
  <2> DEFINE band == s.off_m + b .. s.off_m + b + sm - 1
  <2>3. ASSUME NEW x \in Elements(prob)
        PROVE  /\ x[1] \in 0 .. prob.m - 1
               /\ x[1] \in band <=> ~(x[1] < b + 0) /\ x[1] < b + sm
               /\ x[1] \in band => x[1] \in Rows(s)
               /\ x[1] < b + 0 => x[1] < b + sm
    <3> DEFINE y == x[1]
               M == prob.m
    <3>1. y \in 0 .. M - 1
      BY ElementFacts
    <3>2. /\ y \in 0 + b .. 0 + b + sm - 1 <=> ~(y < b + 0) /\ y < b + sm
          /\ y \in 0 + b .. 0 + b + sm - 1 => y \in 0 .. 0 + M - 1
          /\ y < b + 0 => y < b + sm
      <4> HIDE DEF y, M, b, sm
      <4>1. QED
        BY <1>5, <2>2, <3>1, SMTT(30) DEF M, b, sm
    <3>3. QED
      BY <1>5, <3>1, <3>2 DEF Rows
  <2>4. ASSUME NEW x \in Elements(prob), ~InPart(x, j) PROVE C'[x] = C[x]
    BY <1>8, <1>11, <2>1, <2>3, <2>4 DEF Multiply, InPart
  <2>5. ASSUME NoFail, NEW x \in Elements(prob), InPart(x, j) PROVE C'[x] = State(Upto(j, x[1])')
    <3>1. C[x] = State(Upto(j, x[1]))
      BY <1>3, <1>4, <2>5 DEF ResultInv, Result
    <3>2. CASE x[1] \in band
      <4>1. C'[x] = BlockTerms(C[x], a, a + sk)
        <5> DEFINE e == C[x]
                   f == Fresh(e, IF e.base = "old" THEN "beta" ELSE "bad")
                   base == IF a # 0 THEN e ELSE f
                   ks == a .. a + sk - 1
        <5>1. C'[x] = [Plus(base, ks)
                         EXCEPT !.co = @ + (IF a + sk = s.k /\ base.base # "bad" THEN 1 ELSE 0)]
          <6>1. C'[x] = LET z == IF ~(a = 0) THEN e
                                    ELSE Fresh(e, IF e.base = "old" THEN "beta" ELSE "bad")
                        IN [Plus(z, ks)
                              EXCEPT !.co = @ + (IF a + sk = s.k /\ z.base # "bad" THEN 1 ELSE 0)]
            BY <1>8, <1>11, <2>1, <2>5, <3>2 DEF Multiply, Multiplied, InPart
          <6>2. base = IF ~(a = 0) THEN e ELSE Fresh(e, IF e.base = "old" THEN "beta" ELSE "bad")
            OBVIOUS
          <6> HIDE DEF base, ks, e
          <6>3. QED
            BY <6>1, <6>2
        <5>2. BlockTerms(e, a, a + sk)
                = [Plus(base, ks)
                     EXCEPT !.co = @ + (IF a + sk = prob.k /\ base.base # "bad" THEN 1 ELSE 0)]
          <6> DEFINE z == a + sk
          <6>1. ks = a .. z - 1
            <7>1. a + sk - 1 = z - 1
              <8> HIDE DEF a, sk
              <8>1. QED
                BY <1>5, <2>2, SMTT(30)
            <7>2. QED
              BY <7>1
          <6> HIDE DEF a, z, e, ks
          <6>2. base = IF a # 0 THEN e ELSE Fresh(e, IF e.base = "old" THEN "beta" ELSE "bad")
            OBVIOUS
          <6> HIDE DEF base
          <6>3. BlockTerms(e, a, z)
                  = [Plus(base, ks)
                       EXCEPT !.co = @ + (IF z = prob.k /\ base.base # "bad" THEN 1 ELSE 0)]
            BY <6>1, <6>2 DEF BlockTerms
          <6>4. QED
            BY <6>3 DEF z
        <5>3. s.k = prob.k
          BY <1>5
        <5> HIDE DEF base, ks, e, a, sk, s
        <5>4. QED
          BY <5>1, <5>2, <5>3 DEF e
      <4>2. Upto(j, x[1]) = a /\ Upto(j, x[1])' = a + sk
        BY <1>9, <1>10, <2>3, <3>2
      <4>3. BlockTerms(State(a), a, a + sk) = State(a + sk)
        BY <1>5, <2>2, BlockAdds DEF DriverInv
      <4>4. QED
        BY <3>1, <4>1, <4>2, <4>3
    <3>3. CASE x[1] \notin band
      <4>1. C'[x] = C[x]
        BY <1>11, <2>1, <3>3 DEF Multiply
      <4>2. Upto(j, x[1])' = Upto(j, x[1])
        BY <1>9, <1>10, <2>3, <3>3
      <4>3. QED
        BY <3>1, <4>1, <4>2
    <3>4. QED
      BY <3>2, <3>3
  <2>6. \A i \in Parts, x \in Elements(prob) : InPart(x, i) /\ InPart(x, j) => i = j
    BY <1>3, <1>4, WholeParts
  <2>7. /\ \A x \in Elements(prob) : ~InPart(x, j) => C'[x] = C[x]
        /\ NoFail => \A x \in Elements(prob) : InPart(x, j) => C'[x] = State(Upto(j, x[1])')
    BY <2>4, <2>5
  <2>8. QED
    BY <1>1, <1>2, <1>4, <1>6, <1>8, <1>11, <2>6, <2>7, ComputeResult
<1>12. QED
  BY <1>1, <1>7, <1>11

(* Steps that leave C and the temporary matrices alone, part by part. *)
LEMMA QuietParts ==
  ASSUME DriverInv, ResultInv, UNCHANGED <<section, at>>, InSection, C' = C, local' = local,
         NoFail' => NoFail,
         ~k_summing => \A i \in Parts : \A m \in 0 .. prob.m - 1 : Upto(i, m)' = Upto(i, m),
         \A i \in Parts : (Handled(i)' <=> Handled(i)) /\ Summed(i)' = Summed(i) /\ Flagged(i)'
  PROVE  ResultInv'
<1>1. at \in After /\ info # NoInfo /\ at = "section" /\ at # "start"
  BY DEF InSection, After
<1>2. ASSUME ~k_summing, NEW i \in Parts PROVE Result(i)'
  <2>1. NoFail' => \A x \in Elements(prob) : InPart(x, i) => C'[x] = C[x]
    OBVIOUS
  <2>2. \A m \in 0 .. prob.m - 1 : Upto(i, m)' = Upto(i, m)
    BY <1>2
  <2>3. QED
    BY <1>2, <2>1, <2>2, SameResult
<1>3. ASSUME k_summing, NEW i \in Parts PROVE SumResult(i)'
  <2>1. SplitPlan /\ Summing
    BY <1>1, <1>3 DEF SplitPlan, Summing, InSection
  <2>2. 0 \in 0 .. forced.nthrs_k - 1
    BY <2>1, SplitFacts, SMTT(30)
  <2>3. Peer(i, 0) \in Parts
    BY <2>1, <2>2, PeerPlace
  <2>4. Peer(i, 0)' = Peer(i, 0)
    BY <1>1, PartFrame
  <2>5. Handled(Peer(i, 0))' <=> Handled(Peer(i, 0))
    BY <2>3, <2>4 DEF Handled
  <2>6. NoFail' => \A x \in Elements(prob) : InShare(x, i) => C'[x] = C[x]
    OBVIOUS
  <2>7. QED
    BY <2>1, <2>5, <2>6, SameSum
<1>4. QED
  BY <1>1, <1>2, <1>3, SectionMade

(* The return of the kernel publishes the part. *)
LEMMA DispatchedResult ==
  ASSUME DriverInv, DriverInv', ResultInv, NEW t \in Threads, DispatchedStep(t) PROVE ResultInv'
<1>1. pc[t] = "dispatched"
  BY DEF DispatchedStep
<1>2. /\ InSection /\ at \in After /\ at = "section" /\ at # "start" /\ ithr[t] \in Parts
      /\ ithr[t] % nthr = t /\ info # NoInfo
      /\ NthrEff = Nthrs(info) /\ ithr[t] < Nthrs(info)
  BY <1>1, ThreadFacts, ThreadPart DEF InSection
<1>3. /\ UNCHANGED <<section, at>> /\ C' = C /\ local' = local /\ visits' = visits
      /\ pos' = [pos EXCEPT ![t] = NoBlock]
      /\ \/ /\ Sums /\ arg' = [arg EXCEPT ![ithr[t]].done = TRUE]
            /\ pc' = [pc EXCEPT ![t] = "sum"] /\ ithr' = ithr
         \/ /\ ~Sums /\ ithr' = [ithr EXCEPT ![t] = @ + nthr]
            /\ pc' = [pc EXCEPT ![t] = "loop"] /\ arg' = arg
  <2>1. prob.sync /\ k_summing /\ nthr >= NthrEff <=> Sums
    BY <1>2 DEF Sums
  <2>2. /\ UNCHANGED <<section, at>> /\ C' = C /\ local' = local /\ visits' = visits
        /\ pos' = [pos EXCEPT ![t] = NoBlock]
        /\ IF prob.sync /\ k_summing /\ nthr >= NthrEff
           THEN /\ arg' = [arg EXCEPT ![ithr[t]].done = TRUE]
                /\ pc' = [pc EXCEPT ![t] = "sum"] /\ ithr' = ithr
           ELSE /\ ithr' = [ithr EXCEPT ![t] = @ + nthr]
                /\ pc' = [pc EXCEPT ![t] = "loop"] /\ arg' = arg
    BY DEF DispatchedStep, Goto, shared
  <2>3. QED
    BY <2>1, <2>2
<1>4. Others(t)
  BY <1>3, StepAlone DEF StepOf
<1>5. PICK j \in Parts : ithr[t] = j
  BY <1>2
<1>6. Owner(j) = t /\ (\A i : Owner(i)' = Owner(i)) /\ (Sums' <=> Sums) /\ at' = "section"
  BY <1>2, <1>3, <1>5, PartFrame DEF Owner
<1>7. Handled(j) /\ Summed(j) = 0 /\ \A m : Upto(j, m) = prob.k
  BY <1>1, <1>2, <1>5, OwnUpto DEF UptoPlace
<1>8. pc'[t] \in {"loop", "sum"} /\ pos'[t] = NoBlock
  <2>1. pc \in [Threads -> Places] /\ pos \in [Threads -> [k : Nat, m : Nat]]
    BY DEF DriverInv, TypeOK, PlaceInv, Places
  <2>2. pos'[t] = NoBlock
    BY <1>3, <2>1
  <2>3. pc' = [pc EXCEPT ![t] = "sum"] \/ pc' = [pc EXCEPT ![t] = "loop"]
    BY <1>3
  <2>4. QED
    BY <2>1, <2>2, <2>3
<1>9. CASE Sums
  <2>1. /\ arg' = [arg EXCEPT ![j].done = TRUE] /\ ithr' = ithr /\ pc' = [pc EXCEPT ![t] = "sum"]
        /\ ithr'[t] = ithr[t]
    BY <1>3, <1>5, <1>9
  <2>2. \A i \in Parts : j # i => SamePart(i)
    BY <1>2, <1>3, <1>4, <1>5, <2>1, OtherParts
  <2>3. arg \in Args /\ j \in Threads /\ (\A i \in Parts : i \in Threads) /\ j \in Nat
    BY <1>2, OwnerFacts DEF DriverInv, TypeOK, Args
  <2>4. /\ arg'[j].done = TRUE /\ \A i \in Threads : i # j => arg'[i].done = arg[i].done
        /\ \A i \in Threads : arg'[i].result = arg[i].result
    BY <2>1, <2>3, SMTT(30) DEF Args
  <2>5. NoFail' => NoFail
    BY <2>4 DEF NoFail
  <2>6. pc'[t] = "sum"
    BY <2>1 DEF DriverInv, TypeOK
  <2>7. Handled(j)'
    BY <1>2, <1>3, <1>5, <2>1, <2>6, OwnNext
  <2>8. Summed(j)' = 0
    <3>1. ~(j > j)
      BY <2>3, SMTT(30)
    <3>2. pos'[t].k = 0
      BY <1>8, SMTT(30) DEF NoBlock
    <3>3. QED
      BY <1>5, <1>6, <2>1, <2>6, <3>1, <3>2 DEF Summed
  <2>9. ASSUME NEW i \in Parts
        PROVE  (Handled(i)' <=> Handled(i)) /\ Summed(i)' = Summed(i) /\ Flagged(i)'
    <3>1. CASE i = j
      <4>1. Flagged(j)'
        BY <1>5, <1>6, <1>9, <2>1, <2>4, <2>6, <2>7 DEF Flagged
      <4>2. QED
        BY <1>7, <2>7, <2>8, <3>1, <4>1
    <3>2. CASE i # j
      <4>1. SamePart(i)
        BY <2>2, <3>2
      <4>2. arg'[i].done = arg[i].done
        BY <2>3, <2>4, <3>2
      <4>3. Flagged(i)'
        BY <1>2, <1>3, <4>1, <4>2, SameFlag
      <4>4. QED
        BY <4>1, <4>3 DEF SamePart
    <3>3. QED
      BY <3>1, <3>2
  <2>10. k_summing
    BY <1>9 DEF Sums
  <2>11. QED
    BY <1>2, <1>3, <2>5, <2>9, <2>10, QuietParts
<1>10. CASE ~Sums
  <2>1. /\ arg' = arg /\ ithr' = [ithr EXCEPT ![t] = @ + nthr] /\ pc' = [pc EXCEPT ![t] = "loop"]
    BY <1>3, <1>10
  <2>2. pc'[t] = "loop" /\ ithr'[t] = ithr[t] + nthr
    BY <2>1 DEF DriverInv, TypeOK
  <2>3. \A i \in Parts : j # i => SamePart(i)
    BY <1>2, <1>3, <1>4, <1>5, <2>2, OtherParts
  <2>4. ithr'[Owner(j)] > j
    BY <1>2, <1>5, <1>6, <2>2, PartDone
  <2>5. Handled(j)' /\ Summed(j)' = 0 /\ \A m : Upto(j, m)' = prob.k
    <3>1. prob' = prob
      BY <1>2, <1>3, PartFrame
    <3>2. QED
      BY <1>6, <1>10, <2>4, <3>1 DEF Handled, Summed, Upto
  <2>6. ASSUME NEW i \in Parts
        PROVE  /\ (Handled(i)' <=> Handled(i)) /\ Summed(i)' = Summed(i) /\ Flagged(i)'
               /\ \A m \in 0 .. prob.m - 1 : Upto(i, m)' = Upto(i, m)
    <3>1. arg'[i].done = arg[i].done
      BY <2>1
    <3>2. Flagged(i)'
      BY <1>2, <1>3, <1>10, <3>1, SameFlag
    <3>3. CASE i = j
      BY <1>7, <2>5, <3>2, <3>3
    <3>4. CASE i # j
      BY <2>3, <3>2, <3>4 DEF SamePart
    <3>5. QED
      BY <3>3, <3>4
  <2>7. NoFail' => NoFail
    BY <2>1 DEF NoFail
  <2>8. QED
    BY <1>2, <1>3, <2>6, <2>7, QuietParts
<1>11. QED
  BY <1>9, <1>10

(* The only thread of a section computes all of C. *)
LEMMA WholeResult ==
  ASSUME DriverInv, DriverInv', ResultInv, NEW t \in Threads, WholeStep(t) PROVE ResultInv'
<1>1. /\ pc[t] = "whole" /\ UNCHANGED <<section, at>> /\ pc' = [pc EXCEPT ![t] = "out"]
      /\ \/ C' = AllElements /\ arg' = arg
         \/ arg' = [arg EXCEPT ![0].result = "out_of_memory"] /\ C' = C
  BY DEF WholeStep, Goto
<1>2. at = "section" /\ info = NoInfo
  <2>1. at \in {"section", "sum_section"}
    BY <1>1 DEF DriverInv, PlaceInv
  <2>2. at # "sum_section"
    BY <1>1 DEF DriverInv, PlaceInv
  <2>3. info # NoInfo => Placed(t)
    BY <2>1, <2>2 DEF DriverInv, PlaceInv
  <2>4. QED
    BY <1>1, <2>1, <2>2, <2>3 DEF Placed, PlacedAt
<1>3. t = 0 /\ 0 \in Threads /\ pc[0] = "whole"
  BY <1>1, <1>2 DEF ResultInv
<1>4. pc'[0] = "out" /\ \A u \in Threads : u # 0 => pc'[u] = "out"
  BY <1>1, <1>2, <1>3 DEF ResultInv, DriverInv, TypeOK
<1>5. /\ prob' = prob /\ info' = info /\ at' = at /\ ret' = ret
      /\ Elements(prob)' = Elements(prob) /\ State(prob.k)' = State(prob.k)
  BY <1>1 DEF section, plan, State
<1>6. ASSUME NoFail'
      PROVE  DOMAIN C' = Elements(prob) /\ \A x \in Elements(prob) : C'[x] = State(prob.k)
  <2>1. CASE C' = AllElements /\ arg' = arg
    <3>1. NoFail
      BY <1>6, <2>1 DEF NoFail
    <3>2. DOMAIN C = Elements(prob) /\ \A x \in Elements(prob) : C[x] = State(0)
      BY <1>2, <1>3, <3>1 DEF ResultInv
    <3>3. PlanInv
      BY DEF DriverInv
    <3>4. QED
      BY <2>1, <3>2, <3>3, AllElementsDone
  <2>2. CASE arg' = [arg EXCEPT ![0].result = "out_of_memory"] /\ C' = C
    <3>1. arg \in Args
      BY DEF DriverInv, TypeOK, Args
    <3>2. arg'[0].result # "success"
      BY <1>3, <2>2, <3>1, SMTT(30) DEF Args
    <3>3. QED
      BY <1>3, <1>6, <3>2 DEF NoFail
  <2>3. QED
    BY <1>1, <2>1, <2>2
<1>7. DOMAIN C' = Elements(prob)
  BY <1>1 DEF AllElements, Multiply, ResultInv
<1>8. \A x \in Elements(prob)' : NoFail' => C'[x] = State(IF pc[0] = "whole" THEN 0 ELSE prob.k)'
  <2>1. State(IF pc[0] = "whole" THEN 0 ELSE prob.k)' = State(prob.k)
    BY <1>4, <1>5 DEF State
  <2>2. QED
    BY <1>5, <1>6, <2>1
<1>9. ~InSection' /\ ~Summing' /\ at' \notin Before
  BY <1>2, <1>5 DEF InSection, Summing, Before, NoInfo, Info
<1>10. QED
  BY <1>2, <1>4, <1>5, <1>7, <1>8, <1>9 DEF ResultInv

-----------------------------------------------------------------------------
(* Every step. *)
LEMMA ThreadResult ==
  ASSUME DriverInv, DriverInv', ResultInv, NEW t \in Threads, ThreadStep(t) PROVE ResultInv'
<1>1. CASE WholeStep(t)
  BY <1>1, WholeResult
<1>2. CASE LoopStep(t)
  BY <1>2, LoopResult
<1>3. CASE KernelStep(t)
  BY <1>3, KernelWhole, KernelSum
<1>4. CASE DispatchedStep(t)
  BY <1>4, DispatchedResult
<1>5. CASE MallocStep(t)
  BY <1>5, MallocResult
<1>6. CASE MallocedStep(t)
  BY <1>6, MallocedResult
<1>7. CASE CopyStep(t)
  BY <1>7, CopyResult
<1>8. CASE CopiedStep(t)
  BY <1>8, CopiedResult
<1>9. CASE GemmStep(t)
  BY <1>9, GemmResult
<1>10. CASE ComputedStep(t)
  BY <1>10, ComputedResult
<1>11. CASE SumStep(t)
  BY <1>11, SumStepResult
<1>12. QED
  BY <1>1, <1>2, <1>3, <1>4, <1>5, <1>6, <1>7, <1>8, <1>9, <1>10, <1>11 DEF ThreadStep

(* Nothing changes. *)
LEMMA ResultStutter ==
  ASSUME ResultInv, UNCHANGED vars
  PROVE  ResultInv'
<1>1. /\ UNCHANGED <<prob, forced, at, nthr, info, slice, arg, local, pc, ithr, pos, C, ret>>
  BY DEF vars, plan, shared
<1>2. /\ (k_summing' <=> k_summing) /\ (InSection' <=> InSection) /\ (Summing' <=> Summing)
      /\ (Sums' <=> Sums) /\ (NoFail' <=> NoFail) /\ (ForceThreading' <=> ForceThreading)
      /\ Parts' = Parts /\ (\A i : Owner(i)' = Owner(i)) /\ \A u : State(u)' = State(u)
  BY <1>1 DEF k_summing, InSection, Summing, Sums, NoFail, ForceThreading, Parts, Owner, State
<1>3. /\ \A t : SizeM(t)' = SizeM(t) /\ SizeK(t)' = SizeK(t)
      /\ \A i, x : (InPart(x, i)' <=> InPart(x, i)) /\ (InShare(x, i)' <=> InShare(x, i))
      /\ \A i, q : Peer(i, q)' = Peer(i, q)
  BY <1>1 DEF SizeM, SizeK, InPart, InShare, Peer
<1>4. \A i : (Handled(i)' <=> Handled(i)) /\ Summed(i)' = Summed(i) /\ \A m : Upto(i, m)' = Upto(i, m)
  BY <1>1, <1>2, <1>3 DEF Handled, Summed, Upto
<1>5. \A i : (Handled(Peer(i, 0))' <=> Handled(Peer(i, 0)))
  BY <1>1, <1>2, <1>3 DEF Handled
<1>6. \A i : SumState(i)' = SumState(i)
  BY <1>1, <1>4, <1>5, SumSame
<1>7. \A i : (Result(i)' <=> Result(i)) /\ (SumResult(i)' <=> SumResult(i))
  <2>1. \A i, m : State(Upto(i, m))' = State(Upto(i, m))
    BY <1>1, <1>4 DEF State
  <2>2. \A i : Result(i)' <=> Result(i)
    BY <1>1, <1>2, <1>3, <2>1 DEF Result
  <2>3. \A i : SumResult(i)' <=> SumResult(i)
    BY <1>1, <1>2, <1>3, <1>4, <1>5, <1>6 DEF SumResult
  <2>4. QED
    BY <2>2, <2>3
<1>8. \A i : Flagged(i)' <=> Flagged(i)
  BY <1>1, <1>2, <1>4 DEF Flagged
<1>9. State(IF pc[0] = "whole" THEN 0 ELSE prob.k)' = State(IF pc[0] = "whole" THEN 0 ELSE prob.k)
  BY <1>1 DEF State
<1>10. QED
  BY <1>1, <1>2, <1>7, <1>8, <1>9 DEF ResultInv

(* The result invariant holds at every moment. *)
THEOREM ResultInductive == Spec => []ResultInv
<1>1. Init => ResultInv
  BY ResultInit
<1>2. DriverInv /\ DriverInv' /\ ResultInv /\ [Next]_vars => ResultInv'
  <2>1. SUFFICES ASSUME DriverInv, DriverInv', ResultInv, [Next]_vars PROVE ResultInv'
    OBVIOUS
  <2>2. CASE DriverStep
    BY <2>1, <2>2, BeforeResult, AloneResult, SpawnResult, JoinResult, SpawnSumResult,
       JoinSumResult, FreeResult DEF DriverStep
  <2>3. ASSUME NEW t \in Threads, ThreadStep(t) PROVE ResultInv'
    BY <2>1, <2>3, ThreadResult
  <2>4. CASE UNCHANGED vars
    BY <2>1, <2>4, ResultStutter
  <2>5. QED
    BY <2>1, <2>2, <2>3, <2>4 DEF Next, Returned, Spin
<1>3. QED
  BY <1>1, <1>2, DriverInductive, PTL DEF Spec

(* gemm_threading_driver reports success only if every element of C has    *)
(* been scaled by beta once and has then received every term of its dot    *)
(* product and the offset exactly once: for every size of the matrices and *)
(* of the blocks, every decomposition, every team, every order of the      *)
(* threads and whatever allocations fail.                                  *)
THEOREM ResultAlwaysComplete == Spec => []ResultComplete
<1>1. DriverInv /\ ResultInv => ResultComplete
  <2>1. SUFFICES ASSUME DriverInv, ResultInv, at = "returned", ret = "success", NEW x \in DOMAIN C
                 PROVE  /\ C[x].base = "beta" /\ C[x].co = 1
                        /\ \A k \in DOMAIN C[x].sum : C[x].sum[k] = 1
    BY DEF ResultComplete
  <2>2. C[x] = State(prob.k)
    BY <2>1 DEF ResultInv
  <2>3. prob.k \in Positive
    BY <2>1, PlanSizes DEF DriverInv
  <2> DEFINE e == C[x]
             f == [k \in 0 .. prob.k - 1 |-> IF k < prob.k THEN 1 ELSE 0]
  <2>4. prob.k # 0 /\ \A k \in 0 .. prob.k - 1 : k < prob.k
    BY <2>3, SMTT(30) DEF Positive
  <2>5. e = [base |-> "beta", sum |-> f, co |-> 1]
    BY <2>2, <2>4 DEF State
  <2>6. DOMAIN f = 0 .. prob.k - 1 /\ \A k \in 0 .. prob.k - 1 : f[k] = 1
    BY <2>4
  <2> HIDE DEF e, f
  <2>7. e.base = "beta" /\ e.co = 1 /\ e.sum = f
    BY <2>5, SMTT(30)
  <2>8. QED
    BY <2>6, <2>7 DEF e
<1>2. QED
  BY <1>1, DriverInductive, ResultInductive, PTL
=============================================================================
