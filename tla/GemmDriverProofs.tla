-------------------------- MODULE GemmDriverProofs --------------------------
(***************************************************************************)
(* gemm_threading_driver for any number of threads, any sizes and blocks.  *)
(***************************************************************************)
EXTENDS GemmDriver, WorkDivisionProofs

(* Leaves are for Zenon; those that need arithmetic, records or sequences  *)
(* cite SMT.                                                               *)
USE ZenonT(30)

Positive == Nat \ {0}

(* Blocks of size z for nthrs threads: none is empty, and they suffice. *)
Blocks(nthrs, z, size) ==
    /\ nthrs \in Positive /\ z \in Positive
    /\ (nthrs - 1) * z < size /\ size <= nthrs * z

(* A decomposition of problem p that the driver may choose. *)
Legal(i, p) ==
    /\ i \in [partition : {"row_1d", "col_1d", "col_major_2d", "mnk_3d"},
              copy : {"nonshared", "shared_a"},
              nthrs_m : Positive, nthrs_n : Positive, nthrs_k : Positive,
              thread_m : Nat, thread_n : Nat, thread_k : Nat]
    /\ Nthrs(i) \in 1 .. NthrMax
    /\ i.partition # "mnk_3d" => i.nthrs_k = 1
    /\ i.partition = "row_1d" => i.nthrs_n = 1
    /\ i.partition = "col_1d" => i.nthrs_m = 1
    /\ i.partition = "col_major_2d" =>
          i.nthrs_m \in RowBands /\ (i.nthrs_m > 1 => p.m >= i.nthrs_m * Um)
    /\ i.partition = "mnk_3d" => /\ Blocks(i.nthrs_m, i.thread_m, p.m)
                                 /\ Blocks(i.nthrs_n, i.thread_n, p.n)
                                 /\ Blocks(i.nthrs_k, i.thread_k, p.k)
    /\ i.copy = "shared_a" => i.partition = "col_1d"

(* The problem is one of those given, and a decomposition fixed beforehand *)
(* is legal for it and has as many parts as threads are asked for.         *)
PlanInv ==
    /\ prob \in [m : Positive, n : Positive, k : Positive, goal : 1 .. NthrMax, sync : BOOLEAN]
    /\ [m |-> prob.m, n |-> prob.n, k |-> prob.k] \in Problems
    /\ packedA \in BOOLEAN
    /\ ForceThreading => Legal(forced, prob) /\ prob.goal = Nthrs(forced)
    /\ ~ForceThreading => ~packedA
    /\ at = "start" => ~ForceThreading

Before == {"start", "alone", "alloc", "alloc_c", "spawn"}
After == {"section", "spawn_sum", "sum_section", "free"}

(* The slices are those of decomposition i, or there are none yet. *)
Sliced(i) ==
    slice = [t \in Threads |-> IF t < Nthrs(i) THEN GetThreadSlice(i, t, prob.m, prob.n, prob.k)
                               ELSE NoSlice]
Unsliced == slice = [t \in Threads |-> NoSlice]

(* From the section on the slices are those of a legal decomposition, the  *)
(* forced one if there is one, and a team that copies A together has one   *)
(* thread per part.                                                        *)
SliceInv ==
    /\ at \in Before \cup After \cup {"returned"}
    /\ at \in {"start", "alone", "alloc"} => Unsliced
    /\ at \in {"alloc", "alloc_c", "spawn"} => prob.goal > 1
    /\ at \in {"alloc_c", "spawn"} => IF ForceThreading THEN Sliced(forced) ELSE Unsliced
    /\ at \in Before => info = NoInfo
    /\ at \in After => nthr \in 1 .. NthrMax
    /\ at \in After /\ info = NoInfo => ~ForceThreading /\ nthr = 1 /\ Unsliced
    /\ at \in After /\ info # NoInfo =>
          /\ Legal(info, prob) /\ Sliced(info)
          /\ ForceThreading => info = forced
          /\ info.copy = "shared_a" /\ ~packedA => nthr = Nthrs(info)
    /\ at \in {"spawn_sum", "sum_section"} => k_summing
    /\ at \in {"start", "alone", "alloc", "returned"} => heap = {}

(* Before the section. *)
Pristine ==
    /\ ithr = [t \in Threads |-> t]
    /\ pos = [t \in Threads |-> NoBlock]
    /\ visits = [t \in Threads |-> 0]
    /\ mem = "none"
    /\ arg = [t \in Threads |-> [result |-> "success", done |-> FALSE]]
    /\ ret = "none"

Blocked == {"copy", "copied", "gemm", "computed"}
CopyPlaces == {"malloc", "malloced", "copy", "copied", "computed"}
NoBlockPlaces == {"out", "whole", "loop", "kernel", "malloc", "malloced"}
Sums == prob.sync /\ k_summing /\ nthr >= Nthrs(info)

(* Where thread t of the section can be, with part j and block b. *)
PlacedAt(t, place, j, b) ==
    /\ t >= nthr => place = "out" /\ j = t
    /\ t < nthr => j % nthr = t
    /\ t < nthr /\ place = "out" => j >= Nthrs(info)
    /\ place \notin {"loop", "out"} => j < Nthrs(info)
    /\ place # "whole"
    /\ place = "kernel" => info.copy # "shared_a"
    /\ place = "gemm" => info.copy = "shared_a"
    /\ place \in CopyPlaces => info.copy = "shared_a" /\ ~packedA
    /\ place = "sum" => Sums
    /\ place \in Blocked => b.k < prob.k /\ b.m < prob.m

Placed(t) == PlacedAt(t, pc[t], ithr[t], pos[t])

(* Where the driver and its threads can be, and with which block. *)
PlaceInv ==
    /\ pos \in [Threads -> [k : Nat, m : Nat]]
    /\ at \in Before => Pristine
    /\ at \notin {"section", "sum_section"} => \A t \in Threads : pc[t] = "out"
    /\ at = "section" => ret = "none"
    /\ at = "section" /\ info = NoInfo => \A t \in Threads : pc[t] \in {"whole", "out"}
    /\ at = "section" /\ info # NoInfo => \A t \in Threads : Placed(t)
    /\ at = "sum_section" =>
          /\ nthr <= prob.goal
          /\ \A t \in Threads :
                /\ pc[t] \in {"sum", "out"}
                /\ t >= nthr => pc[t] = "out"
                /\ t < nthr => ithr[t] % nthr = t /\ (pc[t] = "sum" <=> ithr[t] < prob.goal)
    /\ \A t \in Threads : pc[t] \in NoBlockPlaces => pos[t] = NoBlock
    /\ \A t \in Threads : pc[t] = "sum" => pos[t].k < forced.nthrs_k - 1 /\ pos[t].m = 0

-----------------------------------------------------------------------------
(* The team that makes a copy of A together.  Every thread has one part.   *)
Sharing == at = "section" /\ info.copy = "shared_a" /\ ~packedA

Over(t) == pc[t] = "dispatched" \/ ithr[t] # t
Even(t) == pc[t] \in {"copied", "gemm"}
End == [k |-> prob.k, m |-> 0]
Ahead(t) == IF Over(t) THEN End ELSE IF pc[t] = "computed" THEN NextBlock(t) ELSE pos[t]

(* How far threads t and u can be apart: with as many barriers behind them *)
(* they are in the same half of the same block, and nobody is more than    *)
(* half a block ahead.                                                     *)
InStep(t, u) ==
    /\ visits[t] <= visits[u] + 1
    /\ visits[t] = visits[u] => (Even(t) <=> Even(u)) /\ Ahead(t) = Ahead(u)
    /\ visits[t] = visits[u] + 1 =>
         \/ Even(t) /\ ~Even(u) /\ pos[t] = Ahead(u)
         \/ pc[t] = "computed" /\ Even(u) /\ pos[t] = pos[u]
         \/ pc[t] = "malloced" /\ visits[u] = 0

Copied(t, r) == buf[r] = <<pos[t].k, pos[t].m + r>>

(* Thread t has come to the barriers that its place stands for ... *)
Steady(t) ==
    /\ visits[t] = 0 <=> pc[t] \in {"loop", "malloc"} /\ ~Over(t)
    /\ pc[t] \in {"copied", "gemm", "computed"} => visits[t] >= 2
    /\ pc[t] \in {"copy", "gemm"} \/ Over(t) => Met(t)

(* ... and its rows of the block, or all rows, are in the buffer. *)
Filled(t) ==
    Even(t) => /\ \A r \in CopyRows(t) : Copied(t, r)
               /\ Met(t) => \A r \in 0 .. SizeM(t) - 1 : Copied(t, r)

(* Thread 0 allocates the buffer before its first barrier and frees it     *)
(* after its last block.                                                   *)
MemInv ==
    /\ mem = "none" <=> visits[0] = 0
    /\ mem = "freed" => Over(0)
    /\ mem = "live" => ~Over(0)
    /\ mem = "null" => \A t \in Team : pc[t] \notin Blocked

(* The team that shares a copy of A is in step. *)
ShareInv ==
    /\ DOMAIN buf = 0 .. MPadd - 1
    /\ mem = "live" => Sharing
    /\ Sharing => /\ MemInv
                  /\ \A t \in Team : Steady(t) /\ Filled(t)
                  /\ mem # "null" => \A t, u \in Team : t # u => InStep(t, u)

(* The inductive invariant of the driver. *)
DriverInv == TypeOK /\ PlanInv /\ SliceInv /\ PlaceInv /\ ShareInv

-----------------------------------------------------------------------------
(* How the driver divides a problem. *)

(* Rounding up a quotient. *)
LEMMA DivUpFacts ==
  ASSUME NEW a \in Positive, NEW b \in Positive
  PROVE  /\ DivUp(a, b) \in Positive
         /\ a <= DivUp(a, b) * b
         /\ (DivUp(a, b) - 1) * b < a
<1> DEFINE q == (a + b - 1) \div b
<1>1. a + b - 1 \in Nat /\ b \in Nat \ {0}
  BY SMTT(30) DEF Positive
<1>2. q \in Nat /\ q * b <= a + b - 1 /\ a + b - 1 < q * b + b
  BY <1>1, DivFacts
<1>3. q * b \in Nat /\ (q - 1) * b = q * b - b /\ (q = 0 => q * b = 0)
  BY <1>1, <1>2, SMTT(30)
<1>4. DivUp(a, b) = q
  BY DEF DivUp
<1> HIDE DEF q
<1> DEFINE w == q * b
<1>5. w \in Nat /\ (q - 1) * b = w - b /\ (q = 0 => w = 0) /\ w <= a + b - 1 /\ a + b - 1 < w + b
  BY <1>2, <1>3
<1> HIDE DEF w
<1>6. a <= w /\ w - b < a /\ q # 0
  BY <1>1, <1>5, SMTT(30) DEF Positive
<1>7. QED
  BY <1>2, <1>4, <1>5, <1>6 DEF w, Positive

(* The row and the column of a place. *)
LEMMA DivModPlace ==
  ASSUME NEW q \in Nat, NEW b \in Nat \ {0}, NEW r \in 0 .. b - 1
  PROVE  (q * b + r) \div b = q /\ (q * b + r) % b = r
  BY SMTT(30)

(* A positive factor does not make a number smaller. *)
LEMMA TimesPositive ==
  ASSUME NEW a \in Positive, NEW b \in Positive
  PROVE  a * b \in Positive /\ a <= a * b /\ b <= a * b
  BY SMTT(30) DEF Positive

(* What set_thread_opts_pack chooses is a decomposition in blocks. *)
LEMMA PackLegal ==
  \A p : \A nthrs \in 1 .. NthrMax : \A do_k \in BOOLEAN : \A i \in PackInfos(nthrs, p, do_k) :
    /\ p.m \in Positive
    /\ p.n \in Positive
    /\ p.k \in Positive
    => /\ Legal(i, p) /\ i.copy = "nonshared" /\ i.partition = "mnk_3d" /\ Nthrs(i) <= nthrs
       /\ ~do_k => i.nthrs_k = 1
(* choose_blocking: the blocks suffice, and none of them is empty. *)
<1>ChooseBlockingFits.
    ASSUME NEW size \in Positive, NEW nthrs \in Positive, NEW init \in Positive, NEW align \in Positive
    PROVE  LET c == ChooseBlocking(size, nthrs, init, align)
           IN Blocks(c.nthr, c.thread, size) /\ c.nthr <= nthrs
  <2> USE <1>ChooseBlockingFits
  <2> DEFINE share == DivUp(size, nthrs)
             num_blk == DivUp(share, init)
             part == DivUp(share, num_blk)
             fit == RoundUp(part, align)
             thread == num_blk * fit
             n == IF thread * nthrs > size THEN DivUp(size, thread) ELSE nthrs
  <2>1. share \in Positive /\ size <= share * nthrs
    BY DivUpFacts
  <2>2. num_blk \in Positive
    BY <2>1, DivUpFacts
  <2>3. part \in Positive /\ share <= part * num_blk
    BY <2>1, <2>2, DivUpFacts
  <2>4. fit \in Positive /\ part <= fit
    <3>1. DivUp(part, align) \in Positive /\ part <= DivUp(part, align) * align
      BY <2>3, DivUpFacts
    <3>2. QED
      BY <3>1, TimesPositive DEF RoundUp
  <2>5. thread \in Positive /\ share <= thread
    <3> HIDE DEF share, part, num_blk, fit
    <3>1. part * num_blk <= fit * num_blk /\ fit * num_blk = num_blk * fit
      BY <2>2, <2>3, <2>4, TimesMonotone, SMTT(30) DEF Positive
    <3>2. num_blk * fit \in Positive /\ part * num_blk \in Positive
      BY <2>2, <2>3, <2>4, TimesPositive
    <3>3. QED
      BY <2>1, <2>3, <3>1, <3>2, SMTT(30) DEF Positive
  <2>6. size <= thread * nthrs /\ thread * nthrs \in Positive
    <3> HIDE DEF share, thread
    <3>1. share * nthrs <= thread * nthrs
      BY <2>1, <2>5, TimesMonotone, SMTT(30) DEF Positive
    <3>2. share * nthrs \in Positive /\ thread * nthrs \in Positive
      BY <2>1, <2>5, TimesPositive
    <3>3. QED
      BY <2>1, <3>1, <3>2, SMTT(30) DEF Positive
  <2>7. ChooseBlocking(size, nthrs, init, align) = [thread |-> thread, nthr |-> n]
    BY DEF ChooseBlocking
  <2> HIDE DEF thread
  <2>8. n \in Positive /\ (n - 1) * thread < size /\ size <= n * thread /\ n <= nthrs
    <3>1. thread * nthrs = nthrs * thread
      BY <2>5, SMTT(30) DEF Positive
    <3>2. CASE thread * nthrs > size
      <4>1. n = DivUp(size, thread)
        BY <3>2
      <4>2. n \in Positive /\ (n - 1) * thread < size /\ size <= n * thread
        BY <2>5, <4>1, DivUpFacts
      <4>3. ASSUME nthrs < n PROVE FALSE
        <5> HIDE DEF n
        <5>1. nthrs <= n - 1 /\ nthrs \in Nat /\ n - 1 \in Nat /\ thread \in Nat
          BY <2>5, <4>2, <4>3, SMTT(30) DEF Positive
        <5>2. nthrs * thread <= (n - 1) * thread
          BY <5>1, TimesMonotone
        <5>3. nthrs * thread \in Nat /\ (n - 1) * thread \in Nat
          BY <5>1, SMTT(30)
        <5>4. QED
          BY <2>6, <3>1, <4>2, <5>2, <5>3, SMTT(30) DEF Positive
      <4>4. QED
        BY <4>2, <4>3, SMTT(30) DEF Positive
    <3>3. CASE ~(thread * nthrs > size)
      <4>1. n = nthrs /\ size = nthrs * thread
        BY <2>6, <3>1, <3>3, SMTT(30) DEF Positive
      <4>2. (nthrs - 1) * thread = nthrs * thread - thread
        BY <2>5, SMTT(30) DEF Positive
      <4>3. QED
        BY <2>5, <4>1, <4>2, SMTT(30) DEF Positive
    <3>4. QED
      BY <3>2, <3>3
  <2>9. QED
    BY <2>5, <2>7, <2>8, SMTT(30) DEF Blocks
(* The largest divisor that is tried is one of them. *)
<1>SplitKType.
    ASSUME NEW nthrs, NEW k
    PROVE  SplitK(nthrs, k) \in 1 .. 4
  <2> USE <1>SplitKType
  <2> DEFINE fits == {nk \in 1 .. 4 : nthrs % nk = 0 /\ k >= (KBLK + 1) * nk} \cup {1}
  <2>1. \A nk \in fits : nk \in 1 .. 4
    BY SMTT(30)
  <2>2. 1 \in fits
    OBVIOUS
  <2> HIDE DEF fits
  <2>3. \E nk \in fits : \A other \in fits : other <= nk
    <3>1. CASE 4 \in fits
      BY <2>1, <3>1, SMTT(30)
    <3>2. CASE 4 \notin fits /\ 3 \in fits
      BY <2>1, <3>2, SMTT(30)
    <3>3. CASE 4 \notin fits /\ 3 \notin fits /\ 2 \in fits
      BY <2>1, <3>3, SMTT(30)
    <3>4. CASE 4 \notin fits /\ 3 \notin fits /\ 2 \notin fits
      BY <2>1, <2>2, <3>4, SMTT(30)
    <3>5. QED
      BY <3>1, <3>2, <3>3, <3>4
  <2>4. SplitK(nthrs, k) \in fits
    BY <2>3 DEF SplitK, fits
  <2>5. QED
    BY <2>1, <2>4
<1> SUFFICES
      ASSUME NEW p, p.m \in Positive, p.n \in Positive, p.k \in Positive,
             NEW nthrs \in 1 .. NthrMax, NEW do_k \in BOOLEAN,
             NEW i \in PackInfos(nthrs, p, do_k)
      PROVE  /\ Legal(i, p) /\ i.copy = "nonshared" /\ i.partition = "mnk_3d" /\ Nthrs(i) <= nthrs
             /\ ~do_k => i.nthrs_k = 1
  OBVIOUS
<1>1. {Um, Un, Veclen, AlignK, BlockM, BlockN, BlockK} \subseteq Positive /\ NthrMax \in Positive
  BY DriverAssumption DEF Positive
<1>2. PICK nk \in 1 .. 4, tm \in 1 .. nthrs, tn \in 1 .. nthrs, align \in {Um, Veclen} :
        i = PackInfo(p, nk, tm, tn, align) /\ (~do_k => nk = 1)
  <2> DEFINE splits == {1} \cup IF do_k THEN {SplitK(x, p.k) : x \in {nthrs, Larger(nthrs - 1, 1)}}
                                ELSE {}
  <2>1. splits \subseteq 1 .. 4 /\ (~do_k => splits = {1})
    <3>1. 1 \in 1 .. 4
      BY SMTT(30)
    <3>2. splits \subseteq 1 .. 4
      BY <3>1, <1>SplitKType
    <3>3. QED
      BY <3>2
  <2>2. i \in {PackInfo(p, nk, tm, tn, align) :
                nk \in splits, tm \in 1 .. nthrs, tn \in 1 .. nthrs, align \in {Um, Veclen}}
    BY SMTT(30) DEF PackInfos
  <2> HIDE DEF splits
  <2>3. PICK nk \in splits, tm \in 1 .. nthrs, tn \in 1 .. nthrs, align \in {Um, Veclen} :
          i = PackInfo(p, nk, tm, tn, align)
    BY <2>2, SMTT(30)
  <2>4. QED
    BY <2>1, <2>3
<1> DEFINE ck == ChooseBlocking(p.k, nk, BlockK, AlignK)
           cm == ChooseBlocking(p.m, tm, BlockM, align)
           cn == ChooseBlocking(p.n, tn, BlockN, Un)
<1>3. /\ nk \in Positive /\ tm \in Positive /\ tn \in Positive
      /\ align \in Positive /\ Un \in Positive /\ AlignK \in Positive
      /\ BlockM \in Positive /\ BlockN \in Positive /\ BlockK \in Positive
  BY <1>1, SMTT(30) DEF Positive
<1>4. /\ Blocks(ck.nthr, ck.thread, p.k)
      /\ Blocks(cm.nthr, cm.thread, p.m)
      /\ Blocks(cn.nthr, cn.thread, p.n)
      /\ ck.nthr <= nk
  BY <1>3, <1>ChooseBlockingFits
<1> HIDE DEF ck, cm, cn
<1>5. Nthrs(i) <= nthrs
  BY SMTT(30) DEF PackInfos
<1>6. /\ cm.nthr \in Positive /\ cn.nthr \in Positive /\ ck.nthr \in Positive
      /\ cm.thread \in Nat /\ cn.thread \in Nat /\ ck.thread \in Nat
  BY <1>4 DEF Blocks, Positive
<1>7. i = [partition |-> "mnk_3d", copy |-> "nonshared", nthrs_m |-> cm.nthr,
           nthrs_n |-> cn.nthr, nthrs_k |-> ck.nthr,
           thread_m |-> cm.thread, thread_n |-> cn.thread, thread_k |-> ck.thread]
  BY <1>2 DEF PackInfo, ck, cm, cn
<1>8. /\ i \in [partition : {"row_1d", "col_1d", "col_major_2d", "mnk_3d"},
                copy : {"nonshared", "shared_a"},
                nthrs_m : Positive, nthrs_n : Positive, nthrs_k : Positive,
                thread_m : Nat, thread_n : Nat, thread_k : Nat]
      /\ i.partition = "mnk_3d" /\ i.copy = "nonshared"
      /\ i.nthrs_m = cm.nthr /\ i.nthrs_n = cn.nthr /\ i.nthrs_k = ck.nthr
      /\ i.thread_m = cm.thread /\ i.thread_n = cn.thread /\ i.thread_k = ck.thread
  BY <1>6, <1>7, SMTT(30)
<1>9. Nthrs(i) \in 1 .. NthrMax
  <2>1. Nthrs(i) \in Positive
    BY <1>6, <1>8, TimesPositive DEF Nthrs
  <2>2. QED
    BY <1>1, <1>5, <2>1, SMTT(30) DEF Positive
<1>10. ~do_k => i.nthrs_k = 1
  <2>1. ~do_k => nk = 1
    BY <1>2
  <2>2. ck.nthr \in Positive /\ ck.nthr <= nk
    BY <1>4, <1>6
  <2>3. nk = 1 => ck.nthr = 1
    BY <2>2, SMTT(30) DEF Positive
  <2>4. QED
    BY <1>8, <2>1, <2>3
<1>11. QED
  BY <1>4, <1>5, <1>8, <1>9, <1>10 DEF Legal

(* What set_thread_opts_nopack chooses is legal too; the copy of A is made *)
(* by the whole team.                                                      *)
LEMMA NopackLegal ==
  ASSUME NEW p, p.m \in Positive, p.n \in Positive, p.k \in Positive,
         NEW nthrs \in 1 .. NthrMax, NEW spawn \in 1 .. NthrMax,
         NEW i \in NopackInfos(nthrs, spawn, p)
  PROVE  /\ Legal(i, p) /\ i.nthrs_k = 1
         /\ i.copy = "shared_a" => p.sync /\ Nthrs(i) = spawn
<1>1. NthrMax \in Positive /\ Um \in Positive
  BY DriverAssumption DEF Positive
<1>2. nthrs \in Positive /\ spawn \in Positive /\ 1 \in Positive /\ 0 \in Nat
      /\ nthrs <= NthrMax /\ spawn <= NthrMax
  BY <1>1, SMTT(30) DEF Positive
<1>3. CASE i \in PackInfos(nthrs, p, FALSE)
  BY <1>3, PackLegal
<1>4. CASE i = Info("row_1d", "nonshared", nthrs, 1, 1)
  BY <1>1, <1>2, <1>4, SMTT(30) DEF Legal, Info, Nthrs, Positive
<1>5. CASE i = Info("col_1d", "nonshared", 1, nthrs, 1)
  BY <1>1, <1>2, <1>5, SMTT(30) DEF Legal, Info, Nthrs, Positive
<1>6. CASE p.sync /\ i = Info("col_1d", "shared_a", 1, spawn, 1)
  BY <1>1, <1>2, <1>6, SMTT(30) DEF Legal, Info, Nthrs, Positive
<1>7. CASE \E tm \in {x \in RowBands : x <= nthrs /\ (x > 1 => p.m >= x * Um)} :
              i = Info("col_major_2d", "nonshared", tm, nthrs \div tm, 1)
  <2>1. PICK tm \in RowBands : /\ tm <= nthrs /\ (tm > 1 => p.m >= tm * Um)
                                /\ i = Info("col_major_2d", "nonshared", tm, nthrs \div tm, 1)
    BY <1>7
  <2> DEFINE tn == nthrs \div tm
  <2>2. tm \in Positive /\ tn \in Positive /\ tm * tn \in 1 .. nthrs
    <3>1. CASE tm = 1
      BY <1>2, <3>1, SMTT(30) DEF Positive
    <3>2. CASE tm = 2
      BY <1>2, <2>1, <3>2, SMTT(30) DEF Positive
    <3>3. CASE tm = 4
      BY <1>2, <2>1, <3>3, SMTT(30) DEF Positive
    <3>4. CASE tm = 8
      BY <1>2, <2>1, <3>4, SMTT(30) DEF Positive
    <3>5. QED
      BY <3>1, <3>2, <3>3, <3>4 DEF RowBands
  <2>3. i = [partition |-> "col_major_2d", copy |-> "nonshared", nthrs_m |-> tm, nthrs_n |-> tn,
             nthrs_k |-> 1, thread_m |-> 0, thread_n |-> 0, thread_k |-> 0]
    BY <2>1 DEF Info
  <2> HIDE DEF tn
  <2>4. /\ i \in [partition : {"row_1d", "col_1d", "col_major_2d", "mnk_3d"},
                  copy : {"nonshared", "shared_a"},
                  nthrs_m : Positive, nthrs_n : Positive, nthrs_k : Positive,
                  thread_m : Nat, thread_n : Nat, thread_k : Nat]
        /\ i.partition = "col_major_2d" /\ i.copy = "nonshared"
        /\ i.nthrs_m = tm /\ i.nthrs_n = tn /\ i.nthrs_k = 1
    BY <1>2, <2>2, <2>3, SMTT(30)
  <2>5. Nthrs(i) \in 1 .. NthrMax
    BY <1>1, <1>2, <2>2, <2>4, SMTT(30) DEF Nthrs, Positive
  <2>6. QED
    BY <2>1, <2>4, <2>5 DEF Legal
<1>8. QED
  <2>1. \/ i \in PackInfos(nthrs, p, FALSE)
        \/ i = Info("row_1d", "nonshared", nthrs, 1, 1)
        \/ i = Info("col_1d", "nonshared", 1, nthrs, 1)
        \/ p.sync /\ i = Info("col_1d", "shared_a", 1, spawn, 1)
        \/ i \in {Info("col_major_2d", "nonshared", tm, nthrs \div tm, 1) :
                    tm \in {x \in RowBands : x <= nthrs /\ (x > 1 => p.m >= x * Um)}}
    BY DEF NopackInfos
  <2>2. QED
    BY <1>3, <1>4, <1>5, <1>6, <1>7, <2>1

(* Items counted in layers of the same height, the last one open. *)
Layer(x, t, z, n) == t * z <= x /\ (t < n - 1 => x < (t + 1) * z)

Bounds(size) == {b \in [off : Nat, size : Nat] : b.off + b.size <= size}
Items(b) == b.off .. b.off + b.size - 1

(* partition_1d: the band is inside, and holds a layer. *)
LEMMA Partition1dLayer ==
  ASSUME NEW n \in Nat, NEW nthrs \in Positive, NEW t \in 0 .. nthrs - 1
  PROVE  /\ Partition1d(t, nthrs, n) \in Bounds(n)
         /\ \A x \in 0 .. n - 1 : x \in Items(Partition1d(t, nthrs, n))
                                     <=> Layer(x, t, BandSize(nthrs, n), nthrs)
<1> DEFINE band == BandSize(nthrs, n)
           off == t * band
           size == IF t < nthrs - 1 THEN band ELSE n - (nthrs - 1) * band
           b == Partition1d(t, nthrs, n)
<1>1. nthrs \in Nat \ {0}
  BY DEF Positive
<1>2. band \in Nat
  BY <1>1, BandSizeNat
<1>3. b = IF off >= n THEN [off |-> 0, size |-> 0]
          ELSE [off |-> off, size |-> Smaller(size, n - off)]
  BY DEF Partition1d, BandSize
<1>4. \A x \in 0 .. n - 1 : x \in Items(b) <=> Layer(x, t, band, nthrs)
  BY <1>1, BandForm DEF InBand, Items, Layer
<1> HIDE DEF band
<1>5. off \in Nat /\ (t = nthrs - 1 => (nthrs - 1) * band = off)
  BY <1>1, <1>2, SMTT(30)
<1> HIDE DEF off
<1>6. ASSUME off >= n PROVE b \in Bounds(n)
  <2>1. b = [off |-> 0, size |-> 0]
    BY <1>3, <1>6
  <2>2. QED
    BY <2>1, SMTT(30) DEF Bounds
<1>7. ASSUME ~(off >= n) PROVE b \in Bounds(n)
  <2>1. size \in Int /\ (t < nthrs - 1 => size \in Nat) /\ (t = nthrs - 1 => size = n - off)
    BY <1>1, <1>2, <1>5, SMTT(30)
  <2> HIDE DEF size
  <2>2. n - off \in Nat /\ (t < nthrs - 1 \/ t = nthrs - 1)
    BY <1>1, <1>5, <1>7, SMTT(30)
  <2> DEFINE z == Smaller(size, n - off)
  <2>3. z \in Nat /\ off + z <= n
    BY <1>5, <2>1, <2>2, SMTT(30) DEF Smaller
  <2> HIDE DEF z
  <2>4. b = [off |-> off, size |-> z]
    BY <1>3, <1>7 DEF z
  <2>5. b \in [off : Nat, size : Nat] /\ b.off = off /\ b.size = z
    BY <1>5, <2>3, <2>4, SMTT(30)
  <2>6. QED
    BY <2>3, <2>5 DEF Bounds
<1>8. QED
  BY <1>4, <1>6, <1>7 DEF band

(* The blocks of mnk_3d are inside, and hold a layer. *)
LEMMA BlockLayer ==
  ASSUME NEW n, NEW z, NEW size \in Nat, Blocks(n, z, size), NEW i \in 0 .. n - 1
  PROVE  /\ Block(i, z, size) \in Bounds(size)
         /\ \A x \in 0 .. size - 1 : x \in Items(Block(i, z, size)) <=> Layer(x, i, z, n)
<1>1. n \in Positive /\ z \in Positive /\ (n - 1) * z < size /\ size <= n * z
  BY DEF Blocks
<1> DEFINE off == i * z
           s == Smaller(z, size - off)
<1>2. /\ i \in Nat /\ n - 1 \in Nat /\ i <= n - 1 /\ z \in Nat /\ n \in Nat /\ i + 1 \in Nat
      /\ i + 1 <= n /\ (i < n - 1 => i + 1 <= n - 1) /\ (i < n - 1 \/ i + 1 = n)
  BY <1>1, SMTT(30) DEF Positive
<1>3. /\ i * z <= (n - 1) * z
      /\ i < n - 1 => (i + 1) * z <= (n - 1) * z
  BY <1>2, TimesMonotone
<1>4. (i + 1) * z = off + z /\ off \in Nat /\ (n - 1) * z \in Nat /\ n * z \in Nat
  BY <1>2, SMTT(30)
<1>5. Block(i, z, size) = [off |-> off, size |-> s]
  BY DEF Block
<1> HIDE DEF off
<1>6. off < size /\ (i < n - 1 => off + z < size) /\ (i + 1 = n => size <= off + z)
  <2> DEFINE w == (n - 1) * z
  <2>1. /\ w \in Nat /\ off <= w /\ (i < n - 1 => off + z <= w) /\ w < size
        /\ i + 1 = n => size <= off + z
    BY <1>1, <1>3, <1>4 DEF off
  <2> HIDE DEF w
  <2>2. QED
    BY <1>2, <1>4, <2>1, SMTT(30)
<1>7. s \in Nat /\ off + s <= size /\ (i < n - 1 => s = z) /\ (i + 1 = n => s = size - off)
  BY <1>2, <1>4, <1>6, SMTT(30) DEF Smaller
<1> HIDE DEF s
<1>8. /\ Block(i, z, size) \in Bounds(size)
      /\ Block(i, z, size).off = off /\ Block(i, z, size).size = s
  BY <1>4, <1>5, <1>7, SMTT(30) DEF Bounds
<1>9. ASSUME NEW x \in 0 .. size - 1
      PROVE  x \in Items(Block(i, z, size)) <=> Layer(x, i, z, n)
  <2>1. x \in Items(Block(i, z, size)) <=> off <= x /\ x < off + s
    BY <1>4, <1>7, <1>8, SMTT(30) DEF Items
  <2>2. Layer(x, i, z, n) <=> off <= x /\ (i < n - 1 => x < off + z)
    BY <1>4 DEF Layer, off
  <2>3. QED
    BY <1>2, <1>4, <1>6, <1>7, <2>1, <2>2, SMTT(30)
<1>10. QED
  BY <1>8, <1>9

(* What partition_2d computes for a dimension: the bands do not reach      *)
(* past the end, and there are not more of them than threads.              *)
LEMMA BandsFit ==
  ASSUME NEW size \in Positive, NEW div \in Positive, NEW wide \in BOOLEAN
  PROVE  LET b == Bands(size, div, wide)
         IN /\ b.val \in Nat /\ b.used \in 1 .. div
            /\ (b.used - 1) * b.val < size
<1> DEFINE q == size \div div
           last == size - (div - 1) * q
           val == IF last <= q + 1 THEN q
                  ELSE IF wide /\ last > div THEN q + 2 ELSE q + 1
           used == IF last <= q + 1 THEN div ELSE DivUp(size, val)
<1>1. size \in Nat /\ div \in Nat \ {0}
  BY DEF Positive
<1>2. q \in Nat /\ q * div <= size /\ size < q * div + div
  BY <1>1, DivFacts
<1>3. /\ q * div \in Nat /\ (div - 1) * q = q * div - q /\ (q = 0 => q * div = 0)
      /\ div * (q + 1) = q * div + div
  BY <1>1, <1>2, SMTT(30)
<1>4. Bands(size, div, wide) = [val |-> val, used |-> used]
  BY DEF Bands
<1> HIDE DEF q
<1>5. last \in Nat
  BY <1>1, <1>2, <1>3, SMTT(30)
<1>6. val \in Nat /\ used \in 1 .. div /\ (used - 1) * val < size
  <2>1. CASE last <= q + 1
    <3>1. val = q /\ used = div
      BY <2>1
    <3>2. (div - 1) * q < size
      <4> DEFINE w == q * div
      <4>1. w \in Nat /\ w <= size /\ (div - 1) * q = w - q /\ (q = 0 => w = 0)
        BY <1>2, <1>3
      <4> HIDE DEF w
      <4>2. QED
        BY <1>1, <1>2, <4>1, SMTT(30) DEF Positive
    <3>3. QED
      BY <1>1, <1>2, <3>1, <3>2, SMTT(30)
  <2>2. CASE ~(last <= q + 1)
    <3>1. val \in Positive /\ q + 1 <= val /\ used = DivUp(size, val)
      BY <1>2, <2>2, SMTT(30) DEF Positive
    <3> HIDE DEF val, last
    <3>2. used \in Positive /\ (used - 1) * val < size
      BY <3>1, DivUpFacts
    <3> HIDE DEF used
    <3>3. ASSUME div < used PROVE FALSE
      <4>1. /\ div \in Nat /\ used - 1 \in Nat /\ div <= used - 1 /\ val \in Nat /\ q + 1 \in Nat
        BY <1>1, <1>2, <3>1, <3>2, <3>3, SMTT(30) DEF Positive
      <4>2. div * val <= (used - 1) * val
        BY <4>1, TimesMonotone
      <4>3. (q + 1) * div <= val * div
        BY <3>1, <4>1, TimesMonotone
      <4>4. (q + 1) * div = div * (q + 1) /\ val * div = div * val
        BY <4>1, SMTT(30)
      <4>5. div * val \in Nat /\ (used - 1) * val \in Nat
        BY <4>1, SMTT(30)
      <4>6. QED
        BY <1>1, <1>2, <1>3, <3>2, <4>2, <4>3, <4>4, <4>5, SMTT(30)
    <3>4. QED
      BY <1>1, <3>1, <3>2, <3>3, SMTT(30) DEF Positive
  <2>3. QED
    BY <2>1, <2>2
<1>7. QED
  BY <1>4, <1>6, SMTT(30)

(* A band is inside, and holds a layer. *)
LEMMA BandLayer ==
  ASSUME NEW size \in Positive, NEW b, b.val \in Nat, b.used \in Positive,
         (b.used - 1) * b.val < size, NEW i \in Nat
  PROVE  /\ Band(i, b, size) \in Bounds(size)
         /\ i < b.used => \A x \in 0 .. size - 1 :
               x \in Items(Band(i, b, size)) <=> Layer(x, i, b.val, b.used)
<1> DEFINE v == b.val
           n == b.used
           disp == (n - 1) * v
           d == Band(i, b, size)
<1>1. v \in Nat /\ n \in Positive /\ n - 1 \in Nat /\ disp \in Nat /\ disp < size
  BY SMTT(30) DEF Positive
<1>2. d = IF i < n - 1 THEN [off |-> i * v, size |-> v]
          ELSE [off |-> Larger(Smaller(disp, size - 1), 0), size |-> Larger(0, size - disp)]
  BY DEF Band
<1>3. Layer(0, i, v, n) <=> i * v <= 0 /\ (i < n - 1 => 0 < (i + 1) * v)
  BY DEF Layer
<1>4. \A x : Layer(x, i, b.val, b.used) <=> i * v <= x /\ (i < n - 1 => x < (i + 1) * v)
  BY DEF Layer
<1>5. i * v \in Nat /\ (i + 1) * v = i * v + v /\ (i = n - 1 => i * v = disp)
  BY <1>1, SMTT(30)
<1>6. i < n - 1 => (i + 1) * v <= disp
  BY <1>1, TimesMonotone, SMTT(30)
<1> HIDE DEF v, n, disp, d
<1>7. CASE i < n - 1
  <2>1. d \in [off : Nat, size : Nat] /\ d.off = i * v /\ d.size = v
    BY <1>1, <1>2, <1>5, <1>7, SMTT(30)
  <2> DEFINE o == i * v
  <2> HIDE DEF o
  <2>2. o \in Nat /\ o + v <= disp /\ d.off = o /\ d.size = v
    BY <1>5, <1>6, <1>7, <2>1 DEF o
  <2>3. d \in Bounds(size)
    BY <1>1, <2>1, <2>2, SMTT(30) DEF Bounds, Positive
  <2>4. ASSUME NEW x \in 0 .. size - 1
        PROVE  x \in Items(d) <=> Layer(x, i, b.val, b.used)
    <3>1. Layer(x, i, b.val, b.used) <=> o <= x /\ x < o + v
      BY <1>4, <1>5, <1>7 DEF o
    <3>2. x \in Items(d) <=> o <= x /\ x < o + v
      BY <1>1, <2>2, SMTT(30) DEF Items
    <3>3. QED
      BY <3>1, <3>2
  <2>5. QED
    BY <2>3, <2>4 DEF d
<1>8. CASE ~(i < n - 1)
  <2>1. Larger(Smaller(disp, size - 1), 0) = disp /\ Larger(0, size - disp) = size - disp
    BY <1>1, SMTT(30) DEF Larger, Smaller, Positive
  <2>2. d = [off |-> disp, size |-> size - disp] /\ size - disp \in Nat
    BY <1>1, <1>2, <1>8, <2>1, SMTT(30) DEF Positive
  <2>3. d \in Bounds(size) /\ d.off = disp /\ d.size = size - disp
    BY <1>1, <2>2, SMTT(30) DEF Bounds, Positive
  <2>4. ASSUME NEW x \in 0 .. size - 1, i < n
        PROVE  x \in Items(d) <=> Layer(x, i, b.val, b.used)
    <3>1. i = n - 1
      BY <1>1, <1>8, <2>4, SMTT(30) DEF Positive
    <3>2. Layer(x, i, b.val, b.used) <=> disp <= x
      BY <1>4, <1>5, <1>8, <3>1
    <3>3. x \in Items(d) <=> disp <= x
      BY <1>1, <2>3, SMTT(30) DEF Items, Positive
    <3>4. QED
      BY <3>2, <3>3
  <2>5. QED
    BY <2>3, <2>4 DEF d, n
<1>9. QED
  BY <1>7, <1>8

-----------------------------------------------------------------------------
(* The slices of a decomposition. *)
Sizes == [off_m : Nat, m : Nat, off_n : Nat, n : Nat, off_k : Nat, k : Nat, ithr_k : Nat]
Fits(s, p) ==
    s \in Sizes /\ s.off_m + s.m <= p.m /\ s.off_n + s.n <= p.n /\ s.off_k + s.k <= p.k

(* A problem of the right type. *)
Sized(p) == p.m \in Positive /\ p.n \in Positive /\ p.k \in Positive
SliceOf(i, t, p) == GetThreadSlice(i, t, p.m, p.n, p.k)

(* The slice made of three bands. *)
MadeOf(s, bm, bn, bk, q) ==
    /\ Rows(s) = Items(bm) /\ Cols(s) = Items(bn) /\ Ks(s) = Items(bk) /\ s.ithr_k = q
    /\ s.off_m = bm.off /\ s.m = bm.size /\ s.off_n = bn.off /\ s.n = bn.size
    /\ s.off_k = bk.off /\ s.k = bk.size

(* A slice made of three ranges inside the problem fits it. *)
LEMMA SliceMade ==
  ASSUME NEW p, Sized(p), NEW bm \in Bounds(p.m), NEW bn \in Bounds(p.n), NEW bk \in Bounds(p.k),
         NEW q \in Nat
  PROVE  Fits(Slice(bm, bn, bk, q), p) /\ MadeOf(Slice(bm, bn, bk, q), bm, bn, bk, q)
<1> DEFINE s == Slice(bm, bn, bk, q)
<1>1. /\ bm.off \in Nat /\ bm.size \in Nat /\ bm.off + bm.size <= p.m
      /\ bn.off \in Nat /\ bn.size \in Nat /\ bn.off + bn.size <= p.n
      /\ bk.off \in Nat /\ bk.size \in Nat /\ bk.off + bk.size <= p.k
  BY SMTT(30) DEF Bounds
<1>2. s = [off_m |-> bm.off, m |-> bm.size, off_n |-> bn.off, n |-> bn.size,
           off_k |-> bk.off, k |-> bk.size, ithr_k |-> q]
  BY DEF Slice
<1>3. s \in Sizes /\ s.off_m = bm.off /\ s.m = bm.size /\ s.off_n = bn.off /\ s.n = bn.size
      /\ s.off_k = bk.off /\ s.k = bk.size /\ s.ithr_k = q
  BY <1>1, <1>2, SMTT(30) DEF Sizes
<1> HIDE DEF s
<1>4. QED
  BY <1>1, <1>3 DEF Fits, MadeOf, Rows, Cols, Ks, Items, s

(* A dimension that is not divided. *)
LEMMA WholeBounds ==
  ASSUME NEW size \in Nat
  PROVE  /\ Whole(size) \in Bounds(size) /\ Whole(size).off = 0 /\ Whole(size).size = size
         /\ Items(Whole(size)) = 0 .. size - 1
<1>1. Whole(size) \in [off : Nat, size : Nat] /\ Whole(size).off = 0 /\ Whole(size).size = size
  BY SMTT(30) DEF Whole
<1>2. QED
  BY <1>1, SMTT(30) DEF Bounds, Items

(* The coordinates of a thread in a team of a * b * c threads. *)
LEMMA Coordinates ==
  ASSUME NEW a \in Positive, NEW b \in Positive, NEW c \in Positive, NEW t \in 0 .. a * b * c - 1
  PROVE  /\ t % a \in 0 .. a - 1 /\ (t \div a) % b \in 0 .. b - 1
         /\ (t \div a) \div b \in 0 .. c - 1
         /\ t = (t \div a) * a + (t % a)
         /\ t \div a = ((t \div a) \div b) * b + ((t \div a) % b)
         /\ t \div a \in 0 .. c * b - 1
<1>1. /\ a \in Nat \ {0} /\ b \in Nat \ {0} /\ c \in Nat
  BY DEF Positive
<1>2. c * b \in Nat /\ a * b * c = (c * b) * a
  BY <1>1, SMTT(30)
<1>3. t \in 0 .. (c * b) * a - 1 /\ t \in Nat
  BY <1>2, SMTT(30)
<1>4. t \div a \in 0 .. c * b - 1
  BY <1>1, <1>2, <1>3, QuotientBelow
<1>5. (t \div a) \div b \in 0 .. c - 1
  BY <1>1, <1>4, QuotientBelow
<1>6. t \div a \in Nat
  BY <1>4, <1>2, SMTT(30)
<1>7. QED
  BY <1>1, <1>3, <1>4, <1>5, <1>6, ModFacts

(* get_thread_slice, by the kind of decomposition. *)
LEMMA SliceKinds ==
  ASSUME NEW i, NEW p, NEW t
  PROVE  /\ i.partition = "row_1d" => SliceOf(i, t, p) =
               Slice(Partition1d(t, Nthrs(i), p.m), Whole(p.n), Whole(p.k), 0)
         /\ i.partition = "col_1d" => SliceOf(i, t, p) =
               Slice(Whole(p.m), Partition1d(t, Nthrs(i), p.n), Whole(p.k), 0)
         /\ i.partition = "col_major_2d" => SliceOf(i, t, p) = Partition2d(t, i, p.m, p.n, p.k)
         /\ i.partition = "mnk_3d" => SliceOf(i, t, p) =
               Slice(Block(t % i.nthrs_m, i.thread_m, p.m),
                     Block((t \div i.nthrs_m) % i.nthrs_n, i.thread_n, p.n),
                     Block((t \div i.nthrs_m) \div i.nthrs_n, i.thread_k, p.k),
                     (t \div i.nthrs_m) \div i.nthrs_n)
BY SMTT(30) DEF SliceOf, GetThreadSlice

(* What a legal decomposition has. *)
LEMMA LegalFacts ==
  ASSUME NEW i, NEW p, Legal(i, p)
  PROVE  /\ i.nthrs_m \in Positive /\ i.nthrs_n \in Positive /\ i.nthrs_k \in Positive
         /\ i.partition \in {"row_1d", "col_1d", "col_major_2d", "mnk_3d"}
         /\ Nthrs(i) = i.nthrs_m * i.nthrs_n * i.nthrs_k
         /\ Nthrs(i) \in Positive
         /\ i.partition # "mnk_3d" => i.nthrs_k = 1
<1>1. /\ i.nthrs_m \in Positive /\ i.nthrs_n \in Positive /\ i.nthrs_k \in Positive
      /\ i.partition \in {"row_1d", "col_1d", "col_major_2d", "mnk_3d"}
      /\ i.partition # "mnk_3d" => i.nthrs_k = 1
  BY SMTT(30) DEF Legal
<1>2. QED
  BY <1>1, TimesPositive DEF Nthrs

(* The bands of partition_2d for a thread, and where there is none. *)
LEMMA Slice2d ==
  ASSUME NEW i, NEW p, Sized(p), Legal(i, p), i.partition = "col_major_2d", NEW t \in 0 .. Nthrs(i) - 1
  PROVE  LET bm == Bands(p.m, i.nthrs_m, TRUE)
             bn == Bands(p.n, i.nthrs_n, FALSE)
             a == t % i.nthrs_m
             b == t \div i.nthrs_m
         IN /\ a \in 0 .. i.nthrs_m - 1 /\ b \in Nat
            /\ bm.val \in Nat /\ bm.used \in 1 .. i.nthrs_m /\ (bm.used - 1) * bm.val < p.m
            /\ bn.val \in Nat /\ bn.used \in 1 .. i.nthrs_n /\ (bn.used - 1) * bn.val < p.n
            /\ Band(a, bm, p.m) \in Bounds(p.m) /\ Band(b, bn, p.n) \in Bounds(p.n)
            /\ t < bm.used * bn.used =>
                 SliceOf(i, t, p) = Slice(Band(a, bm, p.m), Band(b, bn, p.n), Whole(p.k), 0)
            /\ ~(t < bm.used * bn.used) =>
                 SliceOf(i, t, p) = Slice(Whole(0), Whole(0), Whole(p.k), 0)
<1> DEFINE bm == Bands(p.m, i.nthrs_m, TRUE)
           bn == Bands(p.n, i.nthrs_n, FALSE)
           a == t % i.nthrs_m
           b == t \div i.nthrs_m
<1>1. i.nthrs_m \in Positive /\ i.nthrs_n \in Positive /\ Nthrs(i) \in Positive
  BY LegalFacts
<1>2. p.m \in Positive /\ p.n \in Positive /\ p.k \in Positive
  BY DEF Sized
<1>3. a \in 0 .. i.nthrs_m - 1 /\ b \in Nat /\ a \in Nat
  <2>1. t \in Nat /\ i.nthrs_m \in Nat \ {0}
    BY <1>1, SMTT(30) DEF Positive
  <2>2. a \in 0 .. i.nthrs_m - 1 /\ b \in Nat
    BY <2>1, ModFacts
  <2> HIDE DEF a, b
  <2>3. QED
    BY <2>1, <2>2, SMTT(30)
<1>4. /\ bm.val \in Nat /\ bm.used \in 1 .. i.nthrs_m /\ (bm.used - 1) * bm.val < p.m
      /\ bn.val \in Nat /\ bn.used \in 1 .. i.nthrs_n /\ (bn.used - 1) * bn.val < p.n
  <2>1. TRUE \in BOOLEAN /\ FALSE \in BOOLEAN
    OBVIOUS
  <2>2. QED
    BY <1>1, <1>2, <2>1, BandsFit
<1>5. SliceOf(i, t, p) = IF t < bm.used * bn.used
                         THEN Slice(Band(a, bm, p.m), Band(b, bn, p.n), Whole(p.k), 0)
                         ELSE Slice(Whole(0), Whole(0), Whole(p.k), 0)
  BY SliceKinds DEF Partition2d
<1> HIDE DEF bm, bn, a, b
<1>6. bm.used \in Positive /\ bn.used \in Positive
  BY <1>1, <1>4, SMTT(30) DEF Positive
<1>7. Band(a, bm, p.m) \in Bounds(p.m) /\ Band(b, bn, p.n) \in Bounds(p.n)
  BY <1>2, <1>3, <1>4, <1>6, BandLayer
<1>8. QED
  BY <1>3, <1>4, <1>5, <1>7 DEF bm, bn, a, b

(* The blocks of a thread in a decomposition in m, n and k. *)
LEMMA Slice3d ==
  ASSUME NEW i, NEW p, Sized(p), Legal(i, p), i.partition = "mnk_3d", NEW t \in 0 .. Nthrs(i) - 1
  PROVE  LET a == t % i.nthrs_m
             b == (t \div i.nthrs_m) % i.nthrs_n
             c == (t \div i.nthrs_m) \div i.nthrs_n
         IN /\ a \in 0 .. i.nthrs_m - 1 /\ b \in 0 .. i.nthrs_n - 1 /\ c \in 0 .. i.nthrs_k - 1
            /\ Blocks(i.nthrs_m, i.thread_m, p.m) /\ Blocks(i.nthrs_n, i.thread_n, p.n)
            /\ Blocks(i.nthrs_k, i.thread_k, p.k)
            /\ Block(a, i.thread_m, p.m) \in Bounds(p.m) /\ Block(b, i.thread_n, p.n) \in Bounds(p.n)
            /\ Block(c, i.thread_k, p.k) \in Bounds(p.k)
            /\ SliceOf(i, t, p) = Slice(Block(a, i.thread_m, p.m), Block(b, i.thread_n, p.n),
                                        Block(c, i.thread_k, p.k), c)
<1> DEFINE a == t % i.nthrs_m
           b == (t \div i.nthrs_m) % i.nthrs_n
           c == (t \div i.nthrs_m) \div i.nthrs_n
<1>1. /\ i.nthrs_m \in Positive /\ i.nthrs_n \in Positive /\ i.nthrs_k \in Positive
      /\ t \in 0 .. i.nthrs_m * i.nthrs_n * i.nthrs_k - 1
  BY LegalFacts
<1>2. p.m \in Nat /\ p.n \in Nat /\ p.k \in Nat
  BY DEF Sized, Positive
<1>3. a \in 0 .. i.nthrs_m - 1 /\ b \in 0 .. i.nthrs_n - 1 /\ c \in 0 .. i.nthrs_k - 1
  BY <1>1, Coordinates
<1>4. /\ Blocks(i.nthrs_m, i.thread_m, p.m) /\ Blocks(i.nthrs_n, i.thread_n, p.n)
      /\ Blocks(i.nthrs_k, i.thread_k, p.k)
  BY DEF Legal
<1>5. SliceOf(i, t, p) = Slice(Block(a, i.thread_m, p.m), Block(b, i.thread_n, p.n),
                               Block(c, i.thread_k, p.k), c)
  BY SliceKinds
<1> HIDE DEF a, b, c
<1>6. /\ Block(a, i.thread_m, p.m) \in Bounds(p.m) /\ Block(b, i.thread_n, p.n) \in Bounds(p.n)
      /\ Block(c, i.thread_k, p.k) \in Bounds(p.k)
  BY <1>2, <1>3, <1>4, BlockLayer
<1>7. QED
  BY <1>3, <1>4, <1>5, <1>6 DEF a, b, c

(* Every slice lies inside the matrices. *)
LEMMA SliceFits ==
  ASSUME NEW i, NEW p, Sized(p), Legal(i, p), NEW t \in 0 .. Nthrs(i) - 1
  PROVE  Fits(SliceOf(i, t, p), p)
<1>1. /\ p.m \in Nat /\ p.n \in Nat /\ p.k \in Nat /\ 0 \in Nat
      /\ i.partition \in {"row_1d", "col_1d", "col_major_2d", "mnk_3d"} /\ Nthrs(i) \in Positive
  BY LegalFacts DEF Sized, Positive
<1>2. /\ Whole(p.m) \in Bounds(p.m) /\ Whole(p.n) \in Bounds(p.n) /\ Whole(p.k) \in Bounds(p.k)
      /\ Whole(0) \in Bounds(p.m) /\ Whole(0) \in Bounds(p.n)
  <2>1. Whole(0) \in [off : Nat, size : Nat] /\ Whole(0).off = 0 /\ Whole(0).size = 0
    BY WholeBounds, SMTT(30) DEF Bounds
  <2>2. 0 + 0 <= p.m /\ 0 + 0 <= p.n
    BY <1>1, SMTT(30)
  <2>3. Whole(0) \in Bounds(p.m) /\ Whole(0) \in Bounds(p.n)
    BY <2>1, <2>2 DEF Bounds
  <2>4. QED
    BY <1>1, <2>3, WholeBounds
<1>3. CASE i.partition = "row_1d"
  <2>1. Partition1d(t, Nthrs(i), p.m) \in Bounds(p.m)
    BY <1>1, Partition1dLayer
  <2>2. SliceOf(i, t, p) = Slice(Partition1d(t, Nthrs(i), p.m), Whole(p.n), Whole(p.k), 0)
    BY <1>3, SliceKinds
  <2>3. Fits(Slice(Partition1d(t, Nthrs(i), p.m), Whole(p.n), Whole(p.k), 0), p)
    BY <1>1, <1>2, <2>1, SliceMade
  <2>4. QED
    BY <2>2, <2>3
<1>4. CASE i.partition = "col_1d"
  <2>1. Partition1d(t, Nthrs(i), p.n) \in Bounds(p.n)
    BY <1>1, Partition1dLayer
  <2>2. SliceOf(i, t, p) = Slice(Whole(p.m), Partition1d(t, Nthrs(i), p.n), Whole(p.k), 0)
    BY <1>4, SliceKinds
  <2>3. Fits(Slice(Whole(p.m), Partition1d(t, Nthrs(i), p.n), Whole(p.k), 0), p)
    BY <1>1, <1>2, <2>1, SliceMade
  <2>4. QED
    BY <2>2, <2>3
<1>5. CASE i.partition = "col_major_2d"
  <2> DEFINE bm == Bands(p.m, i.nthrs_m, TRUE)
             bn == Bands(p.n, i.nthrs_n, FALSE)
             dm == Band(t % i.nthrs_m, bm, p.m)
             dn == Band(t \div i.nthrs_m, bn, p.n)
  <2>1. /\ dm \in Bounds(p.m) /\ dn \in Bounds(p.n)
        /\ t < bm.used * bn.used => SliceOf(i, t, p) = Slice(dm, dn, Whole(p.k), 0)
        /\ ~(t < bm.used * bn.used) => SliceOf(i, t, p) = Slice(Whole(0), Whole(0), Whole(p.k), 0)
    BY <1>5, Slice2d
  <2> HIDE DEF bm, bn, dm, dn
  <2>2. Fits(Slice(dm, dn, Whole(p.k), 0), p)
    BY <1>1, <1>2, <2>1, SliceMade
  <2>3. Fits(Slice(Whole(0), Whole(0), Whole(p.k), 0), p)
    BY <1>1, <1>2, SliceMade
  <2>4. QED
    BY <2>1, <2>2, <2>3
<1>6. CASE i.partition = "mnk_3d"
  <2> DEFINE c == (t \div i.nthrs_m) \div i.nthrs_n
             dm == Block(t % i.nthrs_m, i.thread_m, p.m)
             dn == Block((t \div i.nthrs_m) % i.nthrs_n, i.thread_n, p.n)
             dk == Block(c, i.thread_k, p.k)
  <2>1. /\ dm \in Bounds(p.m) /\ dn \in Bounds(p.n) /\ dk \in Bounds(p.k)
        /\ c \in 0 .. i.nthrs_k - 1
        /\ SliceOf(i, t, p) = Slice(dm, dn, dk, c)
    BY <1>6, Slice3d
  <2> HIDE DEF c, dm, dn, dk
  <2>2. c \in Nat
    BY <2>1, SMTT(30)
  <2>3. Fits(Slice(dm, dn, dk, c), p)
    BY <2>1, <2>2, SliceMade
  <2>4. QED
    BY <2>1, <2>3
<1>7. QED
  BY <1>1, <1>3, <1>4, <1>5, <1>6

InCols(s, p, a, z, n) == \A c \in 0 .. p.n - 1 : c \in Cols(s) <=> Layer(c, a, z, n)
WholeK(s, p) == s.off_k = 0 /\ s.k = p.k /\ s.ithr_k = 0

(* A decomposition of the columns. *)
LEMMA SliceCol ==
  ASSUME NEW i, NEW p, Sized(p), Legal(i, p), i.partition = "col_1d", NEW t \in 0 .. Nthrs(i) - 1
  PROVE  LET s == SliceOf(i, t, p)
         IN /\ InCols(s, p, t, BandSize(Nthrs(i), p.n), Nthrs(i))
            /\ Rows(s) = 0 .. p.m - 1 /\ s.off_m = 0 /\ s.m = p.m /\ WholeK(s, p)
<1> DEFINE d == Partition1d(t, Nthrs(i), p.n)
           s == SliceOf(i, t, p)
<1>1. p.m \in Nat /\ p.n \in Nat /\ p.k \in Nat /\ 0 \in Nat /\ Nthrs(i) \in Positive
  BY LegalFacts DEF Sized, Positive
<1>2. /\ d \in Bounds(p.n)
      /\ \A x \in 0 .. p.n - 1 : x \in Items(d) <=> Layer(x, t, BandSize(Nthrs(i), p.n), Nthrs(i))
  BY <1>1, Partition1dLayer
<1>3. s = Slice(Whole(p.m), d, Whole(p.k), 0)
  BY SliceKinds
<1> HIDE DEF d
<1>4. /\ Whole(p.m) \in Bounds(p.m) /\ Whole(p.k) \in Bounds(p.k)
      /\ Items(Whole(p.m)) = 0 .. p.m - 1 /\ Whole(p.k).off = 0 /\ Whole(p.k).size = p.k
      /\ Whole(p.m).off = 0 /\ Whole(p.m).size = p.m
  BY <1>1, WholeBounds
<1>5. /\ Cols(s) = Items(d) /\ Rows(s) = Items(Whole(p.m)) /\ s.ithr_k = 0
      /\ s.off_k = Whole(p.k).off /\ s.k = Whole(p.k).size
      /\ s.off_m = Whole(p.m).off /\ s.m = Whole(p.m).size
  <2> HIDE DEF s
  <2>1. MadeOf(Slice(Whole(p.m), d, Whole(p.k), 0), Whole(p.m), d, Whole(p.k), 0)
    BY <1>1, <1>2, <1>4, SliceMade
  <2>2. MadeOf(s, Whole(p.m), d, Whole(p.k), 0)
    BY <1>3, <2>1
  <2>3. QED
    BY <2>2 DEF MadeOf
<1>6. QED
  BY <1>2, <1>4, <1>5 DEF InCols, WholeK

(* A grid of bands: all bands of rows are in use, and a thread beyond the  *)
(* bands of columns that are in use has nothing to do.                     *)
Tiled(p) == /\ p.m >= 4 * Um => p.m >= 20
            /\ Avx512 /\ p.m >= 8 * Um => p.m >= 112

-----------------------------------------------------------------------------
(* DriverInv holds initially. *)

(* The constants are positive. *)
LEMMA Consts ==
  /\ NthrMax \in Nat /\ NthrMax >= 1 /\ NthrMax \in Positive
  /\ Um \in Positive /\ MPadd \in Positive /\ KPadd \in Positive
  /\ 0 \in Threads
BY DriverAssumption, SMTT(30) DEF Positive, Threads

(* No decomposition. *)
LEMMA NoInfoFacts ==
  /\ NoInfo.copy = "nonshared" /\ NoInfo.nthrs_k = 0 /\ NoInfo.partition = "none"
BY SMTT(30) DEF NoInfo, Info

(* No slice. *)
LEMMA NoSliceInside ==
  ASSUME PlanInv
  PROVE  Inside(NoSlice)
<1>1. /\ NoSlice.off_m = 0 /\ NoSlice.m = 0 /\ NoSlice.off_n = 0 /\ NoSlice.n = 0
      /\ NoSlice.off_k = 0 /\ NoSlice.k = 0
  BY SMTT(30) DEF NoSlice, Slice, Whole
<1>2. prob.m \in Nat /\ prob.n \in Nat /\ prob.k \in Nat
  BY SMTT(30) DEF PlanInv, Positive
<1> HIDE DEF NoSlice
<1>3. QED
  BY <1>1, <1>2, SMTT(30) DEF Inside

(* The invariant holds when the driver is called. *)
LEMMA DriverInit == Init => DriverInv
<1> SUFFICES ASSUME Init PROVE DriverInv
  OBVIOUS
<1>1. PICK p \in Problems, g \in 1 .. NthrMax, b \in BOOLEAN :
        prob = [m |-> p.m, n |-> p.n, k |-> p.k, goal |-> g, sync |-> b]
  BY DEF Init
<1>2. p \in [m : Positive, n : Positive, k : Positive]
  BY DriverAssumption DEF Positive
<1>3. /\ prob.m = p.m /\ prob.n = p.n /\ prob.k = p.k /\ prob.goal = g
      /\ prob \in [m : Positive, n : Positive, k : Positive, goal : 1 .. NthrMax, sync : BOOLEAN]
  <2>1. p.m \in Positive /\ p.n \in Positive /\ p.k \in Positive
    BY <1>2, SMTT(30)
  <2> HIDE DEF Positive
  <2>2. QED
    BY <1>1, <2>1, SMTT(30)
<1>4. p = [m |-> p.m, n |-> p.n, k |-> p.k]
  BY <1>2, SMTT(30)
<1>5. PlanInv
  BY <1>3, <1>4 DEF Init, PlanInv, ForceThreading
<1>6. /\ forced = NoInfo /\ at = "start" /\ nthr = 0 /\ info = NoInfo /\ heap = {} /\ ret = "none"
      /\ slice = [t \in Threads |-> NoSlice] /\ pc = [t \in Threads |-> "out"]
      /\ Pristine /\ buf = [r \in 0 .. MPadd - 1 |-> <<>>]
      /\ local = [t \in Threads |-> FALSE]
  BY DEF Init, Pristine
<1>7. TypeOK
  <2>1. prob.goal \in 1 .. NthrMax /\ nthr \in 0 .. NthrMax
    BY <1>3, <1>6, Consts, SMTT(30)
  <2>2. \A t \in Threads : Inside(slice[t])
    BY <1>5, <1>6, NoSliceInside
  <2>3. arg \in [Threads -> [result : {"success", "out_of_memory"}, done : BOOLEAN]]
    <3>1. [result |-> "success", done |-> FALSE] \in
             [result : {"success", "out_of_memory"}, done : BOOLEAN]
      OBVIOUS
    <3>2. QED
      BY <1>6, <3>1 DEF Pristine
  <2>4. ithr \in [Threads -> 0 .. 2 * NthrMax]
    <3>1. \A t \in Threads : t \in 0 .. 2 * NthrMax
      BY Consts, SMTT(30) DEF Threads
    <3>2. QED
      BY <1>6, <3>1 DEF Pristine
  <2>5. visits \in [Threads -> Nat]
    BY <1>6 DEF Pristine
  <2>6. mem \in {"none", "live", "null", "freed"} /\ ret \in {"none", "success", "out_of_memory"}
    BY <1>6 DEF Pristine
  <2>7. QED
    BY <1>6, <2>1, <2>2, <2>3, <2>4, <2>5, <2>6 DEF TypeOK
<1>8. SliceInv
  BY <1>6 DEF SliceInv, Unsliced, Before, After
<1>9. PlaceInv
  <2>1. pos = [t \in Threads |-> NoBlock] /\ NoBlock \in [k : Nat, m : Nat]
    BY <1>6 DEF Pristine, NoBlock
  <2>2. QED
    BY <1>6, <2>1 DEF PlaceInv
<1>10. ShareInv
  BY <1>6 DEF ShareInv, Pristine, Sharing
<1>11. QED
  BY <1>5, <1>7, <1>8, <1>9, <1>10 DEF DriverInv

-----------------------------------------------------------------------------
(* The plan and the slices after a step. *)

(* What a decomposition may be depends on the sizes alone. *)
LEMMA LegalSizes ==
  ASSUME NEW i, NEW p, NEW q, Legal(i, p), q.m = p.m, q.n = p.n, q.k = p.k
  PROVE  Legal(i, q)
BY DEF Legal

(* The sizes of the problem. *)
LEMMA PlanSizes ==
  ASSUME PlanInv
  PROVE  /\ Sized(prob) /\ Tiled(prob) /\ prob.goal \in 1 .. NthrMax /\ prob.sync \in BOOLEAN
         /\ prob.m \in Positive /\ prob.n \in Positive /\ prob.k \in Positive
<1>1. /\ prob.goal \in 1 .. NthrMax /\ prob.sync \in BOOLEAN
      /\ prob.m \in Positive /\ prob.n \in Positive /\ prob.k \in Positive
  <2> HIDE DEF Positive
  <2>1. QED
    BY SMTT(30) DEF PlanInv
<1>2. Tiled(prob)
  <2> DEFINE q == [m |-> prob.m, n |-> prob.n, k |-> prob.k]
  <2>1. q \in Problems
    BY DEF PlanInv
  <2>2. (q.m >= 4 * Um => q.m >= 20) /\ (Avx512 /\ q.m >= 8 * Um => q.m >= 112)
    BY <2>1, TilesAssumption
  <2>3. q.m = prob.m
    OBVIOUS
  <2> HIDE DEF q
  <2>4. QED
    BY <2>2, <2>3 DEF Tiled
<1>3. QED
  BY <1>1, <1>2 DEF Sized

(* The start of the driver fixes the plan. *)
LEMMA StartPlan ==
  ASSUME DriverInv, Start
  PROVE  /\ PlanInv' /\ SliceInv'
         /\ prob'.m = prob.m /\ prob'.n = prob.n /\ prob'.k = prob.k
         /\ prob'.goal \in 1 .. NthrMax
<1>1. at = "start" /\ PlanInv /\ SliceInv /\ forced = NoInfo /\ packedA = FALSE
  <2>1. at = "start" /\ PlanInv /\ SliceInv
    BY DEF Start, DriverInv
  <2>2. QED
    BY <2>1 DEF PlanInv, ForceThreading
<1>2. /\ prob.goal \in 1 .. NthrMax /\ prob.m \in Positive /\ prob.n \in Positive
      /\ prob.k \in Positive
      /\ prob \in [m : Positive, n : Positive, k : Positive, goal : 1 .. NthrMax, sync : BOOLEAN]
  BY <1>1, PlanSizes DEF PlanInv
<1>3. at' \in {"alone", "alloc"} /\ (at' = "alloc" => prob'.goal # 1)
  BY DEF Start
<1>4. /\ nthr' = nthr /\ info' = info /\ slice' = slice /\ heap' = heap
  BY DEF Start
<1>5. ASSUME NEW i, Legal(i, prob), forced' = i, prob' = [prob EXCEPT !.goal = Nthrs(i)],
             packedA' \in BOOLEAN
      PROVE  PlanInv' /\ prob'.m = prob.m /\ prob'.n = prob.n /\ prob'.k = prob.k
                      /\ prob'.goal \in 1 .. NthrMax
  <2>1. Nthrs(i) \in 1 .. NthrMax
    BY <1>5 DEF Legal
  <2> DEFINE N == Nthrs(i)
  <2> HIDE DEF N, Positive
  <2>2. /\ prob' \in [m : Positive, n : Positive, k : Positive, goal : 1 .. NthrMax, sync : BOOLEAN]
        /\ prob'.m = prob.m /\ prob'.n = prob.n /\ prob'.k = prob.k /\ prob'.goal = N
    <3>1. prob' = [prob EXCEPT !.goal = N] /\ N \in 1 .. NthrMax
      BY <1>5, <2>1 DEF N
    <3>2. QED
      BY <1>2, <3>1, SMTT(30)
  <2>3. Legal(i, prob')
    BY <1>5, <2>2, LegalSizes
  <2>4. [m |-> prob'.m, n |-> prob'.n, k |-> prob'.k] \in Problems
    BY <1>1, <2>2 DEF PlanInv
  <2>5. i # NoInfo
    <3>1. i.partition # "none"
      BY <1>5, LegalFacts
    <3>2. QED
      BY <3>1, NoInfoFacts
  <2>6. prob'.goal \in 1 .. NthrMax /\ prob'.goal = Nthrs(i)
    BY <2>1, <2>2 DEF N
  <2>7. QED
    BY <1>3, <1>5, <2>2, <2>3, <2>4, <2>5, <2>6 DEF PlanInv, ForceThreading
<1>6. PlanInv' /\ prob'.m = prob.m /\ prob'.n = prob.n /\ prob'.k = prob.k
               /\ prob'.goal \in 1 .. NthrMax
  <2>1. CASE UNCHANGED <<prob, forced, packedA>>
    BY <1>1, <1>2, <1>3, <2>1 DEF PlanInv, ForceThreading
  <2>2. CASE /\ \E i \in {i \in PackInfos(prob.goal, prob, TRUE) : i.nthrs_k > 1} :
                   forced' = i /\ prob' = [prob EXCEPT !.goal = Nthrs(i)]
             /\ UNCHANGED packedA
    <3>1. PICK i \in PackInfos(prob.goal, prob, TRUE) :
                   forced' = i /\ prob' = [prob EXCEPT !.goal = Nthrs(i)]
      BY <2>2
    <3> DEFINE g == prob.goal
    <3>6. g \in 1 .. NthrMax /\ i \in PackInfos(g, prob, TRUE) /\ TRUE \in BOOLEAN
      BY <1>2
    <3> HIDE DEF g
    <3>7. prob.m \in Positive /\ prob.n \in Positive /\ prob.k \in Positive
      BY <1>2
    <3>8. Legal(i, prob)
      BY <3>6, <3>7, PackLegal
    <3>3. packedA' \in BOOLEAN
      BY <1>1, <2>2
    <3>4. forced' = i /\ prob' = [prob EXCEPT !.goal = Nthrs(i)]
      BY <3>1
    <3>5. QED
      BY <1>5, <3>3, <3>4, <3>8
  <2>3. CASE /\ \E g \in 1 .. NthrMax :
                   \E i \in NopackInfos(g, NthrMax, prob) \cup PackInfos(g, prob, TRUE) :
                       forced' = i /\ prob' = [prob EXCEPT !.goal = Nthrs(i)]
             /\ packedA' \in {TRUE, forced'.copy # "shared_a"}
    <3> PICK g \in 1 .. NthrMax :
            \E i \in NopackInfos(g, NthrMax, prob) \cup PackInfos(g, prob, TRUE) :
                forced' = i /\ prob' = [prob EXCEPT !.goal = Nthrs(i)]
      BY <2>3
    <3>1. PICK i \in NopackInfos(g, NthrMax, prob) \cup PackInfos(g, prob, TRUE) :
                   forced' = i /\ prob' = [prob EXCEPT !.goal = Nthrs(i)]
      OBVIOUS
    <3>2. NthrMax \in 1 .. NthrMax
      BY Consts, SMTT(30)
    <3>3. Legal(i, prob)
      BY <1>2, <3>2, PackLegal, NopackLegal
    <3>4. packedA' \in BOOLEAN
      BY <2>3, Zenon
    <3>5. QED
      BY <1>5, <3>1, <3>3, <3>4
  <2>4. QED
    BY <2>1, <2>2, <2>3 DEF Start
<1>7. SliceInv'
  <2>1. prob'.goal > 1 \/ at' = "alone"
    BY <1>3, <1>6, SMTT(30)
  <2>2. Unsliced /\ info = NoInfo /\ heap = {}
    BY <1>1 DEF SliceInv, Before
  <2>3. QED
    BY <1>3, <1>4, <2>1, <2>2 DEF SliceInv, Unsliced, Before, After
<1>8. QED
  BY <1>6, <1>7

(* The plan does not change after the start. *)
LEMMA PlanFrame ==
  ASSUME PlanInv, UNCHANGED plan, at' # "start"
  PROVE  PlanInv'
BY DEF PlanInv, plan, ForceThreading

(* A slice that fits is inside the matrices. *)
LEMMA FitsInside ==
  ASSUME PlanInv, NEW s, Fits(s, prob)
  PROVE  Inside(s)
<1>1. /\ s.off_m \in Nat /\ s.m \in Nat /\ s.off_n \in Nat /\ s.n \in Nat /\ s.off_k \in Nat
      /\ s.k \in Nat /\ s.off_m + s.m <= prob.m /\ s.off_n + s.n <= prob.n
      /\ s.off_k + s.k <= prob.k
  BY SMTT(30) DEF Fits, Sizes
<1>2. QED
  BY <1>1, SMTT(30) DEF Inside

(* The slices of a decomposition. *)
LEMMA SlicedInside ==
  ASSUME PlanInv, NEW i, Legal(i, prob), NEW t \in Threads
  PROVE  Inside(IF t < Nthrs(i) THEN GetThreadSlice(i, t, prob.m, prob.n, prob.k) ELSE NoSlice)
<1>1. CASE t < Nthrs(i)
  <2>1. t \in 0 .. Nthrs(i) - 1
    <3> DEFINE N == Nthrs(i)
    <3>1. N \in Nat /\ t < N /\ t \in Nat
      BY <1>1, LegalFacts, Consts, SMTT(30) DEF Threads, Positive
    <3> HIDE DEF N
    <3>2. t \in 0 .. N - 1
      BY <3>1, SMTT(30)
    <3>3. QED
      BY <3>2 DEF N
  <2>2. Fits(SliceOf(i, t, prob), prob)
    BY <2>1, PlanSizes, SliceFits
  <2>3. QED
    BY <1>1, <2>2, FitsInside DEF SliceOf
<1>2. CASE ~(t < Nthrs(i))
  BY <1>2, NoSliceInside
<1>3. QED
  BY <1>1, <1>2

-----------------------------------------------------------------------------
(* The threads of a section. *)

(* A section that has a decomposition. *)
LEMMA SectionFacts ==
  ASSUME DriverInv, at \in After, info # NoInfo
  PROVE  /\ Legal(info, prob) /\ Sliced(info) /\ nthr \in 1 .. NthrMax
         /\ NthrEff = Nthrs(info) /\ Nthrs(info) \in 1 .. NthrMax
         /\ Nthrs(info) \in Nat /\ nthr \in Nat /\ nthr \in Nat \ {0}
         /\ k_summing => info = forced /\ prob.goal = Nthrs(info) /\ info.partition = "mnk_3d"
<1>1. /\ Legal(info, prob) /\ Sliced(info) /\ nthr \in 1 .. NthrMax
      /\ ForceThreading => info = forced
  BY DEF DriverInv, SliceInv
<1>2. ForceThreading => prob.goal = Nthrs(forced)
  BY DEF DriverInv, PlanInv
<1>3. Nthrs(info) \in 1 .. NthrMax
  BY <1>1 DEF Legal
<1>4. NthrEff = Nthrs(info)
  BY <1>1, <1>2 DEF NthrEff
<1>5. /\ Nthrs(info) \in Nat /\ nthr \in Nat /\ nthr \in Nat \ {0}
  BY <1>1, <1>3, Consts, SMTT(30)
<1>6. ASSUME k_summing PROVE info = forced /\ prob.goal = Nthrs(info) /\ info.partition = "mnk_3d"
  <2>1. forced.nthrs_k # 0 /\ forced.nthrs_k # 1
    BY <1>6, SMTT(30) DEF k_summing
  <2>2. ForceThreading
    BY <2>1, NoInfoFacts DEF ForceThreading
  <2>3. QED
    BY <1>1, <1>2, <2>1, <2>2, LegalFacts
<1>7. QED
  BY <1>1, <1>3, <1>4, <1>5, <1>6

(* The slice of a part. *)
LEMMA PartSlice ==
  ASSUME DriverInv, at \in After, info # NoInfo, NEW i \in 0 .. Nthrs(info) - 1
  PROVE  /\ i \in Threads /\ slice[i] = SliceOf(info, i, prob) /\ Fits(slice[i], prob)
<1>1. Legal(info, prob) /\ Sliced(info) /\ Nthrs(info) \in 1 .. NthrMax
  BY SectionFacts
<1> DEFINE N == Nthrs(info)
<1>2. N \in 1 .. NthrMax /\ i \in 0 .. N - 1
  BY <1>1
<1> HIDE DEF N
<1>3. i \in Threads /\ i < N
  BY <1>2, Consts, SMTT(30) DEF Threads
<1>4. slice[i] = SliceOf(info, i, prob)
  BY <1>1, <1>3 DEF Sliced, SliceOf, N
<1>5. Fits(SliceOf(info, i, prob), prob)
  BY <1>1, PlanSizes, SliceFits DEF DriverInv
<1>6. QED
  BY <1>3, <1>4, <1>5

(* The team that shares a copy of A: every thread has one part. *)
LEMMA SharingFacts ==
  ASSUME DriverInv, Sharing
  PROVE  /\ at \in After /\ info # NoInfo /\ nthr = Nthrs(info) /\ NthrEff = nthr
         /\ nthr \in Nat /\ nthr \in 1 .. NthrMax /\ 0 \in Team
         /\ \A t \in Team : t \in Threads /\ t \in Nat /\ t < nthr
<1>1. at = "section" /\ at \in After /\ info.copy = "shared_a" /\ ~packedA
  BY DEF Sharing, After
<1>2. info # NoInfo
  BY <1>1, NoInfoFacts
<1>3. nthr = Nthrs(info)
  BY <1>1, <1>2 DEF DriverInv, SliceInv
<1>4. NthrEff = Nthrs(info) /\ nthr \in Nat /\ nthr \in 1 .. NthrMax
  BY <1>1, <1>2, SectionFacts
<1>5. 0 \in Team /\ \A t \in Team : t \in Threads /\ t \in Nat /\ t < nthr
  BY <1>4, Consts, SMTT(30) DEF Team, Threads
<1>6. QED
  BY <1>1, <1>2, <1>3, <1>4, <1>5

(* A thread of a team that shares the copy of A: it has part t, with all   *)
(* rows and all of k.                                                      *)
LEMMA SharingThread ==
  ASSUME DriverInv, Sharing, NEW t \in Team
  PROVE  /\ Placed(t) /\ ithr[t] \in Nat /\ (ithr[t] = t \/ ithr[t] >= nthr)
         /\ pc[t] \notin {"loop", "out"} => ithr[t] = t
         /\ pc[t] = "out" => ithr[t] # t
         /\ slice[t].off_m = 0 /\ slice[t].m = prob.m
         /\ slice[t].off_k = 0 /\ slice[t].k = prob.k
         /\ slice[t] = SliceOf(info, t, prob)
<1>1. /\ at \in After /\ info # NoInfo /\ nthr = Nthrs(info) /\ nthr \in Nat /\ t \in Threads
      /\ t \in Nat /\ t < nthr /\ nthr \in 1 .. NthrMax
  BY SharingFacts
<1>2. Placed(t)
  BY <1>1 DEF DriverInv, PlaceInv, Sharing
<1>3. ithr[t] \in Nat
  <2>1. ithr[t] \in 0 .. 2 * NthrMax
    BY <1>1 DEF DriverInv, TypeOK
  <2>2. QED
    BY <2>1, Consts, SMTT(30)
<1>4. ithr[t] < nthr => ithr[t] = t
  <2>1. ithr[t] % nthr = t
    BY <1>1, <1>2 DEF Placed, PlacedAt
  <2>2. QED
    BY <1>1, <1>3, <2>1, SMTT(30)
<1>5. ithr[t] = t \/ ithr[t] >= nthr
  BY <1>1, <1>3, <1>4, SMTT(30)
<1>6. /\ pc[t] \notin {"loop", "out"} => ithr[t] = t
      /\ pc[t] = "out" => ithr[t] # t
  <2>1. /\ pc[t] \notin {"loop", "out"} => ithr[t] < nthr
        /\ pc[t] = "out" => ithr[t] >= nthr
    BY <1>1, <1>2 DEF Placed, PlacedAt
  <2>2. t >= nthr => FALSE
    BY <1>1, SMTT(30)
  <2>3. QED
    BY <1>4, <2>1, <2>2
<1>7. t \in 0 .. Nthrs(info) - 1
  BY <1>1 DEF Team
<1>8. slice[t] = SliceOf(info, t, prob)
  BY <1>1, <1>7, PartSlice
<1>9. info.partition = "col_1d" /\ Legal(info, prob)
  <2>1. Legal(info, prob) /\ info.copy = "shared_a"
    BY <1>1, SectionFacts DEF Sharing
  <2>2. QED
    BY <2>1 DEF Legal
<1>10. /\ SliceOf(info, t, prob).off_m = 0 /\ SliceOf(info, t, prob).m = prob.m
       /\ WholeK(SliceOf(info, t, prob), prob)
  BY <1>7, <1>9, PlanSizes, SliceCol DEF DriverInv
<1>11. QED
  BY <1>2, <1>3, <1>5, <1>6, <1>8, <1>10 DEF WholeK

(* Outside a section, or where A is not shared, there is no buffer. *)
LEMMA OnlySharing ==
  ASSUME DriverInv, ~Sharing, at' # "section", mem' = mem, buf' = buf
  PROVE  ShareInv'
BY DEF DriverInv, ShareInv, Sharing

(* The second parallel section, the one that only sums, starts. *)
LEMMA SpawnSumStep ==
  ASSUME DriverInv, SpawnSum
  PROVE  DriverInv'
<1>1. PICK n \in 1 .. prob.goal :
        nthr' = n /\ pc' = [t \in Threads |-> IF t < n THEN "sum" ELSE "out"]
  BY DEF SpawnSum
<1>2. /\ at = "spawn_sum" /\ at' = "sum_section" /\ ithr' = [t \in Threads |-> t]
      /\ UNCHANGED <<plan, info, slice, arg, local, pos, shared, C, heap, ret>>
  BY DEF SpawnSum
<1>3. PlanInv' /\ PlanInv
  BY <1>2, PlanFrame DEF DriverInv
<1>4. /\ n \in 1 .. NthrMax /\ n \in 0 .. NthrMax /\ n \in Nat /\ n <= prob.goal /\ prob.goal \in Nat
      /\ \A t \in Threads : t \in 0 .. 2 * NthrMax /\ (t < n => t % n = t /\ t < prob.goal)
      /\ \A t \in Threads : t < n \/ t >= n
  <2> DEFINE g == prob.goal
  <2>1. g \in 1 .. NthrMax /\ n \in 1 .. g
    BY <1>3, PlanSizes
  <2> HIDE DEF g
  <2>2. /\ n \in 1 .. NthrMax /\ n \in 0 .. NthrMax /\ n \in Nat /\ n <= g /\ g \in Nat
        /\ \A t \in Threads : t \in 0 .. 2 * NthrMax /\ (t < n => t % n = t /\ t < g)
        /\ \A t \in Threads : t < n \/ t >= n
    BY <2>1, Consts, SMTT(30) DEF Threads
  <2>3. QED
    BY <2>2 DEF g
<1>5. TypeOK'
  <2>1. \A t \in Threads : Inside(slice[t])'
    BY <1>2 DEF DriverInv, TypeOK, Inside, plan
  <2>2. ithr' \in [Threads -> 0 .. 2 * NthrMax] /\ nthr' \in 0 .. NthrMax
    BY <1>1, <1>2, <1>4
  <2>3. pc' \in [Threads -> {"out", "sum"}]
    BY <1>1
  <2>4. pc' \in [Threads -> {"out", "whole", "loop", "kernel", "dispatched", "malloc", "malloced",
                          "copy", "copied", "gemm", "computed", "sum"}]
    BY <1>1
  <2>5. QED
    BY <1>2, <2>1, <2>2, <2>4 DEF DriverInv, TypeOK, shared, plan
<1>6. k_summing /\ ForceThreading
  <2>1. k_summing
    BY <1>2 DEF DriverInv, SliceInv
  <2>2. forced.nthrs_k # 0
    BY <2>1, SMTT(30) DEF k_summing
  <2>3. QED
    BY <2>1, <2>2, NoInfoFacts DEF ForceThreading
<1>7. SliceInv'
  <2>1. info # NoInfo /\ Legal(info, prob) /\ Sliced(info) /\ info = forced
    BY <1>2, <1>6 DEF DriverInv, SliceInv, After
  <2>2. info.copy # "shared_a"
    <3>1. info.nthrs_k \in Nat /\ info.nthrs_k > 1
      BY <1>6, <2>1, LegalFacts DEF k_summing, Positive
    <3>2. info.nthrs_k # 1
      BY <3>1, SMTT(30)
    <3>3. QED
      BY <2>1, <3>2 DEF Legal
  <2>3. nthr' \in 1 .. NthrMax
    BY <1>1, <1>4
  <2>4. (Sliced(info) /\ Legal(info, prob) /\ k_summing)'
    BY <1>2, <1>6, <2>1 DEF Sliced, plan, k_summing
  <2>5. QED
    BY <1>2, <2>1, <2>2, <2>3, <2>4 DEF SliceInv, Before, After, plan, ForceThreading
<1>8. PlaceInv'
  <2>1. pos' \in [Threads -> [k : Nat, m : Nat]]
    BY <1>2 DEF DriverInv, PlaceInv
  <2>2. \A t \in Threads : pos[t] = NoBlock
    BY <1>2 DEF DriverInv, PlaceInv, NoBlockPlaces
  <2>3. NoBlock.k < forced.nthrs_k - 1 /\ NoBlock.m = 0
    <3>1. forced.nthrs_k > 1 /\ forced.nthrs_k \in Nat
      BY <1>3, <1>6, LegalFacts DEF PlanInv, k_summing, Positive
    <3>2. NoBlock.k = 0 /\ NoBlock.m = 0
      BY DEF NoBlock
    <3> HIDE DEF NoBlock
    <3>3. QED
      BY <3>1, <3>2, SMTT(30)
  <2>4. nthr' <= prob'.goal
    BY <1>1, <1>2, <1>4 DEF plan
  <2>5. ASSUME NEW t \in Threads
        PROVE  /\ pc'[t] \in {"sum", "out"}
               /\ t >= nthr' => pc'[t] = "out"
               /\ t < nthr' => ithr'[t] % nthr' = t /\ (pc'[t] = "sum" <=> ithr'[t] < prob'.goal)
               /\ pc'[t] \in NoBlockPlaces => pos'[t] = NoBlock
               /\ pc'[t] = "sum" => pos'[t].k < forced'.nthrs_k - 1 /\ pos'[t].m = 0
    <3>1. t >= n => ~(t < n)
      BY <1>4, SMTT(30) DEF Threads
    <3>2. QED
      BY <1>1, <1>2, <1>4, <2>2, <2>3, <3>1 DEF plan
  <2>6. QED
    BY <1>2, <2>1, <2>4, <2>5 DEF PlaceInv, Before
<1>9. ShareInv'
  BY <1>2, OnlySharing DEF Sharing, shared
<1>10. QED
  BY <1>3, <1>5, <1>7, <1>8, <1>9 DEF DriverInv

(* The parallel section starts with a team of any size up to the one asked *)
(* for.                                                                    *)
LEMMA SpawnStep ==
  ASSUME DriverInv, Spawn
  PROVE  DriverInv'
<1> DEFINE Eff(n) == IF ForceThreading THEN prob.goal ELSE Smaller(prob.goal, n)
<1>1. PICK n \in Grants :
        /\ nthr' = n
        /\ IF Eff(n) = 1
           THEN /\ pc' = [t \in Threads |-> IF t < n THEN "whole" ELSE "out"]
                /\ UNCHANGED <<info, slice>>
           ELSE /\ \E i \in IF ForceThreading THEN {forced} ELSE NopackInfos(Eff(n), n, prob) :
                     /\ info' = i
                     /\ slice' = IF ForceThreading THEN slice
                                 ELSE [t \in Threads |->
                                         IF t < Nthrs(i)
                                         THEN GetThreadSlice(i, t, prob.m, prob.n, prob.k)
                                         ELSE NoSlice]
                /\ pc' = [t \in Threads |-> IF t < n THEN "loop" ELSE "out"]
  BY DEF Spawn
<1>2. /\ at = "spawn" /\ at' = "section"
      /\ UNCHANGED <<plan, arg, local, ithr, pos, shared, C, heap, ret>>
  BY DEF Spawn
<1>3. PlanInv' /\ PlanInv
  BY <1>2, PlanFrame DEF DriverInv
<1>4. /\ prob.goal > 1 /\ info = NoInfo /\ Pristine
      /\ IF ForceThreading THEN Sliced(forced) ELSE Unsliced
      /\ \A t \in Threads : pos[t] = NoBlock
  BY <1>2 DEF DriverInv, SliceInv, PlaceInv, Before, NoBlockPlaces
<1>5. /\ n \in 1 .. NthrMax /\ n \in 0 .. NthrMax /\ n \in Nat /\ Eff(n) \in 1 .. NthrMax
      /\ Eff(n) = 1 => ~ForceThreading /\ n = 1
      /\ \A t \in Threads : (t < n => t % n = t) /\ (t >= n => ~(t < n)) /\ (t < n \/ t >= n)
  <2> DEFINE g == prob.goal
  <2>1. g \in 1 .. NthrMax /\ prob.sync \in BOOLEAN /\ g > 1
    BY <1>3, <1>4, PlanSizes
  <2>2. n \in 1 .. NthrMax \/ n \in 1 .. g
    BY DEF Grants, nthr_spawn
  <2>3. Eff(n) = IF ForceThreading THEN g ELSE Smaller(g, n)
    OBVIOUS
  <2> HIDE DEF g, Eff
  <2>4. n \in 1 .. NthrMax
    BY <2>1, <2>2, Consts, SMTT(30)
  <2>5. Smaller(g, n) \in 1 .. NthrMax /\ (Smaller(g, n) = 1 => n = 1)
    BY <2>1, <2>4, Consts, SMTT(30) DEF Smaller
  <2>6. g # 1
    BY <2>1, SMTT(30)
  <2>7. Eff(n) \in 1 .. NthrMax /\ (Eff(n) = 1 => ~ForceThreading /\ n = 1)
    BY <2>1, <2>3, <2>5, <2>6
  <2>8. /\ n \in 0 .. NthrMax /\ n \in Nat
        /\ \A t \in Threads : (t < n => t % n = t) /\ (t >= n => ~(t < n)) /\ (t < n \/ t >= n)
    BY <2>4, Consts, SMTT(30) DEF Threads
  <2>9. QED
    BY <2>4, <2>7, <2>8 DEF Eff
<1> HIDE DEF Eff
<1>6. pos' \in [Threads -> [k : Nat, m : Nat]] /\ ret' = "none"
  BY <1>2, <1>4 DEF DriverInv, PlaceInv, Pristine
<1>7. ASSUME pc' \in [Threads -> {"out", "whole", "loop"}], \A t \in Threads : Inside(slice'[t])
      PROVE  TypeOK'
  <2>1. pc' \in [Threads -> {"out", "whole", "loop", "kernel", "dispatched", "malloc", "malloced",
                          "copy", "copied", "gemm", "computed", "sum"}]
    BY <1>7
  <2>2. \A t \in Threads : Inside(slice[t])'
    BY <1>2, <1>7 DEF Inside, plan
  <2>3. QED
    BY <1>1, <1>2, <1>5, <2>1, <2>2 DEF DriverInv, TypeOK, shared, plan
<1>8. CASE Eff(n) = 1
  <2>1. /\ pc' = [t \in Threads |-> IF t < n THEN "whole" ELSE "out"]
        /\ info' = NoInfo /\ slice' = slice /\ ~ForceThreading /\ nthr' = 1
    BY <1>1, <1>4, <1>5, <1>8
  <2>2. TypeOK'
    <3>1. \A t \in Threads : Inside(slice'[t])
      BY <2>1 DEF DriverInv, TypeOK
    <3>2. pc' \in [Threads -> {"out", "whole", "loop"}]
      BY <2>1
    <3>3. QED
      BY <1>7, <3>1, <3>2
  <2>3. SliceInv'
    <3>1. nthr' \in 1 .. NthrMax /\ Unsliced' /\ ~ForceThreading'
      BY <1>1, <1>2, <1>4, <1>5, <2>1 DEF Unsliced, plan, ForceThreading
    <3>2. QED
      BY <1>2, <2>1, <3>1 DEF SliceInv, Before, After
  <2>4. PlaceInv'
    BY <1>2, <1>4, <1>6, <2>1 DEF PlaceInv, Before
  <2>5. ShareInv'
    <3>1. mem' = "none" /\ DOMAIN buf' = 0 .. MPadd - 1 /\ ~Sharing'
      BY <1>2, <1>4, <2>1, NoInfoFacts DEF DriverInv, ShareInv, Pristine, shared, Sharing
    <3>2. QED
      BY <3>1 DEF ShareInv
  <2>6. QED
    BY <1>3, <2>2, <2>3, <2>4, <2>5 DEF DriverInv
<1>9. CASE Eff(n) # 1
  <2>1. PICK i \in IF ForceThreading THEN {forced} ELSE NopackInfos(Eff(n), n, prob) :
                     /\ info' = i
                     /\ slice' = IF ForceThreading THEN slice
                                 ELSE [t \in Threads |->
                                         IF t < Nthrs(i)
                                         THEN GetThreadSlice(i, t, prob.m, prob.n, prob.k)
                                         ELSE NoSlice]
    BY <1>1, <1>9
  <2>2. pc' = [t \in Threads |-> IF t < n THEN "loop" ELSE "out"] /\ nthr' = n
    BY <1>1, <1>9
  <2>3. Legal(i, prob) /\ (i.copy = "shared_a" /\ ~packedA => Nthrs(i) = n)
                       /\ (ForceThreading => i = forced)
    <3>1. CASE ForceThreading
      <4>1. i = forced /\ Legal(forced, prob)
        BY <1>3, <2>1, <3>1 DEF PlanInv
      <4>2. forced.copy = "shared_a" /\ ~packedA => n = Nthrs(forced)
        BY DEF Grants
      <4>3. QED
        BY <4>1, <4>2
    <3>2. CASE ~ForceThreading
      <4>1. prob.m \in Positive /\ prob.n \in Positive /\ prob.k \in Positive
        BY <1>3, PlanSizes
      <4>2. i \in NopackInfos(Eff(n), n, prob)
        BY <2>1, <3>2
      <4> DEFINE e == Eff(n)
      <4>3. e \in 1 .. NthrMax /\ i \in NopackInfos(e, n, prob)
        BY <1>5, <4>2
      <4> HIDE DEF e
      <4>4. Legal(i, prob)
        BY <1>5, <4>1, <4>3, NopackLegal
      <4>5. i.copy = "shared_a" => Nthrs(i) = n
        BY <1>5, <4>1, <4>3, NopackLegal
      <4>6. QED
        BY <3>2, <4>4, <4>5
    <3>3. QED
      BY <3>1, <3>2
  <2>4. slice' = [t \in Threads |-> IF t < Nthrs(i)
                                    THEN GetThreadSlice(i, t, prob.m, prob.n, prob.k) ELSE NoSlice]
    BY <1>4, <2>1, <2>3 DEF Sliced
  <2>5. i # NoInfo
    BY <2>3, LegalFacts, NoInfoFacts
  <2>6. TypeOK'
    <3>1. \A t \in Threads : Inside(slice'[t])
      BY <1>3, <2>3, <2>4, SlicedInside
    <3>2. pc' \in [Threads -> {"out", "whole", "loop"}]
      BY <2>2
    <3>3. QED
      BY <1>7, <3>1, <3>2
  <2>7. SliceInv'
    <3>1. nthr' \in 1 .. NthrMax /\ Sliced(info)' /\ Legal(info, prob)'
      BY <1>2, <1>5, <2>1, <2>2, <2>3, <2>4 DEF Sliced, plan
    <3>2. (info.copy = "shared_a" /\ ~packedA => nthr = Nthrs(info))'
      BY <1>2, <2>1, <2>2, <2>3 DEF plan
    <3>3. (ForceThreading => info = forced)'
      BY <1>2, <2>1, <2>3 DEF plan, ForceThreading
    <3>4. QED
      BY <1>2, <2>1, <2>5, <3>1, <3>2, <3>3 DEF SliceInv, Before, After
  <2>8. \A t \in Threads : /\ pc'[t] \in {"loop", "out"} /\ (pc'[t] = "loop" <=> t < n) /\ ithr'[t] = t
                           /\ pos'[t] = NoBlock /\ visits'[t] = 0
    BY <1>2, <1>4, <2>2 DEF Pristine, shared
  <2>9. PlaceInv'
    <3>1. ASSUME NEW t \in Threads PROVE Placed(t)'
      BY <1>5, <2>2, <2>8 DEF Placed, PlacedAt, CopyPlaces, Blocked
    <3>2. QED
      BY <1>2, <1>6, <2>1, <2>5, <2>8, <3>1 DEF PlaceInv, Before
  <2>10. ShareInv'
    <3>1. mem' = "none" /\ DOMAIN buf' = 0 .. MPadd - 1
      BY <1>2, <1>4 DEF DriverInv, ShareInv, Pristine, shared
    <3>2. Team' = 0 .. n - 1
      BY <2>2 DEF Team
    <3>3. \A t \in 0 .. n - 1 : t \in Threads /\ t < n
      BY <1>5, Consts, SMTT(30) DEF Threads
    <3>4. 0 \in 0 .. n - 1
      BY <1>5, SMTT(30)
    <3>5. \A t \in Team' : /\ pc'[t] = "loop" /\ ~Over(t)' /\ visits'[t] = 0 /\ ~Even(t)'
                           /\ Ahead(t)' = NoBlock
      BY <2>8, <3>2, <3>3 DEF Over, Even, Ahead
    <3>6. \A t, u \in Team' : InStep(t, u)'
      <4>1. 0 <= 0 + 1 /\ 0 # 0 + 1
        BY SMTT(30)
      <4>2. QED
        BY <3>5, <4>1 DEF InStep
    <3>7. ~Over(0)' /\ visits'[0] = 0
      BY <3>2, <3>4, <3>5
    <3>8. ASSUME NEW t \in Team' PROVE Steady(t)' /\ Filled(t)'
      BY <3>5, <3>8 DEF Steady, Filled
    <3>9. MemInv'
      BY <3>1, <3>7 DEF MemInv
    <3>10. QED
      BY <3>1, <3>6, <3>8, <3>9 DEF ShareInv
  <2>11. QED
    BY <1>3, <2>6, <2>7, <2>9, <2>10 DEF DriverInv
<1>10. QED
  BY <1>8, <1>9

-----------------------------------------------------------------------------
(* A step of a thread. *)

(* The driver stays where it is. *)
LEMMA ThreadFrame ==
  ASSUME DriverInv, UNCHANGED <<section, at>>, at # "start"
  PROVE  /\ PlanInv' /\ SliceInv'
         /\ UNCHANGED <<prob, forced, packedA, nthr, info, slice, heap, ret>>
         /\ \A i, p : Legal(i, p)' <=> Legal(i, p)
         /\ NthrEff' = NthrEff /\ Team' = Team /\ (Sums' <=> Sums) /\ (Sharing' <=> Sharing)
         /\ (k_summing' <=> k_summing)
<1>1. UNCHANGED <<prob, forced, packedA, nthr, info, slice, heap, ret>> /\ UNCHANGED plan /\ at' = at
  BY DEF section, plan
<1>2. PlanInv'
  BY <1>1, PlanFrame DEF DriverInv
<1>3. SliceInv'
  BY <1>1 DEF DriverInv, SliceInv, ForceThreading, Sliced, Unsliced, k_summing
<1>4. QED
  BY <1>1, <1>2, <1>3 DEF NthrEff, ForceThreading, Team, Sums, Sharing, k_summing

(* A thread that is not out is one of a section. *)
LEMMA ThreadAt ==
  ASSUME DriverInv, NEW t \in Threads, pc[t] # "out"
  PROVE  /\ at \in {"section", "sum_section"} /\ at # "start" /\ at \in After
         /\ pc[t] # "sum" => at = "section"
         /\ pc[t] = "whole" <=> info = NoInfo
         /\ at = "section" /\ info # NoInfo => Placed(t)
<1>1. at \in {"section", "sum_section"} /\ (pc[t] # "sum" => at = "section")
  BY DEF DriverInv, PlaceInv
<1>2. at = "section" => (info = NoInfo => pc[t] = "whole") /\ (info # NoInfo => Placed(t))
  BY DEF DriverInv, PlaceInv
<1>3. at = "sum_section" => info # NoInfo /\ pc[t] = "sum"
  <2>1. SUFFICES ASSUME at = "sum_section" PROVE info # NoInfo /\ pc[t] = "sum"
    OBVIOUS
  <2>2. k_summing
    BY <2>1 DEF DriverInv, SliceInv
  <2>3. forced.nthrs_k # 0
    BY <2>2, SMTT(30) DEF k_summing
  <2>4. ForceThreading
    BY <2>3, NoInfoFacts DEF ForceThreading
  <2>5. QED
    BY <1>1, <2>1, <2>4 DEF DriverInv, SliceInv, After
<1>4. QED
  BY <1>1, <1>2, <1>3 DEF Placed, PlacedAt, After

(* The types of what a thread changes. *)
Places == {"out", "whole", "loop", "kernel", "dispatched", "malloc", "malloced",
           "copy", "copied", "gemm", "computed", "sum"}

Args == [Threads -> [result : {"success", "out_of_memory"}, done : BOOLEAN]]

(* The other threads stay where they are. *)
Others(t) == \A u \in Threads : u # t => pc'[u] = pc[u] /\ ithr'[u] = ithr[u] /\ pos'[u] = pos[u]

(* A step of thread t to a place, with part j and block b. *)
CoreInv == TypeOK /\ PlanInv /\ SliceInv /\ PlaceInv

Moved(t, place, j, b) ==
    /\ pc' = [pc EXCEPT ![t] = place]
    /\ ithr' = [ithr EXCEPT ![t] = j]
    /\ pos' = [pos EXCEPT ![t] = b]

Typed ==
    /\ arg' \in Args
    /\ local' \in [Threads -> BOOLEAN] /\ visits' \in [Threads -> Nat]
    /\ mem' \in {"none", "live", "null", "freed"}

(* The part and the block of a thread, written as updates that change      *)
(* nothing.                                                                *)
LEMMA Unmoved ==
  ASSUME DriverInv, NEW t \in Threads
  PROVE  /\ ithr = [ithr EXCEPT ![t] = ithr[t]] /\ pos = [pos EXCEPT ![t] = pos[t]]
         /\ ithr[t] \in 0 .. 2 * NthrMax /\ pos[t] \in [k : Nat, m : Nat]
         /\ ithr[t] \in Nat /\ pos[t].k \in Nat /\ pos[t].m \in Nat
         /\ pos[t] = [k |-> pos[t].k, m |-> pos[t].m]
<1>1. ithr \in [Threads -> 0 .. 2 * NthrMax] /\ pos \in [Threads -> [k : Nat, m : Nat]]
  BY DEF DriverInv, TypeOK, PlaceInv
<1>2. ithr[t] \in 0 .. 2 * NthrMax /\ pos[t] \in [k : Nat, m : Nat]
  BY <1>1
<1>3. ithr[t] \in Nat /\ pos[t].k \in Nat /\ pos[t].m \in Nat
  BY <1>2, Consts, SMTT(30)
<1>4. pos[t] = [k |-> pos[t].k, m |-> pos[t].m]
  BY <1>2, SMTT(30)
<1>5. QED
  BY <1>1, <1>2, <1>3, <1>4

(* A thread of the section that has a part. *)
LEMMA ThreadFacts ==
  ASSUME DriverInv, NEW t \in Threads, pc[t] \notin {"out", "whole", "sum"}
  PROVE  /\ at = "section" /\ at # "start" /\ at \in After /\ info # NoInfo /\ Placed(t)
         /\ t \in Nat /\ t < nthr /\ t \in Team /\ ithr[t] % nthr = t
         /\ Legal(info, prob) /\ NthrEff = Nthrs(info) /\ nthr \in Nat \ {0} /\ nthr \in 1 .. NthrMax
         /\ pc[t] # "loop" => ithr[t] < Nthrs(info) /\ ithr[t] \in Threads
                              /\ ithr[t] \in 0 .. Nthrs(info) - 1
<1>1. /\ at = "section" /\ at # "start" /\ at \in After /\ info # NoInfo /\ Placed(t)
  BY ThreadAt
<1>2. /\ Legal(info, prob) /\ NthrEff = Nthrs(info) /\ nthr \in Nat \ {0} /\ nthr \in 1 .. NthrMax
      /\ Nthrs(info) \in Nat /\ nthr \in Nat /\ Nthrs(info) \in 1 .. NthrMax
  BY <1>1, SectionFacts
<1>3. t \in Nat /\ (t < nthr \/ t >= nthr)
  BY <1>2, Consts, SMTT(30) DEF Threads
<1>4. t < nthr
  BY <1>1, <1>3 DEF Placed, PlacedAt
<1>5. t \in Team
  BY <1>2, <1>3, <1>4, SMTT(30) DEF Team
<1>6. ithr[t] % nthr = t /\ (pc[t] # "loop" => ithr[t] < Nthrs(info))
  BY <1>1, <1>4 DEF Placed, PlacedAt
<1>7. pc[t] # "loop" => ithr[t] \in Threads /\ ithr[t] \in 0 .. Nthrs(info) - 1
  <2> DEFINE N == Nthrs(info)
             j == ithr[t]
  <2>1. N \in 1 .. NthrMax /\ j \in Nat /\ (pc[t] # "loop" => j < N)
    BY <1>2, <1>6, Unmoved
  <2> HIDE DEF N, j
  <2>2. j < N => j \in Threads /\ j \in 0 .. N - 1
    BY <2>1, Consts, SMTT(30) DEF Threads
  <2>3. QED
    BY <2>1, <2>2 DEF N, j
<1>8. QED
  BY <1>1, <1>2, <1>3, <1>4, <1>5, <1>6, <1>7

(* Where the copy of A is shared, a part has all rows and all of k. *)
LEMMA PartCol ==
  ASSUME DriverInv, at \in After, info.copy = "shared_a", NEW i \in 0 .. Nthrs(info) - 1
  PROVE  /\ slice[i].off_m = 0 /\ slice[i].m = prob.m /\ slice[i].off_k = 0 /\ slice[i].k = prob.k
         /\ slice[i].ithr_k = 0
         /\ Rows(slice[i]) = 0 .. prob.m - 1
<1>1. info # NoInfo
  BY NoInfoFacts
<1>2. slice[i] = SliceOf(info, i, prob) /\ Legal(info, prob)
  BY <1>1, PartSlice, SectionFacts
<1>3. info.partition = "col_1d"
  BY <1>2 DEF Legal
<1>4. /\ SliceOf(info, i, prob).off_m = 0 /\ SliceOf(info, i, prob).m = prob.m
      /\ WholeK(SliceOf(info, i, prob), prob) /\ Rows(SliceOf(info, i, prob)) = 0 .. prob.m - 1
  BY <1>2, <1>3, PlanSizes, SliceCol DEF DriverInv
<1>5. QED
  BY <1>2, <1>4 DEF WholeK

(* The block of a thread and the one after it. *)
LEMMA BlockFacts ==
  ASSUME DriverInv, NEW t \in Threads, pc[t] \in Blocked
  PROVE  /\ slice[ithr[t]].off_m = 0 /\ slice[ithr[t]].m = prob.m
         /\ slice[ithr[t]].off_k = 0 /\ slice[ithr[t]].k = prob.k
         /\ pos[t].k \in Nat /\ pos[t].k < prob.k /\ pos[t].m \in Nat /\ pos[t].m < prob.m
         /\ SizeM(t) \in 1 .. MPadd /\ pos[t].m + SizeM(t) <= prob.m
         /\ SizeK(t) \in 1 .. KPadd /\ pos[t].k + SizeK(t) <= prob.k
         /\ NextBlock(t) = IF pos[t].m + SizeM(t) < prob.m
                           THEN [k |-> pos[t].k, m |-> pos[t].m + SizeM(t)]
                           ELSE [k |-> pos[t].k + SizeK(t), m |-> 0]
         /\ NextBlock(t) \in [k : Nat, m : Nat] /\ NextBlock(t).m < prob.m
         /\ NextBlock(t).k < prob.k \/ NextBlock(t) = End
         /\ NextBlock(t) = End => ~(NextBlock(t).k < prob.k)
<1>1. /\ at \in After /\ ithr[t] \in 0 .. Nthrs(info) - 1 /\ Placed(t)
  BY ThreadFacts DEF Blocked
<1>2. info.copy = "shared_a" /\ pos[t].k < prob.k /\ pos[t].m < prob.m
  BY <1>1 DEF Placed, PlacedAt, Blocked, CopyPlaces
<1>3. /\ slice[ithr[t]].off_m = 0 /\ slice[ithr[t]].m = prob.m
      /\ slice[ithr[t]].off_k = 0 /\ slice[ithr[t]].k = prob.k
  BY <1>1, <1>2, PartCol
<1>4. /\ pos[t].k \in Nat /\ pos[t].m \in Nat /\ pos[t] = [k |-> pos[t].k, m |-> pos[t].m]
      /\ prob.m \in Nat /\ prob.k \in Nat /\ 0 < prob.m
      /\ pos[t] \in [k : Nat, m : Nat]
  <2>1. prob.m \in Positive /\ prob.k \in Positive
    BY PlanSizes DEF DriverInv
  <2>2. QED
    BY <2>1, Unmoved, SMTT(30) DEF Positive
<1> DEFINE a == pos[t].k
           b == pos[t].m
           m == prob.m
           k == prob.k
           sm == SizeM(t)
           sk == SizeK(t)
<1>5. sm = Smaller(m - b, MPadd) /\ sk = Smaller(k - a, KPadd)
  BY <1>3 DEF SizeM, SizeK
<1>6. NextBlock(t) = IF b + sm < m THEN [pos[t] EXCEPT !.m = b + sm] ELSE [k |-> a + sk, m |-> 0]
  BY <1>3 DEF NextBlock
<1>7. [pos[t] EXCEPT !.m = b + sm] = [k |-> a, m |-> b + sm]
  <2> DEFINE p == pos[t]
             x == b + sm
  <2>1. p \in [k : Nat, m : Nat] /\ p.k = a
    BY <1>4
  <2> HIDE DEF p, x, a
  <2>2. [p EXCEPT !.m = x] = [k |-> a, m |-> x]
    BY <2>1, SMTT(30)
  <2>3. QED
    BY <2>2 DEF p, x
<1>8. a \in Nat /\ b \in Nat /\ m \in Nat /\ k \in Nat /\ a < k /\ b < m /\ 0 < m
  BY <1>2, <1>4
<1> HIDE DEF a, b, m, k, sm, sk
<1>9. sm \in 1 .. MPadd /\ b + sm <= m /\ sk \in 1 .. KPadd /\ a + sk <= k /\ a + sk \in Nat /\ b + sm \in Nat
  BY <1>5, <1>8, Consts, SMTT(30) DEF Smaller, Positive
<1>10. NextBlock(t) = IF b + sm < m THEN [k |-> a, m |-> b + sm] ELSE [k |-> a + sk, m |-> 0]
  BY <1>6, <1>7
<1>11. /\ NextBlock(t) \in [k : Nat, m : Nat] /\ NextBlock(t).m < m
       /\ NextBlock(t).k < k \/ NextBlock(t) = [k |-> k, m |-> 0]
       /\ NextBlock(t) = [k |-> k, m |-> 0] => NextBlock(t).k = k
  <2> DEFINE x == b + sm
             y == a + sk
  <2>1. x \in Nat /\ y \in Nat /\ (y < k \/ y = k)
    BY <1>8, <1>9, SMTT(30)
  <2>2. NextBlock(t) = IF x < m THEN [k |-> a, m |-> x] ELSE [k |-> y, m |-> 0]
    BY <1>10
  <2> HIDE DEF x, y
  <2> DEFINE nb == NextBlock(t)
  <2>3. nb = IF x < m THEN [k |-> a, m |-> x] ELSE [k |-> y, m |-> 0]
    BY <2>2
  <2> HIDE DEF nb
  <2>4. /\ nb \in [k : Nat, m : Nat] /\ nb.m < m
        /\ nb.k < k \/ nb = [k |-> k, m |-> 0]
        /\ nb = [k |-> k, m |-> 0] => nb.k = k
    BY <1>8, <2>1, <2>3, SMTT(30)
  <2>5. QED
    BY <2>4 DEF nb
<1>12. ~(k < k)
  BY <1>8, SMTT(30)
<1>13. End = [k |-> k, m |-> 0]
  BY DEF End, k
<1>14. QED
  BY <1>3, <1>8, <1>9, <1>10, <1>11, <1>12, <1>13 DEF a, b, m, k, sm, sk

-----------------------------------------------------------------------------
(* ithr += nthr *)
LEMMA NextPart ==
  ASSUME NEW j \in Nat, NEW n \in Nat \ {0}
  PROVE  (j + n) % n = j % n
<1> DEFINE q == j \div n
           r == j % n
<1>1. q \in Nat /\ r \in 0 .. n - 1 /\ j = q * n + r
  BY ModFacts
<1> HIDE DEF q, r
<1>2. q + 1 \in Nat
  BY <1>1, SMTT(30)
<1>3. ((q + 1) * n + r) % n = r
  BY <1>1, <1>2, DivModPlace
<1>4. (q + 1) * n + r = j + n
  <2>1. (q + 1) * n = q * n + n /\ q * n \in Nat
    BY <1>1, SMTT(30)
  <2> DEFINE w == q * n
             v == (q + 1) * n
  <2>2. v = w + n /\ w \in Nat /\ j = w + r
    BY <1>1, <2>1
  <2> HIDE DEF w, v
  <2>3. v + r = j + n
    BY <1>1, <2>2, SMTT(30)
  <2>4. QED
    BY <2>3 DEF v
<1>5. QED
  BY <1>3, <1>4 DEF r

(* A thread that has done its part takes the next one. *)
LEMMA PartDone ==
  ASSUME DriverInv, NEW t \in Threads, at \in After, info # NoInfo, ithr[t] < Nthrs(info),
         ithr[t] % nthr = t
  PROVE  /\ ithr[t] + nthr \in 0 .. 2 * NthrMax /\ (ithr[t] + nthr) % nthr = t
         /\ ithr[t] + nthr > ithr[t] /\ ithr[t] + nthr \in Nat
<1> DEFINE N == Nthrs(info)
           j == ithr[t]
<1>1. /\ nthr \in Nat \ {0} /\ nthr \in 1 .. NthrMax /\ N \in 1 .. NthrMax /\ j \in Nat /\ j < N
  BY SectionFacts, Unmoved
<1>2. (j + nthr) % nthr = j % nthr
  BY <1>1, NextPart
<1> HIDE DEF N, j
<1>3. j + nthr \in 0 .. 2 * NthrMax /\ j + nthr > j /\ j + nthr \in Nat
  BY <1>1, Consts, SMTT(30)
<1>4. QED
  BY <1>2, <1>3 DEF j

(* Where a thread that sums is. *)
LEMMA SumFacts ==
  ASSUME DriverInv, NEW t \in Threads, pc[t] = "sum"
  PROVE  /\ at \in {"section", "sum_section"} /\ at # "start" /\ at \in After /\ info # NoInfo
         /\ k_summing /\ info = forced /\ prob.goal = Nthrs(info) /\ Legal(info, prob)
         /\ info.copy = "nonshared" /\ info.partition = "mnk_3d"
         /\ t \in Nat /\ t < nthr /\ ithr[t] % nthr = t
         /\ ithr[t] < Nthrs(info) /\ ithr[t] \in 0 .. Nthrs(info) - 1 /\ ithr[t] \in Threads
         /\ nthr \in Nat \ {0} /\ nthr \in 1 .. NthrMax
         /\ pos[t].k \in Nat /\ pos[t].k < forced.nthrs_k - 1 /\ pos[t].m = 0
         /\ forced.nthrs_k \in Nat /\ forced.nthrs_k > 1
         /\ at = "section" => Sums /\ Placed(t)
<1>1. /\ at \in {"section", "sum_section"} /\ at # "start" /\ at \in After /\ info # NoInfo
      /\ at = "section" => Placed(t)
  BY ThreadAt
<1>2. at = "section" => Sums
  BY <1>1 DEF Placed, PlacedAt
<1>3. k_summing
  BY <1>1, <1>2 DEF DriverInv, SliceInv, Sums
<1>4. /\ info = forced /\ prob.goal = Nthrs(info) /\ Legal(info, prob) /\ info.partition = "mnk_3d"
      /\ nthr \in Nat \ {0} /\ nthr \in 1 .. NthrMax /\ nthr \in Nat /\ Nthrs(info) \in 1 .. NthrMax
  BY <1>1, <1>3, SectionFacts
<1>5. info.copy = "nonshared"
  <2>1. info.copy \in {"nonshared", "shared_a"} /\ (info.copy = "shared_a" => info.partition = "col_1d")
    BY <1>4, SMTT(30) DEF Legal
  <2>2. QED
    BY <1>4, <2>1
<1>6. t \in Nat /\ (t < nthr \/ t >= nthr)
  BY <1>4, Consts, SMTT(30) DEF Threads
<1>7. t < nthr
  BY <1>1, <1>6 DEF Placed, PlacedAt, DriverInv, PlaceInv
<1>8. ithr[t] % nthr = t /\ ithr[t] < Nthrs(info)
  BY <1>1, <1>4, <1>7 DEF Placed, PlacedAt, DriverInv, PlaceInv
<1>9. ithr[t] \in 0 .. Nthrs(info) - 1 /\ ithr[t] \in Threads
  <2> DEFINE N == Nthrs(info)
             j == ithr[t]
  <2>1. N \in 1 .. NthrMax /\ j \in Nat /\ j < N
    BY <1>4, <1>8, Unmoved
  <2> HIDE DEF N, j
  <2>2. j \in Threads /\ j \in 0 .. N - 1
    BY <2>1, Consts, SMTT(30) DEF Threads
  <2>3. QED
    BY <2>2 DEF N, j
<1>10. pos[t].k \in Nat /\ pos[t].k < forced.nthrs_k - 1 /\ pos[t].m = 0
  BY Unmoved DEF DriverInv, PlaceInv
<1>11. forced.nthrs_k \in Nat /\ forced.nthrs_k > 1
  BY <1>3, <1>4, LegalFacts DEF Positive, k_summing
<1>12. QED
  BY <1>1, <1>2, <1>3, <1>4, <1>5, <1>6, <1>7, <1>8, <1>9, <1>10, <1>11

-----------------------------------------------------------------------------
(* The shared copy of A, for each step of a thread. *)

(* A step of thread t alone. *)
StepOf(t) ==
    /\ UNCHANGED <<section, at>> /\ Others(t)
    /\ \A u \in Threads : u # t => visits'[u] = visits[u]

(* A step of thread t alone that does not come to a barrier. *)
LEMMA StepAlone ==
  ASSUME DriverInv, NEW t \in Threads, UNCHANGED <<section, at>>,
         \E place : pc' = [pc EXCEPT ![t] = place],
         ithr' = ithr \/ \E j : ithr' = [ithr EXCEPT ![t] = j],
         pos' = pos \/ \E b : pos' = [pos EXCEPT ![t] = b],
         visits' = visits \/ visits' = [visits EXCEPT ![t] = @ + 1]
  PROVE  StepOf(t)
BY DEF StepOf, Others, DriverInv, TypeOK, PlaceInv

(* A thread at one of the places of the copy. *)
LEMMA CopyFacts ==
  ASSUME DriverInv, NEW t \in Threads, pc[t] \in CopyPlaces \/ (pc[t] = "gemm" /\ ~packedA)
  PROVE  /\ Sharing /\ t \in Team /\ ithr[t] = t /\ ~Over(t) /\ at # "start"
         /\ Steady(t) /\ visits[t] \in Nat
         /\ pc[t] \in Blocked => mem # "null"
<1>1. pc[t] \notin {"out", "whole", "sum", "loop", "dispatched"}
  BY DEF CopyPlaces
<1>2. at = "section" /\ Placed(t) /\ t \in Team /\ at # "start"
  BY <1>1, ThreadFacts
<1>3. Sharing
  BY <1>2 DEF Placed, PlacedAt, Sharing
<1>4. ithr[t] = t
  BY <1>1, <1>2, <1>3, SharingThread
<1>5. ~Over(t)
  BY <1>1, <1>4 DEF Over
<1>6. Steady(t) /\ (pc[t] \in Blocked => mem # "null")
  BY <1>2, <1>3 DEF DriverInv, ShareInv, MemInv
<1>7. visits[t] \in Nat
  BY DEF DriverInv, TypeOK
<1>8. QED
  BY <1>2, <1>3, <1>4, <1>5, <1>6, <1>7

-----------------------------------------------------------------------------
(* The steps that come to a barrier. *)

(* A thread at a barrier that the others have come to: they are there or   *)
(* one barrier ahead.                                                      *)
LEMMA AtBarrier ==
  ASSUME DriverInv, Sharing, mem # "null", NEW t \in Team, Met(t), visits[t] # 0, NEW u \in Team, u # t
  PROVE  /\ visits[t] \in Nat /\ visits[u] \in Nat
         /\ visits[u] = visits[t] \/ visits[u] = visits[t] + 1
         /\ visits[u] = visits[t] => (Even(u) <=> Even(t)) /\ Ahead(u) = Ahead(t)
         /\ visits[u] = visits[t] + 1 =>
              \/ Even(u) /\ ~Even(t) /\ pos[u] = Ahead(t)
              \/ pc[u] = "computed" /\ Even(t) /\ pos[u] = pos[t]
         /\ Even(u) \/ pc[u] = "computed" =>
              /\ ithr[u] = u /\ ~Over(u)
              /\ Even(u) => pc[u] # "computed" /\ Ahead(u) = pos[u]
              /\ pc[u] = "computed" => Ahead(u) = NextBlock(u)
<1>1. InStep(u, t)
  BY DEF DriverInv, ShareInv
<1>2. visits[t] \in Nat /\ visits[u] \in Nat
  BY SharingFacts DEF DriverInv, TypeOK
<1>3. visits[u] >= visits[t]
  BY DEF Met
<1>4. visits[u] <= visits[t] + 1
  BY <1>1 DEF InStep
<1>5. visits[u] = visits[t] \/ visits[u] = visits[t] + 1
  BY <1>2, <1>3, <1>4, SMTT(30)
<1>6. visits[u] = visits[t] => (Even(u) <=> Even(t)) /\ Ahead(u) = Ahead(t)
  BY <1>1 DEF InStep
<1>7. visits[u] = visits[t] + 1 =>
              \/ Even(u) /\ ~Even(t) /\ pos[u] = Ahead(t)
              \/ pc[u] = "computed" /\ Even(t) /\ pos[u] = pos[t]
  BY <1>1 DEF InStep
<1>8. ASSUME Even(u) \/ pc[u] = "computed"
      PROVE  /\ ithr[u] = u /\ ~Over(u)
             /\ Even(u) => pc[u] # "computed" /\ Ahead(u) = pos[u]
             /\ pc[u] = "computed" => Ahead(u) = NextBlock(u)
  <2>1. pc[u] \in {"copied", "gemm", "computed"}
    BY <1>8 DEF Even
  <2>2. ithr[u] = u
    BY <2>1, SharingThread
  <2>3. ~Over(u)
    BY <2>1, <2>2 DEF Over
  <2>4. QED
    BY <2>2, <2>3 DEF Ahead, Even
<1>9. QED
  BY <1>2, <1>5, <1>6, <1>7, <1>8

(* The invariant is inductive. *)
THEOREM DriverInductive ==
  Spec => []DriverInv
(* The decomposition that is forced is legal. *)
<1>StartStep.
    ASSUME DriverInv, Start
    PROVE  DriverInv'
  <2> USE <1>StartStep
  <2>1. /\ PlanInv' /\ SliceInv' /\ prob'.goal \in 1 .. NthrMax
        /\ prob'.m = prob.m /\ prob'.n = prob.n /\ prob'.k = prob.k
    BY StartPlan
  <2>2. /\ at = "start" /\ at' \in {"alone", "alloc"}
        /\ UNCHANGED <<nthr, info, slice, arg, local, pc, ithr, pos, shared, C, heap, ret>>
    BY DEF Start
  <2>3. TypeOK'
    <3>1. \A t \in Threads : Inside(slice[t])'
      BY <2>1, <2>2 DEF DriverInv, TypeOK, Inside
    <3>2. QED
      BY <2>1, <2>2, <3>1 DEF DriverInv, TypeOK, shared
  <2>4. Pristine /\ \A t \in Threads : pc[t] = "out" /\ pos[t] = NoBlock
    BY <2>2 DEF DriverInv, PlaceInv, Before, NoBlockPlaces
  <2>5. PlaceInv'
    <3>1. pos' \in [Threads -> [k : Nat, m : Nat]]
      BY <2>2 DEF DriverInv, PlaceInv
    <3>2. Pristine'
      BY <2>2, <2>4 DEF Pristine, shared
    <3>3. QED
      BY <2>2, <2>4, <3>1, <3>2 DEF PlaceInv
  <2>6. ShareInv'
    BY <2>2, <2>4 DEF DriverInv, ShareInv, Sharing, Pristine, shared
  <2>7. QED
    BY <2>1, <2>3, <2>5, <2>6 DEF DriverInv
(* One thread computes without a parallel section. *)
<1>AloneStep.
    ASSUME DriverInv, Alone
    PROVE  DriverInv'
  <2> USE <1>AloneStep
  <2>1. /\ at = "alone" /\ at' = "returned" /\ ret' \in {"none", "success", "out_of_memory"}
        /\ UNCHANGED <<plan, nthr, info, slice, arg, local, pc, ithr, pos, shared, heap>>
    BY DEF Alone
  <2>2. PlanInv'
    BY <2>1, PlanFrame DEF DriverInv
  <2>3. TypeOK'
    <3>1. \A t \in Threads : Inside(slice[t])'
      BY <2>1 DEF DriverInv, TypeOK, Inside, plan
    <3>2. QED
      BY <2>1, <3>1 DEF DriverInv, TypeOK, shared, plan
  <2>4. SliceInv'
    BY <2>1 DEF DriverInv, SliceInv, Before, After
  <2>5. Pristine /\ \A t \in Threads : pc[t] = "out" /\ pos[t] = NoBlock
    BY <2>1 DEF DriverInv, PlaceInv, Before, NoBlockPlaces
  <2>6. PlaceInv'
    <3>1. pos' \in [Threads -> [k : Nat, m : Nat]]
      BY <2>1 DEF DriverInv, PlaceInv
    <3>2. QED
      BY <2>1, <2>5, <3>1 DEF PlaceInv, Before
  <2>7. ShareInv'
    BY <2>1, <2>5 DEF DriverInv, ShareInv, Sharing, Pristine, shared
  <2>8. QED
    BY <2>2, <2>3, <2>4, <2>6, <2>7 DEF DriverInv
(* The thread_arg array is allocated, or the driver gives up. *)
<1>AllocArgsStep.
    ASSUME DriverInv, AllocArgs
    PROVE  DriverInv'
  <2> USE <1>AllocArgsStep
  <2>1. /\ at = "alloc" /\ at' \in {"returned", "alloc_c", "spawn"}
        /\ ret' \in {"none", "success", "out_of_memory"}
        /\ at' # "returned" => ret' = ret
        /\ heap' \subseteq {"thread_arg", "c_local"}
        /\ at' = "returned" => heap' = heap /\ slice' = slice
        /\ UNCHANGED <<plan, nthr, info, arg, local, pc, ithr, pos, shared, C>>
    BY DEF AllocArgs, DriverInv, TypeOK, Return
  <2>2. PlanInv' /\ PlanInv
    BY <2>1, PlanFrame DEF DriverInv
  <2>3. /\ info = NoInfo /\ Unsliced /\ heap = {} /\ prob.goal > 1
    BY <2>1 DEF DriverInv, SliceInv, Before
  <2>4. IF at' # "returned" /\ ForceThreading THEN Sliced(forced)' ELSE Unsliced'
    <3>1. CASE at' = "returned"
      BY <2>1, <2>3, <3>1 DEF Unsliced
    <3>2. CASE at' # "returned"
      <4>1. slice' = [t \in Threads |->
                          IF ForceThreading /\ t < prob.goal
                          THEN GetThreadSlice(forced, t, prob.m, prob.n, prob.k) ELSE NoSlice]
        BY <3>2 DEF AllocArgs, Return
      <4>2. CASE ForceThreading
        <5>1. prob.goal = Nthrs(forced)
          BY <2>2, <4>2 DEF PlanInv
        <5>2. QED
          BY <2>1, <3>2, <4>1, <4>2, <5>1 DEF Sliced, plan
      <4>3. CASE ~ForceThreading
        BY <4>1, <4>3 DEF Unsliced
      <4>4. QED
        BY <4>2, <4>3
    <3>3. QED
      BY <3>1, <3>2
  <2>5. \A t \in Threads : Inside(slice'[t])
    <3> SUFFICES ASSUME NEW t \in Threads PROVE Inside(slice'[t])
      OBVIOUS
    <3>1. CASE at' # "returned" /\ ForceThreading
      <4>1. Legal(forced, prob)
        BY <2>2, <3>1 DEF PlanInv
      <4>2. slice'[t] = IF t < Nthrs(forced) THEN GetThreadSlice(forced, t, prob.m, prob.n, prob.k)
                        ELSE NoSlice
        BY <2>1, <2>4, <3>1 DEF Sliced, plan
      <4>3. QED
        BY <2>2, <4>1, <4>2, SlicedInside
    <3>2. CASE ~(at' # "returned" /\ ForceThreading)
      <4>1. slice'[t] = NoSlice
        BY <2>4, <3>2 DEF Unsliced
      <4>2. QED
        BY <2>2, <4>1, NoSliceInside
    <3>3. QED
      BY <3>1, <3>2
  <2>6. TypeOK'
    <3>1. \A t \in Threads : Inside(slice[t])'
      BY <2>1, <2>5 DEF Inside, plan
    <3>2. QED
      BY <2>1, <3>1 DEF DriverInv, TypeOK, shared, plan
  <2>7. SliceInv'
    BY <2>1, <2>3, <2>4 DEF SliceInv, Before, After, plan, ForceThreading
  <2>8. Pristine /\ \A t \in Threads : pc[t] = "out" /\ pos[t] = NoBlock
    BY <2>1 DEF DriverInv, PlaceInv, Before, NoBlockPlaces
  <2>9. PlaceInv'
    <3>1. pos' \in [Threads -> [k : Nat, m : Nat]]
      BY <2>1 DEF DriverInv, PlaceInv
    <3>2. at' # "returned" => Pristine'
      BY <2>1, <2>8 DEF Pristine, shared
    <3>3. QED
      BY <2>1, <2>8, <3>1, <3>2 DEF PlaceInv, Before
  <2>10. ShareInv'
    BY <2>1, <2>8 DEF DriverInv, ShareInv, Sharing, Pristine, shared
  <2>11. QED
    BY <2>2, <2>6, <2>7, <2>9, <2>10 DEF DriverInv
(* The matrices of the partial sums are allocated, or the driver gives up. *)
<1>AllocLocalStep.
    ASSUME DriverInv, AllocLocal
    PROVE  DriverInv'
  <2> USE <1>AllocLocalStep
  <2>1. /\ at = "alloc_c" /\ at' \in {"returned", "spawn"}
        /\ ret' \in {"none", "success", "out_of_memory"}
        /\ at' # "returned" => ret' = ret
        /\ heap' \subseteq {"thread_arg", "c_local"}
        /\ at' = "returned" => heap' = {}
        /\ UNCHANGED <<plan, nthr, info, slice, arg, local, pc, ithr, pos, shared, C>>
    BY DEF AllocLocal, DriverInv, TypeOK, Return
  <2>2. PlanInv'
    BY <2>1, PlanFrame DEF DriverInv
  <2>3. TypeOK'
    <3>1. \A t \in Threads : Inside(slice[t])'
      BY <2>1 DEF DriverInv, TypeOK, Inside, plan
    <3>2. QED
      BY <2>1, <3>1 DEF DriverInv, TypeOK, shared, plan
  <2>4. SliceInv'
    BY <2>1 DEF DriverInv, SliceInv, Before, After, plan, ForceThreading, Sliced, Unsliced
  <2>5. Pristine /\ \A t \in Threads : pc[t] = "out" /\ pos[t] = NoBlock
    BY <2>1 DEF DriverInv, PlaceInv, Before, NoBlockPlaces
  <2>6. PlaceInv'
    <3>1. pos' \in [Threads -> [k : Nat, m : Nat]]
      BY <2>1 DEF DriverInv, PlaceInv
    <3>2. at' # "returned" => Pristine'
      BY <2>1, <2>5 DEF Pristine, shared
    <3>3. QED
      BY <2>1, <2>5, <3>1, <3>2 DEF PlaceInv, Before
  <2>7. ShareInv'
    BY <2>1, <2>5 DEF DriverInv, ShareInv, Sharing, Pristine, shared
  <2>8. QED
    BY <2>2, <2>3, <2>4, <2>6, <2>7 DEF DriverInv
(* The end of the first parallel section. *)
<1>JoinStep.
    ASSUME DriverInv, Join
    PROVE  DriverInv'
  <2> USE <1>JoinStep
  <2>1. /\ at = "section" /\ (\A t \in Threads : pc[t] = "out") /\ at' \in {"spawn_sum", "free"}
        /\ at' = "spawn_sum" => k_summing
        /\ ret' \in {"none", "success", "out_of_memory"}
        /\ UNCHANGED <<plan, nthr, info, slice, arg, local, pc, ithr, pos, shared, C, heap>>
    BY DEF Join, Joined
  <2>2. PlanInv'
    BY <2>1, PlanFrame DEF DriverInv
  <2>3. TypeOK'
    <3>1. \A t \in Threads : Inside(slice[t])'
      BY <2>1 DEF DriverInv, TypeOK, Inside, plan
    <3>2. QED
      BY <2>1, <3>1 DEF DriverInv, TypeOK, shared, plan
  <2>4. SliceInv'
    BY <2>1 DEF DriverInv, SliceInv, Before, After, plan, ForceThreading, Sliced, Unsliced, k_summing
  <2>5. PlaceInv'
    <3>1. pos' \in [Threads -> [k : Nat, m : Nat]]
      BY <2>1 DEF DriverInv, PlaceInv
    <3>2. \A t \in Threads : pos[t] = NoBlock
      BY <2>1 DEF DriverInv, PlaceInv, NoBlockPlaces
    <3>3. QED
      BY <2>1, <3>1, <3>2 DEF PlaceInv, Before
  <2>6. ShareInv'
    <3>1. mem # "live"
      <4>1. SUFFICES ASSUME mem = "live" PROVE FALSE
        OBVIOUS
      <4>2. Sharing
        BY <4>1 DEF DriverInv, ShareInv
      <4>3. ~Over(0)
        BY <4>1, <4>2 DEF DriverInv, ShareInv, MemInv
      <4>4. 0 \in Team /\ pc[0] = "out"
        BY <2>1, <4>2, SharingFacts
      <4>5. ithr[0] # 0
        BY <4>2, <4>4, SharingThread
      <4>6. QED
        BY <4>3, <4>5 DEF Over
    <3>2. QED
      BY <2>1, <3>1 DEF DriverInv, ShareInv, Sharing, shared
  <2>7. QED
    BY <2>2, <2>3, <2>4, <2>5, <2>6 DEF DriverInv
(* The end of the second parallel section. *)
<1>JoinSumStep.
    ASSUME DriverInv, JoinSum \/ Free
    PROVE  DriverInv'
  <2> USE <1>JoinSumStep
  <2>1. /\ at \in {"sum_section", "free"} /\ at' \in {"free", "returned"}
        /\ \A t \in Threads : pc[t] = "out"
        /\ heap' \subseteq {"thread_arg", "c_local"} /\ (at' = "returned" => heap' = {})
        /\ UNCHANGED <<plan, nthr, info, slice, arg, local, pc, ithr, pos, shared, C, ret>>
    BY DEF JoinSum, Free, Joined, DriverInv, TypeOK, PlaceInv
  <2>2. PlanInv'
    BY <2>1, PlanFrame DEF DriverInv
  <2>3. TypeOK'
    <3>1. \A t \in Threads : Inside(slice[t])'
      BY <2>1 DEF DriverInv, TypeOK, Inside, plan
    <3>2. QED
      BY <2>1, <3>1 DEF DriverInv, TypeOK, shared, plan
  <2>4. SliceInv'
    BY <2>1 DEF DriverInv, SliceInv, Before, After, plan, ForceThreading, Sliced, Unsliced, k_summing
  <2>5. PlaceInv'
    <3>1. pos' \in [Threads -> [k : Nat, m : Nat]]
      BY <2>1 DEF DriverInv, PlaceInv
    <3>2. \A t \in Threads : pos[t] = NoBlock
      BY <2>1 DEF DriverInv, PlaceInv, NoBlockPlaces
    <3>3. QED
      BY <2>1, <3>1, <3>2 DEF PlaceInv, Before
  <2>6. ShareInv'
    BY <2>1, OnlySharing DEF Sharing, shared
  <2>7. QED
    BY <2>2, <2>3, <2>4, <2>5, <2>6 DEF DriverInv
(* Every step of a thread keeps the invariant. *)
<1>ThreadStepInv.
    \A t \in Threads :
      /\ DriverInv
      /\ ThreadStep(t)
      => DriverInv'
  (* A step of a thread keeps the types if it keeps those of what it writes. *)
  <2>ThreadType.
      ASSUME DriverInv, UNCHANGED <<section, at>>,
             arg' \in Args,
             local' \in [Threads -> BOOLEAN], pc' \in [Threads -> Places],
             ithr' \in [Threads -> 0 .. 2 * NthrMax], visits' \in [Threads -> Nat],
             mem' \in {"none", "live", "null", "freed"}
      PROVE  TypeOK'
    <3> USE <2>ThreadType
    <3>1. UNCHANGED <<prob, nthr, slice, heap, ret>>
      BY DEF section, plan
    <3>2. \A t \in Threads : Inside(slice[t])'
      BY <3>1 DEF DriverInv, TypeOK, Inside
    <3>3. QED
      BY <3>1, <3>2 DEF DriverInv, TypeOK, Places, Args
  (* Where A is not shared, a thread leaves the buffer alone. *)
  <2>ThreadUnshared.
      ASSUME DriverInv, UNCHANGED <<section, at>>, at # "start", ~Sharing, mem' = mem, buf' = buf
      PROVE  ShareInv'
    <3> USE <2>ThreadUnshared
    <3>1. ~Sharing'
      BY ThreadFrame
    <3>2. QED
      BY <3>1 DEF DriverInv, ShareInv
  (* A result that is recorded. *)
  <2>ArgType.
      ASSUME DriverInv, NEW i \in Threads
      PROVE  /\ [arg EXCEPT ![i].result = "out_of_memory"] \in Args
             /\ [arg EXCEPT ![i].done = TRUE] \in Args
    <3> USE <2>ArgType
    <3>1. arg \in Args
      BY DEF DriverInv, TypeOK, Args
    <3> DEFINE Arg == [result : {"success", "out_of_memory"}, done : BOOLEAN]
               e == arg[i]
    <3>2. e \in Arg
      BY <3>1 DEF Args
    <3>3. [e EXCEPT !.result = "out_of_memory"] \in Arg /\ [e EXCEPT !.done = TRUE] \in Arg
      <4> HIDE DEF e
      <4>1. QED
        BY <3>2
    <3> HIDE DEF Arg
    <3>4. arg \in [Threads -> Arg]
      BY <3>1 DEF Arg, Args
    <3>5. QED
      BY <3>3, <3>4 DEF Arg, Args
  (* The step of the only thread of a section that computes everything. *)
  <2>WholeStepInv.
      ASSUME DriverInv, NEW t \in Threads, WholeStep(t)
      PROVE  DriverInv'
    <3> USE <2>WholeStepInv
    <3>1. /\ pc[t] = "whole" /\ pc' = [pc EXCEPT ![t] = "out"]
          /\ UNCHANGED <<section, at, local, ithr, pos, shared>>
      BY DEF WholeStep, Goto
    <3>2. at = "section" /\ info = NoInfo /\ at # "start"
      BY <3>1, ThreadAt
    <3>3. PlanInv' /\ SliceInv' /\ info' = info /\ at' = at /\ ret' = ret
      BY <3>1, <3>2, ThreadFrame
    <3>4. TypeOK'
      <4>1. arg' \in Args
        <5>1. arg' = arg \/ arg' = [arg EXCEPT ![0].result = "out_of_memory"]
          BY DEF WholeStep
        <5>2. 0 \in Threads /\ arg \in Args
          BY Consts DEF DriverInv, TypeOK, Args
        <5>3. QED
          BY <5>1, <5>2, <2>ArgType
      <4>2. pc' \in [Threads -> Places]
        BY <3>1 DEF DriverInv, TypeOK, Places
      <4>3. QED
        BY <3>1, <4>1, <4>2, <2>ThreadType DEF DriverInv, TypeOK, shared
    <3>5. PlaceInv'
      <4>1. \A u \in Threads : pc'[u] \in {"whole", "out"} /\ pos'[u] = pos[u] /\ pos[u] = NoBlock
        BY <3>1, <3>2 DEF DriverInv, PlaceInv, TypeOK, NoBlockPlaces
      <4>2. pos' \in [Threads -> [k : Nat, m : Nat]] /\ ret = "none"
        BY <3>1, <3>2 DEF DriverInv, PlaceInv
      <4>3. QED
        BY <3>2, <3>3, <4>1, <4>2 DEF PlaceInv, Before
    <3>6. ShareInv'
      BY <3>1, <3>2, NoInfoFacts, <2>ThreadUnshared DEF Sharing, shared
    <3>7. QED
      BY <3>3, <3>4, <3>5, <3>6 DEF DriverInv
  (* A thread that moves to a legal place keeps the types and the places. *)
  <2>ThreadCore.
      \A t \in Threads : \A place \in Places : \A j \in 0 .. 2 * NthrMax : \A b \in [k : Nat, m : Nat] :
        /\ DriverInv
        /\ UNCHANGED <<section, at>>
        /\ at = "section"
        /\ info # NoInfo
        /\ Typed
        /\ Moved(t, place, j, b)
        /\ PlacedAt(t, place, j, b)
        /\ (place \in NoBlockPlaces => b = NoBlock)
        /\ (place = "sum" => b.k < forced.nthrs_k - 1 /\ b.m = 0)
        => CoreInv'
    (* A step that moves one thread keeps the places if that thread goes to a  *)
    (* legal one.                                                              *)
    <3>ThreadPlace.
        ASSUME DriverInv, UNCHANGED <<section, at>>, at = "section", info # NoInfo, NEW t \in Threads,
               Others(t), pos' \in [Threads -> [k : Nat, m : Nat]], Placed(t)',
               pc'[t] \in NoBlockPlaces => pos'[t] = NoBlock,
               pc'[t] = "sum" => pos'[t].k < forced.nthrs_k - 1 /\ pos'[t].m = 0
        PROVE  PlaceInv'
      <4> USE <3>ThreadPlace
      <4>1. /\ UNCHANGED <<prob, forced, packedA, nthr, info, slice, heap, ret>> /\ (Sums' <=> Sums)
            /\ at' = "section"
        BY ThreadFrame
      <4>2. ASSUME NEW u \in Threads PROVE Placed(u)'
        <5>1. CASE u = t
          BY <5>1
        <5>2. CASE u # t
          <6>1. Placed(u) /\ pc'[u] = pc[u] /\ ithr'[u] = ithr[u] /\ pos'[u] = pos[u]
            BY <5>2 DEF DriverInv, PlaceInv, Others
          <6>2. QED
            BY <4>1, <6>1 DEF Placed, PlacedAt
        <5>3. QED
          BY <5>1, <5>2
      <4>3. ret = "none"
        BY DEF DriverInv, PlaceInv
      <4>4. ASSUME NEW u \in Threads
            PROVE  /\ pc'[u] \in NoBlockPlaces => pos'[u] = NoBlock
                   /\ pc'[u] = "sum" => pos'[u].k < forced'.nthrs_k - 1 /\ pos'[u].m = 0
        <5>1. CASE u = t
          BY <4>1, <5>1
        <5>2. CASE u # t
          <6>1. pc'[u] = pc[u] /\ pos'[u] = pos[u]
            BY <5>2 DEF Others
          <6>2. QED
            BY <4>1, <6>1 DEF DriverInv, PlaceInv
        <5>3. QED
          BY <5>1, <5>2
      <4>5. QED
        BY <4>1, <4>2, <4>3, <4>4 DEF PlaceInv, Before
    <3> SUFFICES
          ASSUME DriverInv, UNCHANGED <<section, at>>, at = "section", info # NoInfo, Typed,
                 NEW t \in Threads, NEW place \in Places, NEW j \in 0 .. 2 * NthrMax,
                 NEW b \in [k : Nat, m : Nat], Moved(t, place, j, b), PlacedAt(t, place, j, b),
                 place \in NoBlockPlaces => b = NoBlock,
                 place = "sum" => b.k < forced.nthrs_k - 1 /\ b.m = 0
          PROVE  CoreInv'
      OBVIOUS
    <3>1. /\ pc \in [Threads -> Places] /\ ithr \in [Threads -> 0 .. 2 * NthrMax]
          /\ pos \in [Threads -> [k : Nat, m : Nat]]
      BY DEF DriverInv, TypeOK, PlaceInv, Places
    <3>2. /\ pc' \in [Threads -> Places] /\ ithr' \in [Threads -> 0 .. 2 * NthrMax]
          /\ pos' \in [Threads -> [k : Nat, m : Nat]]
      BY <3>1 DEF Moved
    <3>3. pc'[t] = place /\ ithr'[t] = j /\ pos'[t] = b /\ Others(t)
      BY <3>1 DEF Moved, Others
    <3>4. /\ PlanInv' /\ SliceInv' /\ (Sums' <=> Sums)
          /\ UNCHANGED <<prob, forced, packedA, nthr, info, slice, heap, ret>>
      BY ThreadFrame
    <3>5. Placed(t)'
      <4>1. PlacedAt(t, place, j, b)'
        BY <3>4 DEF PlacedAt
      <4>2. QED
        BY <3>3, <4>1 DEF Placed
    <3>6. PlaceInv'
      BY <3>2, <3>3, <3>5, <3>ThreadPlace
    <3>7. TypeOK'
      BY <3>2, <2>ThreadType DEF Typed
    <3>8. QED
      BY <3>4, <3>6, <3>7 DEF CoreInv
  (* What a thread's step leaves alone keeps its type. *)
  <2>TypedFrame.
      ASSUME DriverInv, UNCHANGED local,
             \/ arg' = arg
             \/ \E i \in Threads : \/ arg' = [arg EXCEPT ![i].result = "out_of_memory"]
                                 \/ arg' = [arg EXCEPT ![i].done = TRUE],
             visits' = visits \/ \E u \in Threads : visits' = [visits EXCEPT ![u] = @ + 1],
             mem' \in {"none", "live", "null", "freed"}
      PROVE  Typed
    <3> USE <2>TypedFrame
    <3>1. /\ arg \in Args
          /\ local \in [Threads -> BOOLEAN] /\ visits \in [Threads -> Nat]
      BY DEF DriverInv, TypeOK, Args
    <3>2. visits' \in [Threads -> Nat]
      <4>1. ASSUME NEW u \in Threads PROVE [visits EXCEPT ![u] = @ + 1] \in [Threads -> Nat]
        <5>1. visits[u] + 1 \in Nat
          BY <3>1, SMTT(30)
        <5>2. QED
          BY <3>1, <5>1
      <4>2. QED
        BY <3>1, <4>1
    <3>3. arg' \in Args
      BY <3>1, <2>ArgType
    <3>4. QED
      BY <3>1, <3>2, <3>3 DEF Typed
  (* All but the shared copy, for each step of a thread. *)
  <2>LoopCore.
      ASSUME DriverInv, NEW t \in Threads, LoopStep(t)
      PROVE  CoreInv'
    <3> USE <2>LoopCore
    <3> DEFINE place == IF ithr[t] >= NthrEff THEN "out"
                        ELSE IF info.copy # "shared_a" THEN "kernel"
                        ELSE IF packedA THEN "gemm" ELSE "malloc"
    <3>1. /\ pc[t] = "loop" /\ pc' = [pc EXCEPT ![t] = place] /\ pos' = [pos EXCEPT ![t] = NoBlock]
          /\ UNCHANGED <<section, at, arg, local, ithr, shared, C>>
      BY DEF LoopStep, Goto
    <3>2. /\ at = "section" /\ info # NoInfo /\ t < nthr /\ ithr[t] % nthr = t /\ NthrEff = Nthrs(info)
          /\ t \in Nat /\ nthr \in Nat /\ Legal(info, prob)
      BY <3>1, ThreadFacts
    <3>3. ithr[t] \in Nat /\ ithr[t] \in 0 .. 2 * NthrMax
      BY Unmoved
    <3>4. NoBlock \in [k : Nat, m : Nat] /\ NoBlock.k = 0 /\ NoBlock.m = 0
      BY DEF NoBlock
    <3>5. NoBlock.k < prob.k /\ NoBlock.m < prob.m
      <4> HIDE DEF NoBlock
      <4>1. prob.m \in Positive /\ prob.k \in Positive
        BY PlanSizes DEF DriverInv
      <4>2. QED
        BY <3>4, <4>1, SMTT(30) DEF Positive
    <3>6. ~(t >= nthr) /\ (~(ithr[t] >= Nthrs(info)) => ithr[t] < Nthrs(info))
      <4> DEFINE N == Nthrs(info)
                 j == ithr[t]
      <4>1. N \in Nat /\ j \in Nat
        BY <3>2, <3>3, LegalFacts DEF Positive
      <4> HIDE DEF N, j
      <4>2. ~(t >= nthr) /\ (~(j >= N) => j < N)
        BY <3>2, <4>1, SMTT(30)
      <4>3. QED
        BY <4>2 DEF N, j
    <3>7. PlacedAt(t, place, ithr[t], NoBlock)
      BY <3>2, <3>5, <3>6 DEF PlacedAt, CopyPlaces, Blocked
    <3>8. Moved(t, place, ithr[t], NoBlock)
      BY <3>1, Unmoved DEF Moved
    <3>9. Typed
      BY <3>1, <2>TypedFrame DEF shared, DriverInv, TypeOK
    <3>10. place \in Places /\ place # "sum"
      BY DEF Places
    <3> HIDE DEF place
    <3>11. QED
      BY <3>1, <3>2, <3>3, <3>4, <3>7, <3>8, <3>9, <3>10, <2>ThreadCore
  (* The place moves on within the section, the part and the block stay. *)
  <2>MoveOn.
      ASSUME DriverInv, NEW t \in Threads, pc[t] \notin {"out", "whole", "sum", "loop"},
             UNCHANGED <<section, at, ithr, pos>>, Typed, NEW place \in Places,
             pc' = [pc EXCEPT ![t] = place], place \notin {"out", "whole", "loop", "kernel", "sum"},
             place = "gemm" => info.copy = "shared_a",
             place \in CopyPlaces => info.copy = "shared_a" /\ ~packedA,
             place \in Blocked => pos[t].k < prob.k /\ pos[t].m < prob.m,
             place \in NoBlockPlaces => pos[t] = NoBlock
      PROVE  CoreInv'
    <3> USE <2>MoveOn
    <3>1. /\ at = "section" /\ info # NoInfo /\ t < nthr /\ ithr[t] % nthr = t
          /\ t \in Nat /\ nthr \in Nat /\ ithr[t] < Nthrs(info)
      BY ThreadFacts
    <3>2. ~(t >= nthr)
      BY <3>1, SMTT(30)
    <3>3. PlacedAt(t, place, ithr[t], pos[t])
      BY <3>1, <3>2 DEF PlacedAt
    <3>4. Moved(t, place, ithr[t], pos[t]) /\ ithr[t] \in 0 .. 2 * NthrMax /\ pos[t] \in [k : Nat, m : Nat]
      BY Unmoved DEF Moved
    <3>5. QED
      BY <3>1, <3>3, <3>4, <2>ThreadCore
  (* gemm_kernel_driver keeps the types and the places. *)
  <2>KernelCore.
      ASSUME DriverInv, NEW t \in Threads, KernelStep(t)
      PROVE  CoreInv'
    <3> USE <2>KernelCore
    <3>1. /\ pc[t] = "kernel" /\ pc' = [pc EXCEPT ![t] = "dispatched"]
          /\ UNCHANGED <<section, at, ithr, pos, shared>>
          /\ arg' = arg \/ arg' = [arg EXCEPT ![ithr[t]].result = "out_of_memory"]
          /\ local' = local \/ local' = [local EXCEPT ![ithr[t]] = TRUE]
      BY DEF KernelStep, Goto, Fail
    <3>2. ithr[t] \in Threads
      BY <3>1, ThreadFacts
    <3>3. Typed
      <4>1. /\ local \in [Threads -> BOOLEAN] /\ visits \in [Threads -> Nat]
            /\ mem \in {"none", "live", "null", "freed"}
            /\ arg \in Args
        BY DEF DriverInv, TypeOK, Args
      <4>2. local' \in [Threads -> BOOLEAN]
        BY <3>1, <3>2, <4>1
      <4>3. arg' \in Args
        BY <3>1, <3>2, <4>1, <2>ArgType
      <4>4. QED
        BY <3>1, <4>1, <4>2, <4>3 DEF Typed, shared
    <3>4. QED
      BY <3>1, <3>3, <2>MoveOn DEF Places, CopyPlaces, Blocked, NoBlockPlaces
  (* The return of the kernel does. *)
  <2>DispatchedCore.
      ASSUME DriverInv, NEW t \in Threads, DispatchedStep(t)
      PROVE  CoreInv'
    <3> USE <2>DispatchedCore
    <3>1. /\ pc[t] = "dispatched" /\ pos' = [pos EXCEPT ![t] = NoBlock]
          /\ UNCHANGED <<section, at, local, shared, C>>
      BY DEF DispatchedStep
    <3>2. /\ at = "section" /\ at \in After /\ info # NoInfo /\ t < nthr /\ ithr[t] % nthr = t
          /\ t \in Nat /\ nthr \in Nat /\ ithr[t] < Nthrs(info) /\ NthrEff = Nthrs(info)
          /\ ithr[t] \in Threads
      BY <3>1, ThreadFacts
    <3>3. ~(t >= nthr)
      BY <3>2, SMTT(30)
    <3>4. NoBlock \in [k : Nat, m : Nat] /\ NoBlock.k = 0 /\ NoBlock.m = 0
      BY DEF NoBlock
    <3>5. ithr[t] \in 0 .. 2 * NthrMax
      BY Unmoved
    <3>6. CASE prob.sync /\ k_summing /\ nthr >= NthrEff
      <4>1. /\ arg' = [arg EXCEPT ![ithr[t]].done = TRUE] /\ ithr' = ithr
            /\ pc' = [pc EXCEPT ![t] = "sum"]
        BY <3>6 DEF DispatchedStep, Goto
      <4>2. Sums
        BY <3>2, <3>6 DEF Sums
      <4>3. PlacedAt(t, "sum", ithr[t], NoBlock)
        BY <3>2, <3>3, <4>2 DEF PlacedAt, CopyPlaces, Blocked
      <4>4. Moved(t, "sum", ithr[t], NoBlock)
        BY <3>1, <4>1, Unmoved DEF Moved
      <4>5. Typed
        BY <3>1, <3>2, <4>1, <2>TypedFrame DEF shared, DriverInv, TypeOK
      <4>6. NoBlock.k < forced.nthrs_k - 1 /\ NoBlock.m = 0
        <5>1. Legal(forced, prob) /\ forced.nthrs_k > 1
          BY <3>2, <3>6, SectionFacts DEF k_summing
        <5>2. forced.nthrs_k \in Nat
          BY <5>1, LegalFacts DEF Positive
        <5> HIDE DEF NoBlock
        <5>3. QED
          BY <3>4, <5>1, <5>2, SMTT(30)
      <4>7. "sum" \in Places /\ "sum" \notin NoBlockPlaces
        BY DEF Places, NoBlockPlaces
      <4>8. QED
        BY <3>1, <3>2, <3>4, <3>5, <4>3, <4>4, <4>5, <4>6, <4>7, <2>ThreadCore
    <3>7. CASE ~(prob.sync /\ k_summing /\ nthr >= NthrEff)
      <4>1. /\ arg' = arg /\ ithr' = [ithr EXCEPT ![t] = ithr[t] + nthr]
            /\ pc' = [pc EXCEPT ![t] = "loop"]
        BY <3>7 DEF DispatchedStep, Goto
      <4>2. ithr[t] + nthr \in 0 .. 2 * NthrMax /\ (ithr[t] + nthr) % nthr = t
        BY <3>2, PartDone
      <4>3. PlacedAt(t, "loop", ithr[t] + nthr, NoBlock)
        BY <3>2, <3>3, <4>2 DEF PlacedAt, CopyPlaces, Blocked
      <4>4. Moved(t, "loop", ithr[t] + nthr, NoBlock)
        BY <3>1, <4>1 DEF Moved
      <4>5. Typed
        BY <3>1, <4>1, <2>TypedFrame DEF shared, DriverInv, TypeOK
      <4>6. "loop" \in Places /\ "loop" # "sum"
        BY DEF Places
      <4>7. QED
        BY <3>1, <3>2, <3>4, <4>2, <4>3, <4>4, <4>5, <4>6, <2>ThreadCore
    <3>8. QED
      BY <3>6, <3>7
  (* The allocation of the shared buffer does. *)
  <2>MallocCore.
      ASSUME DriverInv, NEW t \in Threads, MallocStep(t)
      PROVE  CoreInv'
    <3> USE <2>MallocCore
    <3>1. /\ pc[t] = "malloc" /\ pc' = [pc EXCEPT ![t] = "malloced"]
          /\ UNCHANGED <<section, at, arg, local, ithr, pos, buf, C>>
          /\ visits' = [visits EXCEPT ![t] = @ + 1]
          /\ mem' = mem \/ mem' \in {"live", "null"}
      BY DEF MallocStep, Goto, Come
    <3>2. Typed
      BY <3>1, <2>TypedFrame DEF DriverInv, TypeOK
    <3>3. info.copy = "shared_a" /\ ~packedA /\ pos[t] = NoBlock
      <4>1. Placed(t)
        BY <3>1, ThreadFacts
      <4>2. QED
        BY <3>1, <4>1 DEF Placed, PlacedAt, CopyPlaces, DriverInv, PlaceInv, NoBlockPlaces
    <3>4. QED
      BY <3>1, <3>2, <3>3, <2>MoveOn DEF Places, CopyPlaces, Blocked, NoBlockPlaces
  (* The test of the shared buffer does. *)
  <2>MallocedCore.
      ASSUME DriverInv, NEW t \in Threads, MallocedStep(t)
      PROVE  CoreInv'
    <3> USE <2>MallocedCore
    <3>1. /\ pc[t] = "malloced"
          /\ UNCHANGED <<section, at, local, ithr, pos, shared, C>>
          /\ \/ arg' = [arg EXCEPT ![ithr[t]].result = "out_of_memory"] /\ pc' = [pc EXCEPT ![t] = "dispatched"]
             \/ arg' = arg /\ pc' = [pc EXCEPT ![t] = "copy"]
      BY DEF MallocedStep, Goto, Fail
    <3>2. ithr[t] \in Threads /\ Placed(t)
      BY <3>1, ThreadFacts
    <3>3. Typed
      BY <3>1, <3>2, <2>TypedFrame DEF shared, DriverInv, TypeOK
    <3>4. info.copy = "shared_a" /\ ~packedA /\ pos[t] = NoBlock
      BY <3>1, <3>2 DEF Placed, PlacedAt, CopyPlaces, DriverInv, PlaceInv, NoBlockPlaces
    <3>5. NoBlock.k < prob.k /\ NoBlock.m < prob.m
      <4>1. NoBlock.k = 0 /\ NoBlock.m = 0
        BY DEF NoBlock
      <4> HIDE DEF NoBlock
      <4>2. prob.m \in Positive /\ prob.k \in Positive
        BY PlanSizes DEF DriverInv
      <4>3. QED
        BY <4>1, <4>2, SMTT(30) DEF Positive
    <3>6. pos[t].k < prob.k /\ pos[t].m < prob.m
      BY <3>4, <3>5
    <3>7. CASE pc' = [pc EXCEPT ![t] = "dispatched"]
      BY <3>1, <3>3, <3>7, <2>MoveOn DEF Places, CopyPlaces, Blocked, NoBlockPlaces
    <3>8. CASE pc' = [pc EXCEPT ![t] = "copy"]
      BY <3>1, <3>3, <3>4, <3>6, <3>8, <2>MoveOn DEF Places, CopyPlaces, Blocked, NoBlockPlaces
    <3>9. QED
      BY <3>1, <3>7, <3>8
  (* The copy of a share of A does. *)
  <2>CopyCore.
      ASSUME DriverInv, NEW t \in Threads, CopyStep(t)
      PROVE  CoreInv'
    <3> USE <2>CopyCore
    <3>1. /\ pc[t] = "copy" /\ pc' = [pc EXCEPT ![t] = "copied"]
          /\ UNCHANGED <<section, at, arg, local, ithr, pos, mem, C>>
          /\ visits' = [visits EXCEPT ![t] = @ + 1]
      BY DEF CopyStep, Goto, Come
    <3>2. Typed
      BY <3>1, <2>TypedFrame DEF DriverInv, TypeOK
    <3>3. Placed(t)
      BY <3>1, ThreadFacts
    <3>4. info.copy = "shared_a" /\ ~packedA /\ pos[t].k < prob.k /\ pos[t].m < prob.m
      BY <3>1, <3>3 DEF Placed, PlacedAt, CopyPlaces, Blocked
    <3>5. QED
      BY <3>1, <3>2, <3>4, <2>MoveOn DEF Places, CopyPlaces, Blocked, NoBlockPlaces
  (* The barrier after the copy does. *)
  <2>CopiedCore.
      ASSUME DriverInv, NEW t \in Threads, CopiedStep(t)
      PROVE  CoreInv'
    <3> USE <2>CopiedCore
    <3>1. /\ pc[t] = "copied" /\ pc' = [pc EXCEPT ![t] = "gemm"]
          /\ UNCHANGED <<section, at, arg, local, ithr, pos, shared, C>>
      BY DEF CopiedStep, Goto
    <3>2. Typed
      BY <3>1, <2>TypedFrame DEF DriverInv, TypeOK, shared
    <3>3. Placed(t)
      BY <3>1, ThreadFacts
    <3>4. info.copy = "shared_a" /\ ~packedA /\ pos[t].k < prob.k /\ pos[t].m < prob.m
      BY <3>1, <3>3 DEF Placed, PlacedAt, CopyPlaces, Blocked
    <3>5. QED
      BY <3>1, <3>2, <3>4, <2>MoveOn DEF Places, CopyPlaces, Blocked, NoBlockPlaces
  (* A thread goes on to the next block, or has done its part. *)
  <2>NextCore.
      ASSUME DriverInv, NEW t \in Threads, pc[t] \in Blocked, NEW place \in Places,
             UNCHANGED <<section, at, ithr>>, Typed,
             pc' = [pc EXCEPT ![t] = IF NextBlock(t).k < slice[ithr[t]].k THEN place ELSE "dispatched"],
             pos' = [pos EXCEPT ![t] = NextBlock(t)],
             place \in {"gemm", "copy"}, place = "copy" => ~packedA
      PROVE  CoreInv'
    <3> USE <2>NextCore
    <3> DEFINE to == IF NextBlock(t).k < slice[ithr[t]].k THEN place ELSE "dispatched"
    <3>1. /\ at = "section" /\ info # NoInfo /\ t < nthr /\ ithr[t] % nthr = t
          /\ t \in Nat /\ nthr \in Nat /\ ithr[t] < Nthrs(info) /\ Placed(t)
      BY ThreadFacts DEF Blocked
    <3>2. ~(t >= nthr)
      BY <3>1, SMTT(30)
    <3>3. info.copy = "shared_a"
      BY <3>1 DEF Placed, PlacedAt, Blocked, CopyPlaces
    <3>4. /\ slice[ithr[t]].k = prob.k /\ NextBlock(t) \in [k : Nat, m : Nat]
          /\ NextBlock(t).m < prob.m
      BY BlockFacts
    <3>5. PlacedAt(t, to, ithr[t], NextBlock(t))
      BY <3>1, <3>2, <3>3, <3>4 DEF PlacedAt, CopyPlaces, Blocked
    <3>6. Moved(t, to, ithr[t], NextBlock(t)) /\ ithr[t] \in 0 .. 2 * NthrMax
      BY Unmoved DEF Moved
    <3>7. to \in Places /\ to \notin NoBlockPlaces /\ to # "sum"
      BY DEF Places, NoBlockPlaces
    <3> HIDE DEF to
    <3>8. QED
      BY <3>1, <3>4, <3>5, <3>6, <3>7, <2>ThreadCore
  (* The multiplication of a block does. *)
  <2>GemmCore.
      ASSUME DriverInv, NEW t \in Threads, GemmStep(t)
      PROVE  CoreInv'
    <3> USE <2>GemmCore
    <3>1. /\ pc[t] = "gemm" /\ UNCHANGED <<section, at, local, ithr, mem, buf>>
          /\ arg' = arg \/ arg' = [arg EXCEPT ![ithr[t]].result = "out_of_memory"]
      BY DEF GemmStep, Fail
    <3>2. ithr[t] \in Threads /\ Placed(t)
      BY <3>1, ThreadFacts
    <3>3. info.copy = "shared_a" /\ pos[t].k < prob.k /\ pos[t].m < prob.m
      BY <3>1, <3>2 DEF Placed, PlacedAt, Blocked
    <3>4. CASE packedA
      <4>1. /\ pos' = [pos EXCEPT ![t] = NextBlock(t)] /\ visits' = visits
            /\ pc' = [pc EXCEPT ![t] = IF NextBlock(t).k < slice[ithr[t]].k THEN "gemm" ELSE "dispatched"]
        BY <3>4 DEF GemmStep, Goto
      <4>2. Typed
        BY <3>1, <3>2, <4>1, <2>TypedFrame DEF DriverInv, TypeOK
      <4>3. "gemm" \in Places /\ "gemm" \in {"gemm", "copy"} /\ "gemm" # "copy" /\ pc[t] \in Blocked
        BY <3>1 DEF Places, Blocked
      <4>4. QED
        BY <3>1, <4>1, <4>2, <4>3, <2>NextCore
    <3>5. CASE ~packedA
      <4>1. /\ pos' = pos /\ visits' = [visits EXCEPT ![t] = @ + 1]
            /\ pc' = [pc EXCEPT ![t] = "computed"]
        BY <3>5 DEF GemmStep, Goto, Come
      <4>2. Typed
        BY <3>1, <3>2, <4>1, <2>TypedFrame DEF DriverInv, TypeOK
      <4>3. QED
        BY <3>1, <3>3, <3>5, <4>1, <4>2, <2>MoveOn DEF Places, CopyPlaces, Blocked, NoBlockPlaces
    <3>6. QED
      BY <3>4, <3>5
  (* The barrier after the multiplication does. *)
  <2>ComputedCore.
      ASSUME DriverInv, NEW t \in Threads, ComputedStep(t)
      PROVE  CoreInv'
    <3> USE <2>ComputedCore
    <3>1. /\ pc[t] = "computed" /\ UNCHANGED <<section, at, arg, local, ithr, buf, visits, C>>
          /\ pos' = [pos EXCEPT ![t] = NextBlock(t)]
          /\ pc' = [pc EXCEPT ![t] = IF NextBlock(t).k < slice[ithr[t]].k THEN "copy" ELSE "dispatched"]
          /\ mem' = mem \/ mem' = "freed"
      BY DEF ComputedStep, Goto
    <3>2. Typed
      BY <3>1, <2>TypedFrame DEF DriverInv, TypeOK
    <3>3. Placed(t)
      BY <3>1, ThreadFacts
    <3>4. ~packedA /\ "copy" \in Places /\ "copy" \in {"gemm", "copy"} /\ pc[t] \in Blocked
      BY <3>1, <3>3 DEF Placed, PlacedAt, CopyPlaces, Places, Blocked
    <3>5. QED
      BY <3>1, <3>2, <3>4, <2>NextCore
  (* A step of sum_k_blocks does. *)
  <2>SumCore.
      ASSUME DriverInv, NEW t \in Threads, SumStep(t)
      PROVE  CoreInv'
    <3> USE <2>SumCore
    <3> DEFINE i == ithr[t]
               n == pos[t].k
               last == Last(i, n)
               b == [k |-> IF last THEN 0 ELSE n + 1, m |-> 0]
               j == IF last THEN i + nthr ELSE i
               to == IF ~last THEN "sum"
                     ELSE IF at = "section" THEN "loop" ELSE IF j < prob.goal THEN "sum" ELSE "out"
    <3>1. pc[t] = "sum"
      BY DEF SumStep
    <3>2. /\ at \in {"section", "sum_section"} /\ at # "start" /\ at \in After /\ info # NoInfo
          /\ k_summing /\ info = forced /\ prob.goal = Nthrs(info)
          /\ t \in Nat /\ t < nthr /\ i % nthr = t
          /\ i < Nthrs(info) /\ nthr \in Nat \ {0} /\ nthr \in 1 .. NthrMax
          /\ n \in Nat /\ n < forced.nthrs_k - 1 /\ pos[t].m = 0
          /\ forced.nthrs_k \in Nat /\ forced.nthrs_k > 1
          /\ at = "section" => Sums /\ Placed(t)
      BY <3>1, SumFacts
    <3>3. UNCHANGED <<section, at, arg, local, shared>>
      BY DEF SumStep
    <3>4. i + nthr \in 0 .. 2 * NthrMax /\ (i + nthr) % nthr = t /\ i \in 0 .. 2 * NthrMax
      BY <3>2, PartDone, Unmoved
    <3>5. j \in 0 .. 2 * NthrMax /\ j % nthr = t
      BY <3>2, <3>4
    <3>6. pos' = [pos EXCEPT ![t] = b] /\ b \in [k : Nat, m : Nat] /\ (last => b = NoBlock)
          /\ (~last => b.k < forced.nthrs_k - 1) /\ b.m = 0 /\ (last => b.k < forced.nthrs_k - 1)
      <4> DEFINE x == IF last THEN 0 ELSE n + 1
                 e == pos[t]
      <4>1. pos' = [pos EXCEPT ![t].k = x]
        BY DEF SumStep
      <4>2. pos' = [pos EXCEPT ![t] = [e EXCEPT !.k = x]]
        BY <4>1
      <4>3. e \in [k : Nat, m : Nat] /\ e.m = 0
        BY <3>2, Unmoved
      <4>4. x \in Nat /\ x < forced.nthrs_k - 1 /\ (last => x = 0)
        <5>1. last <=> n + 1 = forced.nthrs_k - 1
          BY DEF Last
        <5> HIDE DEF n, last
        <5>2. QED
          BY <3>2, <5>1, SMTT(30)
      <4>5. b = [k |-> x, m |-> 0]
        OBVIOUS
      <4> HIDE DEF e, x, b
      <4>6. [e EXCEPT !.k = x] = [k |-> x, m |-> 0]
        BY <4>3, SMTT(30)
      <4>7. b \in [k : Nat, m : Nat] /\ b.k = x /\ b.m = 0
        BY <4>4, <4>5, SMTT(30)
      <4>8. QED
        BY <4>2, <4>4, <4>5, <4>6, <4>7 DEF NoBlock
    <3>7. pc' = [pc EXCEPT ![t] = to] /\ ithr' = [ithr EXCEPT ![t] = j]
      <4>1. CASE last
        <5>1. ithr' = [ithr EXCEPT ![t] = i + nthr]
          BY <4>1 DEF SumStep
        <5>2. ithr'[t] = j
          BY <4>1, <5>1 DEF DriverInv, TypeOK
        <5>3. pc' = [pc EXCEPT ![t] = IF at = "section" THEN "loop"
                                      ELSE IF ithr'[t] < prob.goal THEN "sum" ELSE "out"]
          BY <4>1 DEF SumStep, Goto
        <5> HIDE DEF last
        <5>4. QED
          BY <4>1, <5>1, <5>2, <5>3
      <4>2. CASE ~last
        <5>1. ithr' = ithr /\ pc' = pc
          BY <4>2 DEF SumStep
        <5>2. pc = [pc EXCEPT ![t] = "sum"] /\ ithr = [ithr EXCEPT ![t] = ithr[t]]
          BY <3>1, Unmoved DEF DriverInv, TypeOK
        <5> HIDE DEF last
        <5>3. QED
          BY <4>2, <5>1, <5>2
      <4>3. QED
        BY <4>1, <4>2
    <3>8. Typed
      BY <3>3, <2>TypedFrame DEF DriverInv, TypeOK, shared
    <3>9. ~(t >= nthr)
      BY <3>2, SMTT(30)
    <3> HIDE DEF last, b, j
    <3>10. CASE at = "section"
      <4>1. to = IF last THEN "loop" ELSE "sum"
        BY <3>10
      <4>2. PlacedAt(t, to, j, b)
        <5>1. ~last => j = i
          BY DEF j
        <5>2. QED
          BY <3>2, <3>5, <3>9, <3>10, <4>1, <5>1 DEF PlacedAt, CopyPlaces, Blocked
      <4>3. to \in Places /\ (to \in NoBlockPlaces => last)
        BY <4>1 DEF Places, NoBlockPlaces
      <4>4. Moved(t, to, j, b)
        BY <3>6, <3>7 DEF Moved
      <4> HIDE DEF to
      <4>5. QED
        BY <3>2, <3>3, <3>5, <3>6, <3>8, <3>10, <4>2, <4>3, <4>4, <2>ThreadCore
    <3>11. CASE at = "sum_section"
      <4>1. /\ PlanInv' /\ SliceInv' /\ at' = "sum_section"
            /\ UNCHANGED <<prob, forced, packedA, nthr, info, slice, heap, ret>>
        BY <3>2, <3>3, <3>11, ThreadFrame
      <4>2. /\ pc \in [Threads -> Places] /\ ithr \in [Threads -> 0 .. 2 * NthrMax]
            /\ pos \in [Threads -> [k : Nat, m : Nat]]
        BY DEF DriverInv, TypeOK, PlaceInv, Places
      <4>3. to \in Places /\ to = IF last THEN IF j < prob.goal THEN "sum" ELSE "out" ELSE "sum"
        BY <3>11 DEF Places
      <4>4. to \in {"sum", "out"} /\ (to = "sum" <=> j < prob.goal) /\ (to = "out" => last)
        <5>1. ~last => j = i
          BY DEF j
        <5>2. QED
          BY <3>2, <4>3, <5>1
      <4> HIDE DEF to
      <4>5. /\ pc' \in [Threads -> Places] /\ ithr' \in [Threads -> 0 .. 2 * NthrMax]
            /\ pos' \in [Threads -> [k : Nat, m : Nat]]
        BY <3>5, <3>6, <3>7, <4>2, <4>3
      <4>6. TypeOK'
        BY <3>3, <3>8, <4>5, <2>ThreadType DEF Typed
      <4>7. nthr <= prob.goal
        BY <3>11 DEF DriverInv, PlaceInv
      <4>8. ASSUME NEW u \in Threads
            PROVE  /\ pc'[u] \in {"sum", "out"}
                   /\ u >= nthr => pc'[u] = "out"
                   /\ u < nthr => ithr'[u] % nthr = u /\ (pc'[u] = "sum" <=> ithr'[u] < prob.goal)
                   /\ pc'[u] \in NoBlockPlaces => pos'[u] = NoBlock
                   /\ pc'[u] = "sum" => pos'[u].k < forced.nthrs_k - 1 /\ pos'[u].m = 0
        <5>1. CASE u = t
          <6>1. pc'[u] = to /\ ithr'[u] = j /\ pos'[u] = b
            BY <3>6, <3>7, <4>2, <5>1
          <6>2. QED
            BY <3>5, <3>6, <3>9, <4>4, <5>1, <6>1 DEF NoBlockPlaces
        <5>2. CASE u # t
          <6>1. pc'[u] = pc[u] /\ ithr'[u] = ithr[u] /\ pos'[u] = pos[u]
            BY <3>6, <3>7, <4>2, <5>2
          <6>2. QED
            BY <3>11, <6>1 DEF DriverInv, PlaceInv
        <5>3. QED
          BY <5>1, <5>2
      <4>9. PlaceInv'
        BY <4>1, <4>5, <4>7, <4>8 DEF PlaceInv, Before
      <4>10. QED
        BY <4>1, <4>6, <4>9 DEF CoreInv
    <3>12. QED
      BY <3>2, <3>10, <3>11
  (* Nothing changes for another thread. *)
  <2>SameThread.
      ASSUME DriverInv, Sharing, NEW t \in Threads, StepOf(t), NEW u \in Team, u # t
      PROVE  /\ pc'[u] = pc[u] /\ ithr'[u] = ithr[u] /\ pos'[u] = pos[u] /\ visits'[u] = visits[u]
             /\ (Over(u)' <=> Over(u)) /\ (Even(u)' <=> Even(u)) /\ Ahead(u)' = Ahead(u)
             /\ CopyRows(u)' = CopyRows(u) /\ SizeM(u)' = SizeM(u)
    <3> USE <2>SameThread
    <3>1. u \in Threads /\ at # "start"
      BY SharingFacts DEF Sharing
    <3>2. pc'[u] = pc[u] /\ ithr'[u] = ithr[u] /\ pos'[u] = pos[u] /\ visits'[u] = visits[u]
      BY <3>1 DEF StepOf, Others
    <3>3. UNCHANGED <<prob, slice>> /\ NthrEff' = NthrEff
      BY <3>1, ThreadFrame DEF StepOf
    <3>4. SizeM(u)' = SizeM(u) /\ SizeK(u)' = SizeK(u)
      BY <3>2, <3>3 DEF SizeM, SizeK
    <3>5. NextBlock(u)' = NextBlock(u)
      BY <3>2, <3>3, <3>4 DEF NextBlock
    <3>6. CopyRows(u)' = CopyRows(u)
      BY <3>2, <3>3, <3>4 DEF CopyRows
    <3>7. (Over(u)' <=> Over(u)) /\ (Even(u)' <=> Even(u))
      BY <3>2 DEF Over, Even
    <3>8. Ahead(u)' = Ahead(u)
      BY <3>2, <3>3, <3>5, <3>7 DEF Ahead, End
    <3>9. QED
      BY <3>2, <3>4, <3>6, <3>7, <3>8
  (* What a thread has seen of the barrier stays true when another one       *)
  (* moves.                                                                  *)
  <2>SteadyOthers.
      \A t \in Threads : \A u \in Team :
        /\ DriverInv
        /\ Sharing
        /\ StepOf(t)
        /\ visits'[t] \in Nat
        /\ visits'[t] >= visits[t]
        /\ u # t
        => Steady(u)'
    (* A thread stays behind no barrier that it has passed. *)
    <3>MetStays.
        ASSUME DriverInv, Sharing, NEW t \in Threads, StepOf(t), visits'[t] \in Nat, visits'[t] >= visits[t],
               NEW u \in Team, Met(u), visits'[u] = visits[u]
        PROVE  Met(u)'
      <4> USE <3>MetStays
      <4>1. Team' = Team /\ \A w \in Team : w \in Threads
        BY ThreadFrame, SharingFacts DEF StepOf, Sharing
      <4>2. SUFFICES ASSUME NEW w \in Team PROVE visits'[w] >= visits'[u]
        BY <4>1 DEF Met
      <4>3. visits[w] >= visits[u]
        BY DEF Met
      <4>4. CASE w # t
        BY <4>1, <4>3, <4>4 DEF StepOf
      <4>5. CASE w = t
        <5>1. visits[t] \in Nat /\ visits[u] \in Nat /\ visits[t] >= visits[u]
          BY <4>1, <4>3, <4>5 DEF DriverInv, TypeOK
        <5>2. visits'[t] >= visits[u]
          BY <5>1, SMTT(30)
        <5>3. QED
          BY <4>5, <5>2
      <4>6. QED
        BY <4>4, <4>5
    <3> SUFFICES
          ASSUME DriverInv, Sharing, NEW t \in Threads, StepOf(t), visits'[t] \in Nat, visits'[t] >= visits[t],
                 NEW u \in Team, u # t
          PROVE  Steady(u)'
      OBVIOUS
    <3>1. /\ pc'[u] = pc[u] /\ visits'[u] = visits[u] /\ (Over(u)' <=> Over(u))
      BY <2>SameThread
    <3>2. Steady(u)
      BY DEF DriverInv, ShareInv
    <3>3. Met(u) => Met(u)'
      BY <3>1, <3>MetStays
    <3>4. QED
      BY <3>1, <3>2, <3>3 DEF Steady
  (* The buffer stays, and so do its rows. *)
  <2>FilledOthers.
      ASSUME DriverInv, Sharing, NEW t \in Threads, StepOf(t), buf' = buf, NEW u \in Team, u # t,
             Even(u) /\ Met(u)' => Met(u)
      PROVE  Filled(u)'
    <3> USE <2>FilledOthers
    <3>1. /\ pos'[u] = pos[u] /\ (Even(u)' <=> Even(u)) /\ CopyRows(u)' = CopyRows(u)
          /\ SizeM(u)' = SizeM(u)
      BY <2>SameThread
    <3>2. Filled(u)
      BY DEF DriverInv, ShareInv
    <3>3. \A r : Copied(u, r)' <=> Copied(u, r)
      BY <3>1 DEF Copied
    <3>4. QED
      BY <3>1, <3>2, <3>3 DEF Filled
  (* Put together. *)
  <2>ShareMade.
      ASSUME DriverInv, Sharing, UNCHANGED <<section, at>>, NEW t \in Team, DOMAIN buf' = 0 .. MPadd - 1,
             MemInv', Steady(t)', Filled(t)',
             \A u \in Team : u # t => Steady(u)' /\ Filled(u)',
             mem' # "null" => \A u \in Team : u # t => InStep(t, u)' /\ InStep(u, t)',
             mem' # "null" => \A u, w \in Team : u # t /\ w # t /\ u # w => InStep(u, w)'
      PROVE  ShareInv'
    <3> USE <2>ShareMade
    <3>1. Team' = Team /\ Sharing'
      BY ThreadFrame DEF Sharing
    <3>2. \A u \in Team' : Steady(u)' /\ Filled(u)'
      BY <3>1
    <3>3. mem' # "null" => \A u, w \in Team' : u # w => InStep(u, w)'
      BY <3>1
    <3>4. QED
      BY <3>1, <3>2, <3>3 DEF ShareInv
  (* The pairs of other threads. *)
  <2>OtherPairs.
      \A t \in Threads :
        /\ DriverInv
        /\ Sharing
        /\ StepOf(t)
        /\ mem # "null"
        => \A u, w \in Team : u # t /\ w # t /\ u # w => InStep(u, w)'
    (* The relation between two other threads. *)
    <3>SamePair.
        ASSUME DriverInv, Sharing, NEW t \in Threads, StepOf(t), NEW u \in Team, NEW w \in Team,
               u # t, w # t, InStep(u, w)
        PROVE  InStep(u, w)'
      <4> USE <3>SamePair
      <4>1. /\ pc'[u] = pc[u] /\ pos'[u] = pos[u] /\ visits'[u] = visits[u]
            /\ (Even(u)' <=> Even(u)) /\ Ahead(u)' = Ahead(u)
        BY <2>SameThread
      <4>2. /\ pc'[w] = pc[w] /\ pos'[w] = pos[w] /\ visits'[w] = visits[w]
            /\ (Even(w)' <=> Even(w)) /\ Ahead(w)' = Ahead(w)
        BY <2>SameThread
      <4>3. QED
        BY <4>1, <4>2 DEF InStep
    <3> SUFFICES
          ASSUME DriverInv, Sharing, NEW t \in Threads, StepOf(t), mem # "null"
          PROVE  \A u, w \in Team : u # t /\ w # t /\ u # w => InStep(u, w)'
      OBVIOUS
    <3>1. SUFFICES ASSUME NEW u \in Team, NEW w \in Team, u # t, w # t, u # w PROVE InStep(u, w)'
      OBVIOUS
    <3>2. InStep(u, w)
      BY <3>1 DEF DriverInv, ShareInv
    <3>3. QED
      BY <3>1, <3>2, <3>SamePair
  (* A step past a barrier that all threads have come to, or no barrier:     *)
  (* the thread keeps its count and what lies ahead of it.                   *)
  <2>ShareSame.
      ASSUME DriverInv, Sharing, NEW t \in Team, StepOf(t), buf' = buf, visits' = visits, MemInv', Steady(t)',
             Even(t)' <=> Even(t), Ahead(t)' = Ahead(t), Even(t) => pos'[t] = pos[t],
             pc[t] \in {"malloced", "computed"} /\ mem' # "null" => Met(t),
             pc'[t] \notin {"malloced", "computed"}, mem' # "null" => mem # "null",
             Even(t) => ithr'[t] = ithr[t]
      PROVE  ShareInv'
    <3> USE <2>ShareSame
    <3>1. t \in Threads /\ Team' = Team /\ UNCHANGED <<section, at>> /\ at # "start" /\ NthrEff' = NthrEff
          /\ UNCHANGED slice
      BY SharingFacts, ThreadFrame DEF StepOf, Sharing
    <3>2. visits'[t] \in Nat /\ visits'[t] >= visits[t] /\ visits[t] \in Nat
      <4>1. visits[t] \in Nat
        BY <3>1 DEF DriverInv, TypeOK
      <4>2. QED
        BY <4>1, SMTT(30)
    <3>3. \A u \in Team : Met(u)' <=> Met(u)
      BY <3>1 DEF Met
    <3>4. \A u \in Team : u # t => Steady(u)' /\ Filled(u)'
      BY <3>1, <3>2, <3>3, <2>SteadyOthers, <2>FilledOthers
    <3>5. Filled(t)'
      <4>1. SUFFICES ASSUME Even(t)' PROVE Filled(t)'
        BY DEF Filled
      <4>2. pos'[t] = pos[t] /\ ithr'[t] = ithr[t] /\ Even(t) /\ Filled(t)
        BY <4>1 DEF DriverInv, ShareInv
      <4>3. SizeM(t)' = SizeM(t)
        BY <3>1, <4>2 DEF SizeM
      <4>4. CopyRows(t)' = CopyRows(t)
        BY <3>1, <4>2, <4>3 DEF CopyRows
      <4>5. \A r : Copied(t, r)' <=> Copied(t, r)
        BY <4>2 DEF Copied
      <4>6. QED
        BY <3>3, <4>2, <4>3, <4>4, <4>5 DEF Filled
    <3>6. ASSUME mem' # "null", NEW u \in Team, u # t PROVE InStep(t, u)' /\ InStep(u, t)'
      <4>1. InStep(t, u) /\ InStep(u, t)
        BY <3>6 DEF DriverInv, ShareInv
      <4>2. /\ pc'[u] = pc[u] /\ pos'[u] = pos[u] /\ visits'[u] = visits[u]
            /\ (Even(u)' <=> Even(u)) /\ Ahead(u)' = Ahead(u)
        BY <3>1, <3>6, <2>SameThread
      <4>3. pc[t] \in {"malloced", "computed"} => visits[t] # visits[u] + 1
        <5>1. SUFFICES ASSUME pc[t] \in {"malloced", "computed"} PROVE visits[t] # visits[u] + 1
          OBVIOUS
        <5>2. visits[u] >= visits[t]
          BY <3>6, <5>1 DEF Met
        <5>3. visits[u] \in Nat
          BY SharingFacts DEF DriverInv, TypeOK
        <5>4. QED
          BY <3>2, <5>2, <5>3, SMTT(30)
      <4>4. InStep(t, u)'
        BY <4>1, <4>2, <4>3 DEF InStep
      <4>5. InStep(u, t)'
        BY <4>1, <4>2 DEF InStep
      <4>6. QED
        BY <4>4, <4>5
    <3>7. mem' # "null" => \A u, w \in Team : u # t /\ w # t /\ u # w => InStep(u, w)'
      BY <3>1, <2>OtherPairs
    <3>8. DOMAIN buf' = 0 .. MPadd - 1
      BY DEF DriverInv, ShareInv
    <3>9. QED
      BY <3>1, <3>4, <3>5, <3>6, <3>7, <3>8, <2>ShareMade
  (* Taking a part keeps the sharing of the buffer. *)
  <2>LoopShare.
      ASSUME DriverInv, NEW t \in Threads, LoopStep(t)
      PROVE  ShareInv'
    <3> USE <2>LoopShare
    <3>1. /\ pc[t] = "loop" /\ pos' = [pos EXCEPT ![t] = NoBlock]
          /\ pc' = [pc EXCEPT ![t] = IF ithr[t] >= NthrEff THEN "out"
                                     ELSE IF info.copy # "shared_a" THEN "kernel"
                                     ELSE IF packedA THEN "gemm" ELSE "malloc"]
          /\ UNCHANGED <<section, at, arg, local, ithr, shared, C>>
          /\ visits' = visits /\ mem' = mem /\ buf' = buf /\ ithr' = ithr
      BY DEF LoopStep, Goto, shared
    <3>2. at # "start" /\ t \in Team /\ pos[t] = NoBlock
      BY <3>1, ThreadFacts DEF DriverInv, PlaceInv, NoBlockPlaces
    <3>3. CASE ~Sharing
      BY <3>1, <3>2, <3>3, <2>ThreadUnshared
    <3>4. CASE Sharing
      <4>1. info.copy = "shared_a" /\ ~packedA /\ NthrEff = nthr /\ nthr \in Nat /\ t < nthr /\ t \in Nat
        BY <3>2, <3>4, SharingFacts DEF Sharing
      <4>2. ithr[t] \in Nat /\ (ithr[t] = t \/ ithr[t] >= nthr)
        BY <3>2, <3>4, SharingThread
      <4>3. pc'[t] = IF ithr[t] >= nthr THEN "out" ELSE "malloc"
        BY <3>1, <4>1 DEF DriverInv, TypeOK
      <4>4. ithr[t] = t => ~(ithr[t] >= nthr)
        BY <4>1, SMTT(30)
      <4>5. pos'[t] = pos[t] /\ pos' = pos
        BY <3>1, <3>2 DEF DriverInv, PlaceInv
      <4>6. StepOf(t)
        BY <3>1, StepAlone
      <4>13. /\ pc'[t] # "dispatched" /\ pc[t] # "dispatched" /\ pc'[t] # "computed" /\ pc[t] # "computed"
             /\ pc'[t] \notin Blocked /\ pc[t] \notin Blocked /\ pc'[t] # "malloced"
             /\ (pc'[t] = "out" => ithr[t] >= nthr) /\ (pc'[t] # "out" => pc'[t] = "malloc")
        <5>1. (ithr[t] >= nthr => pc'[t] = "out") /\ (~(ithr[t] >= nthr) => pc'[t] = "malloc")
          BY <4>3
        <5>2. QED
          BY <3>1, <5>1 DEF Blocked
      <4>14. ithr[t] = t => pc'[t] = "malloc"
        BY <4>4, <4>13
      <4>7. Over(t)' <=> Over(t)
        BY <3>1, <4>13 DEF Over
      <4>8. ~Even(t) /\ ~Even(t)' /\ Ahead(t)' = Ahead(t)
        <5>1. End' = End
          BY <3>1, <3>2, ThreadFrame DEF End
        <5>2. QED
          BY <4>5, <4>7, <4>13, <5>1 DEF Even, Ahead, Blocked
      <4>9. Team' = Team
        BY <3>1, <3>2, ThreadFrame
      <4>10. Steady(t)'
        <5>1. Steady(t)
          BY <3>2, <3>4 DEF DriverInv, ShareInv
        <5>2. Met(t)' <=> Met(t)
          BY <3>1, <4>9 DEF Met
        <5>3. pc'[t] \in {"loop", "malloc"} /\ ~Over(t)' <=> ~Over(t)
          BY <4>7, <4>13, <4>14 DEF Over
        <5>4. pc[t] = "loop" /\ pc'[t] \notin {"copy", "copied", "gemm", "computed"}
          BY <3>1, <4>13 DEF Blocked
        <5>5. QED
          BY <3>1, <4>7, <5>1, <5>2, <5>3, <5>4 DEF Steady
      <4>11. MemInv'
        <5>1. MemInv
          BY <3>4 DEF DriverInv, ShareInv
        <5>2. Over(0)' <=> Over(0)
          <6>1. CASE t = 0
            BY <4>7, <6>1
          <6>2. CASE t # 0
            BY <3>4, <4>6, <6>2, SharingFacts, <2>SameThread
          <6>3. QED
            BY <6>1, <6>2
        <5>3. \A u \in Team : pc'[u] \in Blocked => pc[u] \in Blocked
          <6>1. \A u \in Team : u # t => pc'[u] = pc[u]
            BY <3>4, <4>6, <2>SameThread
          <6>2. QED
            BY <4>3, <6>1 DEF Blocked
        <5>4. QED
          BY <3>1, <4>9, <5>1, <5>2, <5>3 DEF MemInv
      <4>12. QED
        BY <3>1, <3>2, <3>4, <4>6, <4>8, <4>10, <4>11, <4>13, <2>ShareSame
    <3>5. QED
      BY <3>3, <3>4
  (* Over for thread 0, and who works on a block. *)
  <2>MemSame.
      ASSUME DriverInv, Sharing, NEW t \in Team, StepOf(t), Over(t)' <=> Over(t), mem' = mem,
             visits' = visits, pc'[t] \in Blocked => pc[t] \in Blocked \/ mem # "null"
      PROVE  MemInv'
    <3> USE <2>MemSame
    <3>1. MemInv /\ Team' = Team /\ t \in Threads
      BY ThreadFrame, SharingFacts DEF DriverInv, ShareInv, StepOf, Sharing
    <3>2. Over(0)' <=> Over(0)
      <4>1. CASE t = 0
        BY <4>1
      <4>2. CASE t # 0
        BY <3>1, <4>2, SharingFacts, <2>SameThread
      <4>3. QED
        BY <4>1, <4>2
    <3>3. mem = "null" => \A u \in Team : pc'[u] \in Blocked => pc[u] \in Blocked
      <4>1. \A u \in Team : u # t => pc'[u] = pc[u]
        BY <3>1, <2>SameThread
      <4>2. QED
        BY <4>1
    <3>4. QED
      BY <3>1, <3>2, <3>3 DEF MemInv
  (* So does the return of the kernel. *)
  <2>DispatchedShare.
      ASSUME DriverInv, NEW t \in Threads, DispatchedStep(t)
      PROVE  ShareInv'
    <3> USE <2>DispatchedShare
    <3>1. /\ pc[t] = "dispatched" /\ pos' = [pos EXCEPT ![t] = NoBlock]
          /\ UNCHANGED <<section, at, local, shared, C>>
          /\ visits' = visits /\ mem' = mem /\ buf' = buf
      BY DEF DispatchedStep, shared
    <3>2. /\ at # "start" /\ at \in After /\ info # NoInfo /\ t \in Team
          /\ ithr[t] < Nthrs(info) /\ ithr[t] % nthr = t
      BY <3>1, ThreadFacts
    <3>3. CASE ~Sharing
      BY <3>1, <3>2, <3>3, <2>ThreadUnshared
    <3>4. CASE Sharing
      <4>1. ~k_summing
        <5>1. SUFFICES ASSUME k_summing PROVE FALSE
          OBVIOUS
        <5>2. info.partition = "mnk_3d" /\ Legal(info, prob)
          BY <3>2, <5>1, SectionFacts
        <5>3. info.copy = "shared_a" => info.partition = "col_1d"
          BY <5>2 DEF Legal
        <5>4. QED
          BY <3>4, <5>2, <5>3 DEF Sharing
      <4>2. pc' = [pc EXCEPT ![t] = "loop"] /\ ithr' = [ithr EXCEPT ![t] = ithr[t] + nthr]
        BY <4>1 DEF DispatchedStep, Goto
      <4>3. pc'[t] = "loop" /\ ithr'[t] = ithr[t] + nthr
        BY <4>2 DEF DriverInv, TypeOK
      <4>4. ithr'[t] # t
        <5>1. ithr[t] = t
          BY <3>1, <3>2, <3>4, SharingThread
        <5>2. ithr[t] + nthr > ithr[t] /\ ithr[t] \in Nat /\ ithr[t] + nthr \in Nat
          BY <3>2, PartDone, Unmoved
        <5> DEFINE x == ithr[t] + nthr
        <5>3. x > t /\ t \in Nat /\ x \in Nat
          BY <5>1, <5>2
        <5> HIDE DEF x
        <5>4. x # t
          BY <5>3, SMTT(30)
        <5>5. QED
          BY <4>3, <5>4 DEF x
      <4>5. StepOf(t)
        BY <3>1, <4>2, StepAlone
      <4>6. Over(t) /\ Over(t)'
        BY <3>1, <4>4 DEF Over
      <4>7. ~Even(t) /\ ~Even(t)' /\ Ahead(t)' = Ahead(t)
        <5>1. End' = End
          BY <3>1, <3>2, ThreadFrame DEF End
        <5>2. QED
          BY <3>1, <4>3, <4>6, <5>1 DEF Even, Ahead
      <4>8. Steady(t)'
        <5>1. Steady(t)
          BY <3>2, <3>4 DEF DriverInv, ShareInv
        <5>2. Met(t)' <=> Met(t)
          BY <3>1, <3>2, ThreadFrame DEF Met
        <5>3. QED
          BY <3>1, <4>3, <4>6, <5>1, <5>2 DEF Steady
      <4>9. MemInv'
        BY <3>1, <3>2, <3>4, <4>3, <4>5, <4>6, <2>MemSame DEF Blocked
      <4>10. QED
        BY <3>1, <3>2, <3>4, <4>3, <4>5, <4>7, <4>8, <4>9, <2>ShareSame
    <3>5. QED
      BY <3>3, <3>4
  (* So does the test of the shared buffer. *)
  <2>MallocedShare.
      ASSUME DriverInv, NEW t \in Threads, MallocedStep(t)
      PROVE  ShareInv'
    <3> USE <2>MallocedShare
    <3>1. /\ pc[t] = "malloced" /\ Met(t)
          /\ UNCHANGED <<section, at, local, ithr, pos, shared, C>>
          /\ visits' = visits /\ mem' = mem /\ buf' = buf /\ ithr' = ithr /\ pos' = pos
          /\ pc' = [pc EXCEPT ![t] = IF mem = "null" THEN "dispatched" ELSE "copy"]
      BY DEF MallocedStep, Goto, shared
    <3>2. Sharing /\ t \in Team /\ ithr[t] = t /\ ~Over(t) /\ at # "start" /\ Steady(t)
      BY <3>1, CopyFacts DEF CopyPlaces
    <3>3. pc'[t] = IF mem = "null" THEN "dispatched" ELSE "copy"
      BY <3>1 DEF DriverInv, TypeOK
    <3>4. StepOf(t)
      BY <3>1, StepAlone
    <3>5. Met(t)'
      BY <3>1, <3>2, ThreadFrame DEF Met
    <3>10. /\ pc[t] \notin {"loop", "malloc", "dispatched"} \cup Blocked
           /\ pc'[t] \notin {"loop", "malloc", "malloced", "copied", "gemm", "computed"}
           /\ mem # "null" => pc'[t] = "copy"
      <4>1. (mem = "null" => pc'[t] = "dispatched") /\ (mem # "null" => pc'[t] = "copy")
        BY <3>3
      <4>2. QED
        BY <3>1, <4>1 DEF Blocked
    <3>6. Steady(t)'
      BY <3>1, <3>2, <3>5, <3>10 DEF Steady
    <3>7. CASE mem = "null"
      <4>1. MemInv'
        <5>1. MemInv
          BY <3>2 DEF DriverInv, ShareInv
        <5>2. Team' = Team
          BY <3>1, <3>2, ThreadFrame
        <5>3. \A u \in Team : pc'[u] \notin Blocked
          <6>1. \A u \in Team : u # t => pc'[u] = pc[u]
            BY <3>2, <3>4, <2>SameThread
          <6>2. QED
            BY <3>3, <3>7, <5>1, <6>1 DEF MemInv, Blocked
        <5>4. QED
          BY <3>1, <3>7, <5>1, <5>2, <5>3 DEF MemInv
      <4>2. ~Even(t)'
        BY <3>3, <3>7 DEF Even
      <4>3. \A u \in Team : u # t => Steady(u)' /\ Filled(u)'
        <5>1. visits'[t] \in Nat /\ visits'[t] >= visits[t]
          <6>1. visits[t] \in Nat
            BY DEF DriverInv, TypeOK
          <6>2. QED
            BY <3>1, <6>1, SMTT(30)
        <5>2. \A u \in Team : Met(u)' <=> Met(u)
          BY <3>1, <3>2, ThreadFrame DEF Met
        <5>3. QED
          BY <3>1, <3>2, <3>4, <5>1, <5>2, <2>SteadyOthers, <2>FilledOthers
      <4>4. DOMAIN buf' = 0 .. MPadd - 1 /\ Filled(t)'
        BY <3>1, <4>2 DEF DriverInv, ShareInv, Filled
      <4>5. QED
        BY <3>1, <3>2, <3>6, <3>7, <4>1, <4>3, <4>4, <2>ShareMade
    <3>8. CASE mem # "null"
      <4>1. ~Over(t)'
        BY <3>1, <3>2, <3>8, <3>10 DEF Over
      <4>2. ~Even(t) /\ ~Even(t)' /\ Ahead(t)' = Ahead(t)
        BY <3>1, <3>2, <3>8, <3>10, <4>1 DEF Even, Ahead, Blocked
      <4>3. MemInv'
        BY <3>1, <3>2, <3>4, <3>8, <4>1, <2>MemSame
      <4>4. pc'[t] \notin {"malloced", "computed"}
        BY <3>3, <3>8
      <4>5. QED
        BY <3>1, <3>2, <3>4, <3>6, <3>8, <4>2, <4>3, <4>4, <2>ShareSame
    <3>9. QED
      BY <3>7, <3>8
  (* So does leaving the barrier after the copy. *)
  <2>CopiedShare.
      ASSUME DriverInv, NEW t \in Threads, CopiedStep(t)
      PROVE  ShareInv'
    <3> USE <2>CopiedShare
    <3>1. /\ pc[t] = "copied" /\ Met(t)
          /\ UNCHANGED <<section, at, arg, local, ithr, pos, shared, C>>
          /\ visits' = visits /\ mem' = mem /\ buf' = buf /\ pc' = [pc EXCEPT ![t] = "gemm"]
      BY DEF CopiedStep, Goto, shared
    <3>2. Sharing /\ t \in Team /\ ithr[t] = t /\ ~Over(t) /\ at # "start" /\ Steady(t)
      BY <3>1, CopyFacts DEF CopyPlaces
    <3>3. pc'[t] = "gemm"
      BY <3>1 DEF DriverInv, TypeOK
    <3>4. StepOf(t)
      BY <3>1, StepAlone
    <3>5. Met(t)'
      BY <3>1, <3>2, ThreadFrame DEF Met
    <3>6. Steady(t)'
      BY <3>1, <3>2, <3>3, <3>5 DEF Steady
    <3>7. ~Over(t)'
      BY <3>1, <3>2, <3>3 DEF Over
    <3>8. Even(t) /\ Even(t)' /\ Ahead(t)' = Ahead(t)
      BY <3>1, <3>2, <3>3, <3>7 DEF Even, Ahead
    <3>9. MemInv'
      BY <3>1, <3>2, <3>4, <3>7, <2>MemSame DEF Blocked
    <3>10. QED
      BY <3>1, <3>2, <3>3, <3>4, <3>6, <3>8, <3>9, <2>ShareSame
  (* So does leaving the barrier after the multiplication. *)
  <2>ComputedShare.
      ASSUME DriverInv, NEW t \in Threads, ComputedStep(t)
      PROVE  ShareInv'
    <3> USE <2>ComputedShare
    <3> DEFINE more == NextBlock(t).k < prob.k
    <3>1. /\ pc[t] = "computed" /\ Met(t)
          /\ UNCHANGED <<section, at, arg, local, ithr, buf, visits, C>>
          /\ visits' = visits /\ buf' = buf /\ ithr' = ithr
          /\ pos' = [pos EXCEPT ![t] = NextBlock(t)]
      BY DEF ComputedStep
    <3>2. /\ Sharing /\ t \in Team /\ ithr[t] = t /\ ~Over(t) /\ at # "start" /\ Steady(t)
          /\ mem # "null"
      BY <3>1, CopyFacts DEF CopyPlaces, Blocked
    <3>3. slice[ithr[t]].k = prob.k /\ (more \/ NextBlock(t) = End)
      BY <3>1, BlockFacts DEF Blocked
    <3>4. /\ pc' = [pc EXCEPT ![t] = IF more THEN "copy" ELSE "dispatched"]
          /\ mem' = IF ~more /\ t = 0 THEN "freed" ELSE mem
      BY <3>2, <3>3 DEF ComputedStep, Goto
    <3>5. pos'[t] = NextBlock(t) /\ pc'[t] = IF more THEN "copy" ELSE "dispatched"
      BY <3>1, <3>4 DEF DriverInv, TypeOK, PlaceInv
    <3> HIDE DEF more
    <3>6. /\ (more => pc'[t] = "copy") /\ (~more => pc'[t] = "dispatched")
          /\ (~more /\ t = 0 => mem' = "freed") /\ (~(~more /\ t = 0) => mem' = mem)
      BY <3>4, <3>5
    <3>7. StepOf(t)
      BY <3>1, <3>4, StepAlone
    <3>8. Met(t)' /\ Team' = Team /\ End' = End
      BY <3>1, <3>2, ThreadFrame DEF Met, End
    <3>9. /\ pc'[t] \notin {"loop", "malloc", "malloced", "copied", "gemm", "computed"}
          /\ pc[t] \notin {"loop", "malloc", "copied", "gemm"}
      BY <3>1, <3>6
    <3>10. Steady(t)'
      BY <3>1, <3>2, <3>8, <3>9 DEF Steady
    <3>11. (more => ~Over(t)') /\ (~more => Over(t)')
      BY <3>1, <3>2, <3>6 DEF Over
    <3>12. Ahead(t) = NextBlock(t)
      BY <3>1, <3>2 DEF Ahead
    <3>13. Ahead(t)' = NextBlock(t)
      BY <3>3, <3>5, <3>8, <3>9, <3>11 DEF Ahead
    <3>14. ~Even(t) /\ ~Even(t)'
      BY <3>9 DEF Even
    <3>15. MemInv'
      <4>1. CASE more
        BY <3>1, <3>2, <3>6, <3>7, <3>11, <4>1, <2>MemSame
      <4>2. CASE ~more
        <5>1. MemInv
          BY <3>2 DEF DriverInv, ShareInv
        <5>2. CASE t = 0
          <6>1. mem' = "freed" /\ Over(0)' /\ visits'[0] # 0
            BY <3>1, <3>2, <3>6, <3>9, <3>11, <4>2, <5>2 DEF Steady
          <6>2. QED
            BY <6>1 DEF MemInv
        <5>3. CASE t # 0
          <6>1. mem' = mem /\ (Over(0)' <=> Over(0))
            BY <3>2, <3>6, <3>7, <5>3, SharingFacts, <2>SameThread
          <6>2. QED
            BY <3>1, <3>2, <5>1, <6>1 DEF MemInv
        <5>4. QED
          BY <5>2, <5>3
      <4>3. QED
        BY <4>1, <4>2
    <3>16. QED
      BY <3>1, <3>2, <3>7, <3>9, <3>10, <3>12, <3>13, <3>14, <3>15, <2>ShareSame
  (* Coming to the barrier counts one visit. *)
  <2>ComeFacts.
      ASSUME DriverInv, NEW t \in Threads, Come(t)
      PROVE  /\ visits[t] \in Nat /\ visits'[t] = visits[t] + 1
             /\ visits'[t] \in Nat /\ visits'[t] >= visits[t] /\ visits'[t] # 0
             /\ visits' = [visits EXCEPT ![t] = @ + 1]
    <3> USE <2>ComeFacts
    <3>1. visits \in [Threads -> Nat] /\ visits' = [visits EXCEPT ![t] = @ + 1]
      BY DEF Come, DriverInv, TypeOK
    <3>2. visits[t] \in Nat /\ visits'[t] = visits[t] + 1
      BY <3>1
    <3> DEFINE v == visits[t]
    <3>3. v \in Nat
      BY <3>2
    <3> HIDE DEF v
    <3>4. v + 1 \in Nat /\ v + 1 >= v /\ v + 1 # 0
      BY <3>3, SMTT(30)
    <3>5. QED
      BY <3>1, <3>2, <3>4 DEF v
  (* The allocation by thread 0, and the first visit of the barrier. *)
  <2>MallocShare.
      ASSUME DriverInv, NEW t \in Threads, MallocStep(t)
      PROVE  ShareInv'
    <3> USE <2>MallocShare
    <3>1. /\ pc[t] = "malloc" /\ Come(t) /\ pc' = [pc EXCEPT ![t] = "malloced"]
          /\ UNCHANGED <<section, at, arg, local, ithr, pos, buf, C>>
          /\ buf' = buf /\ ithr' = ithr /\ pos' = pos
      BY DEF MallocStep, Goto
    <3>2. Sharing /\ t \in Team /\ ithr[t] = t /\ ~Over(t) /\ at # "start" /\ Steady(t)
      BY <3>1, CopyFacts DEF CopyPlaces
    <3>3. /\ t = 0 => mem' \in {"live", "null"}
          /\ t # 0 => mem' = mem
      BY <3>2 DEF MallocStep
    <3>4. pc'[t] = "malloced" /\ pos[t] = NoBlock /\ pos'[t] = NoBlock
      BY <3>1 DEF DriverInv, TypeOK, PlaceInv, NoBlockPlaces
    <3>5. /\ visits[t] = 0 /\ visits'[t] = 1 /\ visits' = [visits EXCEPT ![t] = @ + 1]
          /\ visits'[t] \in Nat /\ visits'[t] >= visits[t]
      <4>1. visits[t] = 0
        BY <3>1, <3>2 DEF Steady
      <4>2. 0 + 1 = 1
        BY SMTT(30)
      <4>3. QED
        BY <3>1, <4>1, <4>2, <2>ComeFacts
    <3>6. StepOf(t) /\ Team' = Team
      BY <3>1, <3>2, <3>5, StepAlone, ThreadFrame
    <3>7. ~Over(t)'
      BY <3>1, <3>2, <3>4 DEF Over
    <3>8. ~Even(t)' /\ ~Even(t) /\ Ahead(t)' = NoBlock
      BY <3>1, <3>4, <3>7 DEF Even, Ahead
    <3>9. 1 # 0
      BY SMTT(30)
    <3>10. Steady(t)' /\ Filled(t)'
      BY <3>4, <3>5, <3>7, <3>8, <3>9 DEF Steady, Filled
    <3>11. \A u \in Team : u # t => Steady(u)' /\ Filled(u)'
      <4>1. SUFFICES ASSUME NEW u \in Team, u # t PROVE Steady(u)' /\ Filled(u)'
        OBVIOUS
      <4>2. Even(u) /\ Met(u)' => Met(u)
        <5>1. SUFFICES ASSUME Even(u), Met(u)' PROVE FALSE
          OBVIOUS
        <5>2. Steady(u)
          BY <3>2 DEF DriverInv, ShareInv
        <5>3. visits[u] >= 2
          BY <5>1, <5>2 DEF Even, Steady
        <5>4. 1 >= visits[u]
          <6>1. visits'[t] >= visits'[u]
            BY <3>2, <3>6, <5>1 DEF Met
          <6>2. visits'[u] = visits[u]
            BY <3>2, <3>6, <4>1, <2>SameThread
          <6>3. QED
            BY <3>5, <6>1, <6>2
        <5>5. visits[u] \in Nat
          BY <3>2, SharingFacts DEF DriverInv, TypeOK
        <5>6. QED
          BY <5>3, <5>4, <5>5, SMTT(30)
      <4>3. QED
        BY <3>1, <3>2, <3>5, <3>6, <4>1, <4>2, <2>SteadyOthers, <2>FilledOthers
    <3>12. ASSUME mem # "null", NEW u \in Team, u # t
           PROVE  /\ visits[u] = 0 \/ (visits[u] = 1 /\ pc[u] = "malloced")
                  /\ pc[u] \notin Blocked
                  /\ InStep(t, u)' /\ InStep(u, t)'
      <4>1. InStep(u, t) /\ Steady(u)
        BY <3>2, <3>12 DEF DriverInv, ShareInv
      <4>2. visits[u] \in Nat
        BY <3>2, SharingFacts DEF DriverInv, TypeOK
      <4>3. visits[u] <= visits[t] + 1
        BY <4>1 DEF InStep
      <4>4. visits[u] = 0 \/ visits[u] = 1
        BY <3>5, <4>2, <4>3, SMTT(30)
      <4>5. ~(0 >= 2) /\ ~(1 >= 2) /\ 0 + 1 = 1 /\ 1 <= 0 + 1 /\ 1 <= 1 + 1 /\ 0 <= 1 + 1 /\ 1 # 1 + 1 /\ 0 # 1 + 1 /\ ~(0 >= 1)
        BY SMTT(30)
      <4>6. pc[u] \notin {"copied", "gemm", "computed"}
        BY <4>1, <4>4, <4>5 DEF Steady
      <4>7. visits[u] = 1 => pc[u] = "malloced"
        BY <3>5, <3>12, <4>1, <4>5, <4>6 DEF InStep, Even
      <4>8. pc[u] # "copy"
        <5>1. SUFFICES ASSUME pc[u] = "copy" PROVE FALSE
          OBVIOUS
        <5>2. visits[u] # 0
          BY <4>1, <5>1 DEF Steady
        <5>3. QED
          BY <4>4, <4>7, <5>1, <5>2
      <4>9. /\ pc'[u] = pc[u] /\ visits'[u] = visits[u] /\ ~Even(u)' /\ Ahead(u)' = Ahead(u)
        BY <3>2, <3>6, <3>12, <4>6, <2>SameThread DEF Even
      <4>10. visits[u] = 1 => Ahead(u) = NoBlock
        <5>1. SUFFICES ASSUME pc[u] = "malloced" PROVE Ahead(u) = NoBlock
          BY <4>7
        <5>2. ithr[u] = u
          BY <3>2, <5>1, SharingThread
        <5>3. ~Over(u)
          BY <5>1, <5>2 DEF Over
        <5>4. pos[u] = NoBlock
          BY <3>2, <5>1, SharingFacts DEF DriverInv, PlaceInv, NoBlockPlaces
        <5>5. QED
          BY <5>1, <5>3, <5>4 DEF Ahead
      <4>11. InStep(t, u)'
        BY <3>4, <3>5, <3>8, <4>4, <4>5, <4>9, <4>10 DEF InStep
      <4>12. InStep(u, t)'
        BY <3>4, <3>5, <3>8, <4>4, <4>5, <4>9, <4>10 DEF InStep
      <4>13. QED
        BY <4>4, <4>6, <4>7, <4>8, <4>11, <4>12 DEF Blocked
    <3>13. mem' # "null" => mem # "null"
      <4>1. t = 0 => mem # "null"
        BY <3>2, <3>5 DEF DriverInv, ShareInv, MemInv
      <4>2. QED
        BY <3>3, <4>1
    <3>14. MemInv'
      <4>1. MemInv
        BY <3>2 DEF DriverInv, ShareInv
      <4>2. CASE t = 0
        <5>1. mem = "none" /\ visits'[0] # 0 /\ ~Over(0)' /\ mem' \in {"live", "null"}
          BY <3>3, <3>5, <3>7, <3>9, <4>1, <4>2 DEF MemInv
        <5>2. \A u \in Team : pc'[u] \notin Blocked
          <6>1. \A u \in Team : u # t => pc'[u] = pc[u] /\ pc[u] \notin Blocked
            BY <3>2, <3>6, <3>12, <5>1, <2>SameThread
          <6>2. QED
            BY <3>4, <6>1 DEF Blocked
        <5>3. QED
          BY <3>6, <5>1, <5>2 DEF MemInv
      <4>3. CASE t # 0
        <5>1. mem' = mem /\ visits'[0] = visits[0] /\ (Over(0)' <=> Over(0))
          BY <3>2, <3>3, <3>6, <4>3, SharingFacts, <2>SameThread
        <5>2. mem = "null" => \A u \in Team : pc'[u] \notin Blocked
          <6>1. \A u \in Team : u # t => pc'[u] = pc[u]
            BY <3>2, <3>6, <2>SameThread
          <6>2. QED
            BY <3>4, <4>1, <6>1 DEF Blocked, MemInv
        <5>3. QED
          BY <3>6, <4>1, <5>1, <5>2 DEF MemInv
      <4>4. QED
        BY <4>2, <4>3
    <3>15. mem' # "null" => \A u, w \in Team : u # t /\ w # t /\ u # w => InStep(u, w)'
      BY <3>2, <3>6, <3>13, <2>OtherPairs
    <3>16. DOMAIN buf' = 0 .. MPadd - 1
      BY <3>1 DEF DriverInv, ShareInv
    <3>17. mem' # "null" => \A u \in Team : u # t => InStep(t, u)' /\ InStep(u, t)'
      BY <3>12, <3>13
    <3>18. QED
      BY <3>1, <3>2, <3>10, <3>11, <3>14, <3>15, <3>16, <3>17, <2>ShareMade
  (* Arithmetic of the pairs. *)
  <2>OneMore.
      ASSUME NEW v \in Nat
      PROVE  /\ v + 1 \in Nat /\ v <= (v + 1) + 1 /\ v # v + 1 /\ v # (v + 1) + 1 /\ v + 1 <= v + 1
             /\ v + 1 <= (v + 1) + 1 /\ v + 1 # (v + 1) + 1 /\ ~(v >= v + 1)
    BY <2>OneMore, SMTT(30)
  (* The copy of a share: when the last thread comes, the whole block is     *)
  (* there.                                                                  *)
  <2>CopyShare.
      \A t \in Threads :
        /\ DriverInv
        /\ CopyStep(t)
        => ShareInv'
    (* Threads with the same block copy all of its rows between them. *)
    <3>CopyCovers.
        \A t \in Team :
          /\ DriverInv
          /\ Sharing
          /\ pc[t] \in Blocked
          => /\ \A w \in Team : ithr[w] = w /\ pos[w] = pos[t] => SizeM(w) = SizeM(t)
             /\ \A r \in CopyRows(t) : r \in 0 .. MPadd - 1
             /\ \A r \in 0 .. SizeM(t) - 1 : r \in 0 .. MPadd - 1
             /\ (\A w \in Team : ithr[w] = w /\ pos[w] = pos[t]) =>
                   \A r \in 0 .. SizeM(t) - 1 : \E w \in Team : r \in CopyRows(w)
      (* The bands of the threads cover a block's rows. *)
      <4>BandsCover.
          ASSUME NEW size \in Positive, NEW n \in Positive, NEW unit \in Positive
          PROVE  LET band == RoundUp(DivUp(size, n), unit)
                 IN /\ band \in Positive
                    /\ \A r \in 0 .. size - 1 : \E w \in 0 .. n - 1 :
                          r \in band * w .. Smaller(band * w + band, size) - 1
        <5> USE <4>BandsCover
        <5> DEFINE part == DivUp(size, n)
                   band == RoundUp(part, unit)
        <5>1. part \in Positive /\ size <= part * n
          BY DivUpFacts
        <5>2. DivUp(part, unit) \in Positive /\ part <= DivUp(part, unit) * unit
          BY <5>1, DivUpFacts
        <5>3. band \in Positive /\ part <= band
          BY <5>2, TimesPositive DEF RoundUp
        <5> HIDE DEF part, band
        <5>4. size <= band * n
          <6>1. part * n <= band * n
            BY <5>1, <5>3, TimesMonotone, SMTT(30) DEF Positive
          <6>2. part * n \in Positive /\ band * n \in Positive
            BY <5>1, <5>3, TimesPositive
          <6>3. QED
            BY <5>1, <6>1, <6>2, SMTT(30) DEF Positive
        <5>5. ASSUME NEW r \in 0 .. size - 1
              PROVE  \E w \in 0 .. n - 1 : r \in band * w .. Smaller(band * w + band, size) - 1
          <6> DEFINE w == r \div band
          <6>1. r \in Nat /\ band \in Nat \ {0} /\ r < size
            BY <5>3, SMTT(30) DEF Positive
          <6>2. w \in Nat /\ w * band <= r /\ r < w * band + band
            BY <6>1, DivFacts
          <6> HIDE DEF w
          <6>3. w * band = band * w /\ band * w \in Nat
            BY <6>1, <6>2, SMTT(30)
          <6>4. w < n
            <7>1. SUFFICES ASSUME ~(w < n) PROVE FALSE
              OBVIOUS
            <7>2. n <= w /\ n \in Nat /\ band \in Nat
              BY <6>1, <6>2, <7>1, SMTT(30) DEF Positive
            <7>3. n * band <= w * band
              BY <6>2, <7>2, TimesMonotone
            <7>4. n * band = band * n /\ n * band \in Nat
              BY <7>2, SMTT(30)
            <7> DEFINE x == n * band
                       y == w * band
            <7>5. size <= x /\ x <= y /\ y <= r /\ x \in Nat /\ y \in Nat
              BY <5>4, <6>2, <6>3, <7>3, <7>4
            <7> HIDE DEF x, y
            <7>6. QED
              BY <6>1, <7>5, SMTT(30) DEF Positive
          <6>5. w \in 0 .. n - 1
            BY <6>2, <6>4, SMTT(30) DEF Positive
          <6> DEFINE y == band * w
          <6>6. y \in Nat /\ y <= r /\ r < y + band
            BY <6>2, <6>3
          <6> HIDE DEF y
          <6>7. r \in y .. Smaller(y + band, size) - 1
            BY <6>1, <6>6, SMTT(30) DEF Smaller, Positive
          <6>8. QED
            BY <6>5, <6>7 DEF y
        <5>6. QED
          BY <5>3, <5>5 DEF part, band
      <4> SUFFICES
            ASSUME DriverInv, Sharing, NEW t \in Team, pc[t] \in Blocked
            PROVE  /\ \A w \in Team : ithr[w] = w /\ pos[w] = pos[t] => SizeM(w) = SizeM(t)
                   /\ \A r \in CopyRows(t) : r \in 0 .. MPadd - 1
                   /\ \A r \in 0 .. SizeM(t) - 1 : r \in 0 .. MPadd - 1
                   /\ (\A w \in Team : ithr[w] = w /\ pos[w] = pos[t]) =>
                         \A r \in 0 .. SizeM(t) - 1 : \E w \in Team : r \in CopyRows(w)
        OBVIOUS
      <4>1. /\ t \in Threads /\ nthr \in Nat /\ nthr \in 1 .. NthrMax /\ NthrEff = nthr /\ t \in Nat
        BY SharingFacts
      <4>2. SizeM(t) \in 1 .. MPadd /\ ithr[t] = t
        BY <4>1, BlockFacts, SharingThread DEF Blocked
      <4>3. ASSUME NEW w \in Team, ithr[w] = w, pos[w] = pos[t]
            PROVE  SizeM(w) = SizeM(t)
        <5>1. slice[w].m = prob.m /\ slice[t].m = prob.m
          BY SharingThread
        <5>2. QED
          BY <4>2, <4>3, <5>1 DEF SizeM
      <4> DEFINE S == SizeM(t)
                 band == RoundUp(DivUp(S, nthr), Um)
      <4>4. S \in Positive /\ nthr \in Positive /\ Um \in Positive /\ MPadd \in Positive /\ S \in Nat /\ S <= MPadd
        <5>1. S \in 1 .. MPadd
          BY <4>2
        <5> HIDE DEF S
        <5>2. QED
          BY <4>1, <5>1, Consts, SMTT(30) DEF Positive
      <4>5. /\ band \in Positive
            /\ \A r \in 0 .. S - 1 : \E w \in 0 .. nthr - 1 :
                  r \in band * w .. Smaller(band * w + band, S) - 1
        <5> HIDE DEF S
        <5>1. QED
          BY <4>4, <4>BandsCover
      <4>6. ASSUME NEW w \in Team, ithr[w] = w, SizeM(w) = S
            PROVE  CopyRows(w) = band * w .. Smaller(band * w + band, S) - 1
        BY <4>1, <4>6 DEF CopyRows
      <4>7. \A r \in 0 .. S - 1 : r \in 0 .. MPadd - 1
        <5> HIDE DEF S
        <5>1. QED
          BY <4>4, SMTT(30) DEF Positive
      <4>8. \A r \in CopyRows(t) : r \in 0 .. MPadd - 1
        <5>1. CopyRows(t) = band * t .. Smaller(band * t + band, S) - 1
          BY <4>2, <4>6
        <5> HIDE DEF S, band
        <5>2. band * t \in Nat
          BY <4>1, <4>5, SMTT(30) DEF Positive
        <5> DEFINE y == band * t
        <5>3. y \in Nat
          BY <5>2
        <5> HIDE DEF y
        <5>4. \A r \in y .. Smaller(y + band, S) - 1 : r \in 0 .. MPadd - 1
          BY <4>4, <4>5, <5>3, SMTT(30) DEF Smaller, Positive
        <5>5. QED
          BY <5>1, <5>4 DEF y
      <4>9. ASSUME \A w \in Team : ithr[w] = w /\ pos[w] = pos[t], NEW r \in 0 .. S - 1
            PROVE  \E w \in Team : r \in CopyRows(w)
        <5>1. PICK w \in 0 .. nthr - 1 : r \in band * w .. Smaller(band * w + band, S) - 1
          BY <4>5
        <5>2. w \in Team
          BY DEF Team
        <5>3. CopyRows(w) = band * w .. Smaller(band * w + band, S) - 1
          BY <4>3, <4>6, <4>9, <5>2
        <5>4. QED
          BY <5>1, <5>2, <5>3
      <4>10. QED
        BY <4>3, <4>7, <4>8, <4>9
    <3> SUFFICES
          ASSUME DriverInv, NEW t \in Threads, CopyStep(t)
          PROVE  ShareInv'
      OBVIOUS
    <3>1. /\ pc[t] = "copy" /\ Come(t) /\ pc' = [pc EXCEPT ![t] = "copied"]
          /\ UNCHANGED <<section, at, arg, local, ithr, pos, mem, C>>
          /\ ithr' = ithr /\ pos' = pos /\ mem' = mem
          /\ buf' = [r \in DOMAIN buf |->
                      IF r \in CopyRows(t) THEN <<pos[t].k, pos[t].m + r>> ELSE buf[r]]
      BY DEF CopyStep, Goto
    <3>2. /\ Sharing /\ t \in Team /\ ithr[t] = t /\ ~Over(t) /\ at # "start" /\ Steady(t)
          /\ mem # "null" /\ pc[t] \in Blocked
      BY <3>1, CopyFacts DEF CopyPlaces, Blocked
    <3>3. Met(t) /\ visits[t] # 0
      BY <3>1, <3>2 DEF Steady
    <3>4. pc'[t] = "copied"
      BY <3>1 DEF DriverInv, TypeOK
    <3>5. /\ visits[t] \in Nat /\ visits'[t] = visits[t] + 1 /\ visits' = [visits EXCEPT ![t] = @ + 1]
          /\ visits'[t] \in Nat /\ visits'[t] >= visits[t] /\ visits'[t] # 0
      BY <3>1, <2>ComeFacts
    <3>6. StepOf(t) /\ Team' = Team
      BY <3>1, <3>2, <3>5, StepAlone, ThreadFrame
    <3>7. ~Over(t)' /\ Even(t)' /\ ~Even(t)
      BY <3>1, <3>2, <3>4 DEF Over, Even
    <3>8. Ahead(t) = pos[t] /\ Ahead(t)' = pos[t]
      BY <3>1, <3>2, <3>4, <3>7 DEF Ahead
    <3>9. Steady(t)'
      <4>1. visits'[t] >= 2
        BY <3>3, <3>5, SMTT(30)
      <4>2. QED
        BY <3>4, <3>5, <3>7, <4>1 DEF Steady
    <3>10. ASSUME NEW u \in Team, u # t
           PROVE  /\ Steady(u)' /\ InStep(t, u)' /\ InStep(u, t)'
                  /\ Even(u) => pos[u] = pos[t] /\ ithr[u] = u /\ visits[u] = visits[t] + 1
                  /\ visits[u] >= visits[t] + 1 => Even(u)
      <4>1. Steady(u)'
        BY <3>2, <3>5, <3>6, <3>10, <2>SteadyOthers
      <4>2. /\ visits[u] \in Nat
            /\ visits[u] = visits[t] \/ visits[u] = visits[t] + 1
            /\ visits[u] = visits[t] => ~Even(u) /\ Ahead(u) = pos[t]
            /\ visits[u] = visits[t] + 1 => Even(u) /\ pos[u] = pos[t]
            /\ Even(u) => ithr[u] = u /\ Ahead(u) = pos[u]
        BY <3>2, <3>3, <3>7, <3>8, <3>10, AtBarrier
      <4>3. /\ visits'[u] = visits[u] /\ pos'[u] = pos[u] /\ (Even(u)' <=> Even(u)) /\ Ahead(u)' = Ahead(u)
        BY <3>2, <3>6, <3>10, <2>SameThread
      <4> DEFINE v == visits[t]
      <4>4. /\ v + 1 \in Nat /\ v <= (v + 1) + 1 /\ v # v + 1 /\ v # (v + 1) + 1 /\ v + 1 <= v + 1
            /\ v + 1 <= (v + 1) + 1 /\ v + 1 # (v + 1) + 1 /\ ~(v >= v + 1)
        BY <3>5, <2>OneMore
      <4>5. visits'[t] = v + 1 /\ pos'[t] = pos[t]
        BY <3>1, <3>5
      <4> HIDE DEF v
      <4>6. CASE visits[u] = v
        <5>1. ~Even(u) /\ Ahead(u) = pos[t]
          BY <4>2, <4>6 DEF v
        <5>2. InStep(t, u)'
          BY <3>7, <4>3, <4>4, <4>5, <4>6, <5>1 DEF InStep
        <5>3. InStep(u, t)'
          BY <4>3, <4>4, <4>5, <4>6 DEF InStep
        <5>4. QED
          BY <4>1, <4>4, <4>6, <5>1, <5>2, <5>3 DEF v
      <4>7. CASE visits[u] = v + 1
        <5>1. Even(u) /\ pos[u] = pos[t] /\ Ahead(u) = pos[t] /\ ithr[u] = u
          BY <4>2, <4>7 DEF v
        <5>2. InStep(t, u)' /\ InStep(u, t)'
          BY <3>7, <3>8, <4>3, <4>4, <4>5, <4>7, <5>1 DEF InStep
        <5>3. QED
          BY <4>1, <4>7, <5>1, <5>2 DEF v
      <4>8. QED
        BY <4>2, <4>6, <4>7 DEF v
    <3>11. DOMAIN buf' = 0 .. MPadd - 1 /\ DOMAIN buf = 0 .. MPadd - 1
      BY <3>1 DEF DriverInv, ShareInv
    <3>12. ASSUME NEW u \in Team, pos[u] = pos[t], NEW r \in 0 .. MPadd - 1,
                  r \in CopyRows(t) \/ Copied(u, r)
           PROVE  Copied(u, r)'
      <4>1. buf'[r] = IF r \in CopyRows(t) THEN <<pos[t].k, pos[t].m + r>> ELSE buf[r]
        BY <3>1, <3>11
      <4>2. CASE r \in CopyRows(t)
        <5>1. buf'[r] = <<pos[t].k, pos[t].m + r>>
          BY <4>1, <4>2
        <5>2. QED
          BY <3>1, <3>12, <5>1 DEF Copied
      <4>3. CASE r \notin CopyRows(t)
        <5>1. buf'[r] = buf[r]
          BY <4>1, <4>3
        <5>2. QED
          BY <3>1, <3>12, <4>3, <5>1 DEF Copied
      <4>4. QED
        BY <4>2, <4>3
    (* Once all have come to the barrier, all rows are there. *)
    <3>13. ASSUME NEW u \in Team, visits'[u] = visits[t] + 1, pos[u] = pos[t], Met(u)'
           PROVE  \A r \in 0 .. SizeM(t) - 1 : Copied(u, r)'
      <4>1. ASSUME NEW w \in Team, w # t PROVE Even(w) /\ pos[w] = pos[t] /\ ithr[w] = w
        <5>1. visits'[w] >= visits'[u]
          BY <3>6, <3>13 DEF Met
        <5>2. visits'[w] = visits[w]
          BY <3>2, <3>6, <4>1, <2>SameThread
        <5>3. QED
          BY <3>10, <3>13, <4>1, <5>1, <5>2
      <4>2. \A w \in Team : ithr[w] = w /\ pos[w] = pos[t]
        BY <3>2, <4>1
      <4>3. SUFFICES ASSUME NEW r \in 0 .. SizeM(t) - 1 PROVE Copied(u, r)'
        OBVIOUS
      <4>4. r \in 0 .. MPadd - 1
        BY <3>2, <3>CopyCovers
      <4>5. PICK w \in Team : r \in CopyRows(w)
        BY <3>2, <4>2, <3>CopyCovers
      <4>6. w # t => Copied(u, r)
        <5>1. SUFFICES ASSUME w # t PROVE Copied(u, r)
          OBVIOUS
        <5>2. Filled(w) /\ Even(w) /\ pos[w] = pos[u]
          BY <3>2, <3>13, <4>1, <5>1 DEF DriverInv, ShareInv
        <5>3. Copied(w, r)
          BY <4>5, <5>2 DEF Filled
        <5>4. QED
          BY <5>2, <5>3 DEF Copied
      <4>7. QED
        BY <3>12, <3>13, <4>4, <4>5, <4>6
    <3>14. SizeM(t)' = SizeM(t) /\ CopyRows(t)' = CopyRows(t)
      <4>1. UNCHANGED slice /\ NthrEff' = NthrEff
        BY <3>1, <3>2, ThreadFrame
      <4>2. SizeM(t)' = SizeM(t)
        BY <3>1, <4>1 DEF SizeM
      <4>3. QED
        BY <3>1, <4>1, <4>2 DEF CopyRows
    <3>15. Filled(t)'
      <4>1. \A r \in CopyRows(t) : Copied(t, r)'
        BY <3>2, <3>12, <3>CopyCovers
      <4>2. Met(t)' => \A r \in 0 .. SizeM(t) - 1 : Copied(t, r)'
        BY <3>2, <3>5, <3>13
      <4>3. QED
        BY <3>14, <4>1, <4>2 DEF Filled
    <3>16. ASSUME NEW u \in Team, u # t PROVE Filled(u)'
      <4>1. SUFFICES ASSUME Even(u) PROVE Filled(u)'
        BY <3>2, <3>6, <3>16, <2>SameThread DEF Filled
      <4>2. pos[u] = pos[t] /\ ithr[u] = u /\ visits[u] = visits[t] + 1 /\ Filled(u)
        BY <3>2, <3>10, <3>16, <4>1 DEF DriverInv, ShareInv
      <4>3. /\ visits'[u] = visits[u] /\ SizeM(u)' = SizeM(u) /\ CopyRows(u)' = CopyRows(u)
            /\ (Even(u)' <=> Even(u))
        BY <3>2, <3>6, <3>16, <2>SameThread
      <4>4. SizeM(u) = SizeM(t)
        BY <3>2, <4>2, <3>CopyCovers
      <4>5. ASSUME NEW r \in CopyRows(u) PROVE Copied(u, r)'
        <5>1. Copied(u, r)
          BY <4>1, <4>2 DEF Filled
        <5>2. r \in 0 .. MPadd - 1
          <6>1. pc[u] \in Blocked
            BY <4>1 DEF Even, Blocked
          <6>2. QED
            BY <3>2, <6>1, <3>CopyCovers
        <5>3. QED
          BY <3>12, <4>2, <5>1, <5>2
      <4>6. Met(u)' => \A r \in 0 .. SizeM(t) - 1 : Copied(u, r)'
        BY <3>13, <4>2, <4>3
      <4>7. QED
        BY <4>3, <4>4, <4>5, <4>6 DEF Filled
    <3>17. MemInv'
      <4>1. MemInv
        BY <3>2 DEF DriverInv, ShareInv
      <4>2. (visits'[0] = 0 <=> visits[0] = 0) /\ (Over(0)' <=> Over(0))
        <5>1. CASE t = 0
          BY <3>2, <3>3, <3>5, <3>7, <5>1
        <5>2. CASE t # 0
          BY <3>2, <3>6, <5>2, SharingFacts, <2>SameThread
        <5>3. QED
          BY <5>1, <5>2
      <4>3. QED
        BY <3>1, <3>2, <4>1, <4>2 DEF MemInv
    <3>18. mem' # "null" => \A u, w \in Team : u # t /\ w # t /\ u # w => InStep(u, w)'
      BY <3>2, <3>6, <2>OtherPairs
    <3>19. QED
      BY <3>1, <3>2, <3>9, <3>10, <3>11, <3>15, <3>16, <3>17, <3>18, <2>ShareMade
  (* The multiplication: when the last thread comes, nobody reads the block  *)
  (* any more.                                                               *)
  <2>GemmShare.
      ASSUME DriverInv, NEW t \in Threads, GemmStep(t)
      PROVE  ShareInv'
    <3> USE <2>GemmShare
    <3>1. /\ pc[t] = "gemm" /\ UNCHANGED <<section, at, local, ithr, mem, buf>>
          /\ ithr' = ithr /\ mem' = mem /\ buf' = buf
      BY DEF GemmStep
    <3>2. at # "start" /\ t \in Team
      BY <3>1, ThreadFacts
    <3>3. CASE packedA
      BY <3>1, <3>2, <3>3, <2>ThreadUnshared DEF Sharing
    <3>4. CASE ~packedA
      <4>1. pos' = pos /\ Come(t) /\ pc' = [pc EXCEPT ![t] = "computed"]
        BY <3>4 DEF GemmStep, Goto
      <4>2. /\ Sharing /\ ithr[t] = t /\ ~Over(t) /\ Steady(t)
            /\ mem # "null" /\ pc[t] \in Blocked
        BY <3>1, <3>4, CopyFacts DEF Blocked
      <4>3. Met(t) /\ visits[t] # 0 /\ visits[t] >= 2
        BY <3>1, <4>2 DEF Steady
      <4>4. pc'[t] = "computed"
        BY <4>1 DEF DriverInv, TypeOK
      <4>5. /\ visits[t] \in Nat /\ visits'[t] = visits[t] + 1 /\ visits' = [visits EXCEPT ![t] = @ + 1]
            /\ visits'[t] \in Nat /\ visits'[t] >= visits[t] /\ visits'[t] # 0
        BY <4>1, <2>ComeFacts
      <4>6. StepOf(t) /\ Team' = Team
        BY <3>1, <3>2, <4>1, <4>5, StepAlone, ThreadFrame
      <4>7. ~Over(t)' /\ ~Even(t)' /\ Even(t)
        BY <3>1, <4>2, <4>4 DEF Over, Even
      <4>8. NextBlock(t)' = NextBlock(t)
        <5>1. UNCHANGED slice
          BY <3>1, <3>2, ThreadFrame
        <5>2. SizeM(t)' = SizeM(t) /\ SizeK(t)' = SizeK(t)
          BY <3>1, <4>1, <5>1 DEF SizeM, SizeK
        <5>3. QED
          BY <3>1, <4>1, <5>1, <5>2 DEF NextBlock
      <4>9. Ahead(t) = pos[t] /\ Ahead(t)' = NextBlock(t)
        BY <3>1, <4>2, <4>4, <4>7, <4>8 DEF Ahead
      <4>10. Steady(t)' /\ Filled(t)'
        <5>1. visits'[t] >= 2
          BY <4>3, <4>5, SMTT(30)
        <5>2. QED
          BY <4>4, <4>5, <4>7, <5>1 DEF Steady, Filled
      <4>11. ASSUME NEW u \in Team, u # t
             PROVE  Steady(u)' /\ Filled(u)' /\ InStep(t, u)' /\ InStep(u, t)'
        <5>1. Steady(u)'
          BY <4>2, <4>5, <4>6, <4>11, <2>SteadyOthers
        <5>2. /\ visits[u] \in Nat
              /\ visits[u] = visits[t] \/ visits[u] = visits[t] + 1
              /\ visits[u] = visits[t] => Even(u) /\ Ahead(u) = pos[t]
              /\ visits[u] = visits[t] + 1 => pc[u] = "computed" /\ pos[u] = pos[t]
              /\ Even(u) => Ahead(u) = pos[u]
              /\ pc[u] = "computed" => Ahead(u) = NextBlock(u) /\ ~Even(u)
          <6>1. pc[u] = "computed" => ~Even(u)
            BY DEF Even
          <6>2. QED
            BY <3>2, <4>2, <4>3, <4>7, <4>9, <4>11, <6>1, AtBarrier
        <5>3. /\ visits'[u] = visits[u] /\ pos'[u] = pos[u] /\ (Even(u)' <=> Even(u)) /\ Ahead(u)' = Ahead(u)
              /\ pc'[u] = pc[u]
          BY <3>2, <4>2, <4>6, <4>11, <2>SameThread
        <5> DEFINE v == visits[t]
        <5>4. /\ v + 1 \in Nat /\ v <= (v + 1) + 1 /\ v # v + 1 /\ v # (v + 1) + 1 /\ v + 1 <= v + 1
              /\ v + 1 <= (v + 1) + 1 /\ v + 1 # (v + 1) + 1 /\ ~(v >= v + 1)
          BY <4>5, <2>OneMore
        <5>5. visits'[t] = v + 1 /\ pos'[t] = pos[t]
          BY <4>1, <4>5
        <5> HIDE DEF v
        <5>6. Even(u) /\ Met(u)' => Met(u)
          <6>1. SUFFICES ASSUME Even(u), Met(u)', NEW w \in Team PROVE visits[w] >= visits[u]
            BY DEF Met
          <6>2. visits[u] = visits[t]
            BY <5>2, <6>1
          <6>3. CASE w = t
            BY <4>5, <6>2, <6>3, SMTT(30)
          <6>4. CASE w # t
            <7>1. visits'[w] = visits[w]
              BY <3>2, <4>2, <4>6, <6>4, <2>SameThread
            <7>2. visits'[w] >= visits'[u]
              BY <4>6, <6>1 DEF Met
            <7>3. QED
              BY <5>3, <7>1, <7>2
          <6>5. QED
            BY <6>3, <6>4
        <5>7. Filled(u)'
          BY <3>1, <3>2, <4>2, <4>6, <4>11, <5>6, <2>FilledOthers
        <5>8. CASE visits[u] = v
          <6>1. Even(u) /\ pos[u] = pos[t]
            BY <5>2, <5>8 DEF v
          <6>2. InStep(t, u)'
            BY <4>4, <4>7, <5>3, <5>4, <5>5, <5>8, <6>1 DEF InStep
          <6>3. InStep(u, t)'
            BY <5>3, <5>4, <5>5, <5>8 DEF InStep
          <6>4. QED
            BY <5>1, <5>7, <6>2, <6>3
        <5>9. CASE visits[u] = v + 1
          <6>1. pc[u] = "computed" /\ pos[u] = pos[t] /\ Ahead(u) = NextBlock(u) /\ ~Even(u)
            BY <5>2, <5>9 DEF v
          <6>2. NextBlock(u) = NextBlock(t)
            <7>1. u \in Threads /\ pc[u] \in Blocked /\ ithr[u] = u
              BY <4>2, <6>1, SharingFacts, SharingThread DEF Blocked
            <7>2. slice[u].m = prob.m /\ slice[u].k = prob.k /\ slice[t].m = prob.m /\ slice[t].k = prob.k
              BY <3>2, <4>2, SharingThread
            <7>3. SizeM(u) = SizeM(t) /\ SizeK(u) = SizeK(t)
              BY <4>2, <6>1, <7>1, <7>2 DEF SizeM, SizeK
            <7>4. QED
              BY <4>2, <6>1, <7>1, <7>2, <7>3 DEF NextBlock
          <6>3. InStep(t, u)' /\ InStep(u, t)'
            BY <4>7, <4>9, <5>3, <5>4, <5>5, <5>9, <6>1, <6>2 DEF InStep
          <6>4. QED
            BY <5>1, <5>7, <6>3
        <5>10. QED
          BY <5>2, <5>8, <5>9 DEF v
      <4>12. MemInv'
        <5>1. MemInv
          BY <4>2 DEF DriverInv, ShareInv
        <5>2. (visits'[0] = 0 <=> visits[0] = 0) /\ (Over(0)' <=> Over(0))
          <6>1. CASE t = 0
            BY <4>2, <4>3, <4>5, <4>7, <6>1
          <6>2. CASE t # 0
            BY <3>2, <4>2, <4>6, <6>2, SharingFacts, <2>SameThread
          <6>3. QED
            BY <6>1, <6>2
        <5>3. QED
          BY <3>1, <4>2, <5>1, <5>2 DEF MemInv
      <4>13. mem' # "null" => \A u, w \in Team : u # t /\ w # t /\ u # w => InStep(u, w)'
        BY <4>2, <4>6, <2>OtherPairs
      <4>14. DOMAIN buf' = 0 .. MPadd - 1
        BY <3>1 DEF DriverInv, ShareInv
      <4>15. QED
        BY <3>1, <3>2, <4>2, <4>10, <4>11, <4>12, <4>13, <4>14, <2>ShareMade
    <3>5. QED
      BY <3>3, <3>4
  (* A kernel of its own, and a sum, mean that the team shares no copy. *)
  <2>KernelShare.
      ASSUME DriverInv, NEW t \in Threads, KernelStep(t)
      PROVE  ShareInv'
    <3> USE <2>KernelShare
    <3>1. pc[t] = "kernel" /\ UNCHANGED <<section, at>> /\ mem' = mem /\ buf' = buf
      BY DEF KernelStep, shared
    <3>2. at # "start" /\ Placed(t)
      BY <3>1, ThreadFacts
    <3>3. ~Sharing
      BY <3>1, <3>2 DEF Placed, PlacedAt, Sharing
    <3>4. QED
      BY <3>1, <3>2, <3>3, <2>ThreadUnshared
  (* Sums and the shared buffer do not meet. *)
  <2>SumShare.
      ASSUME DriverInv, NEW t \in Threads, SumStep(t)
      PROVE  ShareInv'
    <3> USE <2>SumShare
    <3>1. pc[t] = "sum" /\ UNCHANGED <<section, at>> /\ mem' = mem /\ buf' = buf
      BY DEF SumStep, shared
    <3>2. at # "start"
      BY <3>1, ThreadAt
    <3>3. ~Sharing
      <4>1. SUFFICES ASSUME Sharing PROVE FALSE
        OBVIOUS
      <4>2. at \in After /\ info # NoInfo /\ at = "section"
        BY <4>1, SharingFacts DEF Sharing
      <4>3. k_summing
        BY <3>1, <4>2 DEF DriverInv, PlaceInv, Placed, PlacedAt, Sums
      <4>4. info.partition = "mnk_3d" /\ Legal(info, prob)
        BY <4>2, <4>3, SectionFacts
      <4>5. info.copy = "shared_a" => info.partition = "col_1d"
        BY <4>4 DEF Legal
      <4>6. QED
        BY <4>1, <4>4, <4>5 DEF Sharing
    <3>4. QED
      BY <3>1, <3>2, <3>3, <2>ThreadUnshared
  <2> SUFFICES
        ASSUME DriverInv, NEW t \in Threads, ThreadStep(t)
        PROVE  DriverInv'
    OBVIOUS
  <2>1. CASE WholeStep(t)
    BY <2>1, <2>WholeStepInv
  <2>2. CASE ~WholeStep(t)
    <3>1. CoreInv'
      BY <2>2, <2>LoopCore, <2>KernelCore, <2>DispatchedCore, <2>MallocCore, <2>MallocedCore, <2>CopyCore, <2>CopiedCore,
         <2>GemmCore, <2>ComputedCore, <2>SumCore DEF ThreadStep
    <3>2. ShareInv'
      BY <2>2, <2>LoopShare, <2>KernelShare, <2>DispatchedShare, <2>MallocShare, <2>MallocedShare, <2>CopyShare,
         <2>CopiedShare, <2>GemmShare, <2>ComputedShare, <2>SumShare DEF ThreadStep
    <3>3. QED
      BY <3>1, <3>2 DEF CoreInv, DriverInv
  <2>3. QED
    BY <2>1, <2>2
(* Nothing moves: the invariant stays. *)
<1>DriverStutter.
    ASSUME DriverInv, UNCHANGED vars
    PROVE  DriverInv'
  <2> USE <1>DriverStutter
  <2>1. /\ UNCHANGED <<prob, forced, packedA, at, nthr, info, slice, arg, local, pc, ithr, pos>>
        /\ UNCHANGED <<visits, mem, buf, C, heap, ret>>
    BY DEF vars, plan, shared
  <2>2. TypeOK' /\ PlanInv'
    BY <2>1 DEF DriverInv, TypeOK, PlanInv, Inside, ForceThreading, Legal
  <2>3. SliceInv'
    BY <2>1 DEF DriverInv, SliceInv, Sliced, Unsliced, ForceThreading, Legal, k_summing
  <2>4. PlaceInv'
    BY <2>1 DEF DriverInv, PlaceInv, Pristine, Placed, PlacedAt, Sums, k_summing
  <2>5. /\ Team' = Team /\ (Sharing' <=> Sharing) /\ (MemInv' <=> MemInv)
        /\ \A t : (Met(t)' <=> Met(t)) /\ (Over(t)' <=> Over(t)) /\ (Even(t)' <=> Even(t))
    BY <2>1 DEF Team, Sharing, MemInv, Met, Over, Even
  <2>6. \A t : /\ SizeM(t)' = SizeM(t) /\ SizeK(t)' = SizeK(t) /\ NextBlock(t)' = NextBlock(t)
               /\ CopyRows(t)' = CopyRows(t)
    BY <2>1 DEF SizeM, SizeK, NextBlock, CopyRows, NthrEff, ForceThreading
  <2>7. \A t : Ahead(t)' = Ahead(t)
    BY <2>1, <2>5, <2>6 DEF Ahead, End
  <2>8. \A t : (Steady(t)' <=> Steady(t)) /\ (Filled(t)' <=> Filled(t))
    BY <2>1, <2>5, <2>6 DEF Steady, Filled, Copied
  <2>9. \A t, u : InStep(t, u)' <=> InStep(t, u)
    BY <2>1, <2>5, <2>7 DEF InStep
  <2>10. ShareInv'
    BY <2>1, <2>5, <2>8, <2>9 DEF DriverInv, ShareInv
  <2>11. QED
    BY <2>2, <2>3, <2>4, <2>10 DEF DriverInv
<1>1. Init => DriverInv
  BY DriverInit
<1>2. DriverInv /\ [Next]_vars => DriverInv'
  <2>1. SUFFICES ASSUME DriverInv, [Next]_vars PROVE DriverInv'
    OBVIOUS
  <2>2. CASE DriverStep
    BY <2>1, <2>2, <1>StartStep, <1>AloneStep, <1>AllocArgsStep, <1>AllocLocalStep, SpawnStep, <1>JoinStep,
       SpawnSumStep, <1>JoinSumStep DEF DriverStep
  <2>3. ASSUME NEW t \in Threads, ThreadStep(t) PROVE DriverInv'
    BY <2>1, <2>3, <1>ThreadStepInv
  <2>4. CASE UNCHANGED vars
    BY <2>1, <2>4, <1>DriverStutter
  <2>5. QED
    BY <2>1, <2>2, <2>3, <2>4 DEF Next, Returned, Spin
<1>3. QED
  BY <1>1, <1>2, PTL DEF Spec

(* TypeOK for every team, problem and tile size: in particular every slice *)
(* that get_thread_slice hands out lies inside the matrices, and the       *)
(* driver and its threads stay in the states the model gives them.         *)
THEOREM TypeCorrect == Spec => []TypeOK
<1>1. DriverInv => TypeOK
  BY DEF DriverInv
<1>2. QED
  BY <1>1, DriverInductive, PTL

(* Whatever fails, gemm_threading_driver returns with thread_arg, the      *)
(* temporary C matrices and the shared buffer freed.                       *)
THEOREM DriverFrees == Spec => []NothingLeaks
<1>1. DriverInv => NothingLeaks
  <2>1. SUFFICES ASSUME DriverInv, at = "returned" PROVE heap = {} /\ mem # "live"
    BY DEF NothingLeaks
  <2>2. heap = {}
    BY <2>1 DEF DriverInv, SliceInv
  <2>3. mem # "live"
    BY <2>1 DEF DriverInv, ShareInv, Sharing
  <2>4. QED
    BY <2>2, <2>3
<1>2. QED
  BY <1>1, DriverInductive, PTL

(* The two barriers of parallel_a_copy suffice, for every size of the      *)
(* team and of the block: while a thread computes with the shared copy     *)
(* of A, the buffer is live and holds its whole block and no other.        *)
THEOREM TwoBarriers == Spec => []SharedBlockWhole
<1>1. DriverInv => SharedBlockWhole
  <2>1. SUFFICES ASSUME DriverInv, NEW t \in Threads, pc[t] = "gemm", ~packedA
                 PROVE  /\ mem = "live"
                        /\ \A r \in 0 .. SizeM(t) - 1 : buf[r] = <<pos[t].k, pos[t].m + r>>
    BY DEF SharedBlockWhole
  <2>2. Sharing /\ t \in Team /\ ~Over(t) /\ Steady(t) /\ visits[t] \in Nat /\ mem # "null"
    BY <2>1, CopyFacts DEF Blocked
  <2>3. Met(t) /\ visits[t] # 0 /\ Even(t)
    BY <2>1, <2>2 DEF Steady, Even
  <2>4. \A r \in 0 .. SizeM(t) - 1 : buf[r] = <<pos[t].k, pos[t].m + r>>
    BY <2>1, <2>2, <2>3 DEF DriverInv, ShareInv, Filled, Copied
  <2>5. 0 \in Team /\ MemInv
    BY <2>1, <2>2, SharingFacts DEF DriverInv, ShareInv
  <2>6. mem # "none"
    <3>1. visits[0] >= visits[t] /\ visits[0] \in Nat
      BY <2>1, <2>3, <2>5, SharingFacts, <2>2 DEF Met, DriverInv, TypeOK
    <3>2. visits[0] # 0
      BY <2>2, <2>3, <3>1, SMTT(30)
    <3>3. QED
      BY <2>5, <3>2 DEF MemInv
  <2>7. ~Over(0)
    <3>1. SUFFICES ASSUME 0 # t PROVE ~Over(0)
      BY <2>2
    <3>2. /\ visits[0] = visits[t] \/ visits[0] = visits[t] + 1
          /\ visits[0] = visits[t] => Even(0)
          /\ visits[0] = visits[t] + 1 => pc[0] = "computed"
          /\ Even(0) \/ pc[0] = "computed" => ~Over(0)
      BY <2>1, <2>2, <2>3, <2>5, <3>1, AtBarrier
    <3>3. QED
      BY <3>2
  <2>8. mem = "live"
    BY <2>1, <2>2, <2>5, <2>6, <2>7 DEF MemInv, DriverInv, TypeOK
  <2>9. QED
    BY <2>4, <2>8
<1>2. QED
  BY <1>1, DriverInductive, PTL
=============================================================================
