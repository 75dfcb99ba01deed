---------------------------- MODULE GemmThreading ----------------------------
(***************************************************************************)
(* How the x64 GEMM driver divides C, and the inner dimension k, between   *)
(* threads: cpu/x64/gemm/gemm_partition.hpp, gemm_threading.hpp and the    *)
(* blocking of set_thread_opts_pack in gemm_driver.cpp.  And when it       *)
(* leaves a multiplication to the kernels that do not copy (f32 only).     *)
(***************************************************************************)
EXTENDS Balance211

Smaller(a, b) == IF a <= b THEN a ELSE b
Larger(a, b) == IF a >= b THEN a ELSE b
RoundUp(a, b) == DivUp(a, b) * b

(* Mutant: the tail is not cut at the end. *)
Partition1dUncut(ithr, nthrs, n) ==
    LET q == n \div nthrs
        band == IF n - (nthrs - 1) * q > q + 1 THEN q + 1 ELSE q
    IN [off |-> ithr * band, size |-> band]

(* partition_1d: the band of thread ithr; what begins past the end is cut  *)
(* to nothing.                                                             *)
Partition1d(ithr, nthrs, n) ==
    LET q == n \div nthrs
        band == IF n - (nthrs - 1) * q > q + 1 THEN q + 1 ELSE q
        off == ithr * band
        size == IF ithr < nthrs - 1 THEN band ELSE n - (nthrs - 1) * band
    IN IF off >= n THEN [off |-> 0, size |-> 0]
       ELSE [off |-> off, size |-> Smaller(size, n - off)]

(* partition_2d, one of its dimensions: the size of a band and the number  *)
(* of bands.  Rows (wide) get larger bands than columns.                   *)
Bands(size, div, wide) ==
    LET q == size \div div
        last == size - (div - 1) * q
        val == IF last <= q + 1 THEN q
               ELSE IF wide /\ last > div THEN q + 2 ELSE q + 1
    IN [val |-> val, used |-> IF last <= q + 1 THEN div ELSE DivUp(size, val)]

(* The band with index i. *)
Band(i, b, size) ==
    IF i < b.used - 1 THEN [off |-> i * b.val, size |-> b.val]
    ELSE LET disp == (b.used - 1) * b.val
         IN [off |-> Larger(Smaller(disp, size - 1), 0), size |-> Larger(0, size - disp)]

(* An info is what get_thread_slice reads of a gemm_threading_t; a slice   *)
(* is a gemm_slice_t.                                                      *)
Slice(bm, bn, bk, ithr_k) ==
    [off_m |-> bm.off, m |-> bm.size, off_n |-> bn.off, n |-> bn.size,
     off_k |-> bk.off, k |-> bk.size, ithr_k |-> ithr_k]

Whole(size) == [off |-> 0, size |-> size]

Partition2d(ithr, info, m, n, k) ==
    LET bm == Bands(m, info.nthrs_m, TRUE)
        bn == Bands(n, info.nthrs_n, FALSE)
        i == ithr % info.nthrs_m
        j == ithr \div info.nthrs_m
    IN IF ithr < bm.used * bn.used
       THEN Slice(Band(i, bm, m), Band(j, bn, n), Whole(k), 0)
       ELSE Slice(Whole(0), Whole(0), Whole(k), 0)

(* partition_type::mnk_3d *)
Block(i, thread_z, size) ==
    [off |-> i * thread_z, size |-> Smaller(thread_z, size - i * thread_z)]

Nthrs(info) == info.nthrs_m * info.nthrs_n * info.nthrs_k

GetThreadSlice(info, ithr, m, n, k) ==
    CASE info.partition = "row_1d" ->
            Slice(Partition1d(ithr, Nthrs(info), m), Whole(n), Whole(k), 0)
      [] info.partition = "col_1d" ->
            Slice(Whole(m), Partition1d(ithr, Nthrs(info), n), Whole(k), 0)
      [] info.partition = "col_major_2d" -> Partition2d(ithr, info, m, n, k)
      [] info.partition = "mnk_3d" ->
            LET ithr_mn == ithr \div info.nthrs_m
                ithr_k == ithr_mn \div info.nthrs_n
            IN Slice(Block(ithr % info.nthrs_m, info.thread_m, m),
                     Block(ithr_mn % info.nthrs_n, info.thread_n, n),
                     Block(ithr_k, info.thread_k, k), ithr_k)

ThrKStride(info) == info.nthrs_m * info.nthrs_n

-----------------------------------------------------------------------------
(* choose_blocking: the size a thread gets, a multiple of the alignment,   *)
(* and the number of threads that then have something to do.               *)
ChooseBlocking(size, nthr, init, align) ==
    LET share == DivUp(size, nthr)
        num_blk == DivUp(share, init)
        thread == num_blk * RoundUp(DivUp(share, num_blk), align)
    IN [thread |-> thread,
        nthr |-> IF thread * nthr > size THEN DivUp(size, thread) ELSE nthr]

-----------------------------------------------------------------------------
(* nocopy_checker_avx2 and nocopy_checker_avx512.  g is the problem: m, n, *)
(* k, lda, ldb, ldc and whether A and B are transposed.  The thresholds on *)
(* 1.0 / m + 1.0 / n are written without fractions.                        *)
NocopyAvx2(nthr, g) ==
    \/ 10000 * (g.m + g.n) >= 38 * g.m * g.n
    \/ /\ ~(g.m <= 378 /\ g.n <= 378 /\ g.k >= nthr * 378)
       /\ ~(g.m >= nthr * 378 /\ g.k >= nthr * 378)
       /\ \/ g.m <= 128 /\ g.n <= 128
          \/ g.n <= nthr * (IF g.transb THEN 1 ELSE 16)
          \/ g.k <= nthr * (IF g.transb THEN 1 ELSE 2)
          \/ ~g.transb /\ g.m <= 64 /\ g.n >= nthr * 16

Bad(ld) == ld % 256 = 0

NocopyAvx512(nthr, g) ==
    LET sequential == /\ nthr = 1 /\ g.transa /\ ~g.transb /\ g.m > 100
                      /\ \/ g.m < 1200 /\ g.n < 200 /\ g.k < 1200
                         \/ Bad(g.lda) /\ Bad(g.ldb)
        copying == 100000 * (g.m + g.n) >= 196 * g.m * g.n
                   /\ ~(g.lda % 1024 = 0 /\ ~g.transa /\ g.transb)
        bad_ld == /\ Bad(g.lda) \/ Bad(g.ldb) \/ Bad(g.ldc)
                  /\ g.m >= 32
                  /\ \/ g.n > 16
                     \/ g.n = 16 /\ (g.k >= 6400 \/ g.transa \/ g.m = 4096)
    IN /\ ~sequential
       /\ \/ copying
          \/ /\ ~bad_ld
             /\ ~(g.m <= 378 /\ g.n <= 378 /\ g.k >= nthr * 378)
             /\ ~(g.m >= nthr * 378 /\ g.k >= nthr * 378)
             /\ \/ g.m <= nthr * 28 /\ (~g.transb \/ g.m >= g.n)
                \/ g.n <= nthr * 28
                \/ g.k <= nthr
=============================================================================
