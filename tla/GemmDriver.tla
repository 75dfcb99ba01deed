------------------------------ MODULE GemmDriver ------------------------------
(***************************************************************************)
(* One call of gemm_threading_driver (cpu/x64/gemm/gemm_driver.cpp) that   *)
(* multiplies, C := beta * C + A * B + offset, on a team of threads.       *)
(*                                                                         *)
(* The driver chooses a decomposition, allocates the threads' records and  *)
(* temporary C matrices, runs a parallel section, adds the temporary       *)
(* matrices to C and collects the status.  The runtime may grant a smaller *)
(* team than asked for, every allocation may fail, and only one with       *)
(* barriers (sync) lets a thread wait for another inside the section.      *)
(*                                                                         *)
(* Abstracted: the heuristics' thresholds, to any decomposition of the     *)
(* form they produce; and numbers.  An element of C records whether beta   *)
(* was applied, how often each k was added and how often the offset.       *)
(***************************************************************************)
EXTENDS GemmThreading, FiniteSets

CONSTANTS NthrMax,          \* dnnl_get_max_threads()
          Problems,         \* records with the sizes m, n and k
          Avx512,           \* mayiuse(avx512_core)
          Um, Un,           \* rows and columns of the kernel's tile
          Veclen, AlignK,   \* alignment of m, if not Um, and of k
          BlockM, BlockN,   \* m and n block of the kernel
          BlockK, KBLK,     \* its k block; least k worth a thread
          MPadd, KPadd      \* block of A that the team copies at a time

ASSUME DriverAssumption ==
    /\ {NthrMax, Um, Un, Veclen, AlignK, BlockM, BlockN, BlockK, KBLK, MPadd, KPadd}
          \subseteq Nat \ {0}
    /\ Avx512 \in BOOLEAN
    /\ Problems \subseteq [m : Nat \ {0}, n : Nat \ {0}, k : Nat \ {0}]
(* The kernels' tiles have at least 8 rows, and 48 with AVX-512: a matrix  *)
(* with a tile for every band has many more rows than there are bands.     *)
ASSUME TilesAssumption ==
    \A p \in Problems : /\ p.m >= 4 * Um => p.m >= 20
                        /\ Avx512 /\ p.m >= 8 * Um => p.m >= 112

Threads == 0 .. NthrMax - 1

VARIABLES
    prob,     \* the problem, nthr_goal and the kind of runtime
    forced,   \* force_threading
    packedA,  \* A needs no copy: it was packed beforehand
    at,       \* where the driver is
    nthr,     \* size of the team of the current parallel section
    info,     \* thread_info (also the thread's own copy of it)
    slice,    \* thread_arg[].slice
    arg,      \* thread_arg[].result and .compute_done
    local,    \* thread_arg[].c_local: does it hold its product?
    pc,       \* per thread of the team: where it is,
    ithr,     \*   the part it works on,
    pos,      \*   block of A (Bk and Bm), or thr_k in sum_k_blocks,
    visits,   \*   and the barriers it has come to
    mem,      \* shared_mem
    buf,      \* per row of the shared buffer: Bk and the row of A in it
    C,
    heap,     \* which of thread_arg and c_local_storage are allocated
    ret       \* what the driver returns

plan == <<prob, forced, packedA>>
shared == <<mem, buf, visits>>
vars == <<plan, at, nthr, info, slice, arg, local, pc, ithr, pos, shared, C, heap, ret>>

-----------------------------------------------------------------------------
Info(partition, copy, tm, tn, tk) ==
    [partition |-> partition, copy |-> copy, nthrs_m |-> tm, nthrs_n |-> tn,
     nthrs_k |-> tk, thread_m |-> 0, thread_n |-> 0, thread_k |-> 0]

NoInfo == Info("none", "nonshared", 0, 0, 0)

(* The largest divisor of nthrs, at most 4, for which k is large enough. *)
SplitK(nthrs, k) ==
    LET fits == {nk \in 1 .. 4 : nthrs % nk = 0 /\ k >= (KBLK + 1) * nk} \cup {1}
    IN CHOOSE nk \in fits : \A other \in fits : other <= nk

(* set_thread_opts_pack: a decomposition in m, n and k.  Whether to split  *)
(* k, giving up a thread for it if need be, and into how many rows and     *)
(* columns is a heuristic.                                                 *)
PackInfo(p, nk, tm, tn, align) ==
    LET ck == ChooseBlocking(p.k, nk, BlockK, AlignK)
        cm == ChooseBlocking(p.m, tm, BlockM, align)
        cn == ChooseBlocking(p.n, tn, BlockN, Un)
    IN [partition |-> "mnk_3d", copy |-> "nonshared",
        nthrs_m |-> cm.nthr, nthrs_n |-> cn.nthr, nthrs_k |-> ck.nthr,
        thread_m |-> cm.thread, thread_n |-> cn.thread, thread_k |-> ck.thread]

PackInfos(nthrs, p, do_k) ==
    LET splits == {1} \cup IF do_k THEN {SplitK(x, p.k) : x \in {nthrs, Larger(nthrs - 1, 1)}}
                           ELSE {}
    IN {i \in {PackInfo(p, nk, tm, tn, align) :
                  nk \in splits, tm \in 1 .. nthrs, tn \in 1 .. nthrs, align \in {Um, Veclen}} :
            Nthrs(i) <= nthrs}

(* The bands of rows of a decomposition in two dimensions.  The loop that  *)
(* doubles them goes beyond 4 only with AVX-512 and types other than f32,  *)
(* and then not beyond 8: for 16 m would have to be at least 16 * 48 and,  *)
(* as n < nthrs, below 256 * n / nthrs.                                    *)
RowBands == {1, 2, 4} \cup IF Avx512 THEN {8} ELSE {}

(* set_thread_opts_nopack: rows, columns, both, or columns with a copy of  *)
(* A that all threads of the team make together.                           *)
NopackInfos(nthrs, spawn, p) ==
    {Info("row_1d", "nonshared", nthrs, 1, 1), Info("col_1d", "nonshared", 1, nthrs, 1)}
    \cup {Info("col_major_2d", "nonshared", tm, nthrs \div tm, 1) :
            tm \in {x \in RowBands : x <= nthrs /\ (x > 1 => p.m >= x * Um)}}
    \cup PackInfos(nthrs, p, FALSE)
    \cup IF p.sync THEN {Info("col_1d", "shared_a", 1, spawn, 1)} ELSE {}

k_summing == forced.nthrs_k > 1
ForceThreading == forced # NoInfo
nthr_spawn == IF prob.sync THEN NthrMax ELSE prob.goal
NthrEff == IF ForceThreading THEN prob.goal ELSE Nthrs(info)
Team == 0 .. nthr - 1

-----------------------------------------------------------------------------
(* What a multiplication leaves in an element of C. *)
Rows(s) == s.off_m .. s.off_m + s.m - 1
Cols(s) == s.off_n .. s.off_n + s.n - 1
Ks(s) == s.off_k .. s.off_k + s.k - 1

Fresh(e, base) == [base |-> base, sum |-> [x \in DOMAIN e.sum |-> 0], co |-> 0]

Plus(e, ks) ==
    IF e.base = "bad" THEN e
    ELSE [e EXCEPT !.sum = [x \in DOMAIN @ |-> @[x] + (IF x \in ks THEN 1 ELSE 0)]]

(* With first, C is scaled by beta or overwritten, and what was added      *)
(* before is lost.  With last, the offset is added.                        *)
Multiplied(e, ks, first, last) ==
    LET base == IF ~first THEN e
                ELSE Fresh(e, IF e.base = "old" THEN "beta" ELSE "bad")
    IN [Plus(base, ks) EXCEPT !.co = @ + (IF last /\ base.base # "bad" THEN 1 ELSE 0)]

Multiply(rows, cols, ks, first, last) ==
    [x \in DOMAIN C |-> IF x[1] \in rows /\ x[2] \in cols
                        THEN Multiplied(C[x], ks, first, last) ELSE C[x]]

(* What a kernel that failed half-way leaves. *)
Spoil(rows, cols) ==
    [x \in DOMAIN C |-> IF x[1] \in rows /\ x[2] \in cols THEN Fresh(C[x], "bad") ELSE C[x]]

Elements(p) == (0 .. p.m - 1) \X (0 .. p.n - 1)

NoBlock == [k |-> 0, m |-> 0]
NoSlice == Slice(Whole(0), Whole(0), Whole(0), 0)

Init ==
    /\ \E p \in Problems, g \in 1 .. NthrMax, s \in BOOLEAN :
            prob = [m |-> p.m, n |-> p.n, k |-> p.k, goal |-> g, sync |-> s]
    /\ forced = NoInfo /\ packedA = FALSE
    /\ at = "start" /\ nthr = 0 /\ info = NoInfo
    /\ slice = [t \in Threads |-> NoSlice]
    /\ arg = [t \in Threads |-> [result |-> "success", done |-> FALSE]]
    /\ local = [t \in Threads |-> FALSE]
    /\ pc = [t \in Threads |-> "out"]
    /\ ithr = [t \in Threads |-> t]
    /\ pos = [t \in Threads |-> NoBlock]
    /\ visits = [t \in Threads |-> 0]
    /\ mem = "none"
    /\ buf = [r \in 0 .. MPadd - 1 |-> <<>>]
    /\ C = [x \in Elements(prob) |->
                [base |-> "old", sum |-> [k \in 0 .. prob.k - 1 |-> 0], co |-> 0]]
    /\ heap = {} /\ ret = "none"

-----------------------------------------------------------------------------
(* The driver up to the parallel section.                                  *)

(* Packed data, or the k decomposition of bf16 and int8, force the         *)
(* threading: A is packed, with B or without, or B alone, which makes a    *)
(* difference only if the team is to copy A together.  Assumed of the      *)
(* caller, and not tested by the driver, whose thread_arg has nthr_max     *)
(* entries: the data was packed when there were NthrMax threads as well.   *)
Start ==
    /\ at = "start"
    /\ \/ UNCHANGED <<prob, forced, packedA>>
       \/ /\ \E i \in {i \in PackInfos(prob.goal, prob, TRUE) : i.nthrs_k > 1} :
                forced' = i /\ prob' = [prob EXCEPT !.goal = Nthrs(i)]
          /\ UNCHANGED packedA
       \/ /\ \E g \in 1 .. NthrMax :
                \E i \in NopackInfos(g, NthrMax, prob) \cup PackInfos(g, prob, TRUE) :
                    forced' = i /\ prob' = [prob EXCEPT !.goal = Nthrs(i)]
          /\ packedA' \in {TRUE, forced'.copy # "shared_a"}
    /\ at' = IF prob'.goal = 1 THEN "alone" ELSE "alloc"
    /\ UNCHANGED <<nthr, info, slice, arg, local, pc, ithr, pos, shared, C, heap, ret>>

AllElements == Multiply(0 .. prob.m - 1, 0 .. prob.n - 1, 0 .. prob.k - 1, TRUE, TRUE)

Alone ==
    /\ at = "alone"
    /\ \/ C' = AllElements /\ ret' = "success"
       \/ UNCHANGED C /\ ret' = "out_of_memory"
    /\ at' = "returned"
    /\ UNCHANGED <<plan, nthr, info, slice, arg, local, pc, ithr, pos, shared, heap>>

Return(status) == at' = "returned" /\ ret' = status

AllocArgs ==
    /\ at = "alloc"
    /\ \/ Return("out_of_memory") /\ UNCHANGED <<heap, slice>>
       \/ /\ at' = IF k_summing THEN "alloc_c" ELSE "spawn"
          /\ heap' = {"thread_arg"}
          /\ slice' = [t \in Threads |->
                        IF ForceThreading /\ t < prob.goal
                        THEN GetThreadSlice(forced, t, prob.m, prob.n, prob.k) ELSE NoSlice]
          /\ UNCHANGED ret
    /\ UNCHANGED <<plan, nthr, info, arg, local, pc, ithr, pos, shared, C>>

AllocLocal ==
    /\ at = "alloc_c"
    /\ \/ Return("out_of_memory") /\ heap' = {}
       \/ at' = "spawn" /\ heap' = heap \cup {"c_local"} /\ UNCHANGED ret
    /\ UNCHANGED <<plan, nthr, info, slice, arg, local, pc, ithr, pos, shared, C>>

(* The teams that the runtime may grant.  Assumed of it, where B was       *)
(* packed alone for threads that copy A together: all of them.  The driver *)
(* does not test it; a smaller team would run parts of one copy after one  *)
(* another, each with its barriers.                                        *)
Grants ==
    {n \in 1 .. nthr_spawn : forced.copy = "shared_a" /\ ~packedA => n = Nthrs(forced)}

(* parallel(nthr_spawn, ...): each of the n threads granted chooses the    *)
(* same decomposition.                                                     *)
Spawn ==
    /\ at = "spawn"
    /\ \E n \in Grants :
        LET eff == IF ForceThreading THEN prob.goal ELSE Smaller(prob.goal, n)
        IN /\ nthr' = n
           /\ IF eff = 1
              THEN /\ pc' = [t \in Threads |-> IF t < n THEN "whole" ELSE "out"]
                   /\ UNCHANGED <<info, slice>>
              ELSE /\ \E i \in IF ForceThreading THEN {forced} ELSE NopackInfos(eff, n, prob) :
                        /\ info' = i
                        /\ slice' = IF ForceThreading THEN slice
                                    ELSE [t \in Threads |->
                                            IF t < Nthrs(i)
                                            THEN GetThreadSlice(i, t, prob.m, prob.n, prob.k)
                                            ELSE NoSlice]
                   /\ pc' = [t \in Threads |-> IF t < n THEN "loop" ELSE "out"]
    /\ at' = "section"
    /\ UNCHANGED <<plan, arg, local, ithr, pos, shared, C, heap, ret>>

-----------------------------------------------------------------------------
(* The parallel section.  Goto says where a thread is next.                *)
section == <<plan, nthr, info, slice, heap, ret>>

Goto(t, place) == pc' = [pc EXCEPT ![t] = place]

(* nthr_eff == 1 *)
WholeStep(t) ==
    /\ pc[t] = "whole"
    /\ \/ C' = AllElements /\ UNCHANGED arg
       \/ arg' = [arg EXCEPT ![0].result = "out_of_memory"] /\ UNCHANGED C
    /\ Goto(t, "out")
    /\ UNCHANGED <<section, at, local, ithr, pos, shared>>

(* for (; ithr < nthr_eff; ithr += nthr) *)
LoopStep(t) ==
    /\ pc[t] = "loop"
    /\ Goto(t, IF ithr[t] >= NthrEff THEN "out"
               ELSE IF info.copy # "shared_a" THEN "kernel"
               ELSE IF packedA THEN "gemm" ELSE "malloc")
    /\ pos' = [pos EXCEPT ![t] = NoBlock]
    /\ UNCHANGED <<section, at, arg, local, ithr, shared, C>>

Fail(i) == arg' = [arg EXCEPT ![i].result = "out_of_memory"]

(* gemm_kernel_driver: all but the first k block go to a C of their own. *)
KernelStep(t) ==
    LET i == ithr[t]
        s == slice[i]
    IN /\ pc[t] = "kernel"
       /\ IF k_summing /\ s.ithr_k > 0
          THEN /\ \/ Fail(i) /\ UNCHANGED local
                  \/ local' = [local EXCEPT ![i] = TRUE] /\ UNCHANGED arg
               /\ UNCHANGED C
          ELSE /\ \/ Fail(i) /\ C' = Spoil(Rows(s), Cols(s))
                  \/ C' = Multiply(Rows(s), Cols(s), Ks(s), TRUE, TRUE) /\ UNCHANGED arg
               /\ UNCHANGED local
       /\ Goto(t, "dispatched")
       /\ UNCHANGED <<section, at, ithr, pos, shared>>

(* parallel_a_copy, from the allocation to the first block.  dnnl_thr_barrier *)
(* is the barrier of the runtime: a thread comes to it at the end of a step   *)
(* and goes on once every thread of the team has come as often.               *)
Come(t) == visits' = [visits EXCEPT ![t] = @ + 1]
Met(t) == \A u \in Team : visits[u] >= visits[t]

MallocStep(t) ==
    /\ pc[t] = "malloc"
    /\ IF ithr[t] = 0 THEN mem' \in {"live", "null"} ELSE UNCHANGED mem
    /\ Come(t)
    /\ Goto(t, "malloced")
    /\ UNCHANGED <<section, at, arg, local, ithr, pos, buf, C>>

MallocedStep(t) ==
    /\ pc[t] = "malloced"
    /\ Met(t)
    /\ IF mem = "null" THEN Fail(ithr[t]) /\ Goto(t, "dispatched")
                       ELSE UNCHANGED arg /\ Goto(t, "copy")
    /\ UNCHANGED <<section, at, local, ithr, pos, shared, C>>

SizeM(t) == Smaller(slice[ithr[t]].m - pos[t].m, MPadd)
SizeK(t) == Smaller(slice[ithr[t]].k - pos[t].k, KPadd)

(* The thread's rows of the block. *)
CopyRows(t) ==
    LET band == RoundUp(DivUp(SizeM(t), NthrEff), Um)
        offset == band * ithr[t]
    IN offset .. Smaller(offset + band, SizeM(t)) - 1

CopyStep(t) ==
    /\ pc[t] = "copy"
    /\ buf' = [r \in DOMAIN buf |->
                IF r \in CopyRows(t) THEN <<pos[t].k, pos[t].m + r>> ELSE buf[r]]
    /\ Come(t)
    /\ Goto(t, "copied")
    /\ UNCHANGED <<section, at, arg, local, ithr, pos, mem, C>>

CopiedStep(t) ==
    /\ pc[t] = "copied"
    /\ Met(t)
    /\ Goto(t, "gemm")
    /\ UNCHANGED <<section, at, arg, local, ithr, pos, shared, C>>

(* The next block, in the order of the loops; k past the end when done. *)
NextBlock(t) ==
    LET s == slice[ithr[t]]
    IN IF pos[t].m + SizeM(t) < s.m THEN [pos[t] EXCEPT !.m = @ + SizeM(t)]
       ELSE [k |-> pos[t].k + SizeK(t), m |-> 0]

(* kernel_driver_parallel_acopiedbcopy: a failure is remembered and the    *)
(* loop goes on.                                                           *)
GemmStep(t) ==
    LET i == ithr[t]
        s == slice[i]
        b == pos[t]
    IN /\ pc[t] = "gemm"
       /\ \/ Fail(i) /\ C' = Spoil(Rows(s), Cols(s))
          \/ /\ C' = Multiply(s.off_m + b.m .. s.off_m + b.m + SizeM(t) - 1, Cols(s),
                             b.k .. b.k + SizeK(t) - 1, b.k = 0, b.k + SizeK(t) = s.k)
             /\ UNCHANGED arg
       /\ IF packedA
          THEN /\ pos' = [pos EXCEPT ![t] = NextBlock(t)]
               /\ Goto(t, IF NextBlock(t).k < s.k THEN "gemm" ELSE "dispatched")
               /\ UNCHANGED visits
          ELSE Come(t) /\ Goto(t, "computed") /\ UNCHANGED pos
       /\ UNCHANGED <<section, at, local, ithr, mem, buf>>

(* Mutant: the next block is copied while others still compute. *)
ComputedStepEarly(t) ==
    LET more == NextBlock(t).k < slice[ithr[t]].k
    IN /\ pc[t] = "computed"
       /\ pos' = [pos EXCEPT ![t] = NextBlock(t)]
       /\ Goto(t, IF more THEN "copy" ELSE "dispatched")
       /\ mem' = IF ~more /\ ithr[t] = 0 THEN "freed" ELSE mem
       /\ UNCHANGED <<section, at, arg, local, ithr, buf, visits, C>>

(* Mutant: a master whose kernel failed returns without freeing. *)
ComputedStepKeeps(t) ==
    LET more == NextBlock(t).k < slice[ithr[t]].k
    IN /\ pc[t] = "computed"
       /\ Met(t)
       /\ pos' = [pos EXCEPT ![t] = NextBlock(t)]
       /\ Goto(t, IF more THEN "copy" ELSE "dispatched")
       /\ mem' = IF ~more /\ ithr[t] = 0 /\ arg[0].result = "success" THEN "freed" ELSE mem
       /\ UNCHANGED <<section, at, arg, local, ithr, buf, visits, C>>

(* After the second barrier: the next block, or the master frees the buffer. *)
ComputedStep(t) ==
    LET more == NextBlock(t).k < slice[ithr[t]].k
    IN /\ pc[t] = "computed"
       /\ Met(t)
       /\ pos' = [pos EXCEPT ![t] = NextBlock(t)]
       /\ Goto(t, IF more THEN "copy" ELSE "dispatched")
       /\ mem' = IF ~more /\ ithr[t] = 0 THEN "freed" ELSE mem
       /\ UNCHANGED <<section, at, arg, local, ithr, buf, visits, C>>

-----------------------------------------------------------------------------
(* sum_k_blocks.  Part i adds its share of the columns of every temporary  *)
(* C of its block, its own first.  pos.k counts the matrices added.        *)
Peer(i, thr_k) == i + (thr_k - slice[i].ithr_k) * ThrKStride(forced)

(* The thr_k of the n-th matrix that part i adds. *)
Order(i, n) ==
    LET own == slice[i].ithr_k
    IN IF own = 0 THEN n + 1
       ELSE IF n = 0 THEN own
       ELSE IF n < own THEN n ELSE n + 1

(* Mutant: adds to C although its first part may still be computed. *)
WaitsForOwn(i, n) == Peer(i, Order(i, n))

(* Before its own, a part waits for the one that computes into C itself. *)
WaitsFor(i, n) == Peer(i, IF n = 0 /\ slice[i].ithr_k > 0 THEN 0 ELSE Order(i, n))

Add(i, n) ==
    LET s == slice[i]
        src == Peer(i, Order(i, n))
        cols == Partition1d(s.ithr_k, forced.nthrs_k, s.n)
        first == slice[src].off_n + cols.off
    IN [x \in DOMAIN C |->
            IF x[1] \notin Rows(slice[src]) \/ x[2] \notin first .. first + cols.size - 1 THEN C[x]
            ELSE IF local[src] THEN Plus(C[x], Ks(slice[src]))
            ELSE Fresh(C[x], "bad")]

Last(i, n) == n + 1 = forced.nthrs_k - 1

(* Mutant: summed at once although some parts have no thread yet. *)
DispatchedStepAlways(t) ==
    /\ pc[t] = "dispatched"
    /\ pos' = [pos EXCEPT ![t] = NoBlock]
    /\ IF prob.sync /\ k_summing
       THEN arg' = [arg EXCEPT ![ithr[t]].done = TRUE] /\ Goto(t, "sum") /\ UNCHANGED ithr
       ELSE ithr' = [ithr EXCEPT ![t] = @ + nthr] /\ Goto(t, "loop") /\ UNCHANGED arg
    /\ UNCHANGED <<section, at, local, shared, C>>

(* After the dispatch: the results are summed at once if every part has a  *)
(* thread of its own that runs at the same time.                           *)
DispatchedStep(t) ==
    LET sum == prob.sync /\ k_summing /\ nthr >= NthrEff
    IN /\ pc[t] = "dispatched"
       /\ pos' = [pos EXCEPT ![t] = NoBlock]
       /\ IF sum THEN /\ arg' = [arg EXCEPT ![ithr[t]].done = TRUE]
                      /\ Goto(t, "sum") /\ UNCHANGED ithr
                 ELSE /\ ithr' = [ithr EXCEPT ![t] = @ + nthr]
                      /\ Goto(t, "loop") /\ UNCHANGED arg
       /\ UNCHANGED <<section, at, local, shared, C>>

(* wait is true in the section, false in the second one *)
SumStep(t) ==
    LET i == ithr[t]
        n == pos[t].k
        wait == at = "section"
    IN /\ pc[t] = "sum"
       /\ wait => arg[WaitsFor(i, n)].done
       /\ C' = Add(i, n)
       /\ pos' = [pos EXCEPT ![t].k = IF Last(i, n) THEN 0 ELSE @ + 1]
       /\ IF ~Last(i, n) THEN UNCHANGED <<ithr, pc>>
          ELSE /\ ithr' = [ithr EXCEPT ![t] = @ + nthr]
               /\ Goto(t, IF wait THEN "loop" ELSE IF ithr'[t] < prob.goal THEN "sum" ELSE "out")
       /\ UNCHANGED <<section, at, arg, local, shared>>

(* An actor that waits, in a barrier or for compute_done, spins. *)
Spin(t) == /\ \/ pc[t] \in {"malloced", "copied", "computed"} /\ ~Met(t)
              \/ pc[t] = "sum" /\ at = "section" /\ ~arg[WaitsFor(ithr[t], pos[t].k)].done
           /\ UNCHANGED vars

ThreadStep(t) == \/ WholeStep(t) \/ LoopStep(t) \/ KernelStep(t) \/ DispatchedStep(t)
                 \/ MallocStep(t) \/ MallocedStep(t) \/ CopyStep(t) \/ CopiedStep(t)
                 \/ GemmStep(t) \/ ComputedStep(t) \/ SumStep(t)

-----------------------------------------------------------------------------
(* The end of the section: the status, and the sum if it was not done.     *)
Joined == \A t \in Threads : pc[t] = "out"

Join ==
    /\ at = "section" /\ Joined
    /\ ret' = IF \A i \in Threads : arg[i].result = "success" THEN "success"
              ELSE "out_of_memory"
    /\ at' = IF k_summing /\ ~arg[0].done THEN "spawn_sum" ELSE "free"
    /\ UNCHANGED <<plan, nthr, info, slice, arg, local, pc, ithr, pos, shared, C, heap>>

SpawnSum ==
    /\ at = "spawn_sum"
    /\ \E n \in 1 .. prob.goal :
        /\ nthr' = n
        /\ pc' = [t \in Threads |-> IF t < n THEN "sum" ELSE "out"]
    /\ ithr' = [t \in Threads |-> t]
    /\ at' = "sum_section"
    /\ UNCHANGED <<plan, info, slice, arg, local, pos, shared, C, heap, ret>>

JoinSum ==
    /\ at = "sum_section" /\ Joined
    /\ at' = "free"
    /\ UNCHANGED <<plan, nthr, info, slice, arg, local, pc, ithr, pos, shared, C, heap, ret>>

Free ==
    /\ at = "free"
    /\ heap' = {}
    /\ at' = "returned"
    /\ UNCHANGED <<plan, nthr, info, slice, arg, local, pc, ithr, pos, shared, C, ret>>

Returned == at = "returned" /\ UNCHANGED vars

DriverStep == \/ Start \/ Alone \/ AllocArgs \/ AllocLocal \/ Spawn
              \/ Join \/ SpawnSum \/ JoinSum \/ Free

Next == DriverStep \/ Returned \/ \E t \in Threads : ThreadStep(t) \/ Spin(t)

(* The caller and every thread that a section runs are scheduled. *)
Spec == Init /\ [][Next]_vars
             /\ WF_vars(DriverStep) /\ \A t \in Threads : WF_vars(ThreadStep(t))

-----------------------------------------------------------------------------
Inside(s) == /\ s.off_m >= 0 /\ s.m >= 0 /\ s.off_m + s.m <= prob.m
             /\ s.off_n >= 0 /\ s.n >= 0 /\ s.off_n + s.n <= prob.n
             /\ s.off_k >= 0 /\ s.k >= 0 /\ s.off_k + s.k <= prob.k

(* The state is well-formed: in particular every slice that                *)
(* get_thread_slice hands out lies inside the matrices.                    *)
TypeOK ==
    /\ prob.goal \in 1 .. NthrMax
    /\ nthr \in 0 .. NthrMax
    /\ \A t \in Threads : Inside(slice[t])
    /\ arg \in [Threads -> [result : {"success", "out_of_memory"}, done : BOOLEAN]]
    /\ local \in [Threads -> BOOLEAN]
    /\ pc \in [Threads -> {"out", "whole", "loop", "kernel", "dispatched", "malloc", "malloced",
                          "copy", "copied", "gemm", "computed", "sum"}]
    /\ ithr \in [Threads -> 0 .. 2 * NthrMax]
    /\ visits \in [Threads -> Nat]
    /\ mem \in {"none", "live", "null", "freed"}
    /\ heap \subseteq {"thread_arg", "c_local"}
    /\ ret \in {"none", "success", "out_of_memory"}

(* gemm_threading_driver reports success only if every element of C has    *)
(* been scaled by beta once and then received every term of its dot        *)
(* product and the offset exactly once: whatever the decomposition, the    *)
(* size of the team granted, the order of the threads and the allocations  *)
(* that failed.                                                            *)
ResultComplete ==
    at = "returned" /\ ret = "success" =>
        \A x \in DOMAIN C : /\ C[x].base = "beta" /\ C[x].co = 1
                            /\ \A k \in DOMAIN C[x].sum : C[x].sum[k] = 1

(* Two-barrier protocol of parallel_a_copy: as long as any thread computes *)
(* with the shared copy of A, the buffer is allocated and holds all rows   *)
(* of that thread's block, and no other block.                             *)
SharedBlockWhole ==
    \A t \in Threads : pc[t] = "gemm" /\ ~packedA =>
        /\ mem = "live"
        /\ \A r \in 0 .. SizeM(t) - 1 : buf[r] = <<pos[t].k, pos[t].m + r>>

(* Every return, the failing ones included, has freed thread_arg, the      *)
(* temporary C matrices and the shared buffer.                             *)
NothingLeaks == at = "returned" => heap = {} /\ mem # "live"

(* The driver returns: no thread waits for ever in a barrier or for a      *)
(* compute_done that nobody will set, however small the team that the      *)
(* runtime may grant.                                                      *)
DriverReturns == <>(at = "returned")
=============================================================================
