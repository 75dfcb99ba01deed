--------------------------- MODULE BwdWeightsTeam ---------------------------
(***************************************************************************)
(* The team of threads that computes the weight gradient of a 1x1          *)
(* convolution (cpu/x64/jit_avx512_common_1x1_convolution.cpp, ker of      *)
(* execute_backward_weights, with transpose_src and one group), and, with  *)
(* ker_bias and cpu_reducer_t, the gradient of the bias.                   *)
(*                                                                         *)
(* Threads that differ only in their output channels form a group.  Tile   *)
(* by tile a group transposes the source into a buffer it shares, each     *)
(* thread a part, and then every thread reads the whole of it; a barrier   *)
(* stands before and after the transposition.  Threads that work on        *)
(* different images sum into buffers of their own; after a barrier of the  *)
(* whole team the buffers are added up, each thread a part of the weights. *)
(*                                                                         *)
(* Then the team divides itself anew, into groups that each have some      *)
(* blocks of output channels; the threads of a group sum different images  *)
(* and meet at a barrier of the group before they add up their sums.       *)
(*                                                                         *)
(* A block of weights is modelled by how often each block of the           *)
(* reduction dimension was added into it, a block of the bias by how often *)
(* each image was.                                                         *)
(***************************************************************************)
EXTENDS SimpleBarrier, ReduceBalancer, FiniteSetsExt

CONSTANTS NthrMb, NthrOcB, NthrIcB,       \* jcp.nthr_mb, nthr_oc_b, nthr_ic_b
          Mb, SpNb,                       \* images, and blocks of an image
          NbIc, NbOc,                     \* blocks of channels
          SpStep, SpStepMax, IcStep, IcStepMax, OcStep, OcStepMax

ASSUME TeamAssumption ==
    /\ {NthrMb, NthrOcB, NthrIcB, Mb, SpNb, NbIc, NbOc} \subseteq Nat \ {0}
    /\ {SpStep, IcStep, OcStep, SpStepMax, IcStepMax, OcStepMax} \subseteq Nat \ {0}
    /\ SpStep <= SpStepMax /\ IcStep <= IcStepMax /\ OcStep <= OcStepMax
    /\ NthrMb <= Mb * SpNb /\ NthrOcB <= NbOc /\ NthrIcB <= NbIc

NthrTeam == NthrMb * NthrOcB * NthrIcB     \* jcp.nthr
Team == 0 .. NthrTeam - 1
IthrIcB(t) == t % NthrIcB
IthrOcB(t) == (t \div NthrIcB) % NthrOcB
IthrMb(t) == (t \div NthrIcB) \div NthrOcB
IthrButOc(t) == IthrMb(t) * NthrIcB + IthrIcB(t)

(* init_balancers: a job is a block of output channels, 16 numbers. *)
OcBlock == 16
Bias == [nthr |-> NthrTeam, job_size |-> OcBlock, njobs |-> NbOc, reduction_size |-> Mb,
         max_buffer_size |-> NthrTeam * 3 * 5 * 5 * 16 * 16, allow_nthr_in_group |-> TRUE]
Balancer == Balance(Bias)

(* tr_src_bctx[ithr_but_oc], reduction_barrier and, one for each group of  *)
(* the reducer, key_reducer_space_bctx.                                    *)
Reduction == NthrMb * NthrIcB
ReducerBctx(grp) == Reduction + 1 + grp
TeamContexts == 0 .. Reduction + Balancer.ngroups
TeamMembers ==
    [c \in TeamContexts |->
        IF c = Reduction THEN Team
        ELSE {t \in Team : IF c < Reduction THEN IthrButOc(t) = c
                           ELSE ReducerBctx(GroupId(Balancer, t)) = c}]
TeamNthr ==
    [c \in TeamContexts |->
        IF c = Reduction THEN NthrTeam
        ELSE IF c < Reduction THEN NthrOcB ELSE Balancer.nthr_per_group]

(* These are the barriers at which the threads of the team meet. *)
ASSUME TeamBarriers ==
    Threads = Team /\ Contexts = TeamContexts /\ Members = TeamMembers /\ Nthr = TeamNthr

Least(a, b) == IF a <= b THEN a ELSE b
Step(default, remaining, tail) == IF remaining < tail THEN remaining ELSE default

(* The ranges of thread t: blocks of the reduction dimension and channels. *)
MbSp(t) ==
    IF NthrMb < Mb \div 2
    THEN LET b == Balance211(Mb, NthrMb, IthrMb(t))
         IN [start |-> b.start * SpNb, end |-> b.end * SpNb]
    ELSE Balance211(Mb * SpNb, NthrMb, IthrMb(t))
IcB(t) == Balance211(NbIc, NthrIcB, IthrIcB(t))
OcB(t) == Balance211(NbOc, NthrOcB, IthrOcB(t))
IcWork(t) == IcB(t).end - IcB(t).start
OcWork(t) == OcB(t).end - OcB(t).start

(* The jobs and the images of thread t in ker_bias. *)
BNjobs(t) == GrpNjobs(Bias, Balancer, GroupId(Balancer, t))
Img(t) == Balance211(Mb, Balancer.nthr_per_group, IdInGroup(Balancer, t))

VARIABLES
    pc,         \* per thread
    pos,        \* per thread: mb_sp_b, ic_b, oc_b, and iwork of uker_trans
    red,        \* per thread: thr_mb and w of the final sum
    tr_src,     \* <<ithr_mb, slot>> -> <<mb_sp_b, ic_b>> that was transposed
    wei,        \* <<ithr_mb, oc_b, ic_b>> -> block of weights
    img,        \* per thread: the image of ker_bias
    bias        \* the blocks of diff_bias ("dst") and of key_reducer_space ("space")

tvars == <<pc, pos, red, tr_src, wei, img, bias>>
vars == <<bvars, tvars>>

MbSpBlocks == 0 .. Mb * SpNb - 1
MbImages == 0 .. Mb - 1
Weights == (0 .. NbOc - 1) \X (0 .. NbIc - 1)

(* The buffers hold what an earlier execution left. *)
Init ==
    /\ BarrierInit
    /\ at = [t \in Threads |-> Reduction]
    /\ pc = [t \in Team |-> "tile"]
    /\ pos = [t \in Team |-> [mb_sp_b |-> MbSp(t).start, ic_b |-> IcB(t).start,
                              oc_b |-> OcB(t).start, iwork |-> 0]]
    /\ red = [t \in Team |-> [thr_mb |-> 1, w |-> 0]]
    /\ tr_src = [s \in (0 .. NthrMb - 1) \X (0 .. NbIc - 1) |-> << >>]
    /\ wei = [b \in (0 .. NthrMb - 1) \X (0 .. NbOc - 1) \X (0 .. NbIc - 1) |->
                 [m \in MbSpBlocks |-> 1]]
    /\ img = [t \in Team |-> Img(t).start]
    /\ bias = [p \in ({"dst"} \X (0 .. NbOc - 1))
                        \cup ({"space"} \X (0 .. SpaceSize(Balancer) - 1)) |->
                 [i \in MbImages |-> 1]]

Goto(t, from, to) == pc[t] = from /\ pc' = [pc EXCEPT ![t] = to]

(* The sizes of the current tile of thread t. *)
SpBStep(t) ==
    LET m == pos[t].mb_sp_b
    IN Step(SpStep, Least(SpNb - (m % SpNb), MbSp(t).end - m), SpStepMax)
BcastStep(t) == Step(IcStep, IcB(t).end - pos[t].ic_b, IcStepMax)
LoadStep(t) == Step(OcStep, OcB(t).end - pos[t].oc_b, OcStepMax)
Tile(t) == pos[t].mb_sp_b .. pos[t].mb_sp_b + SpBStep(t) - 1

-----------------------------------------------------------------------------
(* if (nthr_oc_b > 1) barrier(&tr_src_bctx[ithr_but_oc], nthr_oc_b) *)
GroupBarrier(t) ==
    IF NthrOcB > 1 THEN BarrierCall(t, IthrButOc(t)) ELSE UNCHANGED bvars

(* The share of the channels of a tile that uker_trans gives to thread t. *)
TransShare(t) == Balance211(BcastStep(t), NthrOcB, IthrOcB(t))

(* Mutant: no barrier before the transposition. *)
TileStartsAtOnce(t) ==
    /\ bpc[t] = "out"
    /\ Goto(t, "tile", "trans")
    /\ pos[t].mb_sp_b < MbSp(t).end
    /\ pos' = [pos EXCEPT ![t].iwork = TransShare(t).start]
    /\ UNCHANGED <<red, tr_src, wei, img, bias, bvars>>

(* A tile begins, with the barrier that waits for the readers of the last. *)
TileStart(t) ==
    /\ bpc[t] = "out"
    /\ Goto(t, "tile", "trans")
    /\ pos[t].mb_sp_b < MbSp(t).end
    /\ pos' = [pos EXCEPT ![t].iwork = TransShare(t).start]
    /\ GroupBarrier(t)
    /\ UNCHANGED <<red, tr_src, wei, img, bias>>

(* uker_trans: one block of channels. *)
Transpose(t) ==
    LET p == pos[t]
    IN /\ pc[t] = "trans" /\ bpc[t] = "out"
       /\ p.iwork < TransShare(t).end
       /\ tr_src' = [tr_src EXCEPT ![<<IthrMb(t), IcB(t).start + p.iwork>>] =
                        <<p.mb_sp_b, p.ic_b + p.iwork>>]
       /\ pos' = [pos EXCEPT ![t].iwork = @ + 1]
       /\ UNCHANGED <<pc, red, wei, img, bias, bvars>>

(* uker_trans has returned: the second barrier. *)
TransposeEnd(t) ==
    /\ bpc[t] = "out"
    /\ Goto(t, "trans", "compute")
    /\ pos[t].iwork >= TransShare(t).end
    /\ GroupBarrier(t)
    /\ UNCHANGED <<pos, red, tr_src, wei, img, bias>>

(* Mutant: the first tile does not overwrite what is in the buffer. *)
ProductAdds(t, old) ==
    [m \in MbSpBlocks |-> old[m] + (IF m \in Tile(t) THEN 1 ELSE 0)]

(* What the kernel stores: the first tile of a thread overwrites           *)
(* (FLAG_REDUCE_FIRST), the others add.                                    *)
Product(t, old) ==
    [m \in MbSpBlocks |->
        (IF pos[t].mb_sp_b = MbSp(t).start THEN 0 ELSE old[m])
        + (IF m \in Tile(t) THEN 1 ELSE 0)]

(* One call of the kernel. *)
Compute(t) ==
    LET p == pos[t]
        blocks == {IthrMb(t)} \X (p.oc_b .. p.oc_b + LoadStep(t) - 1)
                              \X (p.ic_b .. p.ic_b + BcastStep(t) - 1)
    IN /\ pc[t] = "compute" /\ bpc[t] = "out"
       /\ p.oc_b < OcB(t).end
       /\ wei' = [b \in DOMAIN wei |-> IF b \in blocks THEN Product(t, wei[b]) ELSE wei[b]]
       /\ pos' = [pos EXCEPT ![t].oc_b = @ + LoadStep(t)]
       /\ UNCHANGED <<pc, red, tr_src, img, bias, bvars>>

(* The next block of input channels, or the next one of the images. *)
TileEnd(t) ==
    LET p == pos[t]
        ic_b == p.ic_b + BcastStep(t)
        more == ic_b < IcB(t).end
    IN /\ bpc[t] = "out"
       /\ Goto(t, "compute", "tile")
       /\ p.oc_b >= OcB(t).end
       /\ pos' = [pos EXCEPT ![t] =
             [mb_sp_b |-> IF more THEN p.mb_sp_b ELSE p.mb_sp_b + SpBStep(t),
              ic_b |-> IF more THEN ic_b ELSE IcB(t).start,
              oc_b |-> OcB(t).start, iwork |-> 0]]
       /\ UNCHANGED <<red, tr_src, wei, img, bias, bvars>>

-----------------------------------------------------------------------------
ReduceShare(t) == Balance211(OcWork(t) * IcWork(t), NthrMb, IthrMb(t))

(* The loops are over: the barrier of the whole team, if sums are left. *)
LoopsEnd(t) ==
    /\ bpc[t] = "out"
    /\ Goto(t, "tile", IF NthrMb > 1 /\ ReduceShare(t).start # ReduceShare(t).end
                       THEN "reduce" ELSE "bias")
    /\ pos[t].mb_sp_b >= MbSp(t).end
    /\ red' = [red EXCEPT ![t] = [thr_mb |-> 1, w |-> ReduceShare(t).start]]
    /\ IF NthrMb > 1 THEN BarrierCall(t, Reduction) ELSE UNCHANGED bvars
    /\ UNCHANGED <<pos, tr_src, wei, img, bias>>

(* accumulate, over a run of input channels, and nd_iterator_jump. *)
Reduce(t) ==
    LET r == red[t]
        oc_b == OcB(t).start + ((r.w \div IcWork(t)) % OcWork(t))
        ic_b == IcB(t).start + (r.w % IcWork(t))
        size == Least(ReduceShare(t).end - r.w, IcWork(t) - (r.w % IcWork(t)))
        blocks == {0} \X {oc_b} \X (ic_b .. ic_b + size - 1)
    IN /\ pc[t] = "reduce" /\ bpc[t] = "out"
       /\ r.thr_mb < NthrMb
       /\ wei' = [b \in DOMAIN wei |->
                    IF b \in blocks
                    THEN [m \in MbSpBlocks |-> wei[b][m] + wei[<<r.thr_mb, b[2], b[3]>>][m]]
                    ELSE wei[b]]
       /\ red' = [red EXCEPT ![t] =
                    IF r.w + size < ReduceShare(t).end THEN [r EXCEPT !.w = @ + size]
                    ELSE [thr_mb |-> r.thr_mb + 1, w |-> ReduceShare(t).start]]
       /\ UNCHANGED <<pc, pos, tr_src, img, bias, bvars>>

ReduceEnd(t) ==
    /\ bpc[t] = "out"
    /\ Goto(t, "reduce", "bias")
    /\ red[t].thr_mb >= NthrMb
    /\ UNCHANGED <<pos, red, tr_src, wei, img, bias, bvars>>

-----------------------------------------------------------------------------
(* ker_bias: the next image of the thread, into every job of its group; the *)
(* first one overwrites.                                                    *)
BiasImage(t) ==
    LET at_ == LocalPtr(Bias, Balancer, t)
        Added(old) == [i \in MbImages |-> (IF img[t] = Img(t).start THEN 0 ELSE old[i])
                                          + (IF i = img[t] THEN 1 ELSE 0)]
    IN /\ pc[t] = "bias" /\ bpc[t] = "out"
       /\ BNjobs(t) > 0 /\ img[t] < Img(t).end
       /\ bias' = [p \in DOMAIN bias |->
                     IF p[1] = at_[1] /\ p[2] \in at_[2] .. at_[2] + BNjobs(t) - 1
                     THEN Added(bias[p]) ELSE bias[p]]
       /\ img' = [img EXCEPT ![t] = @ + 1]
       /\ UNCHANGED <<pc, pos, red, tr_src, wei, bvars>>

(* ker_bias and reduce return at once where there is nothing to do. *)
Redundant(t) ==
    BNjobs(t) = 0 \/ Balancer.nthr_per_group = 1 \/ IdleThread(Balancer, t)

(* Mutant: reduce_nolock is called where reduce should be. *)
BiasImagesEndNolock(t) ==
    /\ bpc[t] = "out"
    /\ Goto(t, "bias", IF Redundant(t) THEN "done" ELSE "sum")
    /\ BNjobs(t) = 0 \/ img[t] >= Img(t).end
    /\ UNCHANGED <<pos, red, tr_src, wei, img, bias, bvars>>

(* The images are over: reduce(), with the barrier of the group. *)
BiasImagesEnd(t) ==
    /\ bpc[t] = "out"
    /\ Goto(t, "bias", IF Redundant(t) THEN "done" ELSE "sum")
    /\ BNjobs(t) = 0 \/ img[t] >= Img(t).end
    /\ IF Redundant(t) THEN UNCHANGED bvars
       ELSE BarrierCall(t, ReducerBctx(GroupId(Balancer, t)))
    /\ UNCHANGED <<pos, red, tr_src, wei, img, bias>>

(* reduce_nolock: the thread's part of the jobs of its group; a job is a   *)
(* cache line.  The driver adds the sums of the other threads, one after   *)
(* another in the space, to the master's.                                  *)
BiasReduce(t) ==
    LET first == t - IdInGroup(Balancer, t)
        dst == LocalPtr(Bias, Balancer, first)
        space == LocalPtr(Bias, Balancer, first + 1)
        part == Balance211(BNjobs(t), Balancer.nthr_per_group, IdInGroup(Balancer, t))
        Sources(k) == {space[2] + k + s * Balancer.njobs_per_group_ub :
                          s \in 0 .. Balancer.nthr_per_group - 2}
        Sum(p) == [i \in MbImages |->
                     bias[p][i] + MapThenSumSet(LAMBDA x : bias[<<"space", x>>][i],
                                                Sources(p[2] - dst[2]))]
    IN /\ bpc[t] = "out"
       /\ Goto(t, "sum", "done")
       /\ bias' = [p \in DOMAIN bias |->
                     IF p[1] = "dst" /\ p[2] - dst[2] \in part.start .. part.end - 1
                     THEN Sum(p) ELSE bias[p]]
       /\ UNCHANGED <<pos, red, tr_src, wei, img, bvars>>

-----------------------------------------------------------------------------
ThreadStep(t) ==
    \/ TileStart(t) \/ Transpose(t) \/ TransposeEnd(t) \/ Compute(t) \/ TileEnd(t)
    \/ LoopsEnd(t) \/ Reduce(t) \/ ReduceEnd(t)
    \/ BiasImage(t) \/ BiasImagesEnd(t) \/ BiasReduce(t)
    \/ BarrierStep(t) /\ UNCHANGED tvars

Finished == \A t \in Team : pc[t] = "done" /\ bpc[t] = "out"

Next == (\E t \in Team : ThreadStep(t)) \/ (Finished /\ UNCHANGED vars)

(* The system runs every thread of the team. *)
Spec == Init /\ [][Next]_vars /\ \A t \in Team : WF_vars(ThreadStep(t))

-----------------------------------------------------------------------------
(* While a thread may still call the kernel for a tile, the buffer of its  *)
(* group holds that tile, transposed by whichever threads had a share.     *)
SourceWholeWhenRead ==
    \A t \in Team :
        pc[t] = "compute" /\ bpc[t] = "out" /\ pos[t].oc_b < OcB(t).end =>
            \A k \in 0 .. BcastStep(t) - 1 :
                tr_src[<<IthrMb(t), IcB(t).start + k>>] = <<pos[t].mb_sp_b, pos[t].ic_b + k>>

(* When the team has finished, every block of the reduction dimension is   *)
(* in every block of diff_weights exactly once.                            *)
GradientComplete ==
    Finished => \A b \in Weights : \A m \in MbSpBlocks : wei[<<0, b[1], b[2]>>][m] = 1

(* When the team has finished, every image is in every block of diff_bias  *)
(* exactly once, however balance() has grouped the threads.                *)
BiasComplete ==
    Finished => \A j \in 0 .. NbOc - 1 : \A i \in MbImages : bias[<<"dst", j>>][i] = 1

(* The team finishes: no thread waits at a barrier for ever. *)
TeamFinishes == <>Finished
=============================================================================
