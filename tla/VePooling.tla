------------------------------ MODULE VePooling ------------------------------
(***************************************************************************)
(* The pooling primitives of the VE port (cpu/ve/ref_pooling.cpp): forward *)
(* and then backward, on images with two spatial dimensions.  The threads  *)
(* of a parallel section take shares of the output (forward) or of the     *)
(* images (backward) and work in batches of MVL coordinates.               *)
(*                                                                         *)
(* Abstracted: physical offsets, so tensors are functions of coordinates   *)
(* <<mb, oc, h, w>>; a mean, to its sum and number of summands; and        *)
(* gradients, so an element of diff_src is the bag of outputs whose        *)
(* gradient was added.  A statement over a batch acts in index order.      *)
(***************************************************************************)
EXTENDS CoordsForNd, Balance211, SequencesExt

CONSTANTS MB, OC,
          Shapes,        \* dimensions h and w, each i (source), k (kernel), s (stride),
                         \* l and r (padding)
          Levels,        \* of the source
          Lowest,        \* numeric_limits::lowest()
          Unset,         \* what memory holds before it is written
          NthrMax        \* bound: the largest team

Algs == {"max", "avg_include_padding", "avg_exclude_padding"}
Threads == 0 .. NthrMax - 1

VARIABLES
    pool,      \* the primitive: alg, dimensions h and w
    src, dst, ws, diff_src,
    phase,     \* "fwd", "bwd" or "done"
    nthr,      \* size of the team
    crd,       \* per thread: dcrd
    outer,     \* per thread, backward: the image it works on
    byZero     \* outputs whose gradient was divided by a window size of 0

vars == <<pool, src, dst, ws, diff_src, phase, nthr, crd, outer, byZero>>

-----------------------------------------------------------------------------
(* Division as in C, towards zero. *)
Quotient(a, b) == IF a < 0 THEN -((-a) \div b) ELSE a \div b

(* pooling_desc_init: the size of the output, and padding smaller than the *)
(* kernel where a mean is taken of what is inside only.                    *)
OutSize(d) == Quotient(d.i - d.k + d.l + d.r, d.s) + 1
Consistent(alg, d) == /\ OutSize(d) >= 1
                      /\ alg = "avg_exclude_padding" => d.l < d.k /\ d.r < d.k

Images == (0 .. MB - 1) \X (0 .. OC - 1)
Tensor(h, w) == {<<x[1], x[2], y, z>> : x \in Images, y \in 0 .. h - 1, z \in 0 .. w - 1}
Pixels(p) == Tensor(p.h.i, p.w.i)
Outputs(p) == Tensor(OutSize(p.h), OutSize(p.w))
OutRange(p) == IterRange(<<0, 0, 0, 0>>, <<MB, OC, OutSize(p.h), OutSize(p.w)>>)
Idle == [IterRange(<<0, 0, 0, 0>>, <<0, 0, 0, 0>>) EXCEPT !.sz = 0]

(* Mutant: a window that reaches the last pixel is cut short. *)
WindowShort(o, d) ==
    LET off == o * d.s - d.l
        st == IF off > 0 THEN off ELSE 0
        en == IF off + d.k < d.i THEN off + d.k ELSE d.i - 1
    IN [off |-> off, st |-> st, en |-> IF en < st THEN st ELSE en]

(* POOL_WINDOW_LOOP, DEFINE_IN_RANGE_VEC: the part of a window inside the  *)
(* source.                                                                 *)
Window(o, d) ==
    LET off == o * d.s - d.l
        st == IF off > 0 THEN off ELSE 0
        en == IF off + d.k < d.i THEN off + d.k ELSE d.i
    IN [off |-> off, st |-> st, en |-> IF en < st THEN st ELSE en]

WindowH(x) == Window(x[3], pool.h)
WindowW(x) == Window(x[4], pool.w)
Ssz(x) == (WindowH(x).en - WindowH(x).st) * (WindowW(x).en - WindowW(x).st)

(* SCRD_LIMITS: the iterator over the window of output x. *)
Scrd(x) ==
    [IterRange(<<x[1], x[2], WindowH(x).st, WindowW(x).st>>,
               <<x[1] + 1, x[2] + 1, WindowH(x).en, WindowW(x).en>>) EXCEPT !.sz = Ssz(x)]

-----------------------------------------------------------------------------
(* execute_forward.                                                        *)
ZeroDimSrc == pool.h.i * pool.w.i <= 0

(* The pixels of the window in the order in which scrd visits them. *)
Seen(x) == UNION {Visited(scrd) : scrd \in {Scrd(x)}}

(* Where the search for a maximum, s > srcmax from lowest() on, ends. *)
Found(seen) ==
    {p \in seen : /\ src[p.at] > Lowest
                  /\ \A q \in seen : IF q.n < p.n THEN src[q.at] < src[p.at]
                                     ELSE src[q.at] <= src[p.at]}

Maximum(x) == UNION {Found(seen) : seen \in {Seen(x)}}

(* The position of the maximum within the kernel; 0 if none was found. *)
Kkpos(x) ==
    LET At(p) == (p.at[3] - WindowH(x).off) * pool.w.k + (p.at[4] - WindowW(x).off)
    IN IF Maximum(x) = {} THEN 0 ELSE At(CHOOSE p \in Maximum(x) : TRUE)

Srcmax(x) ==
    IF Maximum(x) = {} THEN Lowest ELSE src[(CHOOSE p \in Maximum(x) : TRUE).at]

Pooled(x) ==
    IF pool.alg = "max" THEN IF ZeroDimSrc THEN Lowest ELSE Srcmax(x)
    ELSE IF ZeroDimSrc THEN [sum |-> 0, n |-> 1]
    ELSE [sum |-> MapThenSumSet(LAMBDA p : src[p.at], Seen(x)),
          n |-> IF pool.alg = "avg_include_padding" THEN pool.h.k * pool.w.k ELSE Ssz(x)]

Position(x) == IF ZeroDimSrc THEN 0 ELSE Kkpos(x)

FwdBatch(t) ==
    LET out == ToSet(Batch(crd[t]))
    IN /\ phase = "fwd" /\ crd[t].vl > 0
       /\ dst' = [x \in DOMAIN dst |-> IF x \in out THEN Pooled(x) ELSE dst[x]]
       /\ ws' = [x \in DOMAIN ws |->
                    IF x \in out /\ pool.alg = "max" THEN Position(x) ELSE ws[x]]
       /\ crd' = [crd EXCEPT ![t] = Step(@)]
       /\ UNCHANGED <<pool, src, diff_src, phase, nthr, outer, byZero>>

-----------------------------------------------------------------------------
(* execute_backward.                                                       *)

(* oh_start, ow_start: the first output whose window meets the source. *)
OutStart(d) == LET o == Quotient(d.l - d.k + 1 + d.s - 1, d.s) IN IF o > 0 THEN o ELSE 0

(* Mutant: the padding is forgotten. *)
OutEndUnpadded(d) ==
    LET o == 1 + Quotient(d.i - 1, d.s) IN IF o < OutSize(d) THEN o ELSE OutSize(d)

(* Mutant: not cut at the end of the output. *)
OutEndUncut(d) == 1 + Quotient(d.l + d.i - 1, d.s)

(* oh_end, ow_end: one past the last. *)
OutEnd(d) ==
    LET o == 1 + Quotient(d.l + d.i - 1, d.s) IN IF o < OutSize(d) THEN o ELSE OutSize(d)

(* The next image of the thread: diff_src is zeroed, dcrd started. *)
BwdImage(t) ==
    LET mb == outer[t].start \div OC
        oc == outer[t].start % OC
        icrd == FixCoord(FixCoord(IterRange(<<0, 0, 0, 0>>, <<1, 1, pool.h.i, pool.w.i>>),
                                  1, mb), 2, oc)
        dcrd == FixCoord(FixCoord(IterRange(<<0, 0, OutStart(pool.h), OutStart(pool.w)>>,
                                            <<1, 1, OutEnd(pool.h), OutEnd(pool.w)>>),
                                  1, mb), 2, oc)
        zeroed == {p.at : p \in Visited(icrd)}
    IN /\ phase = "bwd" /\ crd[t].vl = 0 /\ outer[t].start < outer[t].end
       /\ diff_src' = [s \in DOMAIN diff_src |-> IF s \in zeroed THEN <<>> ELSE diff_src[s]]
       /\ crd' = [crd EXCEPT ![t] = InitNd(dcrd, 0)]
       /\ outer' = [outer EXCEPT ![t].start = @ + 1]
       /\ UNCHANGED <<pool, src, dst, ws, phase, nthr, byZero>>

(* Mutant: the column is taken modulo the kernel's height. *)
PreimageSwapped(x) ==
    <<x[1], x[2], x[3] * pool.h.s - pool.h.l + (ws[x] \div pool.w.k),
      x[4] * pool.w.s - pool.w.l + (ws[x] % pool.h.k)>>

(* The pixel that the workspace names; it may lie in the padding. *)
Preimage(x) ==
    <<x[1], x[2], x[3] * pool.h.s - pool.h.l + (ws[x] \div pool.w.k),
      x[4] * pool.w.s - pool.w.l + (ws[x] % pool.w.k)>>

(* The pixels that receive the gradient of output x, and its divisor. *)
Receivers(x) ==
    IF pool.alg = "max" THEN {Preimage(x)} \cap Pixels(pool) ELSE {p.at : p \in Seen(x)}
Divisor(x) ==
    CASE pool.alg = "max" -> 1
      [] pool.alg = "avg_include_padding" -> pool.h.k * pool.w.k
      [] pool.alg = "avg_exclude_padding" -> Ssz(x)

(* What a batch of outputs adds to pixel s, in order. *)
Gradients(batch, s) ==
    LET own == SelectSeq(batch, LAMBDA x : s \in Receivers(x))
    IN [i \in DOMAIN own |-> <<own[i], Divisor(own[i])>>]

(* grad[i] = diff_dst / psz[i] comes before the loop over the window, which *)
(* may be empty: a floating-point gradient is then infinite and reaches no *)
(* pixel, a division of s32 is undefined.                                  *)
BwdBatch(t) ==
    /\ phase = "bwd" /\ crd[t].vl > 0
    /\ byZero' = byZero \cup {x \in ToSet(Batch(crd[t])) : Divisor(x) = 0}
    /\ diff_src' = [s \in DOMAIN diff_src |-> diff_src[s] \o Gradients(Batch(crd[t]), s)]
    /\ crd' = [crd EXCEPT ![t] = Step(@)]
    /\ UNCHANGED <<pool, src, dst, ws, phase, nthr, outer>>

-----------------------------------------------------------------------------
(* The two primitives, each a parallel section on a team of any size.  The *)
(* images differ by a rotation of their rows.                              *)
Init ==
    /\ \E alg \in Algs, p \in Shapes :
            /\ Consistent(alg, p.h) /\ Consistent(alg, p.w)
            /\ pool = [alg |-> alg, h |-> p.h, w |-> p.w]
    /\ \E v \in [(0 .. pool.h.i - 1) \X (0 .. pool.w.i - 1) -> Levels] :
            src = [s \in Pixels(pool) |-> v[<<s[3], (s[4] + s[1] + s[2]) % pool.w.i>>]]
    /\ dst = [x \in Outputs(pool) |-> Unset]
    /\ ws = [x \in Outputs(pool) |-> Unset]
    /\ diff_src = [s \in Pixels(pool) |-> <<Unset>>]
    /\ phase = "fwd"
    /\ \E n \in 1 .. NthrMax :
        LET all == OutRange(pool)
        IN /\ nthr = n
           /\ crd = [t \in Threads |->
                IF t >= n THEN Idle
                ELSE LET share == Balance211(all.sz, n, t)
                     IN InitPart(all, share.start, share.end)]
    /\ outer = [t \in Threads |-> [start |-> 0, end |-> 0]]
    /\ byZero = {}

Quiet == \A t \in Threads : crd[t].vl = 0 /\ outer[t].start >= outer[t].end

FwdEnd ==
    /\ phase = "fwd" /\ Quiet
    /\ phase' = "bwd"
    /\ \E n \in 1 .. NthrMax :
        /\ nthr' = n
        /\ outer' = [t \in Threads |->
                        IF t < n THEN Balance211(MB * OC, n, t) ELSE [start |-> 0, end |-> 0]]
    /\ crd' = [t \in Threads |-> Idle]
    /\ UNCHANGED <<pool, src, dst, ws, diff_src, byZero>>

BwdEnd == /\ phase = "bwd" /\ Quiet
          /\ phase' = "done"
          /\ UNCHANGED <<pool, src, dst, ws, diff_src, nthr, crd, outer, byZero>>

Done == phase = "done" /\ UNCHANGED vars

ThreadStep(t) == FwdBatch(t) \/ BwdImage(t) \/ BwdBatch(t)

Next == FwdEnd \/ BwdEnd \/ Done \/ \E t \in Threads : ThreadStep(t)

Spec == Init /\ [][Next]_vars

-----------------------------------------------------------------------------
(* What pooling means, without iterators: the pixels under the kernel.     *)
Under(o, d, i) == LET k == i - (o * d.s - d.l) IN k >= 0 /\ k < d.k
Covered(x) == {s \in Pixels(pool) : /\ s[1] = x[1] /\ s[2] = x[2]
                                    /\ Under(x[3], pool.h, s[3]) /\ Under(x[4], pool.w, s[4])}

Before(s, u) == s[3] < u[3] \/ (s[3] = u[3] /\ s[4] <= u[4])
Peaks(x) == {s \in Covered(x) : src[s] > Lowest /\ \A u \in Covered(x) : src[u] <= src[s]}
FirstPeak(x) == {s \in Peaks(x) : \A u \in Peaks(x) : Before(s, u)}

(* Tensors are defined on the coordinates of the primitive, and a thread's *)
(* batch never leaves them.  No range ends before it begins: its length is *)
(* a difference of unsigned numbers.                                       *)
TypeOK ==
    /\ DOMAIN dst = Outputs(pool) /\ DOMAIN ws = Outputs(pool)
    /\ DOMAIN diff_src = Pixels(pool)
    /\ phase \in {"fwd", "bwd", "done"} /\ nthr \in 1 .. NthrMax
    /\ byZero \subseteq Outputs(pool)
    /\ \A t \in Threads : /\ crd[t].vl \in 0 .. MVL
                          /\ \A d \in DOMAIN crd[t].lo : Span(crd[t], d) >= 0
                          /\ ToSet(Batch(crd[t])) \subseteq Outputs(pool)

(* execute_forward computes for every output the maximum, or the sum and   *)
(* the (non-zero) number of summands, of exactly the pixels under the      *)
(* kernel, whatever the padding, the stride, the vector length and the     *)
(* team.                                                                   *)
ForwardRight ==
    phase # "fwd" => \A x \in Outputs(pool) :
        CASE pool.alg = "max" ->
                /\ dst[x] \in {src[s] : s \in Covered(x)} \cup {Lowest}
                /\ \A s \in Covered(x) : src[s] <= dst[x]
          [] OTHER ->
                /\ dst[x].sum = MapThenSumSet(LAMBDA s : src[s], Covered(x))
                /\ dst[x].n > 0
                /\ \/ dst[x].n = IF pool.alg = "avg_include_padding" THEN pool.h.k * pool.w.k
                                 ELSE Cardinality(Covered(x))
                   \/ Pixels(pool) = {}

(* The number of times that the gradient of x was added to pixel s. *)
Added(s, x) == Cardinality({i \in DOMAIN diff_src[s] : diff_src[s][i][1] = x})

(* Forward and backward maximum pooling agree through the workspace: the   *)
(* gradient of an output is added once, to the first pixel that holds the  *)
(* maximum of its window, and to no other.  An output whose window holds   *)
(* nothing above lowest() has no such pixel: its gradient is added to at   *)
(* most one pixel of its own window.                                       *)
MaxGradientRouted ==
    phase = "done" /\ pool.alg = "max" => \A x \in Outputs(pool) :
        LET got == {s \in Pixels(pool) : Added(s, x) > 0}
        IN /\ \A s \in got : Added(s, x) = 1
           /\ IF Peaks(x) # {} THEN got = FirstPeak(x)
              ELSE got \subseteq Covered(x) /\ Cardinality(got) <= 1

(* Backward mean pooling adds the gradient of every output to exactly the  *)
(* pixels the forward mean was taken of, once and with the same divisor,   *)
(* on top of zero; the outputs that od_start..ow_end skip have none.  No   *)
(* gradient is divided by zero, unless the source is empty: there, unlike  *)
(* execute_forward, execute_backward does not return early.                *)
MeanGradientSpread ==
    phase = "done" /\ pool.alg # "max" =>
        /\ \A s \in Pixels(pool) :
            /\ {diff_src[s][i] : i \in DOMAIN diff_src[s]}
                    = {<<x, dst[x].n>> : x \in {y \in Outputs(pool) : s \in Covered(y)}}
            /\ \A x \in Outputs(pool) : Added(s, x) <= 1
        /\ byZero # {} => Pixels(pool) = {} /\ pool.alg = "avg_exclude_padding"
=============================================================================
