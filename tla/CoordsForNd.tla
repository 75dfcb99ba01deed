----------------------------- MODULE CoordsForNd -----------------------------
(***************************************************************************)
(* CoordsForNd (common/ve/memory_desc_wrapper_opt.hpp): nested loops over  *)
(* ranges, run in batches of at most MVL coordinates, one vector register  *)
(* per dimension.  An iterator is a record: lo and hi of every dimension,  *)
(* the end sz and the position pos, both linear, and the length vl of the  *)
(* current batch.                                                          *)
(***************************************************************************)
EXTENDS Integers, Sequences

CONSTANT MVL    \* the vector length

Span(c, d) == c.hi[d] - c.lo[d]

(* The product of the spans from dimension first on. *)
Spans(c, first) ==
    LET product[d \in 1 .. Len(c.lo) + 1] ==
            IF d > Len(c.lo) THEN 1 ELSE Span(c, d) * product[d + 1]
    IN product[first]

(* iter_range and finalize: an iterator that has not been started. *)
IterRange(lo, hi) ==
    LET c == [lo |-> lo, hi |-> hi, sz |-> 0, pos |-> 0, vl |-> 0]
    IN [c EXCEPT !.sz = Spans(c, 1)]

(* init_nd(lin) *)
InitNd(c, lin) ==
    IF lin >= c.sz THEN [c EXCEPT !.pos = c.sz, !.vl = 0]
    ELSE [c EXCEPT !.pos = lin, !.vl = IF lin + MVL > c.sz THEN c.sz - lin ELSE MVL]

(* init_nd(start, end): a part of the range, for one thread. *)
InitPart(c, start, end) == InitNd([c EXCEPT !.sz = end], start)

Step(c) == IF c.pos < c.sz THEN InitNd(c, c.pos + c.vl) ELSE c

(* The coordinates at a linear position: the last dimension runs fastest,  *)
(* and one that does not run stays at its lo.                              *)
Coord(c, lin) ==
    [d \in DOMAIN c.lo |->
        IF Span(c, d) <= 1 THEN c.lo[d]
        ELSE c.lo[d] + ((lin \div Spans(c, d + 1)) % Span(c, d))]

(* The registers vp of the current batch. *)
Batch(c) == [i \in 1 .. c.vl |-> Coord(c, c.pos + i - 1)]

(* fix_coord *)
FixCoord(c, d, value) == [c EXCEPT !.lo[d] = value, !.hi[d] = value + 1]

(* for (c.init_nd(0); c; ++c): what all batches hold, with its place in   *)
(* the order.                                                              *)
Visited(c) == {[n |-> n, at |-> Coord(c, n)] : n \in 0 .. c.sz - 1}
=============================================================================
