---------------------------- MODULE MCVePooling ----------------------------
(* Windows that overlap, that lie in the padding, that are larger than the *)
(* padded source or pass pixels over, and an empty source.                 *)
EXTENDS VePooling

Dim(i, k, s, l, r) == [i |-> i, k |-> k, s |-> s, l |-> l, r |-> r]

MCShapes == {[h |-> Dim(2, 2, 1, 1, 0), w |-> Dim(2, 3, 1, 1, 1)],
             [h |-> Dim(1, 3, 2, 0, 1), w |-> Dim(3, 2, 1, 0, 1)],
             [h |-> Dim(1, 1, 2, 2, 2), w |-> Dim(2, 1, 2, 0, 0)],
             [h |-> Dim(2, 2, 2, 1, 1), w |-> Dim(1, 2, 1, 2, 2)],
             [h |-> Dim(0, 3, 1, 2, 1), w |-> Dim(2, 2, 1, 0, 0)]}
=============================================================================
