---------------------------- MODULE MCGemmDriver ----------------------------
(* Small problems: more columns than threads and fewer, an even and an     *)
(* uneven number of rows, k that splits in two and in three.               *)
EXTENDS GemmDriver

MCProblems == {[m |-> 3, n |-> 3, k |-> 4], [m |-> 2, n |-> 4, k |-> 6]}
=============================================================================
