----------------------------- MODULE MCParallel -----------------------------
(* Parallel with two workers and the caller.  Three threads share 2 x 3    *)
(* items two by two, so that the second share begins in the first row and  *)
(* ends in the second; 2 x 2 items are shared unevenly; 1 x 1 takes the    *)
(* path of a single thread and 0 x 2 that of no work.                      *)
EXTENDS Parallel

CONSTANTS w1, w2

MCWorkers == {w1, w2}
MCShapes == {<<0, 2>>, <<1, 1>>, <<1, 2>>, <<2, 2>>, <<2, 3>>}
=============================================================================
