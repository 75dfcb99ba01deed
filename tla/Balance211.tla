----------------------------- MODULE Balance211 -----------------------------
(* How work is divided between the threads of a team (common/dnnl_thread.hpp). *)
EXTENDS Integers

DivUp(a, b) == (a + b - 1) \div b

(* The share of thread tid when T1 threads have n1 items and the others    *)
(* one less.                                                               *)
Share(tid, T1, n1) == IF tid < T1 THEN n1 ELSE n1 - 1

(* balance211: thread tid of the team gets the items in [start, end). *)
Balance211(n, team, tid) ==
    LET n1 == DivUp(n, team)
        n2 == n1 - 1
        T1 == n - n2 * team
        start == IF tid <= T1 THEN tid * n1 ELSE T1 * n1 + (tid - T1) * n2
    IN IF team <= 1 \/ n = 0 THEN [start |-> 0, end |-> n]
       ELSE [start |-> start, end |-> start + Share(tid, T1, n1)]
=============================================================================
