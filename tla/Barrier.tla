------------------------------ MODULE Barrier ------------------------------
(* What a barrier promises: a thread leaves its n-th visit to a context    *)
(* only when every member of the context has entered its own n-th.         *)
EXTENDS Naturals

CONSTANTS Threads, Contexts,
          Members           \* the threads that meet at each context
VARIABLES entered, left     \* per context and thread: visits begun and ended

Init == /\ entered = [c \in Contexts |-> [t \in Threads |-> 0]]
        /\ left = [c \in Contexts |-> [t \in Threads |-> 0]]

Enter(c, t) == /\ entered[c][t] = left[c][t]
               /\ entered' = [entered EXCEPT ![c][t] = @ + 1]
               /\ UNCHANGED left

Leave(c, t) == /\ left[c][t] < entered[c][t]
               /\ \A u \in Members[c] : entered[c][u] >= entered[c][t]
               /\ left' = [left EXCEPT ![c][t] = @ + 1]
               /\ UNCHANGED entered

Next == \E c \in Contexts : \E t \in Members[c] : Enter(c, t) \/ Leave(c, t)

Spec == Init /\ [][Next]_<<entered, left>>
=============================================================================
