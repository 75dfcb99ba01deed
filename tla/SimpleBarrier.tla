--------------------------- MODULE SimpleBarrier ---------------------------
(***************************************************************************)
(* simple_barrier (cpu/x64/cpu_barrier.cpp): a sense-reversing barrier     *)
(* that the library generates as machine code.  One action is one access   *)
(* to the shared context; the threads may be in several contexts.          *)
(***************************************************************************)
EXTENDS Integers, FiniteSets

CONSTANTS Threads, Contexts,
          Members,        \* the threads that meet at each context
          Nthr            \* the number they pass to barrier()

ASSUME MembersAssumption ==
    /\ Members \in [Contexts -> SUBSET Threads]
    /\ \A c \in Contexts : IsFiniteSet(Members[c])
    /\ Nthr = [c \in Contexts |-> Cardinality(Members[c])]

VARIABLES
    ctr, sense,           \* the fields of ctx_t, per context
    bpc,                  \* per thread: where it is in barrier()
    at,                   \* per thread: the context of its last call
    saved,                \* per thread: the sense it has read
    entered, left         \* history: the visits begun and ended

bvars == <<ctr, sense, bpc, at, saved, entered, left>>

(* The not instruction on a 64-bit word, as a signed number. *)
Not(word) == -1 - word

(* ctx_init: no thread has arrived, the sense is 0. *)
BarrierInit ==
    /\ ctr = [c \in Contexts |-> 0]
    /\ sense = [c \in Contexts |-> 0]
    /\ bpc = [t \in Threads |-> "out"]
    /\ at \in [Threads -> Contexts]
    /\ saved = [t \in Threads |-> 0]
    /\ entered = [c \in Contexts |-> [t \in Threads |-> 0]]
    /\ left = [c \in Contexts |-> [t \in Threads |-> 0]]

Move(t, from, to) == bpc[t] = from /\ bpc' = [bpc EXCEPT ![t] = to]

CountExit(t) == left' = [left EXCEPT ![at[t]][t] = @ + 1]

(* barrier(ctx, nthr) is called. *)
BarrierCall(t, c) ==
    /\ Move(t, "out", "load")
    /\ t \in Members[c]
    /\ at' = [at EXCEPT ![t] = c]
    /\ entered' = [entered EXCEPT ![c][t] = @ + 1]
    /\ UNCHANGED <<ctr, sense, saved, left>>

(* A barrier of one thread is left at once; else the sense is read. *)
BarrierLoad(t) ==
    /\ Move(t, "load", IF Nthr[at[t]] <= 1 THEN "out" ELSE "add")
    /\ IF Nthr[at[t]] <= 1
       THEN CountExit(t) /\ UNCHANGED saved
       ELSE saved' = [saved EXCEPT ![t] = sense[at[t]]] /\ UNCHANGED left
    /\ UNCHANGED <<ctr, sense, at, entered>>

(* Mutant: the last but one thread believes that it is the last. *)
BarrierAddEarly(t) ==
    /\ Move(t, "add", IF ctr[at[t]] + 1 >= Nthr[at[t]] - 1 THEN "reset" ELSE "spin")
    /\ ctr' = [ctr EXCEPT ![at[t]] = @ + 1]
    /\ UNCHANGED <<sense, at, saved, entered, left>>

(* lock xadd *)
BarrierAdd(t) ==
    /\ Move(t, "add", IF ctr[at[t]] + 1 = Nthr[at[t]] THEN "reset" ELSE "spin")
    /\ ctr' = [ctr EXCEPT ![at[t]] = @ + 1]
    /\ UNCHANGED <<sense, at, saved, entered, left>>

(* Mutant: the counter is not reset. *)
BarrierResetForgotten(t) ==
    /\ Move(t, "reset", "flip")
    /\ UNCHANGED <<ctr, sense, at, saved, entered, left>>

(* The last thread resets the counter... *)
BarrierReset(t) ==
    /\ Move(t, "reset", "flip")
    /\ ctr' = [ctr EXCEPT ![at[t]] = 0]
    /\ UNCHANGED <<sense, at, saved, entered, left>>

(* ...and only then lets the others go. *)
BarrierFlip(t) ==
    /\ Move(t, "flip", "out")
    /\ sense' = [sense EXCEPT ![at[t]] = Not(saved[t])]
    /\ CountExit(t)
    /\ UNCHANGED <<ctr, at, saved, entered>>

(* The spin loop reads the same sense again... *)
BarrierSpin(t) ==
    /\ bpc[t] = "spin"
    /\ saved[t] = sense[at[t]]
    /\ UNCHANGED bvars

(* ...or sees it change. *)
BarrierExit(t) ==
    /\ Move(t, "spin", "out")
    /\ saved[t] # sense[at[t]]
    /\ CountExit(t)
    /\ UNCHANGED <<ctr, sense, at, saved, entered>>

BarrierStep(t) ==
    \/ BarrierLoad(t) \/ BarrierAdd(t) \/ BarrierReset(t)
    \/ BarrierFlip(t) \/ BarrierSpin(t) \/ BarrierExit(t)

(* Threads that call barrier() whenever they like. *)
BarrierNext ==
    \E t \in Threads : BarrierStep(t) \/ \E c \in Contexts : BarrierCall(t, c)

BarrierSpec == BarrierInit /\ [][BarrierNext]_bvars

-----------------------------------------------------------------------------
(* The threads that have arrived at c and are not yet released, and those  *)
(* that are released and have not yet noticed.                             *)
Arrived(c) ==
    {t \in Members[c] : /\ at[t] = c
                        /\ bpc[t] \in {"spin", "reset", "flip"}
                        /\ saved[t] = sense[c]}
Released(c) ==
    {t \in Members[c] : at[t] = c /\ bpc[t] = "spin" /\ saved[t] # sense[c]}

(* The visits to c that thread t has ended or may end. *)
Passed(c, t) == left[c][t] + (IF t \in Released(c) THEN 1 ELSE 0)

BarrierTypeOK ==
    /\ ctr \in [Contexts -> Nat]
    /\ sense \in [Contexts -> {0, -1}]
    /\ bpc \in [Threads -> {"out", "load", "add", "reset", "flip", "spin"}]
    /\ at \in [Threads -> Contexts]
    /\ saved \in [Threads -> {0, -1}]
    /\ entered \in [Contexts -> [Threads -> Nat]]
    /\ left \in [Contexts -> [Threads -> Nat]]

(* A thread is inside the context of its call, one visit ahead there and   *)
(* nowhere else.                                                           *)
VisitsCounted ==
    /\ \A t \in Threads : bpc[t] # "out" => t \in Members[at[t]]
    /\ \A c \in Contexts, t \in Threads :
         entered[c][t] = left[c][t] + (IF bpc[t] # "out" /\ at[t] = c THEN 1 ELSE 0)

(* A thread that is about to add itself, or to release the others, has     *)
(* read the current sense.                                                 *)
SenseFresh ==
    \A t \in Threads :
        bpc[t] \in {"add", "reset", "flip"} => saved[t] = sense[at[t]]

(* The counter counts the arrived; the thread that completes them is alone *)
(* between the reset and the flip.                                         *)
CounterRight ==
    /\ \A c \in Contexts :
         (\A t \in Members[c] : ~(at[t] = c /\ bpc[t] = "flip")) =>
             ctr[c] = Cardinality(Arrived(c))
    /\ \A t \in Threads : bpc[t] = "flip" => ctr[at[t]] = 0
    /\ \A t \in Threads :
         bpc[t] \in {"reset", "flip"} => Arrived(at[t]) = Members[at[t]]
    /\ \A t, u \in Threads :
         bpc[t] \in {"reset", "flip"} /\ bpc[u] \in {"reset", "flip"} /\ at[t] = at[u]
             => t = u

(* No member is a round ahead of another. *)
RoundsAgree ==
    \A c \in Contexts : \A t, u \in Members[c] : Passed(c, t) = Passed(c, u)

(* simple_barrier reuses its two words for every visit: the counter, the   *)
(* sense and the numbers of visits stay in step, in whatever order the     *)
(* threads arrive, leave and return.                                       *)
BarrierInv ==
    BarrierTypeOK /\ VisitsCounted /\ SenseFresh /\ CounterRight /\ RoundsAgree

B == INSTANCE Barrier WITH Threads <- Threads, Contexts <- Contexts, Members <- Members,
                         entered <- entered, left <- left

(* Every context of simple_barrier is a barrier: no thread leaves a visit  *)
(* before every member has entered it.                                     *)
BarriersHold == B!Spec
=============================================================================
