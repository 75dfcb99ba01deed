------------------------ MODULE BwdWeightsTeamProofs ------------------------
(***************************************************************************)
(* The barriers that the team of a weight gradient meets at, its tiles,    *)
(* and the gradient.                                                       *)
(*                                                                         *)
(* The first part is about simple_barrier: it implements Barrier, for any  *)
(* contexts and any finite sets of members, when the number passed to      *)
(* barrier() is the number of members.  BarrierInv is inductive; its parts *)
(* need one another: the counter is right because nobody adds itself with  *)
(* an old sense, and the sense cannot grow old because the flip needs      *)
(* everybody to have arrived.                                              *)
(*                                                                         *)
(* The second part is about the team.  What a thread may read is fixed by  *)
(* how often the members of its group have entered their barrier: LoopInv  *)
(* says where each of them is and what the buffer holds, and every step    *)
(* keeps it when BarrierInv holds.                                         *)
(*                                                                         *)
(* The third part is about the gradient that the team leaves behind.  A    *)
(* block of weights holds the sum over a range of the reduction dimension  *)
(* that begins with the range of the thread it belongs to and grows: first *)
(* tile by tile, and in the buffer of thread 0, which is diff_weights,     *)
(* then by the ranges of the other threads, one after another.             *)
(***************************************************************************)
EXTENDS BwdWeightsTeam, WorkDivisionProofs, FiniteSetTheorems

(* Leaves are for Zenon; those that need arithmetic, records or sequences  *)
(* cite SMT.                                                               *)
USE ZenonT(30)

(* The members that have arrived are finitely many, and if they are as     *)
(* many as the members they are all of them.                               *)
LEMMA ArrivedFacts ==
    ASSUME NEW c \in Contexts
    PROVE  /\ Arrived(c) \subseteq Members[c]
           /\ IsFiniteSet(Arrived(c))
           /\ Cardinality(Arrived(c)) \in Nat
           /\ Nthr[c] \in Nat
           /\ Cardinality(Arrived(c)) = Nthr[c] => Arrived(c) = Members[c]
<1>1. Arrived(c) \subseteq Members[c]
  BY DEF Arrived
<1>2. IsFiniteSet(Members[c]) /\ Nthr[c] = Cardinality(Members[c])
  BY MembersAssumption
<1>3. IsFiniteSet(Arrived(c)) /\ (Cardinality(Arrived(c)) = Cardinality(Members[c])
                                     => Arrived(c) = Members[c])
  BY <1>1, <1>2, FS_Subset
<1> QED
  BY <1>1, <1>2, <1>3, FS_CardinalityType

(* A context whose number is at most 1 has no two members. *)
LEMMA Lonely ==
    ASSUME NEW c \in Contexts, Nthr[c] <= 1,
           NEW t \in Members[c], NEW u \in Members[c]
    PROVE  t = u
<1>1. IsFiniteSet(Members[c]) /\ Nthr[c] = Cardinality(Members[c])
  BY MembersAssumption
<1>2. {t, u} \subseteq Members[c]
  OBVIOUS
<1>3. IsFiniteSet({t, u}) /\ Cardinality({t, u}) <= Cardinality(Members[c])
  BY <1>1, <1>2, FS_Subset
<1>4. Cardinality(Members[c]) \in Nat /\ Cardinality({t, u}) \in Nat
  BY <1>1, <1>3, FS_CardinalityType
<1>5. SUFFICES ASSUME t # u PROVE FALSE
  OBVIOUS
<1>6. Cardinality({t}) = 1 /\ IsFiniteSet({t})
  BY FS_Singleton
<1>7. {t, u} = {t} \cup {u} /\ u \notin {t}
  BY <1>5
<1>8. Cardinality({t, u}) = Cardinality({t}) + 1
  BY <1>6, <1>7, FS_AddElement
<1> QED
  BY <1>1, <1>3, <1>4, <1>6, <1>8, SMTT(30)

(* BarrierInv holds when ctx_init has been called. *)
LEMMA BarrierInvInit == BarrierInit => BarrierInv
<1> SUFFICES ASSUME BarrierInit PROVE BarrierInv
  OBVIOUS
<1>1. BarrierTypeOK
  BY DEF BarrierInit, BarrierTypeOK
<1>2. VisitsCounted /\ SenseFresh
  BY SMTT(30) DEF BarrierInit, VisitsCounted, SenseFresh
<1>3. \A c \in Contexts : Arrived(c) = {} /\ Released(c) = {}
  BY MembersAssumption DEF BarrierInit, Arrived, Released
<1>4. CounterRight
  BY <1>3, FS_EmptySet DEF BarrierInit, CounterRight
<1>5. RoundsAgree
  BY <1>3, MembersAssumption DEF BarrierInit, RoundsAgree, Passed
<1> QED
  BY <1>1, <1>2, <1>4, <1>5 DEF BarrierInv

(* Leaving a context counts one more visit. *)
LEMMA CountExitType ==
    ASSUME BarrierTypeOK, NEW t \in Threads, CountExit(t)
    PROVE  left' \in [Contexts -> [Threads -> Nat]]
<1>1. at[t] \in Contexts /\ left[at[t]] \in [Threads -> Nat] /\ left[at[t]][t] + 1 \in Nat
  BY SMTT(30) DEF BarrierTypeOK
<1>2. left' = [left EXCEPT ![at[t]] = [left[at[t]] EXCEPT ![t] = left[at[t]][t] + 1]]
  BY DEF CountExit
<1> QED
  BY <1>1, <1>2 DEF BarrierTypeOK

(* Every action keeps the types. *)
LEMMA BarrierTypeStep ==
    ASSUME BarrierTypeOK, VisitsCounted, BarrierNext
    PROVE  BarrierTypeOK'
<1> USE DEF BarrierTypeOK, Move
<1>1. ASSUME NEW t \in Threads, NEW c \in Contexts, BarrierCall(t, c)
      PROVE  BarrierTypeOK'
  BY <1>1, SMTT(30) DEF BarrierCall
<1>2. ASSUME NEW t \in Threads, BarrierLoad(t)
      PROVE  BarrierTypeOK'
  <2>1. left' \in [Contexts -> [Threads -> Nat]]
    BY <1>2, CountExitType DEF BarrierLoad
  <2>2. bpc' \in [Threads -> {"out", "load", "add", "reset", "flip", "spin"}]
    BY <1>2 DEF BarrierLoad
  <2>3. saved' \in [Threads -> {0, -1}]
    BY <1>2 DEF BarrierLoad
  <2>4. UNCHANGED <<ctr, sense, at, entered>>
    BY <1>2 DEF BarrierLoad
  <2> QED
    BY <2>1, <2>2, <2>3, <2>4
<1>3. ASSUME NEW t \in Threads, BarrierAdd(t)
      PROVE  BarrierTypeOK'
  BY <1>3, SMTT(30) DEF BarrierAdd
<1>4. ASSUME NEW t \in Threads, BarrierReset(t)
      PROVE  BarrierTypeOK'
  BY <1>4 DEF BarrierReset
<1>5. ASSUME NEW t \in Threads, BarrierFlip(t)
      PROVE  BarrierTypeOK'
  <2>1. left' \in [Contexts -> [Threads -> Nat]]
    BY <1>5, CountExitType DEF BarrierFlip
  <2>2. sense' \in [Contexts -> {0, -1}]
    <3>1. Not(saved[t]) \in {0, -1}
      BY SMTT(30) DEF Not
    <3> QED
      BY <1>5, <3>1 DEF BarrierFlip
  <2>3. bpc' \in [Threads -> {"out", "load", "add", "reset", "flip", "spin"}]
    BY <1>5 DEF BarrierFlip
  <2>4. UNCHANGED <<ctr, at, saved, entered>>
    BY <1>5 DEF BarrierFlip
  <2> QED
    BY <2>1, <2>2, <2>3, <2>4
<1>6. ASSUME NEW t \in Threads, BarrierSpin(t)
      PROVE  BarrierTypeOK'
  BY <1>6 DEF BarrierSpin, bvars
<1>7. ASSUME NEW t \in Threads, BarrierExit(t)
      PROVE  BarrierTypeOK'
  <2>1. left' \in [Contexts -> [Threads -> Nat]]
    BY <1>7, CountExitType DEF BarrierExit
  <2> QED
    BY <1>7, <2>1 DEF BarrierExit
<1> HIDE DEF BarrierTypeOK, Move
<1> QED
  BY <1>1, <1>2, <1>3, <1>4, <1>5, <1>6, <1>7 DEF BarrierNext, BarrierStep

(* A call of barrier(): nobody arrives or is released yet. *)
LEMMA BarrierCallInv ==
    ASSUME BarrierInv, BarrierTypeOK', NEW t \in Threads, NEW c \in Contexts,
           BarrierCall(t, c)
    PROVE  BarrierInv'
<1> USE MembersAssumption DEF BarrierInv, BarrierTypeOK
<1>1. /\ bpc[t] = "out" /\ t \in Members[c]
      /\ bpc' = [bpc EXCEPT ![t] = "load"] /\ at' = [at EXCEPT ![t] = c]
      /\ entered' = [entered EXCEPT ![c][t] = @ + 1]
      /\ UNCHANGED <<ctr, sense, saved, left>>
  BY DEF BarrierCall, Move
<1>2. \A d \in Contexts : Arrived(d)' = Arrived(d) /\ Released(d)' = Released(d)
  BY <1>1 DEF Arrived, Released
<1>3. VisitsCounted'
  BY <1>1, SMTT(30) DEF VisitsCounted
<1>4. SenseFresh'
  BY <1>1 DEF SenseFresh
<1>5. CounterRight'
  BY <1>1, <1>2, SMTT(30) DEF CounterRight
<1>6. RoundsAgree'
  BY <1>1, <1>2, SMTT(30) DEF RoundsAgree, Passed
<1> QED
  BY <1>3, <1>4, <1>5, <1>6

(* The sense is read, or a barrier of one thread is left. *)
LEMMA BarrierLoadInv ==
    ASSUME BarrierInv, BarrierTypeOK', NEW t \in Threads, BarrierLoad(t)
    PROVE  BarrierInv'
<1> USE MembersAssumption DEF BarrierInv, BarrierTypeOK
<1> DEFINE c == at[t]
<1>1. c \in Contexts /\ bpc[t] = "load" /\ t \in Members[c]
  BY DEF BarrierLoad, Move, VisitsCounted
<1>2. UNCHANGED <<ctr, sense, at, entered>>
  BY DEF BarrierLoad
<1>3. CASE Nthr[c] <= 1
  <2>1. /\ bpc' = [bpc EXCEPT ![t] = "out"] /\ UNCHANGED saved
        /\ left' = [left EXCEPT ![c][t] = @ + 1]
    BY <1>3 DEF BarrierLoad, Move, CountExit
  <2>2. \A d \in Contexts : Arrived(d)' = Arrived(d) /\ Released(d)' = Released(d)
    BY <1>1, <1>2, <2>1 DEF Arrived, Released
  <2>3. VisitsCounted' /\ SenseFresh'
    BY <1>1, <1>2, <2>1, SMTT(30) DEF VisitsCounted, SenseFresh
  <2>4. CounterRight'
    BY <1>1, <1>2, <2>1, <2>2, SMTT(30) DEF CounterRight
  <2>5. RoundsAgree'
    <3> SUFFICES ASSUME NEW d \in Contexts, NEW u \in Members[d], NEW v \in Members[d]
                 PROVE  Passed(d, u)' = Passed(d, v)'
      BY DEF RoundsAgree
    <3>1. CASE d = c
      BY <1>1, <1>3, <3>1, Lonely
    <3>2. CASE d # c
      <4>1. Passed(d, u)' = Passed(d, u) /\ Passed(d, v)' = Passed(d, v)
        BY <1>1, <2>1, <2>2, <3>2, SMTT(30) DEF Passed
      <4> QED
        BY <4>1 DEF RoundsAgree
    <3> QED
      BY <3>1, <3>2
  <2> QED
    BY <2>3, <2>4, <2>5
<1>4. CASE ~(Nthr[c] <= 1)
  <2>1. /\ bpc' = [bpc EXCEPT ![t] = "add"] /\ UNCHANGED left
        /\ saved' = [saved EXCEPT ![t] = sense[c]]
    BY <1>4 DEF BarrierLoad, Move
  <2>2. \A d \in Contexts : Arrived(d)' = Arrived(d) /\ Released(d)' = Released(d)
    BY <1>1, <1>2, <2>1 DEF Arrived, Released
  <2>3. VisitsCounted' /\ SenseFresh'
    BY <1>1, <1>2, <2>1, SMTT(30) DEF VisitsCounted, SenseFresh
  <2>4. CounterRight'
    BY <1>1, <1>2, <2>1, <2>2 DEF CounterRight
  <2>5. RoundsAgree'
    BY <1>1, <2>1, <2>2, SMTT(30) DEF RoundsAgree, Passed
  <2> QED
    BY <2>3, <2>4, <2>5
<1> QED
  BY <1>3, <1>4

(* A thread adds itself to the counter: it arrives, and if it is the last  *)
(* everybody has arrived.                                                  *)
LEMMA BarrierAddInv ==
    ASSUME BarrierInv, BarrierTypeOK', NEW t \in Threads, BarrierAdd(t)
    PROVE  BarrierInv'
<1> USE MembersAssumption DEF BarrierInv, BarrierTypeOK
<1> DEFINE c == at[t]
           to == IF ctr[c] + 1 = Nthr[c] THEN "reset" ELSE "spin"
<1>1. /\ c \in Contexts /\ bpc[t] = "add" /\ t \in Members[c] /\ saved[t] = sense[c]
      /\ t \notin Arrived(c)
  BY DEF BarrierAdd, Move, VisitsCounted, SenseFresh, Arrived
<1>2. /\ bpc' = [bpc EXCEPT ![t] = to] /\ ctr' = [ctr EXCEPT ![c] = @ + 1]
      /\ UNCHANGED <<sense, at, saved, entered, left>>
  BY DEF BarrierAdd, Move
<1>3. to \in {"reset", "spin"} /\ (to = "reset" => ctr[c] + 1 = Nthr[c])
  OBVIOUS
<1> HIDE DEF to
<1>4. /\ Arrived(c)' = Arrived(c) \cup {t}
      /\ \A d \in Contexts \ {c} : Arrived(d)' = Arrived(d)
      /\ \A d \in Contexts : Released(d)' = Released(d)
  <2>1. Arrived(c)' = Arrived(c) \cup {t}
    BY <1>1, <1>2, <1>3 DEF Arrived
  <2>2. \A d \in Contexts \ {c} : Arrived(d)' = Arrived(d)
    BY <1>1, <1>2, <1>3 DEF Arrived
  <2>3. \A d \in Contexts : Released(d)' = Released(d)
    BY <1>1, <1>2, <1>3, SMTT(30) DEF Released
  <2> QED
    BY <2>1, <2>2, <2>3
<1>5. \A u \in Threads : at[u] = c => bpc[u] \notin {"reset", "flip"}
  BY <1>1, SMTT(30) DEF CounterRight
<1>6. ctr[c] = Cardinality(Arrived(c))
  BY <1>1, <1>5 DEF CounterRight
<1>7. ctr'[c] = Cardinality(Arrived(c)')
  <2>1. IsFiniteSet(Arrived(c)) /\ Cardinality(Arrived(c)) \in Nat
    BY <1>1, ArrivedFacts
  <2>2. Cardinality(Arrived(c) \cup {t}) = Cardinality(Arrived(c)) + 1
    BY <1>1, <2>1, FS_AddElement
  <2>3. ctr'[c] = ctr[c] + 1
    BY <1>1, <1>2
  <2> QED
    BY <1>4, <1>6, <2>2, <2>3
<1>8. to = "reset" => Arrived(c)' = Members[c]
  <2>1. Arrived(c)' \subseteq Members[c]
    BY <1>1, <1>4, ArrivedFacts
  <2>2. IsFiniteSet(Members[c]) /\ Nthr[c] = Cardinality(Members[c])
    BY <1>1
  <2>3. to = "reset" => Cardinality(Arrived(c)') = Cardinality(Members[c])
    BY <1>1, <1>2, <1>3, <1>7, <2>2
  <2> QED
    BY <2>1, <2>2, <2>3, FS_Subset
<1>9. VisitsCounted' /\ SenseFresh'
  BY <1>1, <1>2, <1>3, SMTT(30) DEF VisitsCounted, SenseFresh
<1>10. CounterRight'
  <2>1. ASSUME NEW d \in Contexts,
               \A u \in Members[d] : ~(at'[u] = d /\ bpc'[u] = "flip")
        PROVE  ctr'[d] = Cardinality(Arrived(d)')
    <3>1. CASE d = c
      <4>1. Arrived(d)' = Arrived(c)'
        BY <1>2, <3>1 DEF Arrived
      <4> QED
        BY <1>7, <3>1, <4>1
    <3>2. CASE d # c
      <4>1. \A u \in Members[d] : ~(at[u] = d /\ bpc[u] = "flip")
        BY <1>1, <1>2, <2>1, <3>2
      <4> QED
        BY <1>1, <1>2, <1>4, <3>2, <4>1, SMTT(30) DEF CounterRight
    <3> QED
      BY <3>1, <3>2
  <2>2. ASSUME NEW u \in Threads, bpc'[u] = "flip"
        PROVE  ctr'[at'[u]] = 0
    <3>1. u # t /\ bpc[u] = "flip" /\ at'[u] = at[u] /\ at[u] # c
      BY <1>1, <1>2, <1>3, <1>5, <2>2
    <3> QED
      BY <1>1, <1>2, <3>1 DEF CounterRight
  <2>3. ASSUME NEW u \in Threads, bpc'[u] \in {"reset", "flip"}
        PROVE  Arrived(at[u])' = Members[at'[u]]
    <3>1. CASE u = t
      BY <1>1, <1>2, <1>3, <1>8, <2>3, <3>1
    <3>2. CASE u # t
      <4>1. bpc[u] \in {"reset", "flip"} /\ at'[u] = at[u] /\ at[u] \in Contexts \ {c}
        BY <1>2, <1>5, <2>3, <3>2
      <4>2. Arrived(at[u])' = Arrived(at[u])
        BY <1>2, <1>4, <4>1
      <4> QED
        BY <4>1, <4>2 DEF CounterRight
    <3> QED
      BY <3>1, <3>2
  <2>4. ASSUME NEW u \in Threads, NEW v \in Threads, at'[u] = at'[v],
               bpc'[u] \in {"reset", "flip"}, bpc'[v] \in {"reset", "flip"}
        PROVE  u = v
    BY <1>1, <1>2, <1>5, <2>4 DEF CounterRight
  <2> QED
    BY <2>1, <2>2, <2>3, <2>4 DEF CounterRight
<1>11. RoundsAgree'
  BY <1>2, <1>4, SMTT(30) DEF RoundsAgree, Passed
<1> QED
  BY <1>9, <1>10, <1>11

(* The last thread resets the counter. *)
LEMMA BarrierResetInv ==
    ASSUME BarrierInv, BarrierTypeOK', NEW t \in Threads, BarrierReset(t)
    PROVE  BarrierInv'
<1> USE MembersAssumption DEF BarrierInv, BarrierTypeOK
<1> DEFINE c == at[t]
<1>1. c \in Contexts /\ bpc[t] = "reset" /\ t \in Members[c]
  BY DEF BarrierReset, Move, VisitsCounted
<1>2. /\ bpc' = [bpc EXCEPT ![t] = "flip"] /\ ctr' = [ctr EXCEPT ![c] = 0]
      /\ UNCHANGED <<sense, at, saved, entered, left>>
  BY DEF BarrierReset, Move
<1>3. \A d \in Contexts : Arrived(d)' = Arrived(d) /\ Released(d)' = Released(d)
  BY <1>1, <1>2 DEF Arrived, Released
<1>4. VisitsCounted' /\ SenseFresh'
  BY <1>1, <1>2, SMTT(30) DEF VisitsCounted, SenseFresh
<1>5. CounterRight'
  BY <1>1, <1>2, <1>3, SMTT(30) DEF CounterRight
<1>6. RoundsAgree'
  BY <1>2, <1>3, SMTT(30) DEF RoundsAgree, Passed
<1> QED
  BY <1>4, <1>5, <1>6

(* At the flip everybody is at the barrier, and the others spin. *)
LEMMA AtFlip ==
    ASSUME BarrierInv, NEW t \in Threads, bpc[t] = "flip"
    PROVE  /\ at[t] \in Contexts /\ t \in Members[at[t]]
           /\ ctr[at[t]] = 0 /\ saved[t] = sense[at[t]]
           /\ Released(at[t]) = {}
           /\ \A u \in Members[at[t]] : at[u] = at[t] /\ saved[u] = sense[at[t]]
           /\ \A u \in Members[at[t]] \ {t} : bpc[u] = "spin"
<1> USE MembersAssumption DEF BarrierInv, BarrierTypeOK
<1>1. at[t] \in Contexts /\ t \in Members[at[t]] /\ saved[t] = sense[at[t]]
  BY DEF VisitsCounted, SenseFresh
<1>2. Arrived(at[t]) = Members[at[t]] /\ ctr[at[t]] = 0
  BY DEF CounterRight
<1>3. \A u \in Members[at[t]] : /\ at[u] = at[t] /\ saved[u] = sense[at[t]]
                                /\ bpc[u] \in {"spin", "reset", "flip"}
  BY <1>2 DEF Arrived
<1>4. \A u \in Members[at[t]] \ {t} : bpc[u] = "spin"
  BY <1>1, <1>3 DEF CounterRight
<1> QED
  BY <1>1, <1>2, <1>3, <1>4 DEF Released

(* The flip releases everybody at once. *)
LEMMA BarrierFlipInv ==
    ASSUME BarrierInv, BarrierTypeOK', NEW t \in Threads, BarrierFlip(t)
    PROVE  BarrierInv'
<1> USE MembersAssumption DEF BarrierInv, BarrierTypeOK
<1> DEFINE c == at[t]
<1>1. bpc[t] = "flip"
  BY DEF BarrierFlip, Move
<1>2. /\ c \in Contexts /\ t \in Members[c] /\ ctr[c] = 0 /\ saved[t] = sense[c]
      /\ Released(c) = {}
      /\ \A u \in Members[c] : at[u] = c /\ saved[u] = sense[c]
      /\ \A u \in Members[c] \ {t} : bpc[u] = "spin"
  BY <1>1, AtFlip
<1>3. /\ bpc' = [bpc EXCEPT ![t] = "out"]
      /\ sense' = [sense EXCEPT ![c] = -1 - saved[t]]
      /\ left' = [left EXCEPT ![c][t] = @ + 1]
      /\ UNCHANGED <<ctr, at, saved, entered>>
  BY DEF BarrierFlip, Move, CountExit, Not
<1>4. sense'[c] # sense[c]
  BY <1>2, <1>3, SMTT(30)
<1>5. Arrived(c)' = {} /\ Released(c)' = Members[c] \ {t}
  BY <1>2, <1>3, <1>4, SMTT(30) DEF Arrived, Released
<1>6. \A d \in Contexts \ {c} : Arrived(d)' = Arrived(d) /\ Released(d)' = Released(d)
  BY <1>1, <1>2, <1>3, SMTT(30) DEF Arrived, Released
<1>7. VisitsCounted'
  BY <1>1, <1>2, <1>3, SMTT(30) DEF VisitsCounted
<1>8. SenseFresh'
  BY <1>2, <1>3 DEF SenseFresh, VisitsCounted
<1>9. CounterRight'
  <2>1. ASSUME NEW d \in Contexts,
               \A u \in Members[d] : ~(at'[u] = d /\ bpc'[u] = "flip")
        PROVE  ctr'[d] = Cardinality(Arrived(d)')
    <3>1. CASE d = c
      BY <1>2, <1>3, <1>5, <3>1, FS_EmptySet
    <3>2. CASE d # c
      <4>1. \A u \in Members[d] : ~(at[u] = d /\ bpc[u] = "flip")
        BY <1>1, <1>2, <1>3, <2>1, <3>2
      <4> QED
        BY <1>3, <1>6, <3>2, <4>1, SMTT(30) DEF CounterRight
    <3> QED
      BY <3>1, <3>2
  <2>2. ASSUME NEW u \in Threads, bpc'[u] \in {"reset", "flip"}
        PROVE  u # t /\ bpc'[u] = bpc[u] /\ at'[u] = at[u] /\ at[u] \in Contexts \ {c}
    <3>1. u # t /\ bpc'[u] = bpc[u] /\ at'[u] = at[u]
      BY <1>3, <2>2
    <3>2. u \in Members[at[u]] /\ at[u] \in Contexts
      BY <2>2, <3>1 DEF VisitsCounted
    <3> QED
      BY <1>2, <2>2, <3>1, <3>2
  <2>3. ASSUME NEW u \in Threads, bpc'[u] = "flip"
        PROVE  ctr'[at'[u]] = 0
    BY <1>3, <2>2, <2>3 DEF CounterRight
  <2>4. ASSUME NEW u \in Threads, bpc'[u] \in {"reset", "flip"}
        PROVE  Arrived(at[u])' = Members[at'[u]]
    <3>1. Arrived(at[u])' = Arrived(at[u])
      BY <1>3, <1>6, <2>2, <2>4
    <3> QED
      BY <2>2, <2>4, <3>1 DEF CounterRight
  <2>5. ASSUME NEW u \in Threads, NEW v \in Threads, at'[u] = at'[v],
               bpc'[u] \in {"reset", "flip"}, bpc'[v] \in {"reset", "flip"}
        PROVE  u = v
    BY <2>2, <2>5, SMTT(30) DEF CounterRight
  <2> QED
    BY <2>1, <2>3, <2>4, <2>5 DEF CounterRight
<1>10. RoundsAgree'
  <2>1. ASSUME NEW u \in Members[c]
        PROVE  Passed(c, u)' = Passed(c, u) + 1
    BY <1>2, <1>3, <1>5, <2>1, SMTT(30) DEF Passed
  <2>2. ASSUME NEW d \in Contexts, d # c, NEW u \in Members[d]
        PROVE  Passed(d, u)' = Passed(d, u)
    BY <1>2, <1>3, <1>6, <2>2, SMTT(30) DEF Passed
  <2> SUFFICES ASSUME NEW d \in Contexts, NEW u \in Members[d], NEW v \in Members[d]
               PROVE  Passed(d, u)' = Passed(d, v)'
    BY DEF RoundsAgree
  <2>3. Passed(d, u) = Passed(d, v)
    BY DEF RoundsAgree
  <2>4. CASE d = c
    <3>1. Passed(d, u)' = Passed(c, u)' /\ Passed(d, v)' = Passed(c, v)'
      BY <1>3, <2>4 DEF Passed, Released
    <3> QED
      BY <2>1, <2>3, <2>4, <3>1
  <2> QED
    BY <2>2, <2>3, <2>4
<1> QED
  BY <1>7, <1>8, <1>9, <1>10

(* A released thread notices, and leaves. *)
LEMMA BarrierExitInv ==
    ASSUME BarrierInv, BarrierTypeOK', NEW t \in Threads, BarrierExit(t)
    PROVE  BarrierInv'
<1> USE MembersAssumption DEF BarrierInv, BarrierTypeOK
<1> DEFINE c == at[t]
<1>1. /\ c \in Contexts /\ bpc[t] = "spin" /\ t \in Members[c] /\ saved[t] # sense[c]
      /\ t \in Released(c)
  BY DEF BarrierExit, Move, VisitsCounted, Released
<1>2. /\ bpc' = [bpc EXCEPT ![t] = "out"]
      /\ left' = [left EXCEPT ![c][t] = @ + 1]
      /\ UNCHANGED <<ctr, sense, at, saved, entered>>
  BY DEF BarrierExit, Move, CountExit
<1>3. \A d \in Contexts : Arrived(d)' = Arrived(d)
  BY <1>1, <1>2, SMTT(30) DEF Arrived
<1>4. /\ Released(c)' = Released(c) \ {t}
      /\ \A d \in Contexts \ {c} : Released(d)' = Released(d)
  BY <1>1, <1>2, SMTT(30) DEF Released
<1>5. VisitsCounted' /\ SenseFresh'
  BY <1>1, <1>2, SMTT(30) DEF VisitsCounted, SenseFresh
<1>6. CounterRight'
  BY <1>1, <1>2, <1>3, SMTT(30) DEF CounterRight
<1>7. ASSUME NEW d \in Contexts, NEW u \in Members[d]
      PROVE  Passed(d, u)' = Passed(d, u)
  BY <1>1, <1>2, <1>4, <1>7, SMTT(30) DEF Passed
<1>8. RoundsAgree'
  BY <1>7 DEF RoundsAgree
<1> QED
  BY <1>5, <1>6, <1>8

(* Every step of a thread in barrier() keeps BarrierInv. *)
LEMMA BarrierInvStep ==
    ASSUME BarrierInv, [BarrierNext]_bvars
    PROVE  BarrierInv'
<1>1. CASE UNCHANGED bvars
  BY <1>1, SMTT(30) DEF bvars, BarrierInv, BarrierTypeOK, VisitsCounted, SenseFresh,
              CounterRight, RoundsAgree, Passed, Arrived, Released
<1>2. CASE BarrierNext
  <2>1. BarrierTypeOK'
    BY <1>2, BarrierTypeStep DEF BarrierInv
  <2>2. ASSUME NEW t \in Threads, BarrierSpin(t)
        PROVE  BarrierInv'
    BY <1>1, <2>2 DEF BarrierSpin
  <2> QED
    BY <1>2, <2>1, <2>2, BarrierCallInv, BarrierLoadInv, BarrierAddInv,
       BarrierResetInv, BarrierFlipInv, BarrierExitInv DEF BarrierNext, BarrierStep
<1> QED
  BY <1>1, <1>2

(* simple_barrier keeps BarrierInv (generate, cpu_barrier.cpp): for any    *)
(* contexts and members its two words stay in step with the visits.        *)
THEOREM BarrierInvariant == BarrierSpec => []BarrierInv
<1>1. BarrierInv /\ [BarrierNext]_bvars => BarrierInv'
  BY BarrierInvStep
<1> QED
  BY <1>1, BarrierInvInit, PTL DEF BarrierSpec

(* simple_barrier is a barrier in every context (generate,                 *)
(* cpu_barrier.cpp): no thread leaves a visit before every member has      *)
(* entered it.                                                             *)
THEOREM BarrierRefinement == BarrierSpec => BarriersHold
<1> USE MembersAssumption
<1>1. BarrierInit => B!Init
  BY DEF BarrierInit, B!Init
<1>2. BarrierInv /\ [BarrierNext]_bvars => [B!Next]_<<entered, left>>
  <2> SUFFICES ASSUME BarrierInv, [BarrierNext]_bvars
               PROVE  B!Next \/ UNCHANGED <<entered, left>>
    OBVIOUS
  <2>1. CASE UNCHANGED bvars
    BY <2>1 DEF bvars
  <2>2. ASSUME NEW t \in Threads, NEW c \in Contexts, BarrierCall(t, c)
        PROVE  B!Next
    <3>1. B!Enter(c, t) /\ t \in Members[c]
      BY <2>2, SMTT(30) DEF BarrierCall, Move, BarrierInv, VisitsCounted, BarrierTypeOK, B!Enter
    <3> QED
      BY <3>1 DEF B!Next
  <2>3. ASSUME NEW t \in Threads, bpc[t] # "out", CountExit(t), UNCHANGED entered,
               \A u \in Members[at[t]] : entered[at[t]][u] >= entered[at[t]][t]
        PROVE  B!Next
    <3>1. at[t] \in Contexts /\ t \in Members[at[t]]
      BY <2>3 DEF BarrierInv, VisitsCounted, BarrierTypeOK
    <3>2. left[at[t]][t] < entered[at[t]][t]
      BY <2>3, <3>1, SMTT(30) DEF BarrierInv, VisitsCounted, BarrierTypeOK
    <3>3. B!Leave(at[t], t)
      BY <2>3, <3>2 DEF CountExit, B!Leave
    <3> QED
      BY <3>1, <3>3 DEF B!Next
  <2>4. ASSUME NEW t \in Threads, BarrierLoad(t)
        PROVE  B!Next \/ UNCHANGED <<entered, left>>
    <3>1. CASE Nthr[at[t]] <= 1
      <4>1. at[t] \in Contexts /\ t \in Members[at[t]] /\ bpc[t] # "out"
        BY <2>4 DEF BarrierLoad, Move, BarrierInv, VisitsCounted, BarrierTypeOK
      <4>2. \A u \in Members[at[t]] : u = t
        BY <3>1, <4>1, Lonely
      <4>3. \A u \in Members[at[t]] : entered[at[t]][u] >= entered[at[t]][t]
        BY <4>1, <4>2, SMTT(30) DEF BarrierInv, BarrierTypeOK
      <4> QED
        BY <2>3, <2>4, <3>1, <4>1, <4>3 DEF BarrierLoad
    <3> QED
      BY <2>4, <3>1 DEF BarrierLoad
  <2>5. ASSUME NEW t \in Threads, BarrierAdd(t) \/ BarrierReset(t) \/ BarrierSpin(t)
        PROVE  UNCHANGED <<entered, left>>
    BY <2>5 DEF BarrierAdd, BarrierReset, BarrierSpin, bvars
  <2>6. ASSUME NEW t \in Threads, BarrierFlip(t)
        PROVE  B!Next
    <3>1. bpc[t] = "flip"
      BY <2>6 DEF BarrierFlip, Move
    <3> DEFINE c == at[t]
    <3>2. /\ c \in Contexts /\ t \in Members[c] /\ Released(c) = {}
          /\ \A u \in Members[c] : at[u] = c /\ bpc[u] # "out"
      BY <3>1, AtFlip
    <3>3. ASSUME NEW u \in Members[c]
          PROVE  entered[c][u] >= entered[c][t]
      <4>1. Passed(c, u) = Passed(c, t)
        BY <3>2 DEF BarrierInv, RoundsAgree
      <4>2. left[c][u] = left[c][t]
        BY <3>2, <4>1, SMTT(30) DEF Passed, BarrierInv, BarrierTypeOK
      <4> QED
        BY <3>2, <4>2, SMTT(30) DEF BarrierInv, BarrierTypeOK, VisitsCounted
    <3> QED
      BY <2>3, <2>6, <3>1, <3>3 DEF BarrierFlip
  <2>7. ASSUME NEW t \in Threads, BarrierExit(t)
        PROVE  B!Next
    <3> DEFINE c == at[t]
    <3>1. c \in Contexts /\ t \in Members[c] /\ t \in Released(c) /\ bpc[t] = "spin"
      BY <2>7 DEF BarrierExit, Move, Released, BarrierInv, BarrierTypeOK, VisitsCounted
    <3>2. ASSUME NEW u \in Members[c]
          PROVE  entered[c][u] >= entered[c][t]
      <4>1. Passed(c, u) = Passed(c, t)
        BY <3>1 DEF BarrierInv, RoundsAgree
      <4>2. entered[c][t] = Passed(c, t)
        BY <3>1 DEF Passed, BarrierInv, BarrierTypeOK, VisitsCounted
      <4>3. entered[c][u] >= Passed(c, u)
        BY <3>1, SMTT(30) DEF Passed, Released, BarrierInv, BarrierTypeOK, VisitsCounted
      <4> QED
        BY <4>1, <4>2, <4>3
    <3> QED
      BY <2>3, <2>7, <3>1, <3>2 DEF BarrierExit
  <2> QED
    BY <2>1, <2>2, <2>4, <2>5, <2>6, <2>7 DEF BarrierNext, BarrierStep
<1> QED
  BY <1>1, <1>2, BarrierInvariant, PTL DEF BarrierSpec, BarriersHold, B!Spec

-----------------------------------------------------------------------------
(* A thread that is outside barrier() has not entered a context more often *)
(* than any other of its members: what the barriers promise the team.      *)
LEMMA Gate ==
    ASSUME BarrierInv, NEW c \in Contexts, NEW t \in Members[c], NEW u \in Members[c],
           bpc[t] = "out"
    PROVE  entered[c][t] <= entered[c][u]
<1> USE MembersAssumption DEF BarrierInv, BarrierTypeOK
<1>1. entered[c][t] = Passed(c, t)
  BY DEF VisitsCounted, Passed, Released
<1>2. Passed(c, t) = Passed(c, u)
  BY DEF RoundsAgree
<1>3. Passed(c, u) <= entered[c][u]
  BY SMTT(30) DEF VisitsCounted, Passed, Released
<1> QED
  BY <1>1, <1>2, <1>3

(* The numbers of a thread in the three dimensions of the team. *)
LEMMA TeamNumbers ==
    ASSUME NEW t \in Team
    PROVE  /\ IthrMb(t) \in 0 .. NthrMb - 1
           /\ IthrOcB(t) \in 0 .. NthrOcB - 1
           /\ IthrIcB(t) \in 0 .. NthrIcB - 1
           /\ IthrButOc(t) \in 0 .. Reduction - 1
           /\ t = (IthrMb(t) * NthrOcB + IthrOcB(t)) * NthrIcB + IthrIcB(t)
<1> DEFINE a == NthrMb * NthrOcB
           q == t \div NthrIcB
<1>1. NthrMb \in Nat \ {0} /\ NthrOcB \in Nat \ {0} /\ NthrIcB \in Nat \ {0}
  BY TeamAssumption
<1>2. a \in Nat /\ t \in 0 .. a * NthrIcB - 1 /\ t \in Nat
  <2>1. NthrMb * NthrOcB \in Nat
    BY <1>1, SMTT(30)
  <2>2. NthrTeam = a * NthrIcB
    BY DEF NthrTeam
  <2> QED
    BY <2>1, <2>2, SMTT(30) DEF Team
<1> HIDE DEF a
<1>3. q \in 0 .. a - 1 /\ IthrIcB(t) \in 0 .. NthrIcB - 1 /\ t = q * NthrIcB + IthrIcB(t)
  BY <1>1, <1>2, QuotientBelow, ModFacts DEF IthrIcB
<1> HIDE DEF q
<1>4. q \in 0 .. NthrMb * NthrOcB - 1 /\ q \in Nat
  BY <1>2, <1>3, SMTT(30) DEF a
<1>5. IthrMb(t) = q \div NthrOcB /\ IthrOcB(t) = q % NthrOcB
  BY DEF IthrMb, IthrOcB, q
<1>6. IthrMb(t) \in 0 .. NthrMb - 1
  BY <1>1, <1>4, <1>5, QuotientBelow
<1>7. IthrOcB(t) \in 0 .. NthrOcB - 1 /\ q = IthrMb(t) * NthrOcB + IthrOcB(t)
  BY <1>1, <1>4, <1>5, ModFacts
<1>8. IthrButOc(t) \in 0 .. Reduction - 1
  BY <1>1, <1>3, <1>6, PlaceBelow DEF IthrButOc, Reduction
<1> QED
  BY <1>3, <1>6, <1>7, <1>8

(* A group shares its images and its input channels, and its threads       *)
(* differ in their output channels.                                        *)
LEMMA Groups ==
    ASSUME NEW t \in Team, NEW u \in Team, IthrButOc(t) = IthrButOc(u)
    PROVE  /\ IthrMb(t) = IthrMb(u) /\ IthrIcB(t) = IthrIcB(u)
           /\ IthrOcB(t) = IthrOcB(u) => t = u
<1>1. NthrIcB \in Nat \ {0}
  BY TeamAssumption
<1>2. /\ IthrMb(t) \in Nat /\ IthrIcB(t) \in 0 .. NthrIcB - 1
      /\ IthrMb(u) \in Nat /\ IthrIcB(u) \in 0 .. NthrIcB - 1
      /\ IthrButOc(t) \in Nat
  BY TeamNumbers, SMTT(30)
<1>3. /\ IthrButOc(t) = IthrMb(t) * NthrIcB + IthrIcB(t)
      /\ IthrButOc(t) = IthrMb(u) * NthrIcB + IthrIcB(u)
  BY DEF IthrButOc
<1>4. /\ IthrButOc(t) \div NthrIcB = IthrMb(t) /\ IthrButOc(t) % NthrIcB = IthrIcB(t)
      /\ IthrButOc(t) \div NthrIcB = IthrMb(u) /\ IthrButOc(t) % NthrIcB = IthrIcB(u)
  <2>1. \A q \in Nat, r \in 0 .. NthrIcB - 1, j \in Nat :
           j = q * NthrIcB + r => j \div NthrIcB = q /\ j % NthrIcB = r
    BY <1>1, DivModUnique
  <2> QED
    BY <1>2, <1>3, <2>1, ZenonT(30)
<1> DEFINE P(a, b, c) == (a * NthrOcB + b) * NthrIcB + c
<1>5. /\ t = P(IthrMb(t), IthrOcB(t), IthrIcB(t))
      /\ u = P(IthrMb(u), IthrOcB(u), IthrIcB(u))
  BY TeamNumbers
<1> HIDE DEF P
<1>6. IthrMb(t) = IthrMb(u) /\ IthrIcB(t) = IthrIcB(u)
  BY <1>4
<1> QED
  BY <1>5, <1>6

(* The question that init_balancers asks has room for a job per thread. *)
LEMMA BiasQuestion == Bias \in Questions /\ RoomForTeam(Bias)
<1>1. {NthrMb, NthrOcB, NthrIcB, Mb, NbOc} \subseteq Nat \ {0}
  BY TeamAssumption
<1>2. NthrTeam \in Nat \ {0}
  <2>1. NthrMb * NthrOcB \in Nat \ {0}
    BY <1>1, SMTT(30)
  <2> QED
    BY <1>1, <2>1, SMTT(30) DEF NthrTeam
<1>3. /\ NthrTeam * 16 <= NthrTeam * 3 * 5 * 5 * 16 * 16
      /\ NthrTeam * 3 * 5 * 5 * 16 * 16 \in Nat
  BY <1>2, SMTT(30)
<1> QED
  BY <1>1, <1>2, <1>3, SMTT(30) DEF Bias, Questions, RoomForTeam, OcBlock

(* The barriers of the groups and of the team, and who meets there. *)
LEMMA TeamContextFacts ==
    /\ Reduction \in Nat \ {0} /\ Reduction \in Contexts /\ Members[Reduction] = Team
    /\ \A t \in Team :
         /\ IthrButOc(t) \in Contexts /\ IthrButOc(t) < Reduction
         /\ Members[IthrButOc(t)] = {u \in Team : IthrButOc(u) = IthrButOc(t)}
<1>1. Reduction \in Nat \ {0}
  BY TeamAssumption, SMTT(30) DEF Reduction
<1>2. Balancer.ngroups \in Nat
  BY BiasQuestion, BalanceAsserted, SMTT(30) DEF Balancer
<1>3. 0 .. Reduction \subseteq Contexts
  BY <1>1, <1>2, TeamBarriers, SMTT(30) DEF TeamContexts
<1>4. Reduction \in Contexts /\ Members[Reduction] = Team
  BY <1>1, <1>3, TeamBarriers, SMTT(30) DEF TeamMembers
<1>5. ASSUME NEW t \in Team
      PROVE  /\ IthrButOc(t) \in Contexts /\ IthrButOc(t) < Reduction
             /\ Members[IthrButOc(t)] = {u \in Team : IthrButOc(u) = IthrButOc(t)}
  <2>1. IthrButOc(t) \in 0 .. Reduction - 1
    BY TeamNumbers
  <2>2. IthrButOc(t) \in Contexts /\ IthrButOc(t) < Reduction
    BY <1>1, <1>3, <2>1, SMTT(30)
  <2>3. IthrButOc(t) \in TeamContexts /\ IthrButOc(t) # Reduction
    BY <1>1, <2>1, <2>2, TeamBarriers, SMTT(30)
  <2>4. TeamMembers[IthrButOc(t)] = {u \in Team : IthrButOc(u) = IthrButOc(t)}
    BY <2>2, <2>3 DEF TeamMembers
  <2> QED
    BY <2>2, <2>4, TeamBarriers
<1> QED
  BY <1>1, <1>4, <1>5

(* Every triple of numbers is a thread of the team. *)
LEMMA TeamHas ==
    ASSUME NEW m \in 0 .. NthrMb - 1, NEW o \in 0 .. NthrOcB - 1, NEW i \in 0 .. NthrIcB - 1,
           NEW u, u = (m * NthrOcB + o) * NthrIcB + i
    PROVE  u \in Team /\ IthrMb(u) = m /\ IthrOcB(u) = o /\ IthrIcB(u) = i
<1> DEFINE a == NthrMb * NthrOcB
           q == m * NthrOcB + o
<1>1. NthrMb \in Nat \ {0} /\ NthrOcB \in Nat \ {0} /\ NthrIcB \in Nat \ {0}
  BY TeamAssumption
<1>2. a \in Nat /\ q \in 0 .. a - 1
  BY <1>1, PlaceBelow, SMTT(30)
<1>3. q \in Nat /\ q \div NthrOcB = m /\ q % NthrOcB = o
  <2>1. q \in Nat /\ m \in Nat /\ q = m * NthrOcB + o
    BY <1>2, SMTT(30)
  <2> HIDE DEF q
  <2> QED
    BY <1>1, <2>1, DivModUnique, SMTT(30)
<1>4. NthrTeam = a * NthrIcB /\ u = q * NthrIcB + i
  BY DEF NthrTeam
<1> HIDE DEF a, q
<1>5. u \in 0 .. a * NthrIcB - 1
  BY <1>1, <1>2, <1>4, PlaceBelow
<1>6. u \in Nat /\ u \in Team
  BY <1>4, <1>5, SMTT(30) DEF Team
<1>7. u \div NthrIcB = q /\ u % NthrIcB = i
  <2>1. \A x \in Nat, r \in 0 .. NthrIcB - 1, j \in Nat :
           j = x * NthrIcB + r => j \div NthrIcB = x /\ j % NthrIcB = r
    BY <1>1, DivModUnique, SMTT(30)
  <2> QED
    BY <1>3, <1>4, <1>6, <2>1, ZenonT(30)
<1> QED
  BY <1>3, <1>6, <1>7 DEF IthrMb, IthrOcB, IthrIcB

(* The input channels of a thread, and those of another group. *)
LEMMA IcRange ==
    /\ \A t \in Team :
         /\ IcB(t).start \in Nat /\ IcB(t).end \in Nat
         /\ IcB(t).start <= IcB(t).end /\ IcB(t).end <= NbIc
    /\ \A t, u \in Team :
         IthrIcB(t) # IthrIcB(u) =>
            IcB(t).end <= IcB(u).start \/ IcB(u).end <= IcB(t).start
<1>1. NbIc \in Nat /\ NthrIcB \in Nat \ {0}
  BY TeamAssumption
<1>2. \A t \in Team : IthrIcB(t) \in 0 .. NthrIcB - 1
  BY TeamNumbers
<1>3. \A i \in 0 .. NthrIcB - 1 :
         /\ Balance211(NbIc, NthrIcB, i).start \in Nat
         /\ Balance211(NbIc, NthrIcB, i).end \in Nat
         /\ Balance211(NbIc, NthrIcB, i).start <= Balance211(NbIc, NthrIcB, i).end
         /\ Balance211(NbIc, NthrIcB, i).end <= NbIc
  BY <1>1, TeamShares
<1>4. \A i, k \in 0 .. NthrIcB - 1 : i < k =>
         Balance211(NbIc, NthrIcB, i).end <= Balance211(NbIc, NthrIcB, k).start
  BY <1>1, TeamShares
<1>5. \A t, u \in Team : IthrIcB(t) # IthrIcB(u) =>
         IthrIcB(t) < IthrIcB(u) \/ IthrIcB(u) < IthrIcB(t)
  BY <1>1, <1>2, SMTT(30)
<1> QED
  BY <1>2, <1>3, <1>4, <1>5 DEF IcB

(* The output channels of a thread. *)
LEMMA OcRange ==
    ASSUME NEW t \in Team
    PROVE  /\ OcB(t).start \in Nat /\ OcB(t).end \in Nat
           /\ OcB(t).start <= OcB(t).end /\ OcB(t).end <= NbOc
<1>1. NbOc \in Nat /\ NthrOcB \in Nat \ {0}
  BY TeamAssumption
<1>2. IthrOcB(t) \in 0 .. NthrOcB - 1
  BY TeamNumbers
<1> QED
  BY <1>1, <1>2, TeamShares DEF OcB

(* The blocks of the reduction dimension of a thread are numbers. *)
LEMMA MbSpType ==
    ASSUME NEW t \in Team
    PROVE  MbSp(t).start \in Nat /\ MbSp(t).end \in Nat
<1>1. Mb \in Nat /\ SpNb \in Nat /\ Mb * SpNb \in Nat /\ NthrMb \in Nat \ {0}
  BY TeamAssumption, SMTT(30)
<1>2. IthrMb(t) \in 0 .. NthrMb - 1
  BY TeamNumbers
<1>3. /\ Balance211(Mb, NthrMb, IthrMb(t)).start \in Nat
      /\ Balance211(Mb, NthrMb, IthrMb(t)).end \in Nat
  BY <1>1, <1>2, TeamShares
<1>4. /\ Balance211(Mb * SpNb, NthrMb, IthrMb(t)).start \in Nat
      /\ Balance211(Mb * SpNb, NthrMb, IthrMb(t)).end \in Nat
  BY <1>1, <1>2, TeamShares
<1>5. /\ Balance211(Mb, NthrMb, IthrMb(t)).start * SpNb \in Nat
      /\ Balance211(Mb, NthrMb, IthrMb(t)).end * SpNb \in Nat
  BY <1>1, <1>3, SMTT(30)
<1> QED
  BY <1>4, <1>5 DEF MbSp

(* A group has its ranges in common. *)
LEMMA GroupRanges ==
    ASSUME NEW t \in Team, NEW u \in Team, IthrButOc(t) = IthrButOc(u)
    PROVE  IcB(t) = IcB(u) /\ MbSp(t) = MbSp(u) /\ IthrMb(t) = IthrMb(u)
  BY Groups DEF IcB, MbSp

-----------------------------------------------------------------------------
TeamTypeOK ==
    /\ pc \in [Team -> {"tile", "trans", "compute", "reduce", "bias", "sum", "done"}]
    /\ pos \in [Team -> [mb_sp_b : Int, ic_b : Int, oc_b : Int, iwork : Nat]]
    /\ tr_src \in [(0 .. NthrMb - 1) \X (0 .. NbIc - 1) -> (Int \X Int) \cup {<< >>}]
    /\ \A t \in Team : IcB(t).start <= pos[t].ic_b /\ pos[t].ic_b <= IcB(t).end

(* How often a thread has entered the barrier of its group: twice a tile. *)
Visits(t) == entered[IthrButOc(t)][t]

SameTile(t, u) == pos[t].mb_sp_b = pos[u].mb_sp_b /\ pos[t].ic_b = pos[u].ic_b

(* The tile that thread t will begin next, where it is not between the     *)
(* barriers of one.                                                        *)
MoreIc(t) == pos[t].ic_b + BcastStep(t) < IcB(t).end
AheadIc(t) ==
    IF pc[t] # "compute" THEN pos[t].ic_b
    ELSE IF MoreIc(t) THEN pos[t].ic_b + BcastStep(t) ELSE IcB(t).start
AheadMb(t) ==
    IF pc[t] # "compute" \/ MoreIc(t) THEN pos[t].mb_sp_b
    ELSE pos[t].mb_sp_b + SpBStep(t)
SameAhead(t, u) == AheadMb(t) = AheadMb(u) /\ AheadIc(t) = AheadIc(u)

(* Two threads of a group: equal numbers of visits mean the same half of   *)
(* the same tile, and neither is more than one half of a tile ahead.       *)
InStep(t, u) ==
    /\ Visits(t) <= Visits(u) + 1
    /\ Visits(t) = Visits(u) =>
         /\ pc[t] = "trans" <=> pc[u] = "trans"
         /\ SameAhead(t, u)
         /\ pc[t] = "compute" /\ pc[u] = "compute" => SameTile(t, u)
    /\ Visits(t) = Visits(u) + 1 =>
         \/ pc[t] = "trans" /\ pc[u] # "trans" /\ SameAhead(t, u)
         \/ pc[t] = "compute" /\ pc[u] = "trans" /\ SameTile(t, u)

GroupsInStep ==
    \A t, u \in Team : t # u /\ IthrButOc(t) = IthrButOc(u) => InStep(t, u)

(* Block k of the current tile of t is in its place in the buffer. *)
Holds(t, k) ==
    tr_src[<<IthrMb(t), IcB(t).start + k>>] = <<pos[t].mb_sp_b, pos[t].ic_b + k>>

(* What a thread has transposed of the current tile stays in the buffer. *)
SharesKept ==
    \A t \in Team :
        /\ pc[t] = "trans" => TransShare(t).start <= pos[t].iwork
        /\ \A k \in TransShare(t).start .. TransShare(t).end - 1 :
             (pc[t] = "trans" /\ k < pos[t].iwork) \/ pc[t] = "compute" => Holds(t, k)

(* Once every thread of the group has entered the second barrier of a      *)
(* tile, the buffer holds all of it, until its last reader has gone on.    *)
Met(t) == \A u \in Team : IthrButOc(u) = IthrButOc(t) => Visits(t) <= Visits(u)
WholeOnceMet ==
    \A t \in Team :
        pc[t] = "compute" /\ Met(t) => \A k \in 0 .. BcastStep(t) - 1 : Holds(t, k)

LoopInv == TeamTypeOK /\ GroupsInStep /\ SharesKept /\ WholeOnceMet

(* The size of a tile fits into what is left of the input channels, and    *)
(* the shares of the transposition lie inside it.                          *)
LEMMA TileFits ==
    ASSUME TeamTypeOK, NEW t \in Team
    PROVE  /\ BcastStep(t) \in Nat /\ pos[t].ic_b \in Nat
           /\ pos[t].ic_b + BcastStep(t) <= IcB(t).end
           /\ TransShare(t).start \in Nat /\ TransShare(t).end \in Nat
           /\ TransShare(t).start <= TransShare(t).end /\ TransShare(t).end <= BcastStep(t)
<1>1. IcStep \in Nat /\ IcStep <= IcStepMax /\ IcStepMax \in Int /\ NthrOcB \in Nat \ {0}
  BY TeamAssumption, SMTT(30)
<1>2. /\ pos[t].ic_b \in Int /\ IcB(t).start <= pos[t].ic_b /\ pos[t].ic_b <= IcB(t).end
      /\ IcB(t).start \in Nat /\ IcB(t).end \in Nat
  BY IcRange DEF TeamTypeOK
<1>3. /\ BcastStep(t) \in Nat /\ pos[t].ic_b \in Nat
      /\ pos[t].ic_b + BcastStep(t) <= IcB(t).end
  BY <1>1, <1>2, SMTT(30) DEF BcastStep, Step
<1>4. IthrOcB(t) \in 0 .. NthrOcB - 1
  BY TeamNumbers
<1> QED
  BY <1>1, <1>3, <1>4, TeamShares DEF TransShare

(* Threads of a group that are at the same tile transpose different parts. *)
LEMMA SharesApart ==
    ASSUME TeamTypeOK, NEW t \in Team, NEW u \in Team, t # u,
           IthrButOc(t) = IthrButOc(u), SameTile(t, u)
    PROVE  TransShare(t).end <= TransShare(u).start \/ TransShare(u).end <= TransShare(t).start
<1>1. BcastStep(t) = BcastStep(u)
  BY GroupRanges DEF BcastStep, SameTile
<1>2. BcastStep(t) \in Nat /\ NthrOcB \in Nat \ {0}
  BY TileFits, TeamAssumption
<1>3. /\ IthrOcB(t) \in 0 .. NthrOcB - 1 /\ IthrOcB(u) \in 0 .. NthrOcB - 1
      /\ IthrOcB(t) # IthrOcB(u)
  BY TeamNumbers, Groups
<1>4. IthrOcB(t) < IthrOcB(u) \/ IthrOcB(u) < IthrOcB(t)
  BY <1>2, <1>3, SMTT(30)
<1>5. \A i, k \in 0 .. NthrOcB - 1 : i < k =>
         Balance211(BcastStep(t), NthrOcB, i).end <= Balance211(BcastStep(t), NthrOcB, k).start
  BY <1>2, TeamShares
<1> QED
  BY <1>1, <1>3, <1>4, <1>5 DEF TransShare

(* Together the threads of a group transpose all of a tile. *)
LEMMA SharesWhole ==
    ASSUME TeamTypeOK, NEW t \in Team, NEW k \in 0 .. BcastStep(t) - 1,
           \A u \in Team : IthrButOc(u) = IthrButOc(t) => SameTile(u, t)
    PROVE  \E u \in Team : /\ IthrButOc(u) = IthrButOc(t)
                           /\ k \in TransShare(u).start .. TransShare(u).end - 1
<1>1. BcastStep(t) \in Nat /\ NthrOcB \in Nat \ {0}
  BY TileFits, TeamAssumption
<1>2. PICK o \in 0 .. NthrOcB - 1 : /\ Balance211(BcastStep(t), NthrOcB, o).start <= k
                                    /\ k < Balance211(BcastStep(t), NthrOcB, o).end
  BY <1>1, TeamShares
<1> DEFINE u == (IthrMb(t) * NthrOcB + o) * NthrIcB + IthrIcB(t)
<1>3. u \in Team /\ IthrMb(u) = IthrMb(t) /\ IthrOcB(u) = o /\ IthrIcB(u) = IthrIcB(t)
  BY TeamHas, TeamNumbers, SMTT(30)
<1> HIDE DEF u
<1>4. IthrButOc(u) = IthrButOc(t)
  BY <1>3 DEF IthrButOc
<1>5. BcastStep(u) = BcastStep(t)
  BY <1>3, <1>4, GroupRanges DEF BcastStep, SameTile
<1>6. TransShare(u) = Balance211(BcastStep(t), NthrOcB, o)
  BY <1>3, <1>5 DEF TransShare
<1>7. TransShare(u).start \in Nat /\ TransShare(u).end \in Nat
  BY <1>3, TileFits
<1>8. k \in TransShare(u).start .. TransShare(u).end - 1
  BY <1>2, <1>6, <1>7, SMTT(30)
<1> QED
  BY <1>3, <1>4, <1>8

(* Threads of different groups have different places in the buffers. *)
LEMMA PlacesApart ==
    ASSUME TeamTypeOK, NEW t \in Team, NEW u \in Team, IthrButOc(t) # IthrButOc(u),
           NEW j \in 0 .. BcastStep(t) - 1, NEW k \in 0 .. BcastStep(u) - 1
    PROVE  <<IthrMb(t), IcB(t).start + j>> # <<IthrMb(u), IcB(u).start + k>>
<1>1. SUFFICES ASSUME IthrMb(t) = IthrMb(u), IcB(t).start + j = IcB(u).start + k
               PROVE  FALSE
  OBVIOUS
<1>2. IthrIcB(t) # IthrIcB(u)
  BY <1>1 DEF IthrButOc
<1>3. IcB(t).end <= IcB(u).start \/ IcB(u).end <= IcB(t).start
  BY <1>2, IcRange
<1>4. \A v \in {t, u} :
         /\ IcB(v).start \in Nat /\ IcB(v).end \in Nat
         /\ BcastStep(v) \in Nat /\ IcB(v).start + BcastStep(v) <= IcB(v).end
  <2> TAKE v \in {t, u}
  <2>1. v \in Team
    OBVIOUS
  <2>2. /\ BcastStep(v) \in Nat /\ pos[v].ic_b \in Nat
        /\ pos[v].ic_b + BcastStep(v) <= IcB(v).end
    BY <2>1, TileFits
  <2>3. IcB(v).start <= pos[v].ic_b
    BY <2>1 DEF TeamTypeOK
  <2>4. IcB(v).start \in Nat /\ IcB(v).end \in Nat
    BY <2>1, IcRange
  <2> QED
    BY <2>2, <2>3, <2>4, SMTT(30)
<1> QED
  BY <1>1, <1>3, <1>4, SMTT(30)

(* Before the first tile. *)
LEMMA LoopInvInit == Init => LoopInv
<1> SUFFICES ASSUME Init PROVE LoopInv
  OBVIOUS
<1>1. TeamTypeOK
  <2>1. pc \in [Team -> {"tile", "trans", "compute", "reduce", "bias", "sum", "done"}]
    BY DEF Init
  <2>2. \A t \in Team : /\ MbSp(t).start \in Int /\ IcB(t).start \in Int
                        /\ OcB(t).start \in Int /\ IcB(t).start <= IcB(t).end
    BY MbSpType, IcRange, OcRange, SMTT(30)
  <2>3. /\ pos \in [Team -> [mb_sp_b : Int, ic_b : Int, oc_b : Int, iwork : Nat]]
        /\ \A t \in Team : pos[t].ic_b = IcB(t).start
    BY <2>2 DEF Init
  <2>4. tr_src \in [(0 .. NthrMb - 1) \X (0 .. NbIc - 1) -> (Int \X Int) \cup {<< >>}]
    BY DEF Init
  <2>5. \A t \in Team : IcB(t).start <= pos[t].ic_b /\ pos[t].ic_b <= IcB(t).end
    BY <2>2, <2>3, SMTT(30)
  <2> QED
    BY <2>1, <2>3, <2>4, <2>5 DEF TeamTypeOK
<1>2. \A t \in Team : /\ pc[t] = "tile" /\ pos[t].mb_sp_b = MbSp(t).start
                      /\ pos[t].ic_b = IcB(t).start
  BY DEF Init
<1>3. \A t \in Team : Visits(t) = 0
  BY TeamContextFacts, TeamBarriers DEF Init, BarrierInit, Visits
<1>4. GroupsInStep
  <2> SUFFICES ASSUME NEW t \in Team, NEW u \in Team, IthrButOc(t) = IthrButOc(u)
               PROVE  InStep(t, u)
    BY DEF GroupsInStep
  <2>1. SameAhead(t, u)
    BY <1>2, GroupRanges DEF SameAhead, AheadMb, AheadIc
  <2> QED
    BY <1>2, <1>3, <2>1, SMTT(30) DEF InStep
<1>5. SharesKept /\ WholeOnceMet
  BY <1>2 DEF SharesKept, WholeOnceMet
<1> QED
  BY <1>1, <1>4, <1>5 DEF LoopInv

-----------------------------------------------------------------------------
(* The visits are numbers. *)
LEMMA VisitsType ==
    ASSUME BarrierInv
    PROVE  \A t \in Team : Visits(t) \in Nat
<1>1. entered \in [Contexts -> [Team -> Nat]]
  BY TeamBarriers DEF BarrierInv, BarrierTypeOK
<1>2. \A u \in Team : IthrButOc(u) \in Contexts
  BY TeamContextFacts
<1> QED
  BY <1>1, <1>2 DEF Visits

(* A call of the group's barrier is one more visit of the caller's. *)
LEMMA EnterGroup ==
    ASSUME BarrierInv, NEW s \in Team, BarrierCall(s, IthrButOc(s))
    PROVE  /\ Visits(s)' = Visits(s) + 1
           /\ \A u \in Team : u # s => Visits(u)' = Visits(u)
<1>1. entered' = [entered EXCEPT ![IthrButOc(s)][s] = @ + 1]
  BY DEF BarrierCall
<1>2. entered \in [Contexts -> [Team -> Nat]]
  BY TeamBarriers DEF BarrierInv, BarrierTypeOK
<1>3. \A u \in Team : IthrButOc(u) \in Contexts
  BY TeamContextFacts
<1> QED
  BY <1>1, <1>2, <1>3 DEF Visits

(* A call of a barrier of the team or of the reducer is no visit to a group. *)
LEMMA EnterOther ==
    ASSUME BarrierInv, NEW s \in Team, NEW c, Reduction <= c, c \in Contexts,
           BarrierCall(s, c)
    PROVE  \A u \in Team : Visits(u)' = Visits(u)
<1>1. entered' = [entered EXCEPT ![c][s] = @ + 1]
  BY DEF BarrierCall
<1>2. entered \in [Contexts -> [Team -> Nat]]
  BY TeamBarriers DEF BarrierInv, BarrierTypeOK
<1>3. \A u \in Team : IthrButOc(u) \in Contexts /\ IthrButOc(u) # c
  BY TeamNumbers, TeamContextFacts, SMTT(30)
<1> QED
  BY <1>1, <1>2, <1>3 DEF Visits

(* The barrier of the reducer at which a thread that is not idle meets its *)
(* group is one of the team's.                                             *)
LEMMA ReducerContext ==
    ASSUME NEW t \in Team, ~IdleThread(Balancer, t)
    PROVE  /\ ReducerBctx(GroupId(Balancer, t)) \in Contexts
           /\ Reduction < ReducerBctx(GroupId(Balancer, t))
<1> DEFINE p == Balancer.nthr_per_group
           g == Balancer.ngroups
<1>1. g \in Nat /\ p \in Nat \ {0} /\ Mb \in Nat
  BY BiasQuestion, BalanceAsserted, TeamAssumption, SMTT(30) DEF Balancer, Bias
<1>2. t \in Nat
  BY SMTT(30) DEF Team
<1>3. t < p * g /\ p * g = g * p /\ g * p \in Nat
  BY <1>1, <1>2, SMTT(30) DEF IdleThread
<1> HIDE DEF p, g
<1>4. t \in 0 .. g * p - 1
  BY <1>2, <1>3, SMTT(30)
<1>5. t \div p \in 0 .. g - 1
  BY <1>1, <1>4, QuotientBelow
<1>6. GroupId(Balancer, t) = t \div p
  BY DEF GroupId, p
<1>7. Contexts = 0 .. Reduction + g
  BY TeamBarriers DEF TeamContexts, g
<1> QED
  BY <1>1, <1>5, <1>6, <1>7, TeamContextFacts, SMTT(30) DEF ReducerBctx

(* A step of the team is a step of its barriers. *)
LEMMA TeamUsesBarriers ==
    ASSUME [Next]_vars
    PROVE  [BarrierNext]_bvars
<1>1. CASE UNCHANGED vars
  BY <1>1 DEF vars
<1>2. ASSUME NEW t \in Team, NEW c \in Contexts, BarrierCall(t, c)
      PROVE  BarrierNext
  BY <1>2, TeamBarriers DEF BarrierNext
<1>3. ASSUME NEW t \in Team, ThreadStep(t)
      PROVE  [BarrierNext]_bvars
  <2>1. ASSUME GroupBarrier(t)
        PROVE  [BarrierNext]_bvars
    BY <1>2, <2>1, TeamContextFacts DEF GroupBarrier
  <2>2. CASE TileStart(t)
    BY <2>1, <2>2 DEF TileStart
  <2>3. CASE TransposeEnd(t)
    BY <2>1, <2>3 DEF TransposeEnd
  <2>4. CASE LoopsEnd(t)
    BY <1>2, <2>4, TeamContextFacts DEF LoopsEnd
  <2>5. CASE BiasImagesEnd(t)
    BY <1>2, <2>5, ReducerContext DEF BiasImagesEnd, Redundant
  <2>6. CASE BarrierStep(t)
    BY <2>6, TeamBarriers DEF BarrierNext
  <2>7. CASE \/ Transpose(t) \/ Compute(t) \/ TileEnd(t) \/ Reduce(t) \/ ReduceEnd(t)
             \/ BiasImage(t) \/ BiasReduce(t)
    BY <2>7 DEF Transpose, Compute, TileEnd, Reduce, ReduceEnd, BiasImage, BiasReduce
  <2> QED
    BY <1>3, <2>2, <2>3, <2>4, <2>5, <2>6, <2>7 DEF ThreadStep
<1> QED
  BY <1>1, <1>3 DEF Next

(* A thread outside barrier() is not ahead of its group. *)
LEMMA NotAhead ==
    ASSUME BarrierInv, NEW t \in Team, NEW u \in Team, IthrButOc(t) = IthrButOc(u),
           bpc[t] = "out"
    PROVE  Visits(t) <= Visits(u)
<1>1. IthrButOc(t) \in Contexts /\ t \in Members[IthrButOc(t)] /\ u \in Members[IthrButOc(t)]
  BY TeamContextFacts
<1> QED
  BY <1>1, Gate DEF Visits

(* At the same tile, the threads of a group have the same sizes. *)
LEMMA SameSizes ==
    ASSUME NEW t \in Team, NEW u \in Team, IthrButOc(t) = IthrButOc(u), SameTile(t, u)
    PROVE  BcastStep(t) = BcastStep(u) /\ SpBStep(t) = SpBStep(u) /\ (MoreIc(t) <=> MoreIc(u))
  BY GroupRanges DEF BcastStep, SpBStep, MoreIc, SameTile

(* A step that moves no thread into, inside or out of a tile, and writes   *)
(* to no buffer, keeps the invariant.                                      *)
LEMMA QuietStep ==
    ASSUME LoopInv, TeamTypeOK', UNCHANGED tr_src,
           \A u \in Team :
              /\ Visits(u)' = Visits(u)
              /\ pos'[u].mb_sp_b = pos[u].mb_sp_b /\ pos'[u].ic_b = pos[u].ic_b
              /\ pos'[u].iwork = pos[u].iwork
              /\ pc'[u] = "trans" <=> pc[u] = "trans"
              /\ pc'[u] = "compute" <=> pc[u] = "compute"
    PROVE  LoopInv'
<1>1. \A u \in Team : /\ BcastStep(u)' = BcastStep(u) /\ SpBStep(u)' = SpBStep(u)
                      /\ TransShare(u)' = TransShare(u)
  BY DEF BcastStep, SpBStep, TransShare
<1>2. \A u \in Team : AheadMb(u)' = AheadMb(u) /\ AheadIc(u)' = AheadIc(u)
  BY <1>1 DEF AheadMb, AheadIc, MoreIc
<1>3. \A t, u \in Team : InStep(t, u) => InStep(t, u)'
  BY <1>2, SMTT(30) DEF InStep, SameAhead, SameTile
<1>4. GroupsInStep'
  BY <1>3 DEF LoopInv, GroupsInStep
<1>5. \A t \in Team : \A k : Holds(t, k)' <=> Holds(t, k)
  BY DEF Holds
<1>6. SharesKept'
  BY <1>1, <1>5 DEF LoopInv, SharesKept
<1>7. \A t \in Team : Met(t)' <=> Met(t)
  BY DEF Met
<1>8. WholeOnceMet'
  BY <1>1, <1>5, <1>7 DEF LoopInv, WholeOnceMet
<1> QED
  BY <1>4, <1>6, <1>8 DEF LoopInv

(* The positions of the others are left alone. *)
LEMMA PosOthers ==
    ASSUME TeamTypeOK, NEW s \in Team, NEW p, pos' = [pos EXCEPT ![s] = p]
    PROVE  pos'[s] = p /\ \A u \in Team : u # s => pos'[u] = pos[u]
  BY DEF TeamTypeOK

(* Where a thread is not alone in its group, GroupBarrier counts a visit. *)
LEMMA GroupVisits ==
    ASSUME BarrierInv, NEW s \in Team, GroupBarrier(s)
    PROVE  /\ \A u \in Team : u # s => Visits(u)' = Visits(u)
           /\ \A u \in Team : u # s /\ IthrButOc(u) = IthrButOc(s) => Visits(s)' = Visits(s) + 1
<1>1. CASE NthrOcB > 1
  BY <1>1, EnterGroup DEF GroupBarrier
<1>2. CASE ~(NthrOcB > 1)
  <2>1. UNCHANGED entered
    BY <1>2 DEF GroupBarrier, bvars
  <2>2. NthrOcB = 1
    BY <1>2, TeamAssumption, SMTT(30)
  <2>3. \A u \in Team : IthrOcB(u) = 0
    BY <2>2, TeamNumbers, SMTT(30)
  <2>4. \A u \in Team : IthrButOc(u) = IthrButOc(s) => u = s
    BY <2>3, Groups
  <2> QED
    BY <2>1, <2>4 DEF Visits
<1> QED
  BY <1>1, <1>2

(* A tile begins: the thread enters the first barrier. *)
LEMMA TileStartKeeps ==
    ASSUME BarrierInv, LoopInv, NEW s \in Team, TileStart(s)
    PROVE  LoopInv'
<1> DEFINE p == [pos[s] EXCEPT !.iwork = TransShare(s).start]
<1>1. /\ bpc[s] = "out" /\ pc[s] = "tile" /\ pc' = [pc EXCEPT ![s] = "trans"]
      /\ pos' = [pos EXCEPT ![s] = p] /\ UNCHANGED tr_src /\ GroupBarrier(s)
  BY DEF TileStart, Goto
<1>2. TeamTypeOK
  BY DEF LoopInv
<1>3. /\ p \in [mb_sp_b : Int, ic_b : Int, oc_b : Int, iwork : Nat]
      /\ p.mb_sp_b = pos[s].mb_sp_b /\ p.ic_b = pos[s].ic_b
      /\ p.iwork = TransShare(s).start
  BY <1>2, TileFits DEF TeamTypeOK
<1> HIDE DEF p
<1>4. pos'[s] = p /\ \A u \in Team : u # s => pos'[u] = pos[u]
  BY <1>1, <1>2, PosOthers
<1>5. /\ pc'[s] = "trans" /\ \A u \in Team : u # s => pc'[u] = pc[u]
      /\ pc[s] \notin {"trans", "compute"}
  BY <1>1, <1>2 DEF TeamTypeOK
<1>6. \A u \in Team : pos'[u].mb_sp_b = pos[u].mb_sp_b /\ pos'[u].ic_b = pos[u].ic_b
  BY <1>3, <1>4
<1>7. TeamTypeOK'
  BY <1>1, <1>2, <1>3, <1>6 DEF TeamTypeOK
<1>8. \A u \in Team : /\ BcastStep(u)' = BcastStep(u) /\ SpBStep(u)' = SpBStep(u)
                      /\ TransShare(u)' = TransShare(u)
  BY <1>6 DEF BcastStep, SpBStep, TransShare
<1>9. \A u \in Team : AheadMb(u)' = AheadMb(u) /\ AheadIc(u)' = AheadIc(u)
  BY <1>5, <1>6, <1>8 DEF AheadMb, AheadIc, MoreIc
<1>10. \A t, u \in Team : /\ SameAhead(t, u)' <=> SameAhead(t, u)
                          /\ SameTile(t, u)' <=> SameTile(t, u)
  BY <1>6, <1>9 DEF SameAhead, SameTile
<1>11. \A t \in Team : Visits(t) \in Nat
  BY VisitsType
<1>12. /\ \A u \in Team : u # s => Visits(u)' = Visits(u)
       /\ \A u \in Team : u # s /\ IthrButOc(u) = IthrButOc(s) => Visits(s)' = Visits(s) + 1
  BY <1>1, GroupVisits
<1>13. ASSUME NEW u \in Team, u # s, IthrButOc(u) = IthrButOc(s)
       PROVE  InStep(s, u)' /\ InStep(u, s)'
  <2>1. InStep(s, u) /\ InStep(u, s)
    BY <1>13 DEF LoopInv, GroupsInStep
  <2>2. Visits(s) <= Visits(u)
    BY <1>1, <1>13, NotAhead
  <2>3. Visits(s)' = Visits(s) + 1 /\ Visits(u)' = Visits(u) /\ pc'[u] = pc[u]
    BY <1>5, <1>12, <1>13
  <2>4. SameAhead(s, u) /\ SameAhead(u, s)
    BY <1>5, <1>11, <1>13, <2>1, <2>2, SMTT(30) DEF InStep, SameAhead
  <2>5. CASE Visits(u) = Visits(s)
    BY <1>5, <1>10, <1>11, <1>13, <2>1, <2>3, <2>4, <2>5, SMTT(30) DEF InStep
  <2>6. CASE Visits(u) = Visits(s) + 1
    BY <1>5, <1>10, <1>11, <1>13, <2>1, <2>3, <2>4, <2>6, SMTT(30) DEF InStep
  <2>7. Visits(s) \in Nat /\ Visits(u) \in Nat /\ Visits(u) <= Visits(s) + 1
    BY <1>11, <2>1 DEF InStep
  <2>8. Visits(u) = Visits(s) \/ Visits(u) = Visits(s) + 1
    BY <2>2, <2>7, SMTT(30)
  <2> QED
    BY <2>5, <2>6, <2>8
<1>14. GroupsInStep'
  <2> SUFFICES ASSUME NEW t \in Team, NEW u \in Team, t # u, IthrButOc(t) = IthrButOc(u)
               PROVE  InStep(t, u)'
    BY DEF GroupsInStep
  <2>1. CASE t # s /\ u # s
    <3>1. InStep(t, u)
      BY DEF LoopInv, GroupsInStep
    <3> QED
      BY <1>5, <1>10, <1>12, <2>1, <3>1 DEF InStep
  <2> QED
    BY <1>13, <2>1
<1>15. \A t \in Team : \A k : Holds(t, k)' <=> Holds(t, k)
  BY <1>1, <1>6 DEF Holds
<1>16. SharesKept'
  <2> SUFFICES ASSUME NEW t \in Team
               PROVE  /\ pc'[t] = "trans" => TransShare(t).start <= pos'[t].iwork
                      /\ \A k \in TransShare(t).start .. TransShare(t).end - 1 :
                           (pc'[t] = "trans" /\ k < pos'[t].iwork) \/ pc'[t] = "compute"
                               => Holds(t, k)
    BY <1>8, <1>15 DEF SharesKept
  <2>1. CASE t = s
    BY <1>2, <1>3, <1>4, <1>5, <2>1, TileFits, SMTT(30)
  <2>2. CASE t # s
    BY <1>4, <1>5, <2>2 DEF LoopInv, SharesKept
  <2> QED
    BY <2>1, <2>2
<1>17. WholeOnceMet'
  <2> SUFFICES ASSUME NEW t \in Team, pc'[t] = "compute", Met(t)'
               PROVE  \A k \in 0 .. BcastStep(t) - 1 : Holds(t, k)
    BY <1>8, <1>15 DEF WholeOnceMet
  <2>1. t # s /\ pc[t] = "compute" /\ Visits(t)' = Visits(t)
    BY <1>5, <1>12
  <2>2. ASSUME NEW u \in Team, IthrButOc(u) = IthrButOc(t)
        PROVE  Visits(t) <= Visits(u)
    <3>1. Visits(t) <= Visits(u)'
      BY <2>1, <2>2 DEF Met
    <3>2. CASE u # s
      BY <1>12, <3>1, <3>2
    <3>3. CASE u = s
      <4>1. InStep(t, s)
        BY <2>1, <2>2, <3>3 DEF LoopInv, GroupsInStep
      <4>2. Visits(t) # Visits(s) + 1
        BY <1>5, <2>1, <4>1 DEF InStep
      <4> QED
        BY <1>11, <3>3, <4>1, <4>2, SMTT(30) DEF InStep
    <3> QED
      BY <3>2, <3>3
  <2>3. Met(t)
    BY <2>2 DEF Met
  <2> QED
    BY <2>1, <2>3 DEF LoopInv, WholeOnceMet
<1> QED
  BY <1>7, <1>14, <1>16, <1>17 DEF LoopInv

(* uker_trans writes a block into a place that no other thread needs. *)
LEMMA TransposeKeeps ==
    ASSUME BarrierInv, LoopInv, NEW s \in Team, Transpose(s)
    PROVE  LoopInv'
<1> DEFINE p == [pos[s] EXCEPT !.iwork = @ + 1]
           w == pos[s].iwork
           place == <<IthrMb(s), IcB(s).start + w>>
<1>1. /\ bpc[s] = "out" /\ pc[s] = "trans" /\ w < TransShare(s).end
      /\ tr_src' = [tr_src EXCEPT ![place] = <<pos[s].mb_sp_b, pos[s].ic_b + w>>]
      /\ pos' = [pos EXCEPT ![s] = p] /\ pc' = pc /\ UNCHANGED bvars
  BY DEF Transpose
<1>2. TeamTypeOK
  BY DEF LoopInv
<1>3. /\ p \in [mb_sp_b : Int, ic_b : Int, oc_b : Int, iwork : Nat]
      /\ p.mb_sp_b = pos[s].mb_sp_b /\ p.ic_b = pos[s].ic_b /\ p.iwork = w + 1
      /\ w \in Nat /\ pos[s].ic_b \in Int /\ pos[s].mb_sp_b \in Int
  <2>1. pos[s] \in [mb_sp_b : Int, ic_b : Int, oc_b : Int, iwork : Nat]
    BY <1>2 DEF TeamTypeOK
  <2> QED
    BY <2>1, SMTT(30)
<1> HIDE DEF p
<1>4. pos'[s] = p /\ \A u \in Team : u # s => pos'[u] = pos[u]
  BY <1>1, <1>2, PosOthers
<1>5. \A u \in Team : pos'[u].mb_sp_b = pos[u].mb_sp_b /\ pos'[u].ic_b = pos[u].ic_b
  BY <1>3, <1>4
<1>6. /\ TransShare(s).start <= w /\ w \in 0 .. BcastStep(s) - 1
      /\ IcB(s).start + w \in 0 .. NbIc - 1
  <2>1. /\ BcastStep(s) \in Nat /\ pos[s].ic_b \in Nat
        /\ pos[s].ic_b + BcastStep(s) <= IcB(s).end
        /\ TransShare(s).end \in Nat /\ TransShare(s).end <= BcastStep(s)
    BY <1>2, TileFits
  <2>2. IcB(s).start \in Nat /\ IcB(s).end \in Nat /\ IcB(s).end <= NbIc /\ NbIc \in Nat
    BY IcRange, TeamAssumption
  <2>3. IcB(s).start <= pos[s].ic_b
    BY <1>2 DEF TeamTypeOK
  <2>4. TransShare(s).start <= w
    BY <1>1 DEF LoopInv, SharesKept
  <2> QED
    BY <1>1, <1>3, <2>1, <2>2, <2>3, <2>4, SMTT(30)
<1>7. place \in (0 .. NthrMb - 1) \X (0 .. NbIc - 1)
  BY <1>6, TeamNumbers
<1>8. TeamTypeOK'
  <2>1. tr_src' \in [(0 .. NthrMb - 1) \X (0 .. NbIc - 1) -> (Int \X Int) \cup {<< >>}]
    <3>1. <<pos[s].mb_sp_b, pos[s].ic_b + w>> \in (Int \X Int) \cup {<< >>}
      BY <1>3, SMTT(30)
    <3>2. tr_src \in [(0 .. NthrMb - 1) \X (0 .. NbIc - 1) -> (Int \X Int) \cup {<< >>}]
      BY <1>2 DEF TeamTypeOK
    <3> QED
      BY <1>1, <3>1, <3>2
  <2>2. pos' \in [Team -> [mb_sp_b : Int, ic_b : Int, oc_b : Int, iwork : Nat]]
    BY <1>1, <1>2, <1>3 DEF TeamTypeOK
  <2> QED
    BY <1>1, <1>2, <1>5, <2>1, <2>2 DEF TeamTypeOK
<1>9. \A u \in Team : /\ BcastStep(u)' = BcastStep(u) /\ SpBStep(u)' = SpBStep(u)
                      /\ TransShare(u)' = TransShare(u) /\ Visits(u)' = Visits(u)
  BY <1>1, <1>5 DEF BcastStep, SpBStep, TransShare, Visits, bvars
<1>10. \A u \in Team : AheadMb(u)' = AheadMb(u) /\ AheadIc(u)' = AheadIc(u)
  BY <1>1, <1>5, <1>9, SMTT(30) DEF AheadMb, AheadIc, MoreIc
<1>11. GroupsInStep'
  <2>1. \A t, u \in Team : InStep(t, u) => InStep(t, u)'
    BY <1>1, <1>5, <1>9, <1>10, SMTT(30) DEF InStep, SameAhead, SameTile
  <2> QED
    BY <2>1 DEF LoopInv, GroupsInStep
<1>12. tr_src'[place] = <<pos'[s].mb_sp_b, pos'[s].ic_b + w>>
  BY <1>1, <1>2, <1>5, <1>7 DEF TeamTypeOK
<1>13. ASSUME NEW t \in Team, NEW k, Holds(t, k), <<IthrMb(t), IcB(t).start + k>> # place
       PROVE  Holds(t, k)'
  <2>1. tr_src'[<<IthrMb(t), IcB(t).start + k>>] = tr_src[<<IthrMb(t), IcB(t).start + k>>]
    BY <1>1, <1>2, <1>13, SMTT(30) DEF TeamTypeOK
  <2> QED
    BY <1>5, <1>13, <2>1 DEF Holds
<1> HIDE DEF place, w
<1>14. ASSUME NEW t \in Team, t # s, IthrButOc(t) = IthrButOc(s), pc[t] \in {"trans", "compute"}
       PROVE  SameTile(t, s) /\ (pc[t] = "compute" => Visits(t) # Visits(s))
  <2>1. InStep(t, s) /\ InStep(s, t)
    BY <1>14 DEF LoopInv, GroupsInStep
  <2>2. Visits(s) <= Visits(t) /\ Visits(s) \in Nat /\ Visits(t) \in Nat
    BY <1>1, <1>14, NotAhead, VisitsType
  <2>3. CASE Visits(t) = Visits(s)
    BY <1>1, <1>14, <2>1, <2>3 DEF InStep, SameAhead, AheadMb, AheadIc, SameTile
  <2>4. CASE Visits(t) = Visits(s) + 1
    BY <1>1, <1>14, <2>1, <2>2, <2>4 DEF InStep
  <2> QED
    BY <2>1, <2>2, <2>3, <2>4, SMTT(30) DEF InStep
<1>15. ASSUME NEW t \in Team, IthrButOc(t) # IthrButOc(s), NEW k \in 0 .. BcastStep(t) - 1
       PROVE  <<IthrMb(t), IcB(t).start + k>> # place
  BY <1>2, <1>6, <1>15, PlacesApart DEF place
<1>16. ASSUME NEW t \in Team, IthrButOc(t) = IthrButOc(s), NEW k \in Int, k # w
       PROVE  <<IthrMb(t), IcB(t).start + k>> # place
  <2>1. IcB(t) = IcB(s) /\ IcB(s).start \in Int
    BY <1>16, GroupRanges, IcRange, SMTT(30)
  <2> QED
    BY <1>3, <1>16, <2>1, SMTT(30) DEF place
<1>17. SharesKept'
  <2> SUFFICES ASSUME NEW t \in Team
               PROVE  /\ pc[t] = "trans" => TransShare(t).start <= pos'[t].iwork
                      /\ \A k \in TransShare(t).start .. TransShare(t).end - 1 :
                           (pc[t] = "trans" /\ k < pos'[t].iwork) \/ pc[t] = "compute"
                               => Holds(t, k)'
    BY <1>1, <1>9 DEF SharesKept
  <2>1. /\ TransShare(t).start \in Nat /\ TransShare(t).end \in Nat
        /\ BcastStep(t) \in Nat /\ TransShare(t).end <= BcastStep(t)
    BY <1>2, TileFits
  <2>2. pc[t] = "trans" => TransShare(t).start <= pos'[t].iwork
    <3>1. CASE t = s
      BY <1>3, <1>4, <1>6, <2>1, <3>1, SMTT(30)
    <3>2. CASE t # s
      BY <1>4, <3>2 DEF LoopInv, SharesKept
    <3> QED
      BY <3>1, <3>2
  <2>3. ASSUME NEW k \in TransShare(t).start .. TransShare(t).end - 1,
               (pc[t] = "trans" /\ k < pos'[t].iwork) \/ pc[t] = "compute"
        PROVE  Holds(t, k)'
    <3>1. k \in Int /\ k \in 0 .. BcastStep(t) - 1
      BY <2>1, SMTT(30)
    <3>2. CASE t = s /\ k = w
      BY <1>12, <3>2 DEF Holds, place
    <3>3. CASE t = s /\ k # w
      <4>1. Holds(t, k)
        <5>1. pc[s] = "trans" /\ k < w
          BY <1>1, <1>3, <1>4, <2>3, <3>1, <3>3, SMTT(30)
        <5> QED
          BY <3>3, <5>1 DEF LoopInv, SharesKept, w
      <4> QED
        BY <1>13, <1>16, <3>1, <3>3, <4>1
    <3>4. CASE t # s
      <4>1. Holds(t, k)
        BY <1>4, <2>3, <3>4 DEF LoopInv, SharesKept
      <4>2. CASE IthrButOc(t) # IthrButOc(s)
        BY <1>13, <1>15, <3>1, <4>1, <4>2
      <4>3. CASE IthrButOc(t) = IthrButOc(s)
        <5>1. SameTile(t, s)
          BY <1>14, <2>3, <3>4, <4>3
        <5>2. TransShare(t).end <= TransShare(s).start \/ TransShare(s).end <= TransShare(t).start
          BY <1>2, <3>4, <4>3, <5>1, SharesApart
        <5>3. TransShare(s).start \in Nat /\ TransShare(s).end \in Nat
          BY <1>2, TileFits
        <5>4. k # w
          BY <1>1, <1>3, <1>6, <2>1, <5>2, <5>3, SMTT(30) DEF w
        <5> QED
          BY <1>13, <1>16, <3>1, <4>1, <4>3, <5>4
      <4> QED
        BY <4>2, <4>3
    <3> QED
      BY <3>2, <3>3, <3>4
  <2> QED
    BY <2>2, <2>3
<1>18. WholeOnceMet'
  <2> SUFFICES ASSUME NEW t \in Team, pc[t] = "compute", Met(t)',
                      NEW k \in 0 .. BcastStep(t) - 1
               PROVE  Holds(t, k)'
    BY <1>1, <1>9 DEF WholeOnceMet
  <2>1. Met(t) /\ t # s
    BY <1>1, <1>9 DEF Met
  <2>2. Holds(t, k)
    BY <2>1 DEF LoopInv, WholeOnceMet
  <2>3. IthrButOc(t) # IthrButOc(s)
    <3> SUFFICES ASSUME IthrButOc(t) = IthrButOc(s) PROVE FALSE
      OBVIOUS
    <3>1. Visits(t) <= Visits(s) /\ Visits(s) <= Visits(t)
      BY <1>1, <2>1, NotAhead DEF Met
    <3>2. Visits(t) \in Nat /\ Visits(s) \in Nat
      BY VisitsType
    <3>3. Visits(t) # Visits(s)
      BY <1>14, <2>1
    <3> QED
      BY <3>1, <3>2, <3>3, SMTT(30)
  <2> QED
    BY <1>13, <1>15, <2>2, <2>3
<1> QED
  BY <1>8, <1>11, <1>17, <1>18 DEF LoopInv

(* The last thread of the group to enter the second barrier finds the      *)
(* whole tile transposed.                                                  *)
LEMMA TransposeEndKeeps ==
    ASSUME BarrierInv, LoopInv, NEW s \in Team, TransposeEnd(s)
    PROVE  LoopInv'
<1>1. /\ bpc[s] = "out" /\ pc[s] = "trans" /\ pc' = [pc EXCEPT ![s] = "compute"]
      /\ pos[s].iwork >= TransShare(s).end /\ pos' = pos /\ UNCHANGED tr_src /\ GroupBarrier(s)
  BY DEF TransposeEnd, Goto
<1>2. TeamTypeOK
  BY DEF LoopInv
<1>3. pc'[s] = "compute" /\ \A u \in Team : u # s => pc'[u] = pc[u]
  BY <1>1, <1>2 DEF TeamTypeOK
<1>4. TeamTypeOK'
  BY <1>1, <1>2 DEF TeamTypeOK
<1>5. \A u \in Team : /\ BcastStep(u)' = BcastStep(u) /\ SpBStep(u)' = SpBStep(u)
                      /\ TransShare(u)' = TransShare(u) /\ (MoreIc(u)' <=> MoreIc(u))
  BY <1>1 DEF BcastStep, SpBStep, TransShare, MoreIc
<1>6. \A u \in Team : u # s => AheadMb(u)' = AheadMb(u) /\ AheadIc(u)' = AheadIc(u)
  BY <1>1, <1>3, <1>5 DEF AheadMb, AheadIc
<1>7. \A t, u \in Team : SameTile(t, u)' <=> SameTile(t, u)
  BY <1>1 DEF SameTile
<1>8. \A t \in Team : Visits(t) \in Nat
  BY VisitsType
<1>9. /\ \A u \in Team : u # s => Visits(u)' = Visits(u)
      /\ \A u \in Team : u # s /\ IthrButOc(u) = IthrButOc(s) => Visits(s)' = Visits(s) + 1
  BY <1>1, GroupVisits
<1>10. ASSUME NEW u \in Team, u # s, IthrButOc(u) = IthrButOc(s)
       PROVE  /\ Visits(u) = Visits(s) \/ Visits(u) = Visits(s) + 1
              /\ Visits(u) = Visits(s) => pc[u] = "trans"
              /\ Visits(u) = Visits(s) + 1 => pc[u] = "compute"
              /\ SameTile(u, s) /\ SameTile(s, u)
  <2>1. InStep(s, u) /\ InStep(u, s)
    BY <1>10 DEF LoopInv, GroupsInStep
  <2>2. Visits(s) <= Visits(u)
    BY <1>1, <1>10, NotAhead
  <2>3. Visits(u) = Visits(s) \/ Visits(u) = Visits(s) + 1
    BY <1>8, <2>1, <2>2, SMTT(30) DEF InStep
  <2>4. CASE Visits(u) = Visits(s)
    BY <1>1, <1>8, <2>1, <2>4 DEF InStep, SameAhead, AheadMb, AheadIc, SameTile
  <2>5. CASE Visits(u) = Visits(s) + 1
    BY <1>1, <1>8, <2>1, <2>5 DEF InStep, SameTile
  <2> QED
    BY <2>3, <2>4, <2>5
<1>11. ASSUME NEW u \in Team, u # s, IthrButOc(u) = IthrButOc(s)
       PROVE  InStep(s, u)' /\ InStep(u, s)'
  <2>1. Visits(s)' = Visits(s) + 1 /\ Visits(u)' = Visits(u) /\ pc'[u] = pc[u]
    BY <1>3, <1>9, <1>11
  <2>2. SameTile(u, s)' /\ SameTile(s, u)'
    BY <1>7, <1>10, <1>11
  <2>3. CASE Visits(u) = Visits(s)
    BY <1>3, <1>8, <1>10, <1>11, <2>1, <2>2, <2>3, SMTT(30) DEF InStep
  <2>4. CASE Visits(u) = Visits(s) + 1
    <3>1. pc'[u] = "compute" /\ pc'[s] = "compute"
      BY <1>3, <1>10, <1>11, <2>1, <2>4
    <3>2. /\ BcastStep(u) = BcastStep(s) /\ SpBStep(u) = SpBStep(s)
          /\ MoreIc(u) <=> MoreIc(s)
      BY <1>10, <1>11, SameSizes
    <3>3. IcB(u) = IcB(s)
      BY <1>11, GroupRanges
    <3>4. SameAhead(u, s)' /\ SameAhead(s, u)'
      BY <1>5, <1>10, <1>11, <2>2, <3>1, <3>2, <3>3 DEF SameAhead, AheadMb, AheadIc, SameTile
    <3> QED
      BY <1>8, <1>11, <2>1, <2>2, <2>4, <3>1, <3>4, SMTT(30) DEF InStep
  <2> QED
    BY <1>10, <1>11, <2>3, <2>4
<1>12. GroupsInStep'
  <2> SUFFICES ASSUME NEW t \in Team, NEW u \in Team, t # u, IthrButOc(t) = IthrButOc(u)
               PROVE  InStep(t, u)'
    BY DEF GroupsInStep
  <2>1. CASE t # s /\ u # s
    <3>1. InStep(t, u)
      BY DEF LoopInv, GroupsInStep
    <3>2. SameAhead(t, u)' <=> SameAhead(t, u)
      BY <1>6, <2>1 DEF SameAhead
    <3> QED
      BY <1>3, <1>7, <1>9, <2>1, <3>1, <3>2 DEF InStep
  <2> QED
    BY <1>11, <2>1
<1>13. \A t \in Team : \A k : Holds(t, k)' <=> Holds(t, k)
  BY <1>1 DEF Holds
<1>14. \A k \in TransShare(s).start .. TransShare(s).end - 1 : Holds(s, k)
  <2>1. /\ TransShare(s).start \in Nat /\ TransShare(s).end \in Nat /\ pos[s].iwork \in Nat
    BY <1>2, TileFits DEF TeamTypeOK
  <2>2. \A k \in TransShare(s).start .. TransShare(s).end - 1 : k < pos[s].iwork
    BY <1>1, <2>1, SMTT(30)
  <2> QED
    BY <1>1, <2>2 DEF LoopInv, SharesKept
<1>15. SharesKept'
  <2> SUFFICES ASSUME NEW t \in Team
               PROVE  /\ pc'[t] = "trans" => TransShare(t).start <= pos[t].iwork
                      /\ \A k \in TransShare(t).start .. TransShare(t).end - 1 :
                           (pc'[t] = "trans" /\ k < pos[t].iwork) \/ pc'[t] = "compute"
                               => Holds(t, k)
    BY <1>1, <1>5, <1>13 DEF SharesKept
  <2>1. CASE t = s
    BY <1>3, <1>14, <2>1
  <2>2. CASE t # s
    BY <1>3, <2>2 DEF LoopInv, SharesKept
  <2> QED
    BY <2>1, <2>2
<1>16. WholeOnceMet'
  <2> SUFFICES ASSUME NEW t \in Team, pc'[t] = "compute", Met(t)',
                      NEW k \in 0 .. BcastStep(t) - 1
               PROVE  Holds(t, k)
    BY <1>5, <1>13 DEF WholeOnceMet
  <2>1. CASE t # s /\ Met(t)
    BY <1>3, <2>1 DEF LoopInv, WholeOnceMet
  <2>2. CASE t = s \/ ~Met(t)
    <3>1. /\ IthrButOc(t) = IthrButOc(s)
          /\ \A u \in Team : u # s /\ IthrButOc(u) = IthrButOc(s) => Visits(u) = Visits(s) + 1
      <4>1. CASE t = s
        <5> SUFFICES ASSUME NEW u \in Team, u # s, IthrButOc(u) = IthrButOc(s)
                     PROVE  Visits(u) = Visits(s) + 1
          BY <4>1
        <5>1. Visits(s) + 1 <= Visits(u)
          BY <1>9, <4>1 DEF Met
        <5> QED
          BY <1>8, <1>10, <5>1, SMTT(30)
      <4>2. CASE t # s
        <5>1. PICK v \in Team : IthrButOc(v) = IthrButOc(t) /\ ~(Visits(t) <= Visits(v))
          BY <2>2, <4>2 DEF Met
        <5>2. v = s
          BY <1>9, <4>2, <5>1 DEF Met
        <5>3. Visits(t) = Visits(s) + 1
          BY <1>8, <1>10, <4>2, <5>1, <5>2, SMTT(30)
        <5>4. ASSUME NEW u \in Team, u # s, IthrButOc(u) = IthrButOc(s)
              PROVE  Visits(u) = Visits(s) + 1
          <6>1. Visits(t) <= Visits(u)
            BY <1>9, <4>2, <5>1, <5>2, <5>4 DEF Met
          <6> QED
            BY <1>8, <1>10, <5>3, <5>4, <6>1, SMTT(30)
        <5> QED
          BY <5>1, <5>2, <5>4
      <4> QED
        BY <4>1, <4>2
    <3>2. \A u \in Team : IthrButOc(u) = IthrButOc(s) => SameTile(u, s)
      BY <1>10 DEF SameTile
    <3>3. \A u \in Team : IthrButOc(u) = IthrButOc(t) => SameTile(u, t)
      BY <3>1, <3>2 DEF SameTile
    <3>4. PICK u \in Team : /\ IthrButOc(u) = IthrButOc(t)
                            /\ k \in TransShare(u).start .. TransShare(u).end - 1
      BY <1>2, <3>3, SharesWhole
    <3>5. Holds(u, k)
      <4>1. CASE u = s
        BY <1>14, <3>4, <4>1
      <4>2. CASE u # s
        <5>1. pc[u] = "compute"
          BY <1>10, <3>1, <3>4, <4>2
        <5> QED
          BY <3>4, <5>1 DEF LoopInv, SharesKept
      <4> QED
        BY <4>1, <4>2
    <3>6. IcB(u) = IcB(t) /\ IthrMb(u) = IthrMb(t) /\ SameTile(u, t)
      BY <3>3, <3>4, GroupRanges
    <3> QED
      BY <3>5, <3>6 DEF Holds, SameTile
  <2> QED
    BY <2>1, <2>2
<1> QED
  BY <1>4, <1>12, <1>15, <1>16 DEF LoopInv

(* A tile ends: the thread goes on to the tile it was expected at. *)
LEMMA TileEndKeeps ==
    ASSUME BarrierInv, LoopInv, NEW s \in Team, TileEnd(s)
    PROVE  LoopInv'
<1> DEFINE p == [mb_sp_b |-> AheadMb(s), ic_b |-> AheadIc(s), oc_b |-> OcB(s).start,
                 iwork |-> 0]
<1>1. /\ bpc[s] = "out" /\ pc[s] = "compute" /\ pc' = [pc EXCEPT ![s] = "tile"]
      /\ pos' = [pos EXCEPT ![s] = p] /\ UNCHANGED <<tr_src, bvars>>
  BY DEF TileEnd, Goto, AheadMb, AheadIc, MoreIc
<1>2. TeamTypeOK
  BY DEF LoopInv
<1>3. /\ AheadMb(s) \in Int /\ AheadIc(s) \in Int
      /\ IcB(s).start <= AheadIc(s) /\ AheadIc(s) <= IcB(s).end
  <2>1. /\ pos[s].mb_sp_b \in Int /\ IcB(s).start <= pos[s].ic_b
    BY <1>2 DEF TeamTypeOK
  <2>2. /\ BcastStep(s) \in Nat /\ pos[s].ic_b \in Nat
    BY <1>2, TileFits
  <2>3. IcB(s).start \in Nat /\ IcB(s).end \in Nat /\ IcB(s).start <= IcB(s).end
    BY IcRange
  <2>4. SpBStep(s) \in Int
    <3>1. /\ SpNb \in Nat \ {0} /\ SpStep \in Int /\ SpStepMax \in Int
      BY TeamAssumption, SMTT(30)
    <3>2. MbSp(s).end \in Nat
      BY MbSpType
    <3>3. SpNb - (pos[s].mb_sp_b % SpNb) \in Int /\ MbSp(s).end - pos[s].mb_sp_b \in Int
      BY <2>1, <3>1, <3>2, SMTT(30)
    <3> QED
      BY <3>1, <3>3 DEF SpBStep, Step, Least
  <2>5. AheadMb(s) \in Int
    BY <2>1, <2>4, SMTT(30) DEF AheadMb
  <2>6. AheadIc(s) \in {pos[s].ic_b, IcB(s).start} \/ (MoreIc(s) /\ AheadIc(s) = pos[s].ic_b + BcastStep(s))
    BY DEF AheadIc
  <2>7. pos[s].ic_b <= IcB(s).end
    BY <1>2 DEF TeamTypeOK
  <2> QED
    BY <2>1, <2>2, <2>3, <2>5, <2>6, <2>7, SMTT(30) DEF MoreIc
<1>4. OcB(s).start \in Int
  BY OcRange, SMTT(30)
<1>5. /\ p \in [mb_sp_b : Int, ic_b : Int, oc_b : Int, iwork : Nat]
      /\ p.mb_sp_b = AheadMb(s) /\ p.ic_b = AheadIc(s)
  BY <1>3, <1>4
<1> HIDE DEF p
<1>6. pos'[s] = p /\ \A u \in Team : u # s => pos'[u] = pos[u]
  BY <1>1, <1>2, PosOthers
<1>7. pc'[s] = "tile" /\ \A u \in Team : u # s => pc'[u] = pc[u]
  BY <1>1, <1>2 DEF TeamTypeOK
<1>8. TeamTypeOK'
  <2>1. pos' \in [Team -> [mb_sp_b : Int, ic_b : Int, oc_b : Int, iwork : Nat]]
    BY <1>1, <1>2, <1>5 DEF TeamTypeOK
  <2>2. \A u \in Team : IcB(u).start <= pos'[u].ic_b /\ pos'[u].ic_b <= IcB(u).end
    BY <1>2, <1>3, <1>5, <1>6 DEF TeamTypeOK
  <2> QED
    BY <1>1, <1>2, <2>1, <2>2 DEF TeamTypeOK
<1>9. \A u \in Team : u # s => /\ BcastStep(u)' = BcastStep(u) /\ SpBStep(u)' = SpBStep(u)
                               /\ TransShare(u)' = TransShare(u)
  BY <1>6 DEF BcastStep, SpBStep, TransShare
<1>10. \A u \in Team : AheadMb(u)' = AheadMb(u) /\ AheadIc(u)' = AheadIc(u)
  <2>1. AheadMb(s)' = AheadMb(s) /\ AheadIc(s)' = AheadIc(s)
    <3>1. AheadMb(s)' = pos'[s].mb_sp_b /\ AheadIc(s)' = pos'[s].ic_b
      BY <1>7 DEF AheadMb, AheadIc
    <3> QED
      BY <1>5, <1>6, <3>1
  <2>2. ASSUME NEW u \in Team, u # s
        PROVE  AheadMb(u)' = AheadMb(u) /\ AheadIc(u)' = AheadIc(u)
    BY <1>6, <1>7, <1>9, <2>2 DEF AheadMb, AheadIc, MoreIc
  <2> QED
    BY <2>1, <2>2
<1>11. \A t \in Team : Visits(t) \in Nat /\ Visits(t)' = Visits(t)
  BY <1>1, VisitsType DEF Visits, bvars
<1>12. \A t, u \in Team : SameAhead(t, u)' <=> SameAhead(t, u)
  BY <1>10 DEF SameAhead
<1>13. GroupsInStep'
  <2> SUFFICES ASSUME NEW t \in Team, NEW u \in Team, t # u, IthrButOc(t) = IthrButOc(u)
               PROVE  InStep(t, u)'
    BY DEF GroupsInStep
  <2>1. InStep(t, u) /\ (bpc[t] = "out" => Visits(t) <= Visits(u))
    BY NotAhead DEF LoopInv, GroupsInStep
  <2>2. CASE t # s /\ u # s
    BY <1>6, <1>7, <1>11, <1>12, <2>1, <2>2 DEF InStep, SameTile
  <2>3. CASE t = s
    BY <1>1, <1>7, <1>11, <1>12, <2>1, <2>3, SMTT(30) DEF InStep
  <2>4. CASE u = s
    BY <1>1, <1>7, <1>11, <1>12, <2>1, <2>4 DEF InStep
  <2> QED
    BY <2>2, <2>3, <2>4
<1>14. \A t \in Team : t # s => \A k : Holds(t, k)' <=> Holds(t, k)
  BY <1>1, <1>6 DEF Holds
<1>15. SharesKept'
  <2>1. ASSUME NEW t \in Team, t # s
        PROVE  /\ pc'[t] = "trans" => TransShare(t)'.start <= pos'[t].iwork
               /\ \A k \in TransShare(t)'.start .. TransShare(t)'.end - 1 :
                    (pc'[t] = "trans" /\ k < pos'[t].iwork) \/ pc'[t] = "compute"
                        => Holds(t, k)'
    BY <1>6, <1>7, <1>9, <1>14, <2>1 DEF LoopInv, SharesKept
  <2> QED
    BY <1>7, <2>1 DEF SharesKept
<1>16. WholeOnceMet'
  <2> SUFFICES ASSUME NEW t \in Team, pc'[t] = "compute", Met(t)'
               PROVE  \A k \in 0 .. BcastStep(t)' - 1 : Holds(t, k)'
    BY DEF WholeOnceMet
  <2>1. t # s /\ pc[t] = "compute" /\ Met(t)
    BY <1>7, <1>11 DEF Met
  <2> QED
    BY <1>9, <1>14, <2>1 DEF LoopInv, WholeOnceMet
<1> QED
  BY <1>8, <1>13, <1>15, <1>16 DEF LoopInv

(* The kernel reads the buffer and moves on to other output channels. *)
LEMMA ComputeKeeps ==
    ASSUME BarrierInv, LoopInv, NEW s \in Team, Compute(s)
    PROVE  LoopInv'
<1> DEFINE p == [pos[s] EXCEPT !.oc_b = @ + LoadStep(s)]
<1>1. pos' = [pos EXCEPT ![s] = p] /\ pc' = pc /\ UNCHANGED <<tr_src, bvars>>
  BY DEF Compute
<1>2. TeamTypeOK
  BY DEF LoopInv
<1>3. /\ p \in [mb_sp_b : Int, ic_b : Int, oc_b : Int, iwork : Nat]
      /\ p.mb_sp_b = pos[s].mb_sp_b /\ p.ic_b = pos[s].ic_b /\ p.iwork = pos[s].iwork
  <2>1. pos[s] \in [mb_sp_b : Int, ic_b : Int, oc_b : Int, iwork : Nat]
    BY <1>2 DEF TeamTypeOK
  <2>2. LoadStep(s) \in Int
    BY <2>1, OcRange, TeamAssumption, SMTT(30) DEF LoadStep, Step
  <2> QED
    BY <2>1, <2>2, SMTT(30)
<1> HIDE DEF p
<1>4. pos'[s] = p /\ \A u \in Team : u # s => pos'[u] = pos[u]
  BY <1>1, <1>2, PosOthers
<1>5. \A u \in Team : /\ pos'[u].mb_sp_b = pos[u].mb_sp_b /\ pos'[u].ic_b = pos[u].ic_b
                      /\ pos'[u].iwork = pos[u].iwork
  BY <1>3, <1>4
<1>6. TeamTypeOK'
  <2>1. pos' \in [Team -> [mb_sp_b : Int, ic_b : Int, oc_b : Int, iwork : Nat]]
    BY <1>1, <1>2, <1>3 DEF TeamTypeOK
  <2> QED
    BY <1>1, <1>2, <1>5, <2>1 DEF TeamTypeOK
<1>7. \A u \in Team : Visits(u)' = Visits(u)
  BY <1>1 DEF Visits, bvars
<1> QED
  BY <1>1, <1>5, <1>6, <1>7, QuietStep

(* What a thread does after its loops does not concern the tiles. *)
LEMMA LaterKeeps ==
    ASSUME LoopInv, NEW s \in Team, pos' = pos, tr_src' = tr_src,
           \A u \in Team : Visits(u)' = Visits(u),
           pc[s] \notin {"trans", "compute"},
           NEW to \in {"reduce", "bias", "sum", "done"}, pc' = [pc EXCEPT ![s] = to]
    PROVE  LoopInv'
<1>1. TeamTypeOK
  BY DEF LoopInv
<1>2. TeamTypeOK'
  BY <1>1 DEF TeamTypeOK
<1>3. \A u \in Team : /\ pc'[u] = "trans" <=> pc[u] = "trans"
                      /\ pc'[u] = "compute" <=> pc[u] = "compute"
  BY <1>1 DEF TeamTypeOK
<1> QED
  BY <1>2, <1>3, QuietStep

(* Nor does a step that leaves the places, the buffers and the visits alone. *)
LEMMA StillKeeps ==
    ASSUME LoopInv, UNCHANGED <<pc, pos, tr_src, entered>>
    PROVE  LoopInv'
<1>1. TeamTypeOK'
  BY DEF LoopInv, TeamTypeOK
<1>2. \A u \in Team : Visits(u)' = Visits(u)
  BY DEF Visits
<1> QED
  BY <1>1, <1>2, QuietStep

(* Every step of the team keeps the invariant. *)
LEMMA LoopInvStep ==
    ASSUME BarrierInv, LoopInv, [Next]_vars
    PROVE  LoopInv'
<1>1. CASE UNCHANGED vars
  BY <1>1, StillKeeps DEF vars, bvars, tvars
<1>2. ASSUME NEW s \in Team, ThreadStep(s)
      PROVE  LoopInv'
  <2>1. CASE TileStart(s)
    BY <2>1, TileStartKeeps
  <2>2. CASE Transpose(s)
    BY <2>2, TransposeKeeps
  <2>3. CASE TransposeEnd(s)
    BY <2>3, TransposeEndKeeps
  <2>4. CASE Compute(s)
    BY <2>4, ComputeKeeps
  <2>5. CASE TileEnd(s)
    BY <2>5, TileEndKeeps
  <2>6. CASE LoopsEnd(s)
    <3>1. \A u \in Team : Visits(u)' = Visits(u)
      <4>1. CASE NthrMb > 1
        <5>1. BarrierCall(s, Reduction) /\ Reduction \in Contexts /\ Reduction <= Reduction
          BY <2>6, <4>1, TeamContextFacts, SMTT(30) DEF LoopsEnd
        <5> QED
          BY <5>1, EnterOther
      <4>2. CASE ~(NthrMb > 1)
        BY <2>6, <4>2 DEF LoopsEnd, bvars, Visits
      <4> QED
        BY <4>1, <4>2
    <3>2. /\ pc[s] = "tile" /\ pos' = pos /\ tr_src' = tr_src
          /\ \E to \in {"reduce", "bias", "sum", "done"} : pc' = [pc EXCEPT ![s] = to]
      BY <2>6 DEF LoopsEnd, Goto
    <3> QED
      BY <3>1, <3>2, LaterKeeps
  <2>7. CASE ReduceEnd(s)
    <3>1. /\ pc[s] = "reduce" /\ pos' = pos /\ tr_src' = tr_src /\ UNCHANGED bvars
          /\ \E to \in {"reduce", "bias", "sum", "done"} : pc' = [pc EXCEPT ![s] = to]
      BY <2>7 DEF ReduceEnd, Goto
    <3>2. \A u \in Team : Visits(u)' = Visits(u)
      BY <3>1 DEF Visits, bvars
    <3> QED
      BY <3>1, <3>2, LaterKeeps
  <2>8. CASE BiasImagesEnd(s)
    <3>1. \A u \in Team : Visits(u)' = Visits(u)
      <4>1. CASE ~Redundant(s)
        <5>1. BarrierCall(s, ReducerBctx(GroupId(Balancer, s)))
          BY <2>8, <4>1 DEF BiasImagesEnd
        <5>2. /\ ReducerBctx(GroupId(Balancer, s)) \in Contexts
              /\ Reduction < ReducerBctx(GroupId(Balancer, s))
          BY <4>1, ReducerContext DEF Redundant
        <5>3. ReducerBctx(GroupId(Balancer, s)) \in Int /\ Reduction \in Int
          BY <5>2, TeamContextFacts, TeamBarriers, SMTT(30) DEF TeamContexts
        <5>4. Reduction <= ReducerBctx(GroupId(Balancer, s))
          BY <5>2, <5>3, SMTT(30)
        <5> QED
          BY <5>1, <5>2, <5>4, EnterOther
      <4>2. CASE Redundant(s)
        BY <2>8, <4>2 DEF BiasImagesEnd, bvars, Visits
      <4> QED
        BY <4>1, <4>2
    <3>2. /\ pc[s] = "bias" /\ pos' = pos /\ tr_src' = tr_src
          /\ \E to \in {"reduce", "bias", "sum", "done"} : pc' = [pc EXCEPT ![s] = to]
      BY <2>8 DEF BiasImagesEnd, Goto
    <3> QED
      BY <3>1, <3>2, LaterKeeps
  <2>9. CASE BiasReduce(s)
    <3>1. /\ pc[s] = "sum" /\ pos' = pos /\ tr_src' = tr_src /\ UNCHANGED bvars
          /\ \E to \in {"reduce", "bias", "sum", "done"} : pc' = [pc EXCEPT ![s] = to]
      BY <2>9 DEF BiasReduce, Goto
    <3>2. \A u \in Team : Visits(u)' = Visits(u)
      BY <3>1 DEF Visits, bvars
    <3> QED
      BY <3>1, <3>2, LaterKeeps
  <2>10. CASE Reduce(s) \/ BiasImage(s)
    BY <2>10, StillKeeps DEF Reduce, BiasImage, bvars
  <2>11. CASE BarrierStep(s) /\ UNCHANGED tvars
    <3>1. UNCHANGED entered
      BY <2>11 DEF BarrierStep, BarrierLoad, BarrierAdd, BarrierReset, BarrierFlip,
                   BarrierSpin, BarrierExit, bvars
    <3> QED
      BY <2>11, <3>1, StillKeeps DEF tvars
  <2> QED
    BY <1>2, <2>1, <2>2, <2>3, <2>4, <2>5, <2>6, <2>7, <2>8, <2>9, <2>10, <2>11 DEF ThreadStep
<1> QED
  BY <1>1, <1>2 DEF Next

-----------------------------------------------------------------------------
(* The barriers of the team keep their promise and the tiles stay in step  *)
(* with them (ker of execute_backward_weights).                            *)
THEOREM TeamInvariant == Spec => [](BarrierInv /\ LoopInv)
<1>1. Init => BarrierInv /\ LoopInv
  BY BarrierInvInit, LoopInvInit DEF Init
<1>2. BarrierInv /\ LoopInv /\ [Next]_vars => (BarrierInv /\ LoopInv)'
  BY LoopInvStep, TeamUsesBarriers, BarrierInvStep
<1> QED
  BY <1>1, <1>2, PTL DEF Spec

(* A thread that calls the kernel for a tile finds in the buffer of its    *)
(* group all of that tile and nothing of another, for every team, every    *)
(* number of images and channels and every size of the tiles (the barriers *)
(* around uker_trans).                                                     *)
THEOREM TilesAreWhole == Spec => []SourceWholeWhenRead
<1>1. BarrierInv /\ LoopInv => SourceWholeWhenRead
  <2> SUFFICES ASSUME BarrierInv, LoopInv, NEW t \in Team, pc[t] = "compute", bpc[t] = "out",
                      NEW k \in 0 .. BcastStep(t) - 1
               PROVE  Holds(t, k)
    BY DEF SourceWholeWhenRead, Holds
  <2>1. Met(t)
    BY NotAhead DEF Met
  <2> QED
    BY <2>1 DEF LoopInv, WholeOnceMet
<1> QED
  BY <1>1, TeamInvariant, PTL

(* The team meets at its barriers as simple_barrier demands, so these are  *)
(* barriers: the property of the run, for every team.                      *)
THEOREM TeamBarriersHold == Spec => BarriersHold
<1>1. Init => BarrierInit
  BY DEF Init
<1>2. [Next]_vars => [BarrierNext]_bvars
  BY TeamUsesBarriers
<1> QED
  BY <1>1, <1>2, BarrierRefinement, PTL DEF Spec, BarrierSpec

-----------------------------------------------------------------------------
Loops == {"tile", "trans", "compute"}

(* The range of the threads whose ithr_mb is n. *)
MbRange(n) ==
    IF NthrMb < Mb \div 2
    THEN LET b == Balance211(Mb, NthrMb, n)
         IN [start |-> b.start * SpNb, end |-> b.end * SpNb]
    ELSE Balance211(Mb * SpNb, NthrMb, n)

OwnOc(t) == OcB(t).start .. OcB(t).end - 1
OwnIc(t) == IcB(t).start .. IcB(t).end - 1

(* The place of a block among those of its thread: w of the final sum. *)
Index(t, oc, ic) == (oc - OcB(t).start) * IcWork(t) + (ic - IcB(t).start)

SameChannels(t, r) == IthrOcB(t) = IthrOcB(r) /\ IthrIcB(t) = IthrIcB(r)

(* How far the thread itself has summed a block. *)
Upto(t, oc, ic) ==
    IF ic < pos[t].ic_b \/ (ic < pos[t].ic_b + BcastStep(t) /\ oc < pos[t].oc_b)
    THEN pos[t].mb_sp_b + SpBStep(t) ELSE pos[t].mb_sp_b

(* How many buffers thread r has added to block w of its part. *)
Level(r, w) == IF w < red[r].w THEN red[r].thr_mb ELSE red[r].thr_mb - 1

(* Where the sum in a block ends, when r is to complete it. *)
Extent(t, r, oc, ic) ==
    LET l == Level(r, Index(t, oc, ic))
    IN IF IthrMb(t) = 0 /\ l > 0 THEN MbRange(l).end ELSE Upto(t, oc, ic)

Counts(block, from, to) ==
    \A m \in MbSpBlocks : block[m] = IF from <= m /\ m < to THEN 1 ELSE 0

(* A block that no tile has written holds what an earlier execution left. *)
BlockRight(t, r, oc, ic) ==
    MbSp(t).start < Extent(t, r, oc, ic) =>
        Counts(wei[<<IthrMb(t), oc, ic>>], MbSp(t).start, Extent(t, r, oc, ic))

InShare(r, w) == ReduceShare(r).start <= w /\ w < ReduceShare(r).end

BlocksRight ==
    \A t, r \in Team : SameChannels(t, r) =>
        \A oc \in OwnOc(t), ic \in OwnIc(t) :
            InShare(r, Index(t, oc, ic)) => BlockRight(t, r, oc, ic)

(* Where a thread is in its loops. *)
PlaceInLoops ==
    \A t \in Team :
        /\ MbSp(t).start <= pos[t].mb_sp_b /\ pos[t].mb_sp_b <= MbSp(t).end
        /\ pc[t] \in {"trans", "compute"} => pos[t].mb_sp_b < MbSp(t).end
        /\ pos[t].mb_sp_b = MbSp(t).end => pos[t].ic_b = IcB(t).start
        /\ OcB(t).start <= pos[t].oc_b
        /\ pc[t] # "compute" => pos[t].oc_b = OcB(t).start
        /\ pc[t] \notin Loops => pos[t].mb_sp_b = MbSp(t).end

(* Where a thread is in the final sum, which it begins when the whole team *)
(* has left the loops.                                                     *)
Started(r) == red[r].thr_mb > 1 \/ red[r].w > ReduceShare(r).start
PlaceInSum ==
    \A r \in Team :
        /\ pc[r] \in Loops => red[r] = [thr_mb |-> 1, w |-> 0]
        /\ pc[r] = "reduce" => NthrMb > 1 /\ InShare(r, red[r].w)
        /\ red[r].thr_mb < NthrMb \/ red[r].w <= ReduceShare(r).start
        /\ pc[r] \in {"bias", "sum", "done"} =>
             \/ ReduceShare(r).start = ReduceShare(r).end
             \/ red[r].thr_mb = NthrMb
        /\ Started(r) => \A u \in Team : pc[u] \notin Loops
        /\ entered[Reduction][r] = IF NthrMb > 1 /\ pc[r] \notin Loops THEN 1 ELSE 0

WeightsType ==
    /\ wei \in [(0 .. NthrMb - 1) \X (0 .. NbOc - 1) \X (0 .. NbIc - 1) -> [MbSpBlocks -> Int]]
    /\ red \in [Team -> [thr_mb : 1 .. NthrMb, w : Nat]]

GradientInv == WeightsType /\ PlaceInLoops /\ PlaceInSum /\ BlocksRight

(* The ranges of the reduction dimension follow one another, from the      *)
(* first block to the last, and none is empty.                             *)
LEMMA MbRangeFacts ==
    /\ \A t \in Team : MbSp(t) = MbRange(IthrMb(t))
    /\ \A n \in 0 .. NthrMb - 1 :
         MbRange(n).start \in Nat /\ MbRange(n).end \in Nat /\ MbRange(n).start < MbRange(n).end
    /\ MbRange(0).start = 0 /\ MbRange(NthrMb - 1).end = Mb * SpNb /\ Mb * SpNb \in Nat
    /\ \A n \in 1 .. NthrMb - 1 : MbRange(n - 1).end = MbRange(n).start
<1>1. \A t \in Team : MbSp(t) = MbRange(IthrMb(t))
  BY DEF MbSp, MbRange
<1>2. /\ Mb \in Nat \ {0} /\ SpNb \in Nat \ {0} /\ NthrMb \in Nat \ {0}
      /\ Mb * SpNb \in Nat \ {0} /\ NthrMb <= Mb * SpNb
  BY TeamAssumption, SMTT(30)
<1>3. CASE ~(NthrMb < Mb \div 2)
  <2> DEFINE S(n) == Balance211(Mb * SpNb, NthrMb, n)
  <2>1. \A n : MbRange(n) = S(n)
    BY <1>3 DEF MbRange
  <2>2. \A n \in 0 .. NthrMb - 1 : S(n).start \in Nat /\ S(n).end \in Nat
    BY <1>2, TeamShares
  <2>3. /\ S(0).start = 0 /\ S(NthrMb - 1).end = Mb * SpNb
        /\ \A n \in 0 .. NthrMb - 2 : S(n).end = S(n + 1).start
        /\ \A n \in 0 .. NthrMb - 1 : S(n).start < S(n).end
    BY <1>2, SharesInOrder
  <2> HIDE DEF S
  <2>4. \A n \in 1 .. NthrMb - 1 : n - 1 \in 0 .. NthrMb - 2 /\ (n - 1) + 1 = n
    BY <1>2, SMTT(30)
  <2>5. \A n \in 1 .. NthrMb - 1 : S(n - 1).end = S(n).start
    BY <2>3, <2>4
  <2> QED
    BY <1>1, <1>2, <2>1, <2>2, <2>3, <2>5
<1>4. CASE NthrMb < Mb \div 2
  <2> DEFINE S(n) == Balance211(Mb, NthrMb, n)
  <2>1. \A n : MbRange(n).start = S(n).start * SpNb /\ MbRange(n).end = S(n).end * SpNb
    BY <1>4 DEF MbRange
  <2>2. NthrMb <= Mb
    BY <1>2, <1>4, SMTT(30)
  <2>3. \A n \in 0 .. NthrMb - 1 : S(n).start \in Nat /\ S(n).end \in Nat
    BY <1>2, TeamShares
  <2>4. /\ S(0).start = 0 /\ S(NthrMb - 1).end = Mb
        /\ \A n \in 0 .. NthrMb - 2 : S(n).end = S(n + 1).start
        /\ \A n \in 0 .. NthrMb - 1 : S(n).start < S(n).end
    BY <1>2, <2>2, SharesInOrder
  <2> HIDE DEF S
  <2>5. \A n \in 1 .. NthrMb - 1 : n - 1 \in 0 .. NthrMb - 2 /\ (n - 1) + 1 = n
    BY <1>2, SMTT(30)
  <2>6. \A n \in 1 .. NthrMb - 1 : MbRange(n - 1).end = MbRange(n).start
    BY <2>1, <2>4, <2>5
  <2>7. ASSUME NEW a \in Nat, NEW b \in Nat, a < b
        PROVE  a * SpNb \in Nat /\ b * SpNb \in Nat /\ a * SpNb < b * SpNb
    <3>1. a + 1 \in Nat /\ a + 1 <= b
      BY <2>7, SMTT(30)
    <3>2. (a + 1) * SpNb <= b * SpNb
      BY <1>2, <3>1, TimesMonotone
    <3>3. (a + 1) * SpNb = a * SpNb + SpNb /\ a * SpNb \in Nat /\ b * SpNb \in Nat
      BY <1>2, <2>7, TimesSucc
    <3> QED
      BY <1>2, <3>2, <3>3, SMTT(30)
  <2>8. 0 * SpNb = 0
    BY <1>2, SMTT(30)
  <2> QED
    BY <1>1, <1>2, <2>1, <2>3, <2>4, <2>6, <2>7, <2>8, SMTT(30)
<1> QED
  BY <1>3, <1>4

(* Threads with the same channels divide the same work between them. *)
LEMMA ChannelsAgree ==
    ASSUME NEW t \in Team, NEW r \in Team, SameChannels(t, r)
    PROVE  /\ OcB(t) = OcB(r) /\ IcB(t) = IcB(r)
           /\ OcWork(t) = OcWork(r) /\ IcWork(t) = IcWork(r)
           /\ \A oc, ic : Index(t, oc, ic) = Index(r, oc, ic)
           /\ IthrMb(t) = IthrMb(r) => t = r
<1>1. /\ OcB(t) = OcB(r) /\ IcB(t) = IcB(r)
      /\ OcWork(t) = OcWork(r) /\ IcWork(t) = IcWork(r)
  BY DEF SameChannels, OcB, IcB, OcWork, IcWork
<1>2. \A oc, ic : Index(t, oc, ic) = Index(r, oc, ic)
  BY <1>1 DEF Index
<1>3. IthrMb(t) = IthrMb(r) => IthrButOc(t) = IthrButOc(r)
  BY DEF SameChannels, IthrButOc
<1> QED
  BY <1>1, <1>2, <1>3, Groups DEF SameChannels

(* A block belongs to the threads of one set of channels only. *)
LEMMA BlocksApart ==
    ASSUME NEW t \in Team, NEW u \in Team, NEW oc \in OwnOc(t), NEW ic \in OwnIc(t),
           oc \in OwnOc(u), ic \in OwnIc(u)
    PROVE  SameChannels(t, u)
<1>1. NbOc \in Nat /\ NthrOcB \in Nat \ {0} /\ NbIc \in Nat /\ NthrIcB \in Nat \ {0}
  BY TeamAssumption
<1>2. \A v \in {t, u} : /\ OcB(v).start \in Nat /\ OcB(v).end \in Nat
                        /\ IcB(v).start \in Nat /\ IcB(v).end \in Nat
                        /\ IthrOcB(v) \in 0 .. NthrOcB - 1 /\ IthrIcB(v) \in 0 .. NthrIcB - 1
  BY OcRange, IcRange, TeamNumbers
<1>3. \A i, k \in 0 .. NthrOcB - 1 : i < k =>
         Balance211(NbOc, NthrOcB, i).end <= Balance211(NbOc, NthrOcB, k).start
  BY <1>1, TeamShares
<1>4. IthrOcB(t) = IthrOcB(u)
  <2> SUFFICES ASSUME IthrOcB(t) # IthrOcB(u) PROVE FALSE
    OBVIOUS
  <2>1. IthrOcB(t) < IthrOcB(u) \/ IthrOcB(u) < IthrOcB(t)
    BY <1>1, <1>2, SMTT(30)
  <2>2. OcB(t).end <= OcB(u).start \/ OcB(u).end <= OcB(t).start
    BY <1>2, <1>3, <2>1 DEF OcB
  <2> QED
    BY <1>2, <2>2, SMTT(30) DEF OwnOc
<1>5. IthrIcB(t) = IthrIcB(u)
  <2> SUFFICES ASSUME IthrIcB(t) # IthrIcB(u) PROVE FALSE
    OBVIOUS
  <2>1. IcB(t).end <= IcB(u).start \/ IcB(u).end <= IcB(t).start
    BY IcRange
  <2> QED
    BY <1>2, <2>1, SMTT(30) DEF OwnIc
<1> QED
  BY <1>4, <1>5 DEF SameChannels

(* The work of a thread, and its part of the final sum. *)
LEMMA ReduceShareFacts ==
    ASSUME NEW t \in Team
    PROVE  /\ OcWork(t) \in Nat /\ IcWork(t) \in Nat /\ OcWork(t) * IcWork(t) \in Nat
           /\ ReduceShare(t).start \in Nat /\ ReduceShare(t).end \in Nat
           /\ ReduceShare(t).start <= ReduceShare(t).end
           /\ ReduceShare(t).end <= OcWork(t) * IcWork(t)
<1>1. OcWork(t) \in Nat /\ IcWork(t) \in Nat
  BY OcRange, IcRange, SMTT(30) DEF OcWork, IcWork
<1>2. OcWork(t) * IcWork(t) \in Nat
  BY <1>1, SMTT(30)
<1>3. NthrMb \in Nat \ {0} /\ IthrMb(t) \in 0 .. NthrMb - 1
  BY TeamNumbers, TeamAssumption
<1> QED
  BY <1>1, <1>2, <1>3, TeamShares DEF ReduceShare

(* No block of the final sum belongs to two threads. *)
LEMMA OneReducer ==
    ASSUME NEW r \in Team, NEW s \in Team, SameChannels(r, s), NEW w \in Nat,
           InShare(r, w), InShare(s, w)
    PROVE  r = s
<1> DEFINE n == OcWork(r) * IcWork(r)
<1>1. n = OcWork(s) * IcWork(s) /\ (IthrMb(r) = IthrMb(s) => r = s)
  BY ChannelsAgree
<1>2. n \in Nat /\ NthrMb \in Nat \ {0}
  BY ReduceShareFacts, TeamAssumption
<1>3. IthrMb(r) \in 0 .. NthrMb - 1 /\ IthrMb(s) \in 0 .. NthrMb - 1
  BY TeamNumbers
<1>4. ReduceShare(r) = Balance211(n, NthrMb, IthrMb(r)) /\ ReduceShare(s) = Balance211(n, NthrMb, IthrMb(s))
  BY <1>1 DEF ReduceShare
<1> HIDE DEF n
<1>5. \A i, k \in 0 .. NthrMb - 1 : i < k =>
         Balance211(n, NthrMb, i).end <= Balance211(n, NthrMb, k).start
  BY <1>2, TeamShares
<1>6. \A v \in {r, s} : ReduceShare(v).start \in Nat /\ ReduceShare(v).end \in Nat
  BY ReduceShareFacts
<1>7. ~(IthrMb(r) < IthrMb(s)) /\ ~(IthrMb(s) < IthrMb(r))
  BY <1>3, <1>4, <1>5, <1>6, SMTT(30) DEF InShare
<1> QED
  BY <1>1, <1>2, <1>3, <1>7, SMTT(30)

(* A block has a place among the blocks of its thread. *)
LEMMA IndexFacts ==
    ASSUME NEW t \in Team, NEW oc \in OwnOc(t), NEW ic \in OwnIc(t)
    PROVE  /\ IcWork(t) \in Nat \ {0} /\ oc \in 0 .. NbOc - 1 /\ ic \in 0 .. NbIc - 1
           /\ oc - OcB(t).start \in 0 .. OcWork(t) - 1
           /\ ic - IcB(t).start \in 0 .. IcWork(t) - 1
           /\ Index(t, oc, ic) \in Nat
           /\ Index(t, oc, ic) < OcWork(t) * IcWork(t)
<1>1. /\ OcB(t).start \in Nat /\ OcB(t).end \in Nat /\ OcB(t).end <= NbOc /\ NbOc \in Nat
      /\ IcB(t).start \in Nat /\ IcB(t).end \in Nat /\ IcB(t).end <= NbIc /\ NbIc \in Nat
  BY OcRange, IcRange, TeamAssumption
<1>2. /\ IcWork(t) \in Nat \ {0} /\ OcWork(t) \in Nat
      /\ oc - OcB(t).start \in 0 .. OcWork(t) - 1 /\ ic - IcB(t).start \in 0 .. IcWork(t) - 1
      /\ oc \in 0 .. NbOc - 1 /\ ic \in 0 .. NbIc - 1
  BY <1>1, SMTT(30) DEF OwnOc, OwnIc, OcWork, IcWork
<1>3. Index(t, oc, ic) \in 0 .. OcWork(t) * IcWork(t) - 1
  BY <1>2, PlaceBelow DEF Index
<1>4. OcWork(t) * IcWork(t) \in Nat
  BY <1>2, SMTT(30)
<1> QED
  BY <1>2, <1>3, <1>4, SMTT(30)

(* A run of places that stays in one row. *)
LEMMA RowOfPlaces ==
    ASSUME NEW n \in Nat \ {0}, NEW q \in Nat, NEW i \in 0 .. n - 1, NEW size \in Nat,
           i + size <= n, NEW x \in Nat, NEW y \in 0 .. n - 1
    PROVE  (x = q /\ i <= y /\ y < i + size)
               <=> (q * n + i <= x * n + y /\ x * n + y < q * n + i + size)
<1> DEFINE a == q * n
           b == x * n
<1>1. a \in Nat /\ b \in Nat
  BY TimesSucc
<1>2. x < q => b + n <= a
  <2>1. x < q => (x + 1) * n <= q * n
    BY TimesMonotone, SMTT(30)
  <2>2. (x + 1) * n = x * n + n
    BY TimesSucc
  <2> QED
    BY <2>1, <2>2
<1>3. q < x => a + n <= b
  <2>1. q < x => (q + 1) * n <= x * n
    BY TimesMonotone, SMTT(30)
  <2>2. (q + 1) * n = q * n + n
    BY TimesSucc
  <2> QED
    BY <2>1, <2>2
<1>4. x = q => a = b
  OBVIOUS
<1> HIDE DEF a, b
<1>5. (x = q /\ i <= y /\ y < i + size) <=> (a + i <= b + y /\ b + y < a + i + size)
  BY <1>1, <1>2, <1>3, <1>4, SMTT(30)
<1> QED
  BY <1>5 DEF a, b

(* What a call of accumulate covers: its blocks of weights are the places  *)
(* from w on, as far as the row of input channels or the part of the       *)
(* thread goes.                                                            *)
LEMMA ReduceChunk ==
    ASSUME NEW s \in Team, NEW w \in Nat, InShare(s, w)
    PROVE  LET oc_b == OcB(s).start + ((w \div IcWork(s)) % OcWork(s))
               ic_b == IcB(s).start + (w % IcWork(s))
               size == Least(ReduceShare(s).end - w, IcWork(s) - (w % IcWork(s)))
           IN /\ size \in Nat \ {0} /\ w + size <= ReduceShare(s).end
              /\ oc_b \in OwnOc(s) /\ ic_b .. ic_b + size - 1 \subseteq OwnIc(s)
              /\ \A oc \in OwnOc(s), ic \in OwnIc(s) :
                   (oc = oc_b /\ ic \in ic_b .. ic_b + size - 1)
                      <=> (w <= Index(s, oc, ic) /\ Index(s, oc, ic) < w + size)
<1> DEFINE n == IcWork(s)
           k == OcWork(s)
           q == w \div n
           i == w % n
           e == ReduceShare(s).end
           size == Least(e - w, n - i)
           oc_b == OcB(s).start + (q % k)
           ic_b == IcB(s).start + i
<1>1. /\ k \in Nat /\ n \in Nat /\ k * n \in Nat /\ e \in Nat /\ e <= k * n /\ w < e
  BY ReduceShareFacts DEF InShare
<1>2. n # 0 /\ w < k * n
  <2>1. n = 0 => k * n = 0
    BY <1>1, SMTT(30)
  <2> QED
    BY <1>1, <2>1, SMTT(30)
<1>3. w \in 0 .. k * n - 1
  BY <1>1, <1>2, SMTT(30)
<1>4. q \in 0 .. k - 1 /\ i \in 0 .. n - 1 /\ w = q * n + i
  BY <1>1, <1>2, <1>3, QuotientBelow, ModFacts
<1> HIDE DEF q, i, e
<1>5. q % k = q /\ oc_b = OcB(s).start + q
  <2>1. k \in Nat \ {0} /\ q \in Nat /\ q < k
    BY <1>1, <1>4, SMTT(30)
  <2> HIDE DEF k
  <2> QED
    BY <2>1, SMTT(30)
<1>6. size \in Nat \ {0} /\ w + size <= e /\ i + size <= n
  BY <1>1, <1>4, SMTT(30) DEF Least
<1> HIDE DEF size
<1>7. /\ OcB(s).start \in Nat /\ OcB(s).end \in Nat /\ k = OcB(s).end - OcB(s).start
      /\ IcB(s).start \in Nat /\ IcB(s).end \in Nat /\ n = IcB(s).end - IcB(s).start
  BY OcRange, IcRange DEF OcWork, IcWork
<1>8. oc_b \in OwnOc(s) /\ ic_b .. ic_b + size - 1 \subseteq OwnIc(s)
  BY <1>4, <1>5, <1>6, <1>7, SMTT(30) DEF OwnOc, OwnIc
<1>9. ASSUME NEW oc \in OwnOc(s), NEW ic \in OwnIc(s)
      PROVE  (oc = oc_b /\ ic \in ic_b .. ic_b + size - 1)
                <=> (w <= Index(s, oc, ic) /\ Index(s, oc, ic) < w + size)
  <2> DEFINE x == oc - OcB(s).start
             y == ic - IcB(s).start
  <2>1. x \in 0 .. k - 1 /\ y \in 0 .. n - 1
    BY IndexFacts
  <2>2. Index(s, oc, ic) = x * n + y
    BY DEF Index
  <2>3. oc \in Int /\ ic \in Int
    BY <1>7, SMTT(30) DEF OwnOc, OwnIc
  <2>4. (oc = oc_b /\ ic \in ic_b .. ic_b + size - 1) <=> (x = q /\ i <= y /\ y < i + size)
    <3>1. oc = oc_b <=> x = q
      BY <1>4, <1>5, <1>7, <2>3, SMTT(30)
    <3>2. i \in Nat /\ size \in Nat
      BY <1>4, <1>6, SMTT(30)
    <3>3. ic \in ic_b .. ic_b + size - 1 <=> (i <= y /\ y < i + size)
      BY <1>7, <2>3, <3>2, SMTT(30)
    <3> QED
      BY <3>1, <3>3
  <2>5. x \in Nat /\ q \in Nat /\ n \in Nat \ {0}
    BY <1>1, <1>2, <1>4, <2>1, SMTT(30)
  <2> HIDE DEF x, y, n
  <2>6. (x = q /\ i <= y /\ y < i + size)
           <=> (q * n + i <= x * n + y /\ x * n + y < q * n + i + size)
    BY <1>4, <1>6, <2>1, <2>5, RowOfPlaces
  <2> QED
    BY <1>4, <2>2, <2>4, <2>6
<1> QED
  BY <1>6, <1>8, <1>9 DEF q, i, e, size

-----------------------------------------------------------------------------
(* A tile is not empty and stays in the range of the thread; a call of the *)
(* kernel stays in its output channels.                                    *)
LEMMA TileSteps ==
    ASSUME TeamTypeOK, PlaceInLoops, NEW t \in Team
    PROVE  /\ pos[t].mb_sp_b \in Nat /\ pos[t].oc_b \in Nat
           /\ pos[t].mb_sp_b < MbSp(t).end =>
                SpBStep(t) \in Nat \ {0} /\ pos[t].mb_sp_b + SpBStep(t) <= MbSp(t).end
           /\ pos[t].oc_b < OcB(t).end =>
                LoadStep(t) \in Nat /\ pos[t].oc_b + LoadStep(t) <= OcB(t).end
<1>1. /\ SpNb \in Nat \ {0} /\ SpStep \in Nat \ {0} /\ SpStepMax \in Nat /\ SpStep <= SpStepMax
      /\ OcStep \in Nat \ {0} /\ OcStepMax \in Nat /\ OcStep <= OcStepMax
  BY TeamAssumption
<1>2. /\ pos[t].mb_sp_b \in Int /\ MbSp(t).start <= pos[t].mb_sp_b /\ MbSp(t).start \in Nat
      /\ MbSp(t).end \in Nat
      /\ pos[t].oc_b \in Int /\ OcB(t).start <= pos[t].oc_b /\ OcB(t).start \in Nat
      /\ OcB(t).end \in Nat
  BY MbSpType, OcRange DEF TeamTypeOK, PlaceInLoops
<1> DEFINE left_ == SpNb - (pos[t].mb_sp_b % SpNb)
<1>3. left_ \in Nat \ {0}
  BY <1>1, <1>2, SMTT(30)
<1>4. SpBStep(t) = Step(SpStep, Least(left_, MbSp(t).end - pos[t].mb_sp_b), SpStepMax)
  BY DEF SpBStep
<1> HIDE DEF left_
<1> QED
  BY <1>1, <1>2, <1>3, <1>4, SMTT(30) DEF Step, Least, LoadStep

(* The team has not begun, and no block has been written. *)
LEMMA GradientInit == Init => GradientInv
<1> SUFFICES ASSUME Init PROVE GradientInv
  OBVIOUS
<1>1. \A t \in Team : /\ pc[t] = "tile" /\ pos[t].mb_sp_b = MbSp(t).start
                      /\ pos[t].ic_b = IcB(t).start /\ pos[t].oc_b = OcB(t).start
                      /\ red[t] = [thr_mb |-> 1, w |-> 0]
  BY DEF Init
<1>2. WeightsType
  <2>1. NthrMb \in Nat \ {0}
    BY TeamAssumption
  <2>2. red \in [Team -> [thr_mb : 1 .. NthrMb, w : Nat]]
    BY <2>1, SMTT(30) DEF Init
  <2>3. wei \in [(0 .. NthrMb - 1) \X (0 .. NbOc - 1) \X (0 .. NbIc - 1)
                    -> [MbSpBlocks -> Int]]
    BY SMTT(30) DEF Init
  <2> QED
    BY <2>2, <2>3 DEF WeightsType
<1>3. \A t \in Team : /\ MbSp(t).start \in Nat /\ MbSp(t).end \in Nat
                      /\ MbSp(t).start < MbSp(t).end /\ OcB(t).start \in Nat
                      /\ IcB(t).start \in Nat /\ ReduceShare(t).start \in Nat
  BY MbRangeFacts, TeamNumbers, OcRange, IcRange, ReduceShareFacts
<1>4. PlaceInLoops
  BY <1>1, <1>3, SMTT(30) DEF PlaceInLoops, Loops
<1>5. \A t \in Team : entered[Reduction][t] = 0
  BY TeamContextFacts, TeamBarriers DEF Init, BarrierInit
<1>6. \A t \in Team : ~Started(t)
  BY <1>1, <1>3, SMTT(30) DEF Started
<1>7. PlaceInSum
  BY <1>1, <1>3, <1>5, <1>6, SMTT(30) DEF PlaceInSum, Loops
<1>8. BlocksRight
  <2> SUFFICES ASSUME NEW t \in Team, NEW r \in Team, NEW oc \in OwnOc(t), NEW ic \in OwnIc(t)
               PROVE  BlockRight(t, r, oc, ic)
    BY DEF BlocksRight
  <2>1. Index(t, oc, ic) \in Nat
    BY IndexFacts
  <2>2. Level(r, Index(t, oc, ic)) = 0
    BY <1>1, <2>1, SMTT(30) DEF Level
  <2>3. ~(ic < pos[t].ic_b) /\ ~(oc < pos[t].oc_b)
    BY <1>1, <1>3, SMTT(30) DEF OwnOc, OwnIc
  <2>4. Extent(t, r, oc, ic) = MbSp(t).start
    BY <1>1, <2>2, <2>3, SMTT(30) DEF Extent, Upto
  <2> QED
    BY <1>3, <2>4, SMTT(30) DEF BlockRight
<1> QED
  BY <1>2, <1>4, <1>7, <1>8 DEF GradientInv

(* A step that writes no weights and moves no thread over them. *)
LEMMA BlocksFrame ==
    ASSUME BlocksRight, UNCHANGED wei,
           \A t \in Team : \A oc \in OwnOc(t), ic \in OwnIc(t) :
               Upto(t, oc, ic)' = Upto(t, oc, ic),
           \A r \in Team : \A w \in Nat : InShare(r, w) => Level(r, w)' = Level(r, w)
    PROVE  BlocksRight'
<1> SUFFICES ASSUME NEW t \in Team, NEW r \in Team, SameChannels(t, r),
                    NEW oc \in OwnOc(t), NEW ic \in OwnIc(t), InShare(r, Index(t, oc, ic))
             PROVE  BlockRight(t, r, oc, ic)'
  BY DEF BlocksRight
<1>1. BlockRight(t, r, oc, ic)
  BY DEF BlocksRight
<1>2. Index(t, oc, ic) \in Nat
  BY IndexFacts
<1>3. Extent(t, r, oc, ic)' = Extent(t, r, oc, ic)
  BY <1>2 DEF Extent
<1> QED
  BY <1>1, <1>3 DEF BlockRight

(* A step that leaves every position and the final sum alone. *)
LEMMA BlocksStill ==
    ASSUME BlocksRight, UNCHANGED <<wei, red>>,
           \A u \in Team : /\ pos'[u].mb_sp_b = pos[u].mb_sp_b /\ pos'[u].ic_b = pos[u].ic_b
                           /\ pos'[u].oc_b = pos[u].oc_b
    PROVE  BlocksRight'
<1>1. \A u \in Team : BcastStep(u)' = BcastStep(u) /\ SpBStep(u)' = SpBStep(u)
  BY DEF BcastStep, SpBStep
<1>2. \A t \in Team : \A oc \in OwnOc(t), ic \in OwnIc(t) : Upto(t, oc, ic)' = Upto(t, oc, ic)
  BY <1>1 DEF Upto
<1>3. \A r \in Team : \A w \in Nat : InShare(r, w) => Level(r, w)' = Level(r, w)
  BY DEF Level
<1> QED
  BY <1>2, <1>3, BlocksFrame

(* A step that moves no thread out of the loops or within the final sum. *)
LEMMA SumFrame ==
    ASSUME PlaceInSum, red' = red,
           \A u \in Team : /\ \/ pc'[u] = pc[u]
                              \/ pc'[u] \in Loops /\ pc[u] \in Loops
                              \/ pc'[u] \in {"bias", "sum", "done"} /\ pc[u] \in {"bias", "sum", "done"}
                           /\ entered'[Reduction][u] = entered[Reduction][u]
    PROVE  PlaceInSum'
<1>1. \A u \in Team : pc'[u] \in Loops <=> pc[u] \in Loops
  BY DEF Loops
<1>2. \A u \in Team : Started(u)' <=> Started(u)
  BY DEF Started
<1>3. \A u \in Team : /\ pc'[u] = "reduce" <=> pc[u] = "reduce"
                      /\ pc'[u] \in {"bias", "sum", "done"} <=> pc[u] \in {"bias", "sum", "done"}
  BY DEF Loops
<1> QED
  BY <1>1, <1>2, <1>3 DEF PlaceInSum

(* Only the barrier of the whole team counts the visits to it. *)
LEMMA CallElsewhere ==
    ASSUME BarrierInv, NEW s \in Team, NEW c \in Contexts, c # Reduction, BarrierCall(s, c)
    PROVE  \A u \in Team : entered'[Reduction][u] = entered[Reduction][u]
<1>1. entered' = [entered EXCEPT ![c][s] = @ + 1]
  BY DEF BarrierCall
<1>2. entered \in [Contexts -> [Team -> Nat]]
  BY TeamBarriers DEF BarrierInv, BarrierTypeOK
<1> QED
  BY <1>1, <1>2, TeamContextFacts

(* The barriers of a tile are not the barrier of the whole team. *)
LEMMA GroupElsewhere ==
    ASSUME BarrierInv, NEW s \in Team, GroupBarrier(s)
    PROVE  \A u \in Team : entered'[Reduction][u] = entered[Reduction][u]
<1>1. IthrButOc(s) \in Contexts /\ IthrButOc(s) # Reduction
  BY TeamContextFacts, TeamNumbers, SMTT(30)
<1> QED
  BY <1>1, CallElsewhere DEF GroupBarrier, bvars

(* The steps of a tile before the kernel is called. *)
LEMMA InsideTile ==
    ASSUME GradientInv, NEW s \in Team, pc[s] \in Loops, NEW to \in {"trans", "compute"},
           pos[s].mb_sp_b < MbSp(s).end, to = "compute" \/ pc[s] # "compute",
           pc'[s] = to, \A u \in Team : u # s => pc'[u] = pc[u],
           \A u \in Team : /\ pos'[u].mb_sp_b = pos[u].mb_sp_b /\ pos'[u].ic_b = pos[u].ic_b
                           /\ pos'[u].oc_b = pos[u].oc_b
                           /\ entered'[Reduction][u] = entered[Reduction][u],
           UNCHANGED <<wei, red>>
    PROVE  GradientInv'
<1>1. WeightsType /\ PlaceInLoops /\ PlaceInSum /\ BlocksRight
  BY DEF GradientInv
<1>2. WeightsType'
  BY <1>1 DEF WeightsType
<1>3. BlocksRight'
  BY <1>1, BlocksStill
<1>4. PlaceInSum'
  BY <1>1, SumFrame DEF Loops
<1>5. PlaceInLoops'
  <2> SUFFICES ASSUME NEW t \in Team
               PROVE  /\ MbSp(t).start <= pos[t].mb_sp_b /\ pos[t].mb_sp_b <= MbSp(t).end
                      /\ pc'[t] \in {"trans", "compute"} => pos[t].mb_sp_b < MbSp(t).end
                      /\ pos[t].mb_sp_b = MbSp(t).end => pos[t].ic_b = IcB(t).start
                      /\ OcB(t).start <= pos[t].oc_b
                      /\ pc'[t] # "compute" => pos[t].oc_b = OcB(t).start
                      /\ pc'[t] \notin Loops => pos[t].mb_sp_b = MbSp(t).end
    BY DEF PlaceInLoops
  <2>1. CASE t = s
    BY <1>1, <2>1 DEF PlaceInLoops, Loops
  <2>2. CASE t # s
    BY <1>1, <2>2 DEF PlaceInLoops
  <2> QED
    BY <2>1, <2>2
<1> QED
  BY <1>2, <1>3, <1>4, <1>5 DEF GradientInv

(* Steps that leave the loops and the final sum alone. *)
LEMMA OutsideSum ==
    ASSUME GradientInv, UNCHANGED <<wei, red, pos>>,
           \A u \in Team : /\ \/ pc'[u] = pc[u]
                              \/ pc'[u] \in {"bias", "sum", "done"} /\ pc[u] \in {"bias", "sum", "done"}
                           /\ entered'[Reduction][u] = entered[Reduction][u]
    PROVE  GradientInv'
<1>1. WeightsType /\ PlaceInLoops /\ PlaceInSum /\ BlocksRight
  BY DEF GradientInv
<1>2. WeightsType'
  BY <1>1 DEF WeightsType
<1>3. BlocksRight'
  BY <1>1, BlocksStill
<1>4. PlaceInSum'
  BY <1>1, SumFrame
<1>5. PlaceInLoops'
  BY <1>1 DEF PlaceInLoops, Loops
<1> QED
  BY <1>2, <1>3, <1>4, <1>5 DEF GradientInv

(* The loop goes on: what was the end of a tile is the beginning of the    *)
(* next.                                                                   *)
LEMMA TileEndSum ==
    ASSUME TeamTypeOK, GradientInv, NEW s \in Team, TileEnd(s)
    PROVE  GradientInv'
<1> DEFINE m == pos[s].mb_sp_b
           k == SpBStep(s)
           e == pos[s].ic_b + BcastStep(s)
           p == [mb_sp_b |-> IF e < IcB(s).end THEN m ELSE m + k,
                 ic_b |-> IF e < IcB(s).end THEN e ELSE IcB(s).start,
                 oc_b |-> OcB(s).start, iwork |-> 0]
<1>1. WeightsType /\ PlaceInLoops /\ PlaceInSum /\ BlocksRight
  BY DEF GradientInv
<1>2. /\ pc[s] = "compute" /\ pc' = [pc EXCEPT ![s] = "tile"] /\ pos[s].oc_b >= OcB(s).end
      /\ pos' = [pos EXCEPT ![s] = p] /\ UNCHANGED <<wei, red, entered>>
  BY DEF TileEnd, Goto, bvars
<1>3. pos'[s] = p /\ \A u \in Team : u # s => pos'[u] = pos[u]
  BY <1>2, PosOthers
<1>4. pc'[s] = "tile" /\ \A u \in Team : u # s => pc'[u] = pc[u]
  BY <1>2 DEF TeamTypeOK
<1>5. m \in Nat /\ k \in Nat \ {0} /\ m < MbSp(s).end /\ m + k <= MbSp(s).end /\ MbSp(s).start <= m
  BY <1>1, <1>2, TileSteps DEF PlaceInLoops
<1>6. /\ BcastStep(s) \in Nat /\ pos[s].ic_b \in Nat /\ e <= IcB(s).end /\ e \in Nat
      /\ IcB(s).start \in Nat /\ IcB(s).end \in Nat /\ OcB(s).start \in Nat /\ OcB(s).end \in Nat
      /\ MbSp(s).start \in Nat /\ MbSp(s).end \in Nat /\ pos[s].oc_b \in Nat
  <2>1. BcastStep(s) \in Nat /\ pos[s].ic_b \in Nat /\ e <= IcB(s).end
    BY TileFits
  <2>2. /\ IcB(s).start \in Nat /\ IcB(s).end \in Nat
        /\ OcB(s).start \in Nat /\ OcB(s).end \in Nat
    BY IcRange, OcRange
  <2>3. MbSp(s).start \in Nat /\ MbSp(s).end \in Nat /\ pos[s].oc_b \in Nat
    BY <1>1, MbSpType, TileSteps
  <2>4. e \in Nat
    BY <2>1, SMTT(30)
  <2> QED
    BY <2>1, <2>2, <2>3, <2>4
<1>7. p.mb_sp_b = (IF e < IcB(s).end THEN m ELSE m + k) /\ p.oc_b = OcB(s).start
      /\ p.ic_b = (IF e < IcB(s).end THEN e ELSE IcB(s).start)
  OBVIOUS
<1> HIDE DEF p, m, k, e
<1>8. WeightsType'
  BY <1>1, <1>2 DEF WeightsType
<1>9. PlaceInLoops'
  <2> SUFFICES ASSUME NEW t \in Team
               PROVE  /\ MbSp(t).start <= pos'[t].mb_sp_b /\ pos'[t].mb_sp_b <= MbSp(t).end
                      /\ pc'[t] \in {"trans", "compute"} => pos'[t].mb_sp_b < MbSp(t).end
                      /\ pos'[t].mb_sp_b = MbSp(t).end => pos'[t].ic_b = IcB(t).start
                      /\ OcB(t).start <= pos'[t].oc_b
                      /\ pc'[t] # "compute" => pos'[t].oc_b = OcB(t).start
                      /\ pc'[t] \notin Loops => pos'[t].mb_sp_b = MbSp(t).end
    BY DEF PlaceInLoops
  <2>1. CASE t = s
    BY <1>3, <1>4, <1>5, <1>6, <1>7, <2>1, SMTT(30) DEF Loops
  <2>2. CASE t # s
    BY <1>1, <1>3, <1>4, <2>2 DEF PlaceInLoops
  <2> QED
    BY <2>1, <2>2
<1>10. PlaceInSum'
  BY <1>1, <1>2, <1>4, SumFrame DEF Loops
<1>11. ASSUME NEW t \in Team, NEW oc \in OwnOc(t), NEW ic \in OwnIc(t)
       PROVE  Upto(t, oc, ic)' = Upto(t, oc, ic)
  <2>1. CASE t # s
    BY <1>3, <2>1 DEF Upto, BcastStep, SpBStep
  <2>2. CASE t = s
    <3>1. /\ oc \in Nat /\ OcB(s).start <= oc /\ oc < OcB(s).end
          /\ ic \in Nat /\ IcB(s).start <= ic /\ ic < IcB(s).end
      BY <1>6, <2>2, SMTT(30) DEF OwnOc, OwnIc
    <3>2. Upto(s, oc, ic) = IF ic < e THEN m + k ELSE m
      BY <1>2, <1>6, <3>1, SMTT(30) DEF Upto, m, k, e
    <3>3. ~(oc < p.oc_b)
      BY <1>6, <1>7, <3>1, SMTT(30)
    <3>4. Upto(s, oc, ic)' = IF ic < p.ic_b THEN p.mb_sp_b + SpBStep(s)' ELSE p.mb_sp_b
      BY <1>3, <3>3 DEF Upto
    <3>5. CASE e < IcB(s).end
      <4>1. SpBStep(s)' = k
        BY <1>3, <1>7, <3>5 DEF SpBStep, k, m
      <4> QED
        BY <1>7, <2>2, <3>2, <3>4, <3>5, <4>1
    <3>6. CASE ~(e < IcB(s).end)
      <4>1. ic < e /\ ~(ic < p.ic_b) /\ p.mb_sp_b = m + k
        BY <1>6, <1>7, <3>1, <3>6, SMTT(30)
      <4> QED
        BY <2>2, <3>2, <3>4, <4>1
    <3> QED
      BY <3>5, <3>6
  <2> QED
    BY <2>1, <2>2
<1>12. \A r \in Team : \A w \in Nat : InShare(r, w) => Level(r, w)' = Level(r, w)
  BY <1>2 DEF Level
<1>13. BlocksRight'
  BY <1>1, <1>2, <1>11, <1>12, BlocksFrame
<1> QED
  BY <1>8, <1>9, <1>10, <1>13 DEF GradientInv

(* The loops are over: no buffer has been added yet. *)
LEMMA LoopsEndSum ==
    ASSUME BarrierInv, TeamTypeOK, GradientInv, NEW s \in Team, LoopsEnd(s)
    PROVE  GradientInv'
<1> DEFINE a == ReduceShare(s).start
           z == ReduceShare(s).end
           to == IF NthrMb > 1 /\ a # z THEN "reduce" ELSE "bias"
<1>1. WeightsType /\ PlaceInLoops /\ PlaceInSum /\ BlocksRight
  BY DEF GradientInv
<1>2. /\ pc[s] = "tile" /\ pc' = [pc EXCEPT ![s] = to] /\ pos[s].mb_sp_b >= MbSp(s).end
      /\ red' = [red EXCEPT ![s] = [thr_mb |-> 1, w |-> a]] /\ UNCHANGED <<wei, pos>>
  BY DEF LoopsEnd, Goto
<1>3. /\ a \in Nat /\ z \in Nat /\ a <= z /\ NthrMb \in Nat \ {0}
  BY ReduceShareFacts, TeamAssumption
<1> HIDE DEF a, z
<1>4. pc'[s] = to /\ \A u \in Team : u # s => pc'[u] = pc[u]
  BY <1>2 DEF TeamTypeOK
<1>5. red'[s] = [thr_mb |-> 1, w |-> a] /\ \A u \in Team : u # s => red'[u] = red[u]
  BY <1>1, <1>2 DEF WeightsType
<1>6. red[s] = [thr_mb |-> 1, w |-> 0]
  BY <1>1, <1>2 DEF PlaceInSum, Loops
<1>7. WeightsType'
  BY <1>1, <1>2, <1>3, SMTT(30) DEF WeightsType
<1>8. pos[s].mb_sp_b = MbSp(s).end
  BY <1>1, <1>2, MbSpType, SMTT(30) DEF PlaceInLoops, TeamTypeOK
<1>9. PlaceInLoops'
  BY <1>1, <1>2, <1>4, <1>8, SMTT(30) DEF PlaceInLoops, Loops
<1>10. \A t \in Team : \A oc \in OwnOc(t), ic \in OwnIc(t) : Upto(t, oc, ic)' = Upto(t, oc, ic)
  BY <1>2 DEF Upto, BcastStep, SpBStep
<1>11. \A r \in Team : \A w \in Nat : InShare(r, w) => Level(r, w)' = Level(r, w)
  <2> SUFFICES ASSUME NEW r \in Team, NEW w \in Nat, InShare(r, w)
               PROVE  Level(r, w)' = Level(r, w)
    OBVIOUS
  <2>1. CASE r # s
    BY <1>5, <2>1 DEF Level
  <2>2. CASE r = s
    <3>1. ~(w < a) /\ ~(w < 0)
      BY <1>3, <2>2, SMTT(30) DEF InShare, a
    <3> QED
      BY <1>5, <1>6, <2>2, <3>1, SMTT(30) DEF Level
  <2> QED
    BY <2>1, <2>2
<1>12. BlocksRight'
  BY <1>1, <1>2, <1>10, <1>11, BlocksFrame
<1>13. entered \in [Contexts -> [Team -> Nat]] /\ Reduction \in Contexts
  BY TeamBarriers, TeamContextFacts DEF BarrierInv, BarrierTypeOK
<1>14. entered'[Reduction][s] = IF NthrMb > 1 THEN 1 ELSE 0
  <2>1. entered[Reduction][s] = 0
    BY <1>1, <1>2 DEF PlaceInSum, Loops
  <2>2. CASE NthrMb > 1
    <3>1. entered' = [entered EXCEPT ![Reduction][s] = @ + 1]
      BY <2>2 DEF LoopsEnd, BarrierCall
    <3> QED
      BY <1>13, <2>1, <2>2, <3>1, SMTT(30)
  <2>3. CASE ~(NthrMb > 1)
    BY <2>1, <2>3 DEF LoopsEnd, bvars
  <2> QED
    BY <2>2, <2>3
<1>15. \A u \in Team : u # s => entered'[Reduction][u] = entered[Reduction][u]
  BY <1>13 DEF LoopsEnd, BarrierCall, bvars
<1>16. \A u \in Team : u # s => (Started(u)' <=> Started(u))
  BY <1>5 DEF Started
<1>17. ~Started(s)' /\ to \notin Loops
  BY <1>3, <1>5, SMTT(30) DEF Started, a, Loops
<1>18. PlaceInSum'
  <2> SUFFICES ASSUME NEW r \in Team
               PROVE  /\ pc'[r] \in Loops => red'[r] = [thr_mb |-> 1, w |-> 0]
                      /\ pc'[r] = "reduce" => NthrMb > 1 /\ InShare(r, red'[r].w)
                      /\ red'[r].thr_mb < NthrMb \/ red'[r].w <= ReduceShare(r).start
                      /\ pc'[r] \in {"bias", "sum", "done"} =>
                           \/ ReduceShare(r).start = ReduceShare(r).end
                           \/ red'[r].thr_mb = NthrMb
                      /\ Started(r)' => \A u \in Team : pc'[u] \notin Loops
                      /\ entered'[Reduction][r] = IF NthrMb > 1 /\ pc'[r] \notin Loops THEN 1 ELSE 0
    BY DEF PlaceInSum, InShare
  <2>1. CASE r = s
    <3>1. red'[s].thr_mb = 1 /\ red'[s].w = a
      BY <1>5, SMTT(30)
    <3>2. to = "reduce" => NthrMb > 1 /\ InShare(s, a)
      BY <1>3, SMTT(30) DEF InShare, a, z
    <3>3. to \in {"bias", "sum", "done"} => a = z \/ NthrMb = 1
      BY <1>3, SMTT(30)
    <3>4. a <= a
      BY <1>3, SMTT(30)
    <3> HIDE DEF to
    <3> QED
      BY <1>4, <1>14, <1>17, <2>1, <3>1, <3>2, <3>3, <3>4 DEF a, z
  <2>2. CASE r # s
    <3>1. /\ pc[r] \in Loops => red[r] = [thr_mb |-> 1, w |-> 0]
          /\ pc[r] = "reduce" => NthrMb > 1 /\ InShare(r, red[r].w)
          /\ red[r].thr_mb < NthrMb \/ red[r].w <= ReduceShare(r).start
          /\ pc[r] \in {"bias", "sum", "done"} =>
               \/ ReduceShare(r).start = ReduceShare(r).end
               \/ red[r].thr_mb = NthrMb
          /\ Started(r) => \A u \in Team : pc[u] \notin Loops
          /\ entered[Reduction][r] = IF NthrMb > 1 /\ pc[r] \notin Loops THEN 1 ELSE 0
      BY <1>1 DEF PlaceInSum
    <3>2. pc'[r] = pc[r] /\ red'[r] = red[r] /\ entered'[Reduction][r] = entered[Reduction][r]
      BY <1>4, <1>5, <1>15, <2>2
    <3>3. Started(r)' => \A u \in Team : pc'[u] \notin Loops
      BY <1>4, <1>16, <1>17, <2>2, <3>1
    <3> QED
      BY <3>1, <3>2, <3>3
  <2> QED
    BY <2>1, <2>2
<1> QED
  BY <1>7, <1>9, <1>12, <1>18 DEF GradientInv

(* One tile more: what the kernel stores, over a block that holds the sum  *)
(* so far or, at the first tile, anything.                                 *)
LEMMA ProductCounts ==
    ASSUME NEW s \in Team, NEW block \in [MbSpBlocks -> Int],
           NEW m \in Nat, m = pos[s].mb_sp_b, NEW k \in Nat \ {0}, k = SpBStep(s),
           NEW a \in Nat, a = MbSp(s).start, a <= m, a < m => Counts(block, a, m)
    PROVE  Counts(Product(s, block), a, m + k)
<1> SUFFICES ASSUME NEW i \in MbSpBlocks
             PROVE  Product(s, block)[i] = IF a <= i /\ i < m + k THEN 1 ELSE 0
  BY DEF Counts
<1>1. i \in Nat
  BY TeamAssumption, SMTT(30) DEF MbSpBlocks
<1>2. Product(s, block)[i] = (IF m = a THEN 0 ELSE block[i])
                               + (IF m <= i /\ i < m + k THEN 1 ELSE 0)
  <2>1. i \in Tile(s) <=> m <= i /\ i < m + k
    BY <1>1, SMTT(30) DEF Tile
  <2> QED
    BY <2>1 DEF Product
<1>3. CASE m = a
  BY <1>1, <1>2, <1>3, SMTT(30)
<1>4. CASE m # a
  <2>1. block[i] = IF a <= i /\ i < m THEN 1 ELSE 0
    BY <1>4, SMTT(30) DEF Counts
  <2> QED
    BY <1>1, <1>2, <1>4, <2>1, SMTT(30)
<1> QED
  BY <1>3, <1>4

(* As long as a thread is in its loops nothing has been added up. *)
LEMMA NoSumYet ==
    ASSUME WeightsType, PlaceInSum, NEW s \in Team, pc[s] \in Loops,
           NEW r \in Team, NEW w \in Nat, InShare(r, w)
    PROVE  Level(r, w) = 0
<1>1. ~Started(r)
  BY DEF PlaceInSum
<1>2. red[r].thr_mb \in Nat \ {0} /\ red[r].w \in Nat /\ ReduceShare(r).start \in Nat
  BY TeamAssumption, ReduceShareFacts, SMTT(30) DEF WeightsType
<1> QED
  BY <1>1, <1>2, SMTT(30) DEF Started, InShare, Level

(* A call of the kernel. *)
LEMMA ComputeSum ==
    ASSUME TeamTypeOK, GradientInv, NEW s \in Team, Compute(s)
    PROVE  GradientInv'
<1> DEFINE m == pos[s].mb_sp_b
           k == SpBStep(s)
           i0 == pos[s].ic_b
           i1 == pos[s].ic_b + BcastStep(s)
           o0 == pos[s].oc_b
           o1 == pos[s].oc_b + LoadStep(s)
           p == [pos[s] EXCEPT !.oc_b = o1]
           blocks == {IthrMb(s)} \X (o0 .. o0 + LoadStep(s) - 1) \X (i0 .. i0 + BcastStep(s) - 1)
<1>1. WeightsType /\ PlaceInLoops /\ PlaceInSum /\ BlocksRight
  BY DEF GradientInv
<1>2. /\ pc[s] = "compute" /\ o0 < OcB(s).end
      /\ wei' = [b \in DOMAIN wei |-> IF b \in blocks THEN Product(s, wei[b]) ELSE wei[b]]
      /\ pos' = [pos EXCEPT ![s] = p] /\ UNCHANGED <<pc, red, entered>>
  <2>1. pc[s] = "compute" /\ o0 < OcB(s).end /\ UNCHANGED <<pc, red, entered>>
    BY DEF Compute, bvars
  <2>2. wei' = [b \in DOMAIN wei |-> IF b \in blocks THEN Product(s, wei[b]) ELSE wei[b]]
    BY DEF Compute
  <2>3. pos' = [pos EXCEPT ![s] = p]
    BY DEF Compute
  <2> QED
    BY <2>1, <2>2, <2>3
<1>3. /\ m \in Nat /\ o0 \in Nat /\ k \in Nat \ {0} /\ MbSp(s).start <= m /\ MbSp(s).start \in Nat
      /\ LoadStep(s) \in Nat /\ o1 \in Nat /\ o0 <= o1 /\ o1 <= OcB(s).end /\ OcB(s).start <= o0
  BY <1>1, <1>2, TileSteps, MbSpType, SMTT(30) DEF PlaceInLoops
<1>4. /\ i0 \in Nat /\ i1 \in Nat /\ i0 <= i1 /\ i1 <= IcB(s).end /\ IcB(s).start <= i0
      /\ IcB(s).start \in Nat /\ IcB(s).end \in Nat /\ OcB(s).start \in Nat /\ OcB(s).end \in Nat
  <2>1. IcB(s).start <= i0
    BY DEF TeamTypeOK
  <2>2. i0 \in Nat /\ BcastStep(s) \in Nat /\ i1 <= IcB(s).end
    BY TileFits
  <2> QED
    BY <2>1, <2>2, IcRange, OcRange, SMTT(30)
<1>5. pos'[s] = p /\ \A u \in Team : u # s => pos'[u] = pos[u]
  BY <1>2, PosOthers
<1>6. p.mb_sp_b = m /\ p.ic_b = i0 /\ p.oc_b = o1
  <2>1. pos[s] \in [mb_sp_b : Int, ic_b : Int, oc_b : Int, iwork : Nat]
    BY DEF TeamTypeOK
  <2> QED
    BY <2>1
<1>7. BcastStep(s)' = BcastStep(s) /\ SpBStep(s)' = k
  BY <1>5, <1>6 DEF BcastStep, SpBStep
<1> HIDE DEF p, blocks
<1>8. WeightsType'
  <2>1. ASSUME NEW block \in [MbSpBlocks -> Int]
        PROVE  Product(s, block) \in [MbSpBlocks -> Int]
    BY SMTT(30) DEF Product
  <2> QED
    BY <1>1, <1>2, <2>1 DEF WeightsType
<1>9. PlaceInLoops'
  BY <1>1, <1>2, <1>3, <1>4, <1>5, <1>6, SMTT(30) DEF PlaceInLoops
<1>10. PlaceInSum'
  BY <1>1, <1>2, SumFrame
<1>11. BlocksRight'
  <2> SUFFICES ASSUME NEW t \in Team, NEW r \in Team, SameChannels(t, r),
                      NEW oc \in OwnOc(t), NEW ic \in OwnIc(t), InShare(r, Index(t, oc, ic))
               PROVE  BlockRight(t, r, oc, ic)'
    BY DEF BlocksRight
  <2> DEFINE b == <<IthrMb(t), oc, ic>>
  <2>1. BlockRight(t, r, oc, ic) /\ Index(t, oc, ic) \in Nat
    BY <1>1, IndexFacts DEF BlocksRight
  <2>2. Level(r, Index(t, oc, ic)) = 0 /\ Level(r, Index(t, oc, ic))' = 0
    <3>1. Level(r, Index(t, oc, ic)) = 0
      BY <1>1, <1>2, <2>1, NoSumYet DEF Loops
    <3> QED
      BY <1>2, <3>1 DEF Level
  <2>3. /\ Extent(t, r, oc, ic) = Upto(t, oc, ic)
        /\ Extent(t, r, oc, ic)' = Upto(t, oc, ic)'
    BY <2>2, SMTT(30) DEF Extent
  <2>4. b \in DOMAIN wei /\ wei[b] \in [MbSpBlocks -> Int]
    <3>1. IthrMb(t) \in 0 .. NthrMb - 1 /\ oc \in 0 .. NbOc - 1 /\ ic \in 0 .. NbIc - 1
      BY TeamNumbers, IndexFacts
    <3> QED
      BY <1>1, <3>1 DEF WeightsType
  <2>5. wei'[b] = IF b \in blocks THEN Product(s, wei[b]) ELSE wei[b]
    BY <1>2, <2>4
  <2>6. b \in blocks <=> IthrMb(t) = IthrMb(s) /\ oc \in o0 .. o1 - 1 /\ ic \in i0 .. i1 - 1
    <3>1. o0 + LoadStep(s) - 1 = o1 - 1
      BY <1>3, SMTT(30)
    <3>2. BcastStep(s) \in Nat
      BY TileFits
    <3>3. i0 + BcastStep(s) - 1 = i1 - 1
      BY <1>4, <3>2, SMTT(30)
    <3> QED
      BY <3>1, <3>3 DEF blocks
  <2>7. oc \in Int /\ ic \in Int
    BY IndexFacts, SMTT(30)
  <2>8. oc \in o0 .. o1 - 1 /\ ic \in i0 .. i1 - 1
            <=> o0 <= oc /\ oc < o1 /\ i0 <= ic /\ ic < i1
    <3>1. o0 \in Nat /\ o1 \in Nat /\ i0 \in Nat /\ i1 \in Nat
      BY <1>3, <1>4
    <3> HIDE DEF m, k, i0, i1, o0, o1
    <3> QED
      BY <2>7, <3>1, SMTT(30)
  <2>9. /\ o0 <= oc => ~(oc < o0)
        /\ i0 <= ic => ~(ic < i0)
        /\ ~(o0 <= oc /\ oc < o1 /\ i0 <= ic /\ ic < i1) =>
             (ic < i0 \/ (ic < i1 /\ oc < o1) <=> ic < i0 \/ (ic < i1 /\ oc < o0))
    <3>1. o0 \in Nat /\ o1 \in Nat /\ i0 \in Nat /\ i1 \in Nat /\ o0 <= o1
      BY <1>3, <1>4
    <3> HIDE DEF m, k, i0, i1, o0, o1
    <3> QED
      BY <2>7, <3>1, SMTT(30)
  <2>10. oc \in o0 .. o1 - 1 /\ ic \in i0 .. i1 - 1 =>
           oc \in OcB(s).start .. OcB(s).end - 1 /\ ic \in IcB(s).start .. IcB(s).end - 1
    <3>1. /\ o0 \in Nat /\ o1 \in Nat /\ OcB(s).start <= o0 /\ o1 <= OcB(s).end
          /\ i0 \in Nat /\ i1 \in Nat /\ IcB(s).start <= i0 /\ i1 <= IcB(s).end
          /\ OcB(s).start \in Nat /\ OcB(s).end \in Nat
          /\ IcB(s).start \in Nat /\ IcB(s).end \in Nat
      BY <1>3, <1>4
    <3> HIDE DEF m, k, i0, i1, o0, o1
    <3> QED
      BY <2>7, <3>1, SMTT(30)
  <2>11. CASE t # s
    <3>1. b \notin blocks
      <4> SUFFICES ASSUME b \in blocks PROVE FALSE
        OBVIOUS
      <4>1. oc \in OwnOc(s) /\ ic \in OwnIc(s)
        BY <2>6, <2>10 DEF OwnOc, OwnIc
      <4>2. SameChannels(t, s)
        BY <4>1, BlocksApart
      <4> QED
        BY <2>6, <2>11, <4>2, ChannelsAgree
    <3>2. Upto(t, oc, ic)' = Upto(t, oc, ic)
      BY <1>5, <2>11 DEF Upto, BcastStep, SpBStep
    <3> QED
      BY <2>1, <2>3, <2>5, <3>1, <3>2 DEF BlockRight
  <2>12. CASE t = s /\ b \in blocks
    <3>1. o0 <= oc /\ oc < o1 /\ i0 <= ic /\ ic < i1
      BY <2>6, <2>8, <2>12
    <3>2. Upto(s, oc, ic) = m /\ Upto(s, oc, ic)' = m + k
      <4>1. ~(oc < o0) /\ ~(ic < i0)
        BY <2>9, <3>1
      <4> QED
        BY <1>5, <1>6, <1>7, <3>1, <4>1 DEF Upto
    <3>3. MbSp(s).start < m => Counts(wei[b], MbSp(s).start, m)
      BY <2>1, <2>3, <2>12, <3>2 DEF BlockRight
    <3>4. Counts(Product(s, wei[b]), MbSp(s).start, m + k)
      BY <1>3, <2>4, <3>3, ProductCounts
    <3> QED
      BY <2>3, <2>5, <2>12, <3>2, <3>4 DEF BlockRight
  <2>13. CASE t = s /\ b \notin blocks
    <3>1. ~(o0 <= oc /\ oc < o1 /\ i0 <= ic /\ ic < i1)
      BY <2>6, <2>8, <2>13
    <3>2. ic < i0 \/ (ic < i1 /\ oc < o1) <=> ic < i0 \/ (ic < i1 /\ oc < o0)
      BY <2>9, <3>1
    <3>3. Upto(s, oc, ic)' = Upto(s, oc, ic)
      BY <1>5, <1>6, <1>7, <3>2 DEF Upto
    <3> QED
      BY <2>1, <2>3, <2>5, <2>13, <3>3 DEF BlockRight
  <2> QED
    BY <2>11, <2>12, <2>13
<1> QED
  BY <1>8, <1>9, <1>10, <1>11 DEF GradientInv

(* A thread that is out of its loops has summed all of its range. *)
LEMMA OutOfLoops ==
    ASSUME TeamTypeOK, PlaceInLoops, NEW t \in Team, pc[t] \notin Loops,
           NEW oc \in OwnOc(t), NEW ic \in OwnIc(t)
    PROVE  Upto(t, oc, ic) = MbSp(t).end
<1>1. /\ pos[t].mb_sp_b = MbSp(t).end /\ pos[t].ic_b = IcB(t).start /\ pos[t].oc_b = OcB(t).start
  BY DEF PlaceInLoops, Loops
<1>2. ~(ic < IcB(t).start) /\ ~(oc < OcB(t).start)
  BY IcRange, OcRange, SMTT(30) DEF OwnOc, OwnIc
<1> QED
  BY <1>1, <1>2 DEF Upto

(* A thread adds buffers up only when the whole team is out of its loops:  *)
(* it has passed the barrier of the team, so all have entered it.          *)
LEMMA SumAfterLoops ==
    ASSUME BarrierInv, PlaceInSum, NEW s \in Team, pc[s] = "reduce", bpc[s] = "out"
    PROVE  \A u \in Team : pc[u] \notin Loops
<1> SUFFICES ASSUME NEW u \in Team, pc[u] \in Loops PROVE FALSE
  OBVIOUS
<1>1. entered[Reduction][s] = 1 /\ entered[Reduction][u] = 0
  BY DEF PlaceInSum, Loops
<1>2. entered[Reduction][s] <= entered[Reduction][u]
  BY TeamContextFacts, Gate
<1> QED
  BY <1>1, <1>2, SMTT(30)

(* What a call of accumulate does to the count of buffers: the blocks it   *)
(* covers have one more.                                                   *)
LEMMA ReduceLevels ==
    ASSUME WeightsType, NEW s \in Team, NEW n \in Nat, NEW a \in Nat, NEW z \in Nat, NEW size \in Nat \ {0},
           n = red[s].w, a = ReduceShare(s).start, z = ReduceShare(s).end, n + size <= z, a <= n,
           red' = [red EXCEPT ![s] =
                     IF n + size < z THEN [red[s] EXCEPT !.w = n + size]
                     ELSE [thr_mb |-> red[s].thr_mb + 1, w |-> a]]
    PROVE  /\ \A r \in Team : r # s => red'[r] = red[r]
           /\ \/ n + size < z /\ red'[s].thr_mb = red[s].thr_mb /\ red'[s].w = n + size
              \/ n + size = z /\ red'[s].thr_mb = red[s].thr_mb + 1 /\ red'[s].w = a
           /\ red'[s] \in [thr_mb : Nat, w : Nat]
           /\ \A r \in Team, w \in Nat : r # s => Level(r, w)' = Level(r, w)
           /\ \A w \in Nat : InShare(s, w) =>
                IF n <= w /\ w < n + size
                THEN Level(s, w) = red[s].thr_mb - 1 /\ Level(s, w)' = red[s].thr_mb
                ELSE Level(s, w)' = Level(s, w)
<1>1. \A r \in Team : r # s => red'[r] = red[r]
  BY DEF WeightsType
<1>2. red[s] \in [thr_mb : Nat, w : Nat]
  BY TeamAssumption, SMTT(30) DEF WeightsType
<1>3. red'[s] = IF n + size < z THEN [red[s] EXCEPT !.w = n + size]
                ELSE [thr_mb |-> red[s].thr_mb + 1, w |-> a]
  BY DEF WeightsType
<1>4. [red[s] EXCEPT !.w = n + size] = [thr_mb |-> red[s].thr_mb, w |-> n + size]
  BY <1>2, SMTT(30)
<1>5. \/ n + size < z /\ red'[s] = [thr_mb |-> red[s].thr_mb, w |-> n + size]
      \/ n + size = z /\ red'[s] = [thr_mb |-> red[s].thr_mb + 1, w |-> a]
  BY <1>3, <1>4, SMTT(30)
<1>6. /\ \/ n + size < z /\ red'[s].thr_mb = red[s].thr_mb /\ red'[s].w = n + size
         \/ n + size = z /\ red'[s].thr_mb = red[s].thr_mb + 1 /\ red'[s].w = a
      /\ red'[s] \in [thr_mb : Nat, w : Nat]
  BY <1>2, <1>5, SMTT(30)
<1>7. \A r \in Team, w \in Nat : r # s => Level(r, w)' = Level(r, w)
  BY <1>1, SMTT(30) DEF Level
<1>8. ASSUME NEW w \in Nat, InShare(s, w)
      PROVE  IF n <= w /\ w < n + size
             THEN Level(s, w) = red[s].thr_mb - 1 /\ Level(s, w)' = red[s].thr_mb
             ELSE Level(s, w)' = Level(s, w)
  <2>1. a <= w /\ w < z /\ red[s].thr_mb \in Nat /\ red[s].w = n
    BY <1>2, <1>8 DEF InShare
  <2>2. Level(s, w) = IF w < n THEN red[s].thr_mb ELSE red[s].thr_mb - 1
    BY DEF Level
  <2>3. Level(s, w)' = IF w < red'[s].w THEN red'[s].thr_mb ELSE red'[s].thr_mb - 1
    BY DEF Level
  <2> QED
    BY <1>6, <2>1, <2>2, <2>3, SMTT(30)
<1> QED
  BY <1>1, <1>6, <1>7, <1>8

(* The sums of two ranges that follow one another. *)
LEMMA CountsAdd ==
    ASSUME NEW p, NEW q, NEW a \in Nat, NEW b \in Nat, NEW c \in Nat, a <= b, b <= c,
           Counts(p, a, b), Counts(q, b, c)
    PROVE  Counts([m \in MbSpBlocks |-> p[m] + q[m]], a, c)
<1> SUFFICES ASSUME NEW m \in MbSpBlocks
             PROVE  p[m] + q[m] = IF a <= m /\ m < c THEN 1 ELSE 0
  BY DEF Counts
<1>1. m \in Nat
  BY TeamAssumption, SMTT(30) DEF MbSpBlocks
<1>2. p[m] = (IF a <= m /\ m < b THEN 1 ELSE 0) /\ q[m] = (IF b <= m /\ m < c THEN 1 ELSE 0)
  BY DEF Counts
<1> QED
  BY <1>1, <1>2, SMTT(30)

(* A block that accumulate covers: to the sum of the ranges before thr_mb  *)
(* it adds that of thr_mb.                                                 *)
LEMMA AddedBlock ==
    ASSUME TeamTypeOK, GradientInv, \A u \in Team : pc[u] \notin Loops,
           NEW s \in Team, NEW t \in Team, SameChannels(t, s), IthrMb(t) = 0,
           NEW n \in 1 .. NthrMb - 1, NEW oc \in OwnOc(t), NEW ic \in OwnIc(t),
           InShare(s, Index(t, oc, ic)), Level(s, Index(t, oc, ic)) = n - 1
    PROVE  /\ MbSp(t).start = 0 /\ MbRange(n).end \in Nat
           /\ Counts([m \in MbSpBlocks |-> wei[<<0, oc, ic>>][m] + wei[<<n, oc, ic>>][m]],
                     0, MbRange(n).end)
<1>1. TeamTypeOK /\ PlaceInLoops /\ BlocksRight
  BY DEF GradientInv
<1>2. NthrMb \in Nat \ {0}
  BY TeamAssumption
<1>3. n \in 0 .. NthrMb - 1 /\ n - 1 \in 0 .. NthrMb - 1
  BY <1>2, SMTT(30)
<1>4. MbSp(t).start = 0 /\ MbSp(t).end = MbRange(0).end
  BY MbRangeFacts
<1>5. /\ MbRange(n - 1).end \in Nat /\ MbRange(n).end \in Nat /\ 0 < MbRange(n - 1).end
      /\ MbRange(n - 1).end = MbRange(n).start /\ MbRange(n).start < MbRange(n).end
  <2>1. /\ MbRange(n - 1).start \in Nat /\ MbRange(n - 1).end \in Nat
        /\ MbRange(n - 1).start < MbRange(n - 1).end
    BY <1>3, MbRangeFacts
  <2>2. /\ MbRange(n).end \in Nat /\ MbRange(n).start < MbRange(n).end
        /\ MbRange(n - 1).end = MbRange(n).start
    BY <1>3, MbRangeFacts
  <2> QED
    BY <2>1, <2>2, SMTT(30)
<1>6. Counts(wei[<<0, oc, ic>>], 0, MbRange(n - 1).end)
  <2>1. BlockRight(t, s, oc, ic)
    BY <1>1 DEF BlocksRight
  <2>2. Upto(t, oc, ic) = MbRange(0).end
    BY <1>1, <1>4, OutOfLoops
  <2>3. n - 1 > 0 \/ n - 1 = 0
    BY <1>2, SMTT(30)
  <2>4. Extent(t, s, oc, ic) = MbRange(n - 1).end
    BY <2>2, <2>3 DEF Extent
  <2> QED
    BY <1>4, <1>5, <2>1, <2>4 DEF BlockRight
<1>7. PICK v \in Team : IthrMb(v) = n /\ SameChannels(v, t)
  <2>1. IthrOcB(t) \in 0 .. NthrOcB - 1 /\ IthrIcB(t) \in 0 .. NthrIcB - 1
    BY TeamNumbers
  <2> QED
    BY <1>3, <2>1, TeamHas, SMTT(30) DEF SameChannels
<1>8. Counts(wei[<<n, oc, ic>>], MbRange(n).start, MbRange(n).end)
  <2>1. SameChannels(v, s)
    BY <1>7 DEF SameChannels
  <2>2. oc \in OwnOc(v) /\ ic \in OwnIc(v) /\ Index(v, oc, ic) = Index(t, oc, ic)
    BY <1>7, ChannelsAgree, SMTT(30) DEF OwnOc, OwnIc
  <2>3. BlockRight(v, s, oc, ic)
    BY <1>1, <2>1, <2>2 DEF BlocksRight
  <2>4. MbSp(v) = MbRange(n)
    BY <1>7, MbRangeFacts
  <2>5. Upto(v, oc, ic) = MbRange(n).end
    BY <1>1, <2>2, <2>4, OutOfLoops
  <2>6. Extent(v, s, oc, ic) = MbRange(n).end
    BY <1>2, <1>7, <2>5, SMTT(30) DEF Extent
  <2> QED
    BY <1>5, <1>7, <2>3, <2>4, <2>6 DEF BlockRight
<1> DEFINE x == MbRange(n - 1).end
           y == MbRange(n).end
           f == wei[<<0, oc, ic>>]
           g == wei[<<n, oc, ic>>]
<1>9. Counts(f, 0, x) /\ Counts(g, x, y) /\ x \in Nat /\ y \in Nat /\ 0 <= x /\ x <= y /\ 0 \in Nat
  BY <1>5, <1>6, <1>8, SMTT(30)
<1> HIDE DEF x, y, f, g
<1>10. Counts([m \in MbSpBlocks |-> f[m] + g[m]], 0, y)
  BY <1>9, CountsAdd, ZenonT(30)
<1> QED
  BY <1>4, <1>5, <1>10 DEF f, g, y

(* A call of accumulate. *)
LEMMA ReduceSum ==
    ASSUME BarrierInv, TeamTypeOK, GradientInv, NEW s \in Team, Reduce(s)
    PROVE  GradientInv'
<1> DEFINE n == red[s].w
           k == red[s].thr_mb
           a == ReduceShare(s).start
           z == ReduceShare(s).end
           oc_b == OcB(s).start + ((n \div IcWork(s)) % OcWork(s))
           ic_b == IcB(s).start + (n % IcWork(s))
           size == Least(z - n, IcWork(s) - (n % IcWork(s)))
           blocks == {0} \X {oc_b} \X (ic_b .. ic_b + size - 1)
<1>1. WeightsType /\ PlaceInLoops /\ PlaceInSum /\ BlocksRight
  BY DEF GradientInv
<1>2. /\ pc[s] = "reduce" /\ bpc[s] = "out" /\ k < NthrMb /\ UNCHANGED <<pc, pos, entered>>
      /\ wei' = [b \in DOMAIN wei |->
                   IF b \in blocks
                   THEN [m \in MbSpBlocks |-> wei[b][m] + wei[<<k, b[2], b[3]>>][m]]
                   ELSE wei[b]]
  <2>1. pc[s] = "reduce" /\ bpc[s] = "out" /\ k < NthrMb /\ UNCHANGED <<pc, pos, entered>>
    BY DEF Reduce, bvars
  <2>2. wei' = [b \in DOMAIN wei |->
                   IF b \in blocks
                   THEN [m \in MbSpBlocks |-> wei[b][m] + wei[<<k, b[2], b[3]>>][m]]
                   ELSE wei[b]]
    BY DEF Reduce
  <2> QED
    BY <2>1, <2>2
<1>3. red' = [red EXCEPT ![s] = IF n + size < z THEN [red[s] EXCEPT !.w = n + size]
                                ELSE [thr_mb |-> k + 1, w |-> a]]
  BY DEF Reduce
<1>4. /\ NthrMb > 1 /\ InShare(s, n) /\ NthrMb \in Nat /\ n \in Nat /\ k \in 1 .. NthrMb - 1
      /\ a \in Nat /\ z \in Nat /\ a <= n /\ n < z
  <2>1. NthrMb > 1 /\ InShare(s, n)
    BY <1>1, <1>2 DEF PlaceInSum
  <2>2. NthrMb \in Nat /\ red[s] \in [thr_mb : 1 .. NthrMb, w : Nat]
    BY <1>1, TeamAssumption DEF WeightsType
  <2>3. a \in Nat /\ z \in Nat /\ a <= n /\ n < z
    BY <2>1, ReduceShareFacts DEF InShare
  <2>4. n \in Nat /\ k \in 1 .. NthrMb /\ k < NthrMb
    BY <1>2, <2>2
  <2> HIDE DEF n, k, a, z
  <2>5. k \in 1 .. NthrMb - 1
    BY <2>2, <2>4, SMTT(30)
  <2> QED
    BY <2>1, <2>2, <2>3, <2>4, <2>5
<1>5. /\ size \in Nat \ {0} /\ n + size <= z
      /\ oc_b \in OwnOc(s) /\ ic_b .. ic_b + size - 1 \subseteq OwnIc(s)
      /\ \A oc \in OwnOc(s), ic \in OwnIc(s) :
           (oc = oc_b /\ ic \in ic_b .. ic_b + size - 1)
              <=> (n <= Index(s, oc, ic) /\ Index(s, oc, ic) < n + size)
  BY <1>4, ReduceChunk
<1> DEFINE row == ic_b .. ic_b + size - 1
<1> HIDE DEF n, k, a, z, oc_b, ic_b, size, row
<1>6. /\ \A r \in Team : r # s => red'[r] = red[r]
      /\ \/ n + size < z /\ red'[s].thr_mb = k /\ red'[s].w = n + size
         \/ n + size = z /\ red'[s].thr_mb = k + 1 /\ red'[s].w = a
      /\ red'[s] \in [thr_mb : Nat, w : Nat]
      /\ \A r \in Team, w \in Nat : r # s => Level(r, w)' = Level(r, w)
      /\ \A w \in Nat : InShare(s, w) =>
           IF n <= w /\ w < n + size
           THEN Level(s, w) = k - 1 /\ Level(s, w)' = k
           ELSE Level(s, w)' = Level(s, w)
  BY <1>1, <1>3, <1>4, <1>5, ReduceLevels DEF n, k, a, z
<1>7. \A u \in Team : pc[u] \notin Loops
  BY <1>1, <1>2, SumAfterLoops
<1>8. WeightsType'
  <2>1. red'[s].thr_mb \in 1 .. NthrMb /\ red'[s] \in [thr_mb : Nat, w : Nat]
    BY <1>4, <1>6, SMTT(30)
  <2>2. red' \in [Team -> [thr_mb : 1 .. NthrMb, w : Nat]]
    <3>1. red'[s] \in [thr_mb : 1 .. NthrMb, w : Nat]
      BY <2>1
    <3>2. \E x : red' = [red EXCEPT ![s] = x]
      BY <1>3
    <3>3. red \in [Team -> [thr_mb : 1 .. NthrMb, w : Nat]]
      BY <1>1 DEF WeightsType
    <3> QED
      BY <3>1, <3>2, <3>3
  <2>3. ASSUME NEW b \in DOMAIN wei, b \in blocks
        PROVE  [m \in MbSpBlocks |-> wei[b][m] + wei[<<k, b[2], b[3]>>][m]]
                  \in [MbSpBlocks -> Int]
    <3>1. b[2] \in 0 .. NbOc - 1 /\ b[3] \in 0 .. NbIc - 1 /\ k \in 0 .. NthrMb - 1
      BY <1>1, <1>4, <2>3, SMTT(30) DEF WeightsType
    <3>2. wei[b] \in [MbSpBlocks -> Int] /\ wei[<<k, b[2], b[3]>>] \in [MbSpBlocks -> Int]
      BY <1>1, <2>3, <3>1 DEF WeightsType
    <3> QED
      BY <3>2, SMTT(30)
  <2>4. wei' \in [(0 .. NthrMb - 1) \X (0 .. NbOc - 1) \X (0 .. NbIc - 1) -> [MbSpBlocks -> Int]]
    <3> HIDE DEF blocks
    <3> QED
      BY <1>1, <1>2, <2>3 DEF WeightsType
  <2> QED
    BY <2>2, <2>4 DEF WeightsType
<1>9. PlaceInLoops'
  BY <1>1, <1>2 DEF PlaceInLoops
<1>10. PlaceInSum'
  <2> SUFFICES ASSUME NEW r \in Team
               PROVE  /\ pc[r] \in Loops => red'[r] = [thr_mb |-> 1, w |-> 0]
                      /\ pc[r] = "reduce" => NthrMb > 1 /\ InShare(r, red'[r].w)
                      /\ red'[r].thr_mb < NthrMb \/ red'[r].w <= ReduceShare(r).start
                      /\ pc[r] \in {"bias", "sum", "done"} =>
                           \/ ReduceShare(r).start = ReduceShare(r).end
                           \/ red'[r].thr_mb = NthrMb
                      /\ entered[Reduction][r] = IF NthrMb > 1 /\ pc[r] \notin Loops THEN 1 ELSE 0
    BY <1>2, <1>7 DEF PlaceInSum, InShare
  <2>1. CASE r # s
    BY <1>1, <1>6, <2>1 DEF PlaceInSum
  <2>2. CASE r = s
    <3>1. InShare(s, red'[s].w)
      <4>1. (red'[s].w = n + size /\ n + size < z) \/ red'[s].w = a
        BY <1>6
      <4>2. a \in Nat /\ z \in Nat /\ n \in Nat /\ size \in Nat /\ a <= n /\ n < z
        BY <1>4, <1>5
      <4>3. a <= n + size /\ a <= a /\ a < z
        BY <4>2, SMTT(30)
      <4>4. a <= red'[s].w /\ red'[s].w < z
        BY <4>1, <4>3
      <4> QED
        BY <4>4 DEF InShare, a, z
    <3>2. red'[s].thr_mb < NthrMb \/ red'[s].w <= a
      BY <1>4, <1>6, SMTT(30)
    <3>3. entered[Reduction][s] = IF NthrMb > 1 /\ pc[s] \notin Loops THEN 1 ELSE 0
      BY <1>1 DEF PlaceInSum
    <3> QED
      BY <1>2, <1>4, <1>7, <2>2, <3>1, <3>2, <3>3 DEF a
  <2> QED
    BY <2>1, <2>2
<1>11. BlocksRight'
  <2> SUFFICES ASSUME NEW t \in Team, NEW r \in Team, SameChannels(t, r),
                      NEW oc \in OwnOc(t), NEW ic \in OwnIc(t), InShare(r, Index(t, oc, ic))
               PROVE  BlockRight(t, r, oc, ic)'
    BY DEF BlocksRight
  <2> DEFINE b == <<IthrMb(t), oc, ic>>
             w == Index(t, oc, ic)
  <2>1. BlockRight(t, r, oc, ic) /\ w \in Nat
    BY <1>1, IndexFacts DEF BlocksRight
  <2>2. Upto(t, oc, ic)' = Upto(t, oc, ic)
    BY <1>2 DEF Upto, BcastStep, SpBStep
  <2>3. b \in DOMAIN wei
    <3>1. IthrMb(t) \in 0 .. NthrMb - 1 /\ oc \in 0 .. NbOc - 1 /\ ic \in 0 .. NbIc - 1
      BY TeamNumbers, IndexFacts
    <3> QED
      BY <1>1, <3>1 DEF WeightsType
  <2>4. b \in blocks <=> IthrMb(t) = 0 /\ oc = oc_b /\ ic \in row
    BY DEF row
  <2>5. wei'[b] = IF b \in blocks
                  THEN [m \in MbSpBlocks |-> wei[b][m] + wei[<<k, oc, ic>>][m]]
                  ELSE wei[b]
    <3> HIDE DEF blocks
    <3> QED
      BY <1>2, <2>3
  <2> HIDE DEF blocks
  <2>6. \A o \in OwnOc(s), i \in OwnIc(s) :
           (o = oc_b /\ i \in row) <=> (n <= Index(s, o, i) /\ Index(s, o, i) < n + size)
    BY <1>5 DEF row
  <2>7. CASE b \in blocks
    <3>1. SameChannels(t, s)
      <4>1. oc \in OwnOc(s) /\ ic \in OwnIc(s)
        BY <1>5, <2>4, <2>7 DEF row
      <4> QED
        BY <4>1, BlocksApart
    <3>2. oc \in OwnOc(s) /\ ic \in OwnIc(s) /\ Index(s, oc, ic) = w
      BY <3>1, ChannelsAgree, SMTT(30) DEF OwnOc, OwnIc
    <3>3. n <= w /\ w < n + size
      BY <2>4, <2>6, <2>7, <3>2
    <3>4. InShare(s, w)
      BY <1>4, <1>5, <2>1, <3>3, SMTT(30) DEF InShare, a, z
    <3>5. r = s
      BY <2>1, <3>1, <3>4, OneReducer DEF SameChannels
    <3>6. Level(s, w) = k - 1 /\ Level(s, w)' = k
      BY <1>6, <2>1, <3>3, <3>4
    <3>7. /\ MbSp(t).start = 0
          /\ Counts([m \in MbSpBlocks |-> wei[<<0, oc, ic>>][m] + wei[<<k, oc, ic>>][m]],
                    0, MbRange(k).end)
      BY <1>4, <1>7, <2>4, <2>7, <3>1, <3>4, <3>6, AddedBlock
    <3>8. Extent(t, s, oc, ic)' = MbRange(k).end
      <4>1. k > 0
        BY <1>4, SMTT(30)
      <4> QED
        BY <2>4, <2>7, <3>6, <4>1 DEF Extent
    <3> QED
      BY <2>4, <2>5, <2>7, <3>5, <3>7, <3>8 DEF BlockRight
  <2>8. CASE b \notin blocks
    <3>1. Extent(t, r, oc, ic)' = Extent(t, r, oc, ic)
      <4>1. CASE Level(r, w)' = Level(r, w)
        BY <2>2, <4>1 DEF Extent
      <4>2. CASE Level(r, w)' # Level(r, w)
        <5>1. r = s
          BY <1>6, <2>1, <4>2
        <5>2. n <= w /\ w < n + size
          BY <1>6, <2>1, <4>2, <5>1
        <5>3. oc \in OwnOc(s) /\ ic \in OwnIc(s) /\ Index(s, oc, ic) = w
          BY <5>1, ChannelsAgree, SMTT(30) DEF OwnOc, OwnIc
        <5>4. IthrMb(t) # 0
          BY <2>4, <2>6, <2>8, <5>2, <5>3
        <5> QED
          BY <2>2, <5>4 DEF Extent
      <4> QED
        BY <4>1, <4>2
    <3> QED
      BY <2>1, <2>5, <2>8, <3>1 DEF BlockRight
  <2> QED
    BY <2>7, <2>8
<1> QED
  BY <1>8, <1>9, <1>10, <1>11 DEF GradientInv

(* The thread has added up all of its part. *)
LEMMA ReduceEndSum ==
    ASSUME TeamTypeOK, GradientInv, NEW s \in Team, ReduceEnd(s)
    PROVE  GradientInv'
<1>1. WeightsType /\ PlaceInLoops /\ PlaceInSum /\ BlocksRight
  BY DEF GradientInv
<1>2. /\ pc[s] = "reduce" /\ pc' = [pc EXCEPT ![s] = "bias"] /\ red[s].thr_mb >= NthrMb
      /\ UNCHANGED <<pos, red, wei, entered>>
  BY DEF ReduceEnd, Goto, bvars
<1>3. pc'[s] = "bias" /\ \A u \in Team : u # s => pc'[u] = pc[u]
  BY <1>2 DEF TeamTypeOK
<1>4. WeightsType'
  BY <1>1, <1>2 DEF WeightsType
<1>5. BlocksRight'
  BY <1>1, <1>2, BlocksStill
<1>6. PlaceInLoops'
  BY <1>1, <1>2, <1>3 DEF PlaceInLoops, Loops
<1>7. red[s].thr_mb = NthrMb
  <2>1. NthrMb \in Nat /\ red[s].thr_mb \in 1 .. NthrMb
    BY <1>1, TeamAssumption DEF WeightsType
  <2> QED
    BY <1>2, <2>1, SMTT(30)
<1>8. \A u \in Team : Started(u)' <=> Started(u)
  BY <1>2 DEF Started
<1>9. PlaceInSum'
  BY <1>1, <1>2, <1>3, <1>7, <1>8 DEF PlaceInSum, Loops
<1> QED
  BY <1>4, <1>5, <1>6, <1>9 DEF GradientInv

(* Every step of the team keeps the sums right. *)
LEMMA GradientInvStep ==
    ASSUME BarrierInv, LoopInv, GradientInv, [Next]_vars
    PROVE  GradientInv'
<1>0. TeamTypeOK /\ PlaceInLoops
  BY DEF LoopInv, GradientInv
<1>1. CASE UNCHANGED vars
  BY <1>1, OutsideSum DEF vars, bvars, tvars
<1>2. ASSUME NEW s \in Team, ThreadStep(s)
      PROVE  GradientInv'
  <2>1. CASE TileStart(s)
    <3> DEFINE p == [pos[s] EXCEPT !.iwork = TransShare(s).start]
    <3>1. /\ pc[s] = "tile" /\ pc' = [pc EXCEPT ![s] = "trans"] /\ pos[s].mb_sp_b < MbSp(s).end
          /\ pos' = [pos EXCEPT ![s] = p] /\ GroupBarrier(s) /\ UNCHANGED <<wei, red>>
      BY <2>1 DEF TileStart, Goto
    <3>2. p.mb_sp_b = pos[s].mb_sp_b /\ p.ic_b = pos[s].ic_b /\ p.oc_b = pos[s].oc_b
      BY <1>0 DEF TeamTypeOK
    <3> HIDE DEF p
    <3>3. /\ pos'[s] = p /\ \A u \in Team : u # s => pos'[u] = pos[u]
      BY <1>0, <3>1, PosOthers
    <3>4. /\ pc'[s] = "trans" /\ \A u \in Team : u # s => pc'[u] = pc[u]
      BY <1>0, <3>1 DEF TeamTypeOK
    <3>5. \A u \in Team : /\ pos'[u].mb_sp_b = pos[u].mb_sp_b /\ pos'[u].ic_b = pos[u].ic_b
                          /\ pos'[u].oc_b = pos[u].oc_b
                          /\ entered'[Reduction][u] = entered[Reduction][u]
      BY <3>1, <3>2, <3>3, GroupElsewhere
    <3> QED
      BY <3>1, <3>4, <3>5, InsideTile DEF Loops
  <2>2. CASE Transpose(s)
    <3> DEFINE p == [pos[s] EXCEPT !.iwork = pos[s].iwork + 1]
    <3>1. /\ pc[s] = "trans" /\ pos' = [pos EXCEPT ![s] = p] /\ UNCHANGED <<pc, wei, red, entered>>
      BY <2>2 DEF Transpose, bvars
    <3>2. p.mb_sp_b = pos[s].mb_sp_b /\ p.ic_b = pos[s].ic_b /\ p.oc_b = pos[s].oc_b
      BY <1>0 DEF TeamTypeOK
    <3> HIDE DEF p
    <3>3. /\ pos'[s] = p /\ \A u \in Team : u # s => pos'[u] = pos[u]
      BY <1>0, <3>1, PosOthers
    <3>4. pos[s].mb_sp_b < MbSp(s).end
      BY <1>0, <3>1 DEF PlaceInLoops
    <3>5. \A u \in Team : /\ pos'[u].mb_sp_b = pos[u].mb_sp_b /\ pos'[u].ic_b = pos[u].ic_b
                          /\ pos'[u].oc_b = pos[u].oc_b
                          /\ entered'[Reduction][u] = entered[Reduction][u]
      BY <3>1, <3>2, <3>3
    <3> QED
      BY <3>1, <3>4, <3>5, InsideTile DEF Loops
  <2>3. CASE TransposeEnd(s)
    <3>1. /\ pc[s] = "trans" /\ pc' = [pc EXCEPT ![s] = "compute"] /\ UNCHANGED <<pos, wei, red>>
          /\ GroupBarrier(s)
      BY <2>3 DEF TransposeEnd, Goto
    <3>2. pos[s].mb_sp_b < MbSp(s).end
      BY <1>0, <3>1 DEF PlaceInLoops
    <3>3. /\ pc'[s] = "compute" /\ \A u \in Team : u # s => pc'[u] = pc[u]
      BY <1>0, <3>1 DEF TeamTypeOK
    <3>4. \A u \in Team : entered'[Reduction][u] = entered[Reduction][u]
      BY <3>1, GroupElsewhere
    <3> QED
      BY <3>1, <3>2, <3>3, <3>4, InsideTile DEF Loops
  <2>4. CASE Compute(s)
    BY <1>0, <2>4, ComputeSum
  <2>5. CASE TileEnd(s)
    BY <1>0, <2>5, TileEndSum
  <2>6. CASE LoopsEnd(s)
    BY <1>0, <2>6, LoopsEndSum
  <2>7. CASE Reduce(s)
    BY <1>0, <2>7, ReduceSum
  <2>8. CASE ReduceEnd(s)
    BY <1>0, <2>8, ReduceEndSum
  <2>9. CASE BiasImagesEnd(s)
    <3>1. /\ UNCHANGED <<wei, red, pos>> /\ pc[s] = "bias"
          /\ \E to \in {"done", "sum"} : pc' = [pc EXCEPT ![s] = to]
      BY <2>9 DEF BiasImagesEnd, Goto
    <3>2. \A u \in Team : \/ pc'[u] = pc[u]
                          \/ pc'[u] \in {"bias", "sum", "done"} /\ pc[u] \in {"bias", "sum", "done"}
      BY <1>0, <3>1 DEF TeamTypeOK
    <3>3. \A u \in Team : entered'[Reduction][u] = entered[Reduction][u]
      <4>1. CASE Redundant(s)
        BY <2>9, <4>1 DEF BiasImagesEnd, bvars
      <4>2. CASE ~Redundant(s)
        <5>1. BarrierCall(s, ReducerBctx(GroupId(Balancer, s)))
          BY <2>9, <4>2 DEF BiasImagesEnd
        <5>2. /\ ReducerBctx(GroupId(Balancer, s)) \in Contexts
              /\ Reduction < ReducerBctx(GroupId(Balancer, s))
          BY <4>2, ReducerContext DEF Redundant
        <5>3. ReducerBctx(GroupId(Balancer, s)) # Reduction
          BY <5>2, TeamContextFacts, SMTT(30)
        <5> QED
          BY <5>1, <5>2, <5>3, CallElsewhere
      <4> QED
        BY <4>1, <4>2
    <3> QED
      BY <3>1, <3>2, <3>3, OutsideSum
  <2>10. CASE BiasReduce(s)
    <3>1. /\ UNCHANGED <<wei, red, pos, entered>> /\ pc[s] = "sum" /\ pc' = [pc EXCEPT ![s] = "done"]
      BY <2>10 DEF BiasReduce, Goto, bvars
    <3>2. \A u \in Team : \/ pc'[u] = pc[u]
                          \/ pc'[u] \in {"bias", "sum", "done"} /\ pc[u] \in {"bias", "sum", "done"}
      BY <1>0, <3>1 DEF TeamTypeOK
    <3> QED
      BY <3>1, <3>2, OutsideSum
  <2>11. CASE BiasImage(s)
    BY <2>11, OutsideSum DEF BiasImage, bvars
  <2>12. CASE BarrierStep(s) /\ UNCHANGED tvars
    <3>1. UNCHANGED entered
      BY <2>12 DEF BarrierStep, BarrierLoad, BarrierAdd, BarrierReset, BarrierFlip,
                   BarrierSpin, BarrierExit, bvars
    <3> QED
      BY <2>12, <3>1, OutsideSum DEF tvars
  <2> QED
    BY <1>2, <2>1, <2>2, <2>3, <2>4, <2>5, <2>6, <2>7, <2>8, <2>9, <2>10, <2>11, <2>12
       DEF ThreadStep
<1> QED
  BY <1>1, <1>2 DEF Next

(* When a thread that adds a block up is past the final sum, the block in  *)
(* diff_weights has every part of the reduction dimension.                 *)
LEMMA BlockIsComplete ==
    ASSUME TeamTypeOK, GradientInv, NEW t \in Team, NEW r \in Team, SameChannels(t, r),
           IthrMb(t) = 0, pc[t] = "done", pc[r] = "done",
           NEW oc \in OwnOc(t), NEW ic \in OwnIc(t), InShare(r, Index(t, oc, ic))
    PROVE  Counts(wei[<<0, oc, ic>>], 0, Mb * SpNb)
<1>1. WeightsType /\ PlaceInLoops /\ PlaceInSum /\ BlocksRight
  BY DEF GradientInv
<1>2. NthrMb \in Nat \ {0} /\ Mb * SpNb \in Nat \ {0}
  BY TeamAssumption, SMTT(30)
<1>3. /\ MbSp(t).start = 0 /\ MbSp(t).end = MbRange(0).end
      /\ MbRange(NthrMb - 1).end = Mb * SpNb
  BY MbRangeFacts
<1>4. /\ ReduceShare(r).start \in Nat /\ ReduceShare(r).end \in Nat /\ Index(t, oc, ic) \in Nat
      /\ red[r].w \in Nat
  BY <1>1, ReduceShareFacts, IndexFacts DEF WeightsType
<1>5. red[r].thr_mb = NthrMb
  BY <1>1, <1>4, SMTT(30) DEF PlaceInSum, InShare
<1>6. red[r].w <= ReduceShare(r).start
  BY <1>1, <1>2, <1>5, SMTT(30) DEF PlaceInSum
<1>7. Level(r, Index(t, oc, ic)) = NthrMb - 1
  BY <1>4, <1>5, <1>6, SMTT(30) DEF Level, InShare
<1>8. Upto(t, oc, ic) = MbRange(0).end
  BY <1>1, <1>3, OutOfLoops DEF Loops
<1>9. Extent(t, r, oc, ic) = Mb * SpNb
  <2>1. NthrMb - 1 > 0 \/ NthrMb - 1 = 0
    BY <1>2, SMTT(30)
  <2> QED
    BY <1>3, <1>7, <1>8, <2>1 DEF Extent
<1>10. BlockRight(t, r, oc, ic)
  BY <1>1 DEF BlocksRight
<1>11. 0 < Mb * SpNb
  BY <1>2, SMTT(30)
<1> QED
  BY <1>3, <1>9, <1>10, <1>11 DEF BlockRight

(* Every block of weights belongs to a thread with ithr_mb 0. *)
LEMMA BlockHasOwner ==
    ASSUME NEW oc \in 0 .. NbOc - 1, NEW ic \in 0 .. NbIc - 1
    PROVE  \E t \in Team : IthrMb(t) = 0 /\ oc \in OwnOc(t) /\ ic \in OwnIc(t)
<1>1. /\ NbOc \in Nat /\ NthrOcB \in Nat \ {0} /\ NbIc \in Nat /\ NthrIcB \in Nat \ {0}
      /\ NthrMb \in Nat \ {0}
  BY TeamAssumption
<1>2. PICK o \in 0 .. NthrOcB - 1 : /\ Balance211(NbOc, NthrOcB, o).start <= oc
                                    /\ oc < Balance211(NbOc, NthrOcB, o).end
  BY <1>1, TeamShares
<1>3. PICK i \in 0 .. NthrIcB - 1 : /\ Balance211(NbIc, NthrIcB, i).start <= ic
                                    /\ ic < Balance211(NbIc, NthrIcB, i).end
  BY <1>1, TeamShares
<1>4. 0 \in 0 .. NthrMb - 1
  BY <1>1, SMTT(30)
<1>5. PICK t \in Team : IthrMb(t) = 0 /\ IthrOcB(t) = o /\ IthrIcB(t) = i
  BY <1>4, TeamHas, SMTT(30)
<1>6. OcB(t).start <= oc /\ oc < OcB(t).end /\ IcB(t).start <= ic /\ ic < IcB(t).end
  BY <1>2, <1>3, <1>5 DEF OcB, IcB
<1>7. /\ OcB(t).start \in Nat /\ OcB(t).end \in Nat /\ IcB(t).start \in Nat /\ IcB(t).end \in Nat
  BY OcRange, IcRange
<1>8. oc \in OwnOc(t) /\ ic \in OwnIc(t)
  BY <1>1, <1>6, <1>7, SMTT(30) DEF OwnOc, OwnIc
<1> QED
  BY <1>5, <1>8

(* Every block of weights is in some thread's part of the final sum. *)
LEMMA BlockHasReducer ==
    ASSUME NEW t \in Team, NEW oc \in OwnOc(t), NEW ic \in OwnIc(t)
    PROVE  \E r \in Team : SameChannels(t, r) /\ InShare(r, Index(t, oc, ic))
<1> DEFINE n == OcWork(t) * IcWork(t)
           w == Index(t, oc, ic)
<1>1. n \in Nat /\ w \in Nat /\ w < n /\ NthrMb \in Nat \ {0}
  BY ReduceShareFacts, IndexFacts, TeamAssumption
<1> HIDE DEF n, w
<1>2. w \in 0 .. n - 1
  BY <1>1, SMTT(30)
<1>3. PICK m \in 0 .. NthrMb - 1 : /\ Balance211(n, NthrMb, m).start <= w
                                   /\ w < Balance211(n, NthrMb, m).end
  BY <1>1, <1>2, TeamShares
<1>4. IthrOcB(t) \in 0 .. NthrOcB - 1 /\ IthrIcB(t) \in 0 .. NthrIcB - 1
  BY TeamNumbers
<1>5. PICK r \in Team : IthrMb(r) = m /\ IthrOcB(r) = IthrOcB(t) /\ IthrIcB(r) = IthrIcB(t)
  BY <1>4, TeamHas, SMTT(30)
<1>6. SameChannels(t, r)
  BY <1>5 DEF SameChannels
<1>7. ReduceShare(r) = Balance211(n, NthrMb, m)
  BY <1>5, <1>6, ChannelsAgree DEF ReduceShare, n
<1> QED
  BY <1>3, <1>6, <1>7 DEF InShare, w

-----------------------------------------------------------------------------
(* The barriers, the tiles and the sums are right together. *)
THEOREM GradientInvariant == Spec => [](BarrierInv /\ LoopInv /\ GradientInv)
<1>1. Init => BarrierInv /\ LoopInv /\ GradientInv
  BY BarrierInvInit, LoopInvInit, GradientInit DEF Init
<1>2. BarrierInv /\ LoopInv /\ GradientInv /\ [Next]_vars => (BarrierInv /\ LoopInv /\ GradientInv)'
  BY GradientInvStep, LoopInvStep, TeamUsesBarriers, BarrierInvStep
<1> QED
  BY <1>1, <1>2, PTL DEF Spec

(* When the team has finished, every block of the reduction dimension is   *)
(* in every block of diff_weights exactly once: for every team, every      *)
(* number of images and channels and every size of the tiles, however the  *)
(* threads interleave and whatever the buffers held before (ker of         *)
(* execute_backward_weights).                                              *)
THEOREM GradientIsComplete == Spec => []GradientComplete
<1>1. BarrierInv /\ LoopInv /\ GradientInv => GradientComplete
  <2> SUFFICES ASSUME BarrierInv, LoopInv, GradientInv, Finished,
                      NEW b \in Weights, NEW m \in MbSpBlocks
               PROVE  wei[<<0, b[1], b[2]>>][m] = 1
    BY DEF GradientComplete
  <2>1. b[1] \in 0 .. NbOc - 1 /\ b[2] \in 0 .. NbIc - 1
    BY DEF Weights
  <2>2. TeamTypeOK /\ \A u \in Team : pc[u] = "done"
    BY DEF LoopInv, Finished
  <2>3. PICK t \in Team : IthrMb(t) = 0 /\ b[1] \in OwnOc(t) /\ b[2] \in OwnIc(t)
    BY <2>1, BlockHasOwner
  <2>4. PICK r \in Team : SameChannels(t, r) /\ InShare(r, Index(t, b[1], b[2]))
    BY <2>3, BlockHasReducer
  <2>5. Counts(wei[<<0, b[1], b[2]>>], 0, Mb * SpNb)
    BY <2>2, <2>3, <2>4, BlockIsComplete
  <2>6. 0 <= m /\ m < Mb * SpNb
    BY TeamAssumption, SMTT(30) DEF MbSpBlocks
  <2> QED
    BY <2>5, <2>6 DEF Counts
<1> QED
  BY <1>1, GradientInvariant, PTL
=============================================================================
