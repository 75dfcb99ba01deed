--------------------------- MODULE ParallelProofs ---------------------------
(***************************************************************************)
(* parallel_nd for any number of workers, any shape and any kind of pool.  *)
(***************************************************************************)
EXTENDS Parallel, WorkDivisionProofs, FiniteSetTheorems

(* Leaves are for Zenon; those that need arithmetic, records or sequences  *)
(* cite SMT.                                                               *)
USE ZenonT(30)

(* The threads that run a task or have yet to notify, for places f. *)
ActiveIn(f) == {t \in Threads : f[t] \in {"run", "notify"}}
Active == ActiveIn(pc)
Count == Cardinality(tasks) + Cardinality(Active)

WorkerPCs == {"idle", "run", "notify", "notify_lock", "notify_set", "notify_unlock"}
CallerPCs == {"idle", "next", "alone", "submit", "return", "join", "run",
              "wait", "wait_lock", "wait_check", "sleep"}
Alone == {"idle", "next", "alone", "submit", "return"}
Pooled == {"join", "run"}
Waiting == {"wait_lock", "wait_check", "sleep"}
Late == {"notify_lock", "notify_set", "notify_unlock"}
Locked == {"notify_set", "notify_unlock", "wait_check"}

TypeInv ==
    /\ executing \in BOOLEAN /\ alive \in BOOLEAN /\ notified \in BOOLEAN
    /\ D0 \in Nat /\ D1 \in Nat /\ nthr \in 0 .. MaxThreads
    /\ nthr = AdjustNumThreads(D0 * D1)
    /\ tasks \subseteq 0 .. nthr - 1
    /\ left \in 0 .. MaxThreads
    /\ state \in 0 .. 2 * WaiterMask - 1
    /\ mutex \in Threads \cup {NoThread}
    /\ pc \in [Threads -> WorkerPCs \cup CallerPCs]
    /\ pc[Caller] \in CallerPCs
    /\ \A w \in Workers : pc[w] \in WorkerPCs
    /\ master \in [Threads -> BOOLEAN] /\ active \in [Threads -> BOOLEAN]

(* What the barrier counts and who can be where, by the caller's place. *)
PhaseInv ==
    /\ \A t \in Threads : mutex = t <=> pc[t] \in Locked
    /\ pc[Caller] \in Alone => tasks = {} /\ \A w \in Workers : pc[w] = "idle"
    /\ pc[Caller] \in {"idle", "next", "alone", "submit"} => ~alive
    /\ pc[Caller] = "return" /\ alive /\ kind = "async" => state = WaiterMask
    /\ pc[Caller] \in Pooled =>
          /\ kind # "async" /\ left = Count
          /\ \A w \in Workers : pc[w] \in {"idle", "run"}
    /\ pc[Caller] \in Waiting \cup {"wait"} => kind = "async" /\ alive /\ Count <= MaxThreads
    /\ pc[Caller] = "wait" =>
          /\ ~notified /\ state = Count
          /\ \A w \in Workers : pc[w] \in {"idle", "run", "notify"}
    /\ pc[Caller] \in Waiting =>
          /\ state = WaiterMask + Count
          /\ \A t, u \in Workers : pc[t] \in Late /\ pc[u] \in Late => t = u
          /\ \A t \in Workers : pc[t] \in Late => Count = 0
          /\ notified => Count = 0 /\ \A t \in Workers : pc[t] \notin {"notify_lock", "notify_set"}

(* Who has an active pool, and what a task restores. *)
PoolInv ==
    /\ ~executing => kind = "none"
    /\ \A w \in Workers : (active[w] <=> pc[w] = "run") /\ (pc[w] = "run" => ~master[w])
    /\ pc[Caller] \notin {"next", "alone", "run"} => (active[Caller] <=> kind # "none")
    /\ pc[Caller] = "run" => (master[Caller] <=> kind # "none")

-----------------------------------------------------------------------------
(* The items in the order in which for_nd visits them, and the share of a  *)
(* task.                                                                   *)
Item(j) == <<(j \div D1) % D0, j % D1>>
From(i) == Balance211(D0 * D1, nthr, i).start
To(i) == Balance211(D0 * D1, nthr, i).end
Runs(t) == pc[t] \in {"run", "alone"}

(* Task i has not started. *)
Unstarted(i) ==
    \/ i \in tasks
    \/ pc[Caller] = "submit"
    \/ pc[Caller] = "next" /\ ithr[Caller] <= i
    \/ pc[Caller] = "alone" /\ ithr[Caller] < i

(* A thread that runs a task is at the item that its iterator names. *)
IterInv ==
    /\ ithr \in [Threads -> Nat]
    /\ iter \in [Threads -> [iwork : Nat, end : Nat, d0 : Nat, d1 : Nat]]
    /\ pc[Caller] = "next" => ithr[Caller] <= nthr
    /\ \A t \in Threads : Runs(t) =>
          /\ ithr[t] \in 0 .. nthr - 1 /\ ~Unstarted(ithr[t])
          /\ iter[t].end = To(ithr[t])
          /\ iter[t].iwork \in From(ithr[t]) .. To(ithr[t])
          /\ <<iter[t].d0, iter[t].d1>> = Item(iter[t].iwork)
          /\ \A u \in Threads : Runs(u) /\ ithr[t] = ithr[u] => t = u

(* The items visited are those of the tasks that are over, and the first   *)
(* ones of those that run.                                                 *)
VisitInv ==
    /\ calls \in Nat
    /\ calls > 0 => visits \in [Items(D0, D1) -> Nat]
    /\ calls = 0 => visits = << >> /\ nthr = 0
    /\ \A i \in 0 .. nthr - 1 : \A j \in From(i) .. To(i) - 1 :
          /\ Unstarted(i) => visits[Item(j)] = 0
          /\ \A t \in Threads : Runs(t) /\ ithr[t] = i =>
                visits[Item(j)] = IF j < iter[t].iwork THEN 1 ELSE 0
          /\ ~Unstarted(i) /\ (\A t \in Threads : Runs(t) => ithr[t] # i) => visits[Item(j)] = 1

RunInv == TypeInv /\ PhaseInv /\ PoolInv
ParallelInv == RunInv /\ IterInv /\ VisitInv

-----------------------------------------------------------------------------
(* There are finitely many threads. *)
LEMMA ThreadsFinite ==
  /\ IsFiniteSet(Threads)
  /\ \A f : IsFiniteSet(ActiveIn(f)) /\ Cardinality(ActiveIn(f)) \in Nat
<1>1. IsFiniteSet(Threads)
  BY WorkersAssumption, FS_AddElement DEF Threads
<1>2. ASSUME NEW f
      PROVE  IsFiniteSet(ActiveIn(f)) /\ Cardinality(ActiveIn(f)) \in Nat
  <2>1. ActiveIn(f) \in SUBSET Threads
    BY DEF ActiveIn
  <2>2. IsFiniteSet(ActiveIn(f))
    BY <1>1, <2>1, FS_Subset
  <2>3. QED
    BY <2>2, FS_CardinalityType
<1>3. QED
  BY <1>1, <1>2

(* Nobody is active if everybody is somewhere else. *)
LEMMA NobodyActive ==
  ASSUME NEW f, \A t \in Threads : f[t] \notin {"run", "notify"}
  PROVE  Cardinality(ActiveIn(f)) = 0
<1>1. ActiveIn(f) = {}
  BY DEF ActiveIn
<1>2. QED
  BY <1>1, FS_EmptySet

(* Somebody who runs or notifies is counted. *)
LEMMA SomebodyActive ==
  ASSUME NEW f, NEW t \in Threads, f[t] \in {"run", "notify"}
  PROVE  Cardinality(ActiveIn(f)) >= 1
<1>1. t \in ActiveIn(f)
  BY DEF ActiveIn
<1>2. IsFiniteSet(ActiveIn(f)) /\ Cardinality(ActiveIn(f)) \in Nat
  BY ThreadsFinite
<1>3. Cardinality(ActiveIn(f)) # 0
  BY <1>1, <1>2, FS_EmptySet
<1>4. QED
  BY <1>2, <1>3, SMTT(30)

PCs == WorkerPCs \cup CallerPCs

(* How a move of one thread changes the number of active threads. *)
LEMMA ActiveMove ==
  ASSUME TypeInv, NEW t \in Threads, NEW x \in PCs, pc' = [pc EXCEPT ![t] = x]
  PROVE  /\ pc[t] \in {"run", "notify"} /\ x \in {"run", "notify"} =>
               Cardinality(ActiveIn(pc')) = Cardinality(ActiveIn(pc))
         /\ pc[t] \notin {"run", "notify"} /\ x \notin {"run", "notify"} =>
               Cardinality(ActiveIn(pc')) = Cardinality(ActiveIn(pc))
         /\ pc[t] \notin {"run", "notify"} /\ x \in {"run", "notify"} =>
               Cardinality(ActiveIn(pc')) = Cardinality(ActiveIn(pc)) + 1
         /\ pc[t] \in {"run", "notify"} /\ x \notin {"run", "notify"} =>
               /\ Cardinality(ActiveIn(pc)) >= 1
               /\ Cardinality(ActiveIn(pc')) = Cardinality(ActiveIn(pc)) - 1
<1>1. pc'[t] = x /\ \A u \in Threads \ {t} : pc'[u] = pc[u]
  BY DEF TypeInv
<1> DEFINE A == ActiveIn(pc)
           B == ActiveIn(pc')
<1>2. IsFiniteSet(A) /\ IsFiniteSet(B) /\ Cardinality(A) \in Nat /\ Cardinality(B) \in Nat
  BY ThreadsFinite
<1>3. CASE pc[t] \in {"run", "notify"} /\ x \in {"run", "notify"}
  <2>1. A = B
    BY <1>1, <1>3 DEF ActiveIn
  <2>2. QED
    BY <1>3, <2>1
<1>4. CASE pc[t] \notin {"run", "notify"} /\ x \notin {"run", "notify"}
  <2>1. A = B
    BY <1>1, <1>4 DEF ActiveIn
  <2>2. QED
    BY <1>4, <2>1
<1>5. CASE pc[t] \notin {"run", "notify"} /\ x \in {"run", "notify"}
  <2>1. t \notin A /\ B = A \cup {t}
    BY <1>1, <1>5 DEF ActiveIn
  <2> HIDE DEF A, B
  <2>2. Cardinality(B) = Cardinality(A) + 1
    BY <1>2, <2>1, FS_AddElement
  <2>3. QED
    BY <1>5, <2>2 DEF A, B
<1>6. CASE pc[t] \in {"run", "notify"} /\ x \notin {"run", "notify"}
  <2>1. t \in A /\ B = A \ {t}
    BY <1>1, <1>6 DEF ActiveIn
  <2> HIDE DEF A, B
  <2>2. Cardinality(B) = Cardinality(A) - 1
    BY <1>2, <2>1, FS_RemoveElement
  <2>3. Cardinality(A) >= 1
    BY <1>2, <2>2, SMTT(30)
  <2>4. QED
    BY <1>6, <2>2, <2>3 DEF A, B
<1>7. QED
  BY <1>3, <1>4, <1>5, <1>6

(* The number of threads is at most the amount of work and never more than *)
(* there are.                                                              *)
LEMMA AdjustBounds ==
  ASSUME NEW a \in Nat, NEW b \in Nat
  PROVE  /\ a * b \in Nat /\ AdjustNumThreads(a * b) \in 0 .. MaxThreads
         /\ AdjustNumThreads(a * b) <= a * b
         /\ AdjustNumThreads(a * b) = 0 => a * b = 0
<1>1. a * b \in Nat
  BY SMTT(30)
<1> DEFINE n == a * b
<1> HIDE DEF n
<1>2. n \in Nat => /\ AdjustNumThreads(n) \in 0 .. MaxThreads /\ AdjustNumThreads(n) <= n
                   /\ AdjustNumThreads(n) = 0 => n = 0
  BY ThreadsAssumption, SMTT(30) DEF AdjustNumThreads
<1>3. QED
  BY <1>1, <1>2 DEF n

(* The caller is one of the threads, and everybody else is a worker. *)
LEMMA WhoIsWho ==
  /\ Caller \in Threads /\ Caller \notin Workers /\ Workers \subseteq Threads
  /\ NoThread \notin Threads
  /\ \A t \in Threads : t # Caller => t \in Workers
BY CallerAssumption DEF Threads

(* A thread that is not where only the caller can be is a worker, and the  *)
(* other way round.                                                        *)
LEMMA Moved ==
  ASSUME TypeInv, NEW t \in Threads, NEW x \in PCs, pc' = [pc EXCEPT ![t] = x],
         t = Caller => x \in CallerPCs, t # Caller => x \in WorkerPCs
  PROVE  /\ pc' \in [Threads -> PCs] /\ pc'[t] = x
         /\ \A u \in Threads : u # t => pc'[u] = pc[u]
         /\ pc'[Caller] \in CallerPCs
         /\ \A w \in Workers : pc'[w] \in WorkerPCs
BY WhoIsWho DEF TypeInv, PCs

(* What is counted is finite, and if nothing is counted then no task is    *)
(* left and nobody runs one.                                               *)
LEMMA CountZero ==
  ASSUME TypeInv
  PROVE  /\ IsFiniteSet(tasks) /\ Cardinality(tasks) \in Nat /\ Count \in Nat
         /\ Count = 0 => tasks = {} /\ \A t \in Threads : pc[t] \notin {"run", "notify"}
<1>1. IsFiniteSet(0 .. nthr - 1)
  BY FS_Interval, SMTT(30) DEF TypeInv
<1>2. IsFiniteSet(tasks)
  BY <1>1, FS_Subset DEF TypeInv
<1>3. Cardinality(tasks) \in Nat /\ (Cardinality(tasks) = 0 => tasks = {})
  BY <1>2, FS_CardinalityType, FS_EmptySet
<1>4. Cardinality(ActiveIn(pc)) \in Nat
  BY ThreadsFinite
<1>5. Count \in Nat /\ (Count = 0 => Cardinality(tasks) = 0 /\ Cardinality(ActiveIn(pc)) = 0)
  BY <1>3, <1>4, SMTT(30) DEF Count, Active
<1>6. ASSUME Count = 0, NEW t \in Threads
      PROVE  pc[t] \notin {"run", "notify"}
  BY <1>5, <1>6, SomebodyActive, SMTT(30)
<1>7. QED
  BY <1>2, <1>3, <1>5, <1>6

(* Steps of the caller outside of a parallel section. *)
LEMMA AloneStepKeeps ==
  ASSUME RunInv, NEW x \in {"next", "alone", "submit", "return", "idle"}, pc[Caller] \in Alone,
         pc' = [pc EXCEPT ![Caller] = x],
         x = "return" \/ x = pc[Caller] \/ pc[Caller] # "return",
         UNCHANGED <<tasks, left, state, notified, mutex, alive>>,
         executing' \in BOOLEAN, D0' \in Nat, D1' \in Nat, nthr' = AdjustNumThreads(D0' * D1'),
         kind' = kind \/ pc[Caller] = "idle",
         master' = master, active' \in [Threads -> BOOLEAN],
         \A w \in Workers : active'[w] = active[w],
         ~executing' => kind' = "none",
         x \notin {"next", "alone"} => (active'[Caller] <=> kind' # "none")
  PROVE  RunInv'
<1>1. /\ pc' \in [Threads -> PCs] /\ pc'[Caller] = x
      /\ \A u \in Threads : u # Caller => pc'[u] = pc[u]
      /\ pc'[Caller] \in CallerPCs
      /\ \A w \in Workers : pc'[w] \in WorkerPCs
  BY Moved, WhoIsWho DEF RunInv, PCs, CallerPCs
<1>2. TypeInv'
  <2>1. nthr' \in 0 .. MaxThreads
    BY AdjustBounds
  <2>2. tasks' = {}
    BY DEF RunInv, PhaseInv
  <2>3. QED
    BY <1>1, <2>1, <2>2 DEF RunInv, TypeInv, PCs, AdjustNumThreads
<1>3. PhaseInv'
  BY <1>1, WhoIsWho DEF RunInv, PhaseInv, Alone, Pooled, Waiting, Locked
<1>4. PoolInv'
  BY <1>1, WhoIsWho DEF RunInv, PhaseInv, PoolInv, Alone
<1>5. QED
  BY <1>2, <1>3, <1>4 DEF RunInv

(* b.init and parallel_for: as many notifications are expected as there    *)
(* are tasks.                                                              *)
LEMMA SubmitKeeps ==
  ASSUME RunInv, Submit
  PROVE  RunInv'
<1> DEFINE x == IF kind = "async" THEN "wait" ELSE "join"
<1>1. /\ pc' \in [Threads -> PCs] /\ pc'[Caller] = x
      /\ \A u \in Threads : u # Caller => pc'[u] = pc[u]
      /\ pc'[Caller] \in CallerPCs
      /\ \A w \in Workers : pc'[w] \in WorkerPCs
  BY Moved, WhoIsWho DEF RunInv, PCs, CallerPCs, Submit, Goto
<1>2. pc[Caller] = "submit" /\ \A w \in Workers : pc[w] = "idle"
  BY DEF RunInv, PhaseInv, Submit, Goto, Alone
<1>3. Count' = nthr
  <2>1. Cardinality(ActiveIn(pc')) = 0
    BY <1>1, <1>2, NobodyActive, WhoIsWho
  <2>2. Cardinality(0 .. nthr - 1) = nthr
    BY FS_Interval, SMTT(30) DEF RunInv, TypeInv
  <2>3. QED
    BY <2>1, <2>2, SMTT(30) DEF Count, Active, Submit, RunInv, TypeInv
<1>4. TypeInv'
  <2>1. left' \in 0 .. MaxThreads /\ state' \in 0 .. 2 * WaiterMask - 1
    <3>1. nthr \in 0 .. MaxThreads
      BY DEF RunInv, TypeInv
    <3>2. QED
      BY <3>1, ThreadsAssumption, MaskAssumption, SMTT(30) DEF Submit
  <2>2. QED
    BY <1>1, <2>1 DEF RunInv, TypeInv, PCs, Submit, call, AdjustNumThreads
<1>5. PhaseInv'
  BY <1>1, <1>2, <1>3, WhoIsWho
 , SMTT(30) DEF RunInv, TypeInv, PhaseInv, Alone, Pooled, Waiting, Locked, Submit, call
<1>6. PoolInv'
  BY <1>1, <1>2, WhoIsWho DEF RunInv, PoolInv, Submit, call
<1>7. QED
  BY <1>4, <1>5, <1>6 DEF RunInv

(* parallel_for of a synchronous pool returns when no task is left, that is *)
(* when every worker is back.                                              *)
LEMMA JoinKeeps ==
  ASSUME RunInv, Join
  PROVE  RunInv'
<1>1. /\ pc' \in [Threads -> PCs] /\ pc'[Caller] = "return"
      /\ \A u \in Threads : u # Caller => pc'[u] = pc[u]
      /\ pc'[Caller] \in CallerPCs
      /\ \A w \in Workers : pc'[w] \in WorkerPCs
  BY Moved, WhoIsWho DEF RunInv, PCs, CallerPCs, Join, Goto
<1>2. pc[Caller] = "join" /\ kind # "async" /\ left = Count /\ left = 0
      /\ \A w \in Workers : pc[w] \in {"idle", "run"}
  BY DEF RunInv, PhaseInv, Join, Goto, Pooled
<1>3. tasks = {} /\ \A t \in Threads : pc[t] \notin {"run", "notify"}
  BY <1>2, CountZero DEF RunInv
<1>4. TypeInv'
  BY <1>1 DEF RunInv, TypeInv, PCs, Join, call, work, barrier, AdjustNumThreads
<1>5. PhaseInv'
  BY <1>1, <1>2, <1>3, WhoIsWho
  DEF RunInv, TypeInv, PhaseInv, Alone, Pooled, Waiting, Locked, Join, call, work, barrier
<1>6. PoolInv'
  BY <1>1, <1>2, WhoIsWho DEF RunInv, PoolInv, Join, call, work
<1>7. QED
  BY <1>4, <1>5, <1>6 DEF RunInv

(* The last step of the call: the barrier goes. *)
LEMMA ReturnKeeps ==
  ASSUME RunInv, Return
  PROVE  RunInv'
<1>1. /\ pc' \in [Threads -> PCs] /\ pc'[Caller] = "idle"
      /\ \A u \in Threads : u # Caller => pc'[u] = pc[u]
      /\ pc'[Caller] \in CallerPCs
      /\ \A w \in Workers : pc'[w] \in WorkerPCs
  BY Moved, WhoIsWho DEF RunInv, PCs, CallerPCs, Return, Goto
<1>2. pc[Caller] = "return" /\ tasks = {} /\ \A w \in Workers : pc[w] = "idle"
  BY DEF RunInv, PhaseInv, Return, Goto, Alone
<1>3. TypeInv'
  BY <1>1 DEF RunInv, TypeInv, PCs, Return, call, work, AdjustNumThreads
<1>4. PhaseInv'
  BY <1>1, <1>2, WhoIsWho
  DEF RunInv, TypeInv, PhaseInv, Alone, Pooled, Waiting, Locked, Return, call, work
<1>5. PoolInv'
  BY <1>1, <1>2, WhoIsWho DEF RunInv, PoolInv, Return, call, work
<1>6. QED
  BY <1>3, <1>4, <1>5 DEF RunInv

(* One task less to start, one thread more that runs. *)
LEMMA TaskStartKeeps ==
  ASSUME RunInv, NEW t \in Threads, NEW i, TaskStart(t, i)
  PROVE  RunInv'
<1>1. /\ pc' \in [Threads -> PCs] /\ pc'[t] = "run"
      /\ \A u \in Threads : u # t => pc'[u] = pc[u]
      /\ pc'[Caller] \in CallerPCs
      /\ \A w \in Workers : pc'[w] \in WorkerPCs
  BY Moved, WhoIsWho DEF RunInv, PCs, CallerPCs, WorkerPCs, TaskStart
<1>2. i \in tasks /\ pc[Caller] \notin Alone
  BY DEF RunInv, PhaseInv, TaskStart
<1>3. Count' = Count
  <2>1. Cardinality(ActiveIn(pc')) = Cardinality(ActiveIn(pc)) + 1
    <3>1. /\ TypeInv /\ pc' = [pc EXCEPT ![t] = "run"] /\ "run" \in PCs
          /\ pc[t] \notin {"run", "notify"}
      BY DEF RunInv, TaskStart, PCs, WorkerPCs
    <3>2. QED
      BY <3>1, ActiveMove
  <2>2. IsFiniteSet(tasks) /\ Cardinality(tasks) \in Nat
    BY CountZero DEF RunInv
  <2>3. Cardinality(tasks') = Cardinality(tasks) - 1
    BY <1>2, <2>2, FS_RemoveElement DEF TaskStart
  <2>4. Cardinality(ActiveIn(pc)) \in Nat
    BY ThreadsFinite
  <2>5. QED
    BY <2>1, <2>2, <2>3, <2>4, SMTT(30) DEF Count, Active
<1>4. Count >= 1
  <2>1. Count # 0
    BY <1>2, CountZero DEF RunInv
  <2>2. QED
    BY <2>1, CountZero, SMTT(30) DEF RunInv
<1>5. TypeInv'
  BY <1>1 DEF RunInv, TypeInv, PCs, TaskStart, call, barrier, AdjustNumThreads
<1>6. PhaseInv'
  BY <1>1, <1>2, <1>3, <1>4, WhoIsWho
 , SMTT(30) DEF RunInv, TypeInv, PhaseInv, Alone, Pooled, Waiting, Late, Locked, TaskStart, call, barrier
<1>7. PoolInv'
  BY <1>1, <1>2, WhoIsWho
 , SMTT(30) DEF RunInv, TypeInv, PhaseInv, PoolInv, Alone, Pooled, Waiting, CallerPCs, TaskStart, call
<1>8. QED
  BY <1>5, <1>6, <1>7 DEF RunInv

(* A task that is over has yet to be notified, or is done. *)
LEMMA TaskEndKeeps ==
  ASSUME RunInv, NEW t \in Threads, TaskEnd(t)
  PROVE  RunInv'
<1>1. pc[t] = "run" /\ pc[Caller] \notin Alone
  BY WhoIsWho DEF RunInv, PhaseInv, TaskEnd, Goto, Alone
<1>2. pc[Caller] \in Pooled \/ (pc[Caller] \in Waiting \cup {"wait"} /\ t # Caller)
  BY <1>1 DEF RunInv, TypeInv, CallerPCs, Pooled, Waiting, Alone
<1>3. /\ pc' \in [Threads -> PCs] /\ pc'[t] = AfterTask(t)
      /\ \A u \in Threads : u # t => pc'[u] = pc[u]
      /\ pc'[Caller] \in CallerPCs
      /\ \A w \in Workers : pc'[w] \in WorkerPCs
  <2>1. /\ t = Caller => AfterTask(t) = "join"
        /\ t # Caller => AfterTask(t) \in {"notify", "idle"}
    BY <1>2 DEF RunInv, PhaseInv, AfterTask
  <2>2. /\ t = Caller => AfterTask(t) \in CallerPCs
        /\ t # Caller => AfterTask(t) \in WorkerPCs
        /\ AfterTask(t) \in PCs
    BY <2>1 DEF PCs, CallerPCs, WorkerPCs
  <2>3. pc' = [pc EXCEPT ![t] = AfterTask(t)] /\ TypeInv
    BY DEF TaskEnd, Goto, RunInv
  <2>4. QED
    BY <2>2, <2>3, Moved
<1>4. Cardinality(ActiveIn(pc)) \in Nat /\ Cardinality(tasks) \in Nat
  BY ThreadsFinite, CountZero DEF RunInv
<1>5. tasks' = tasks
  BY DEF TaskEnd
<1>6. CASE kind = "async"
  <2>1. pc'[t] = "notify" /\ left' = left /\ t # Caller
    BY <1>2, <1>3, <1>6 DEF RunInv, PhaseInv, AfterTask, TaskEnd
  <2>2. Count' = Count
    <3>1. Cardinality(ActiveIn(pc')) = Cardinality(ActiveIn(pc))
      <4>1. TypeInv /\ pc' = [pc EXCEPT ![t] = "notify"] /\ "notify" \in PCs
        BY <1>6 DEF RunInv, PCs, WorkerPCs, TaskEnd, Goto, AfterTask
      <4>2. QED
        BY <1>1, <4>1, ActiveMove
    <3>2. QED
      BY <1>5, <3>1 DEF Count, Active
  <2>3. Count >= 1
    <3>1. Count # 0
      BY <1>1, CountZero DEF RunInv
    <3>2. QED
      BY <3>1, CountZero, SMTT(30) DEF RunInv
  <2>4. TypeInv'
    BY <1>3, <2>1 DEF RunInv, TypeInv, PCs, TaskEnd, call, barrier, AdjustNumThreads
  <2>5. PhaseInv'
    BY <1>1, <1>3, <1>5, <1>6, <2>1, <2>2, <2>3, WhoIsWho
   , SMTT(30) DEF RunInv, TypeInv, PhaseInv, Alone, Pooled, Waiting, Late, Locked, TaskEnd, call, barrier
  <2>6. PoolInv'
    BY <1>1, <1>3, <2>1, WhoIsWho DEF RunInv, TypeInv, PoolInv, TaskEnd, call
  <2>7. QED
    BY <2>4, <2>5, <2>6 DEF RunInv
<1>7. CASE kind # "async"
  <2>1. pc'[t] = (IF t = Caller THEN "join" ELSE "idle") /\ left' = left - 1
        /\ pc[Caller] \in Pooled /\ left = Count
    BY <1>2, <1>3, <1>7 DEF RunInv, PhaseInv, AfterTask, TaskEnd
  <2>2. Count' = Count - 1 /\ Count >= 1
    <3>1. /\ Cardinality(ActiveIn(pc')) = Cardinality(ActiveIn(pc)) - 1
          /\ Cardinality(ActiveIn(pc)) >= 1
      <4>1. /\ TypeInv /\ pc' = [pc EXCEPT ![t] = AfterTask(t)]
            /\ AfterTask(t) \in PCs /\ AfterTask(t) \notin {"run", "notify"}
        BY <1>7 DEF RunInv, PCs, CallerPCs, WorkerPCs, TaskEnd, Goto, AfterTask
      <4>2. QED
        BY <1>1, <4>1, ActiveMove
    <3>2. QED
      BY <1>4, <1>5, <3>1, SMTT(30) DEF Count, Active
  <2>3. left' \in 0 .. MaxThreads
    BY <2>1, <2>2, ThreadsAssumption, SMTT(30) DEF RunInv, TypeInv
  <2>4. TypeInv'
    BY <1>3, <2>3 DEF RunInv, TypeInv, PCs, TaskEnd, call, barrier, AdjustNumThreads
  <2>5. PhaseInv'
    BY <1>1, <1>3, <1>5, <1>7, <2>1, <2>2, WhoIsWho
    DEF RunInv, TypeInv, PhaseInv, Alone, Pooled, Waiting, Late, Locked, TaskEnd, call, barrier
  <2>6. PoolInv'
    BY <1>1, <1>3, <2>1, WhoIsWho DEF RunInv, TypeInv, PoolInv, Pooled, TaskEnd, call
  <2>7. QED
    BY <2>4, <2>5, <2>6 DEF RunInv
<1>8. QED
  BY <1>6, <1>7

(* A notification is counted once; the one that brings the count to zero   *)
(* while the caller waits goes on to wake it.                              *)
LEMMA NotifySubKeeps ==
  ASSUME RunInv, NEW t \in Threads, NotifySub(t)
  PROVE  RunInv'
<1>1. pc[t] = "notify" /\ t \in Workers
  BY WhoIsWho DEF RunInv, TypeInv, CallerPCs, NotifySub, Goto
<1>2. pc[Caller] \in Waiting \cup {"wait"}
  BY <1>1 DEF RunInv, TypeInv, PhaseInv, CallerPCs, Alone, Pooled, Waiting
<1> DEFINE s == (state - 1) % (2 * WaiterMask)
           x == IF s = WaiterMask THEN "notify_lock" ELSE "idle"
<1>3. /\ pc' \in [Threads -> PCs] /\ pc'[t] = x
      /\ \A u \in Threads : u # t => pc'[u] = pc[u]
      /\ pc'[Caller] \in CallerPCs
      /\ \A w \in Workers : pc'[w] \in WorkerPCs
  <2>1. x \in WorkerPCs /\ x \in PCs
    BY DEF PCs, WorkerPCs
  <2>2. pc' = [pc EXCEPT ![t] = x] /\ TypeInv
    BY DEF NotifySub, Goto, RunInv
  <2>3. QED
    BY <1>1, <2>1, <2>2, Moved, WhoIsWho
<1>4. Count' = Count - 1 /\ Count >= 1
  <2>1. TypeInv /\ pc' = [pc EXCEPT ![t] = x] /\ x \in PCs /\ x \notin {"run", "notify"}
    BY DEF RunInv, PCs, WorkerPCs, NotifySub, Goto
  <2>2. /\ Cardinality(ActiveIn(pc')) = Cardinality(ActiveIn(pc)) - 1
        /\ Cardinality(ActiveIn(pc)) >= 1
    BY <1>1, <2>1, ActiveMove
  <2>3. Cardinality(ActiveIn(pc)) \in Nat /\ Cardinality(tasks) \in Nat /\ tasks' = tasks
    BY ThreadsFinite, CountZero DEF RunInv, NotifySub, work
  <2>4. QED
    BY <2>2, <2>3, SMTT(30) DEF Count, Active
<1>5. state \in 1 .. 2 * WaiterMask - 1
  BY <1>2, <1>4, CountZero, MaskAssumption, SMTT(30) DEF RunInv, TypeInv, PhaseInv, Waiting
<1>6. s = state - 1
  BY <1>5, MaskAssumption, SMTT(30)
<1>7. state' = state - 1 /\ s \in 0 .. 2 * WaiterMask - 1
  BY <1>5, <1>6, MaskAssumption, SMTT(30) DEF NotifySub
<1> HIDE DEF s
<1>8. TypeInv'
  BY <1>3, <1>6, <1>7 DEF RunInv, TypeInv, PCs, NotifySub, call, work, AdjustNumThreads
<1>9. PhaseInv'
  <2>1. CASE pc[Caller] = "wait"
    <3>1. s # WaiterMask /\ state' = Count'
      BY <1>4, <1>6, <1>7, <2>1, CountZero, ThreadsAssumption, MaskAssumption
     , SMTT(30) DEF RunInv, PhaseInv, Waiting
    <3>2. Count' <= MaxThreads
      BY <1>4, <2>1, CountZero, ThreadsAssumption, SMTT(30) DEF RunInv, PhaseInv
    <3>3. QED
      BY <1>1, <1>3, <2>1, <3>1, <3>2, WhoIsWho
      DEF RunInv, PhaseInv, Alone, Pooled, Waiting, Late, Locked, NotifySub, call, work
  <2>2. CASE pc[Caller] \in Waiting
    <3>1. state' = WaiterMask + Count' /\ (s = WaiterMask <=> Count' = 0)
      BY <1>4, <1>6, <1>7, <2>2, CountZero, ThreadsAssumption, MaskAssumption, SMTT(30) DEF RunInv, PhaseInv
    <3>2. Count # 0 /\ \A u \in Workers : pc[u] \notin Late
      BY <1>4, <2>2, SMTT(30) DEF RunInv, PhaseInv
    <3>3. ~notified /\ Count' <= MaxThreads
      BY <1>4, <2>2, CountZero, ThreadsAssumption, SMTT(30) DEF RunInv, PhaseInv
    <3>4. QED
      BY <1>1, <1>3, <2>2, <3>1, <3>2, <3>3, WhoIsWho
      DEF RunInv, PhaseInv, Alone, Pooled, Waiting, Late, Locked, NotifySub, call, work
  <2>3. QED
    BY <1>2, <2>1, <2>2
<1>10. PoolInv'
  BY <1>1, <1>3, WhoIsWho DEF RunInv, PoolInv, NotifySub, call, work
<1>11. QED
  BY <1>8, <1>9, <1>10 DEF RunInv

(* A step of notify() or wait() that only takes or frees the mutex, or     *)
(* goes to sleep or wakes up, counts nothing.                              *)
LEMMA CountStays ==
  ASSUME TypeInv, NEW t \in Threads, NEW x \in PCs, pc' = [pc EXCEPT ![t] = x], tasks' = tasks,
         pc[t] \notin {"run", "notify"}, x \notin {"run", "notify"}
  PROVE  Count' = Count
BY ActiveMove DEF Count, Active

(* The lock_guard in notify(). *)
LEMMA NotifyLockKeeps ==
  ASSUME RunInv, NEW t \in Threads, NotifyLock(t)
  PROVE  RunInv'
<1>1. pc[t] = "notify_lock" /\ t \in Workers /\ mutex = NoThread /\ mutex' = t
  BY WhoIsWho DEF RunInv, TypeInv, CallerPCs, NotifyLock, Goto, Free
<1>2. /\ pc' \in [Threads -> PCs] /\ pc'[t] = "notify_set"
      /\ \A u \in Threads : u # t => pc'[u] = pc[u]
      /\ pc'[Caller] \in CallerPCs
      /\ \A w \in Workers : pc'[w] \in WorkerPCs
  BY <1>1, Moved, WhoIsWho DEF RunInv, PCs, WorkerPCs, NotifyLock, Goto
<1>3. Count' = Count
  BY <1>1, CountStays DEF RunInv, PCs, WorkerPCs, NotifyLock, Goto, work
<1>4. TypeInv'
  BY <1>1, <1>2 DEF RunInv, TypeInv, PCs, NotifyLock, call, work, AdjustNumThreads
<1>5. PhaseInv'
  BY <1>1, <1>2, <1>3, WhoIsWho
 , SMTT(30) DEF RunInv, TypeInv, PhaseInv, Alone, Pooled, Waiting, Late, Locked, NotifyLock, call, work
<1>6. PoolInv'
  BY <1>1, <1>2, WhoIsWho DEF RunInv, PoolInv, NotifyLock, call, work
<1>7. QED
  BY <1>4, <1>5, <1>6 DEF RunInv

(* notified_ is set under the mutex, so a caller that has looked at it has *)
(* gone to sleep and is woken.                                             *)
LEMMA NotifySetKeeps ==
  ASSUME RunInv, NEW t \in Threads, NotifySet(t)
  PROVE  RunInv'
<1>1. pc[t] = "notify_set" /\ t \in Workers /\ t # Caller /\ mutex = t /\ mutex' = mutex
  BY WhoIsWho DEF RunInv, TypeInv, PhaseInv, CallerPCs, Locked, NotifySet
<1>2. pc[Caller] \in Waiting /\ pc[Caller] # "wait_check"
  BY <1>1, WhoIsWho DEF RunInv, TypeInv, PhaseInv, CallerPCs, Alone, Pooled, Waiting, Locked
<1>3. Count = 0 /\ \A u \in Workers : u # t => pc[u] \notin Late
  BY <1>1, <1>2 DEF RunInv, PhaseInv, Late
<1>4. /\ pc' \in [Threads -> PCs] /\ pc'[t] = "notify_unlock" /\ pc'[Caller] = "wait_lock"
      /\ \A u \in Workers : u # t => pc'[u] = pc[u]
  <2>1. pc' = [pc EXCEPT ![t] = "notify_unlock",
                         ![Caller] = IF pc[Caller] = "sleep" THEN "wait_lock" ELSE pc[Caller]]
    BY <1>1 DEF NotifySet, RunInv, TypeInv
  <2>2. QED
    BY <1>1, <1>2, <2>1, WhoIsWho DEF RunInv, TypeInv, PCs, WorkerPCs, CallerPCs, Waiting
<1>5. Count' = 0
  <2>1. \A u \in Threads : pc[u] \notin {"run", "notify"}
    BY <1>3, CountZero DEF RunInv
  <2>2. \A u \in Threads : pc'[u] \notin {"run", "notify"}
    BY <1>4, <2>1, WhoIsWho
  <2>3. Cardinality(ActiveIn(pc)) = 0 /\ Cardinality(ActiveIn(pc')) = 0
    BY <2>1, <2>2, NobodyActive
  <2>4. QED
    BY <1>3, <2>3 DEF Count, Active, NotifySet, work
<1>6. TypeInv'
  BY <1>1, <1>4, WhoIsWho
  DEF RunInv, TypeInv, PCs, CallerPCs, WorkerPCs, NotifySet, call, work, AdjustNumThreads
<1>7. PhaseInv'
  BY <1>1, <1>2, <1>3, <1>4, <1>5, WhoIsWho
 , SMTT(30) DEF RunInv, TypeInv, PhaseInv, Alone, Pooled, Waiting, Late, Locked, NotifySet, call, work
<1>8. PoolInv'
  BY <1>1, <1>2, <1>4, WhoIsWho DEF RunInv, PoolInv, Waiting, NotifySet, call, work
<1>9. QED
  BY <1>6, <1>7, <1>8 DEF RunInv

(* The end of notify(). *)
LEMMA NotifyUnlockKeeps ==
  ASSUME RunInv, NEW t \in Threads, NotifyUnlock(t)
  PROVE  RunInv'
<1>1. pc[t] = "notify_unlock" /\ t \in Workers /\ mutex = t /\ mutex' = NoThread
  BY WhoIsWho DEF RunInv, TypeInv, PhaseInv, CallerPCs, Locked, NotifyUnlock, Goto
<1>2. /\ pc' \in [Threads -> PCs] /\ pc'[t] = "idle"
      /\ \A u \in Threads : u # t => pc'[u] = pc[u]
      /\ pc'[Caller] \in CallerPCs
      /\ \A w \in Workers : pc'[w] \in WorkerPCs
  BY <1>1, Moved, WhoIsWho DEF RunInv, PCs, WorkerPCs, NotifyUnlock, Goto
<1>3. Count' = Count
  BY <1>1, CountStays DEF RunInv, PCs, WorkerPCs, NotifyUnlock, Goto, work
<1>4. TypeInv'
  BY <1>1, <1>2 DEF RunInv, TypeInv, PCs, NotifyUnlock, call, work, AdjustNumThreads
<1>5. PhaseInv'
  BY <1>1, <1>2, <1>3, WhoIsWho
 , SMTT(30) DEF RunInv, TypeInv, PhaseInv, Alone, Pooled, Waiting, Late, Locked, NotifyUnlock, call, work
<1>6. PoolInv'
  BY <1>1, <1>2, WhoIsWho DEF RunInv, PoolInv, NotifyUnlock, call, work
<1>7. QED
  BY <1>4, <1>5, <1>6 DEF RunInv

(* The caller announces that it waits, or finds that everybody has         *)
(* notified.                                                               *)
LEMMA WaitOrKeeps ==
  ASSUME RunInv, WaitOr
  PROVE  RunInv'
<1> DEFINE x == IF state = 0 THEN "return" ELSE "wait_lock"
<1>1. pc[Caller] = "wait" /\ kind = "async" /\ alive /\ ~notified /\ state = Count /\ Count <= MaxThreads
      /\ \A w \in Workers : pc[w] \in {"idle", "run", "notify"}
  BY DEF RunInv, PhaseInv, WaitOr, Goto
<1>2. /\ pc' \in [Threads -> PCs] /\ pc'[Caller] = x
      /\ \A u \in Threads : u # Caller => pc'[u] = pc[u]
      /\ pc'[Caller] \in CallerPCs
      /\ \A w \in Workers : pc'[w] \in WorkerPCs
  BY Moved, WhoIsWho DEF RunInv, PCs, CallerPCs, WaitOr, Goto
<1>3. Count' = Count
  <2>1. x \in PCs /\ x \notin {"run", "notify"}
    BY DEF PCs, CallerPCs
  <2>2. TypeInv /\ pc' = [pc EXCEPT ![Caller] = x] /\ tasks' = tasks /\ Caller \in Threads
    BY WhoIsWho DEF RunInv, WaitOr, Goto, work
  <2>3. QED
    BY <1>1, <2>1, <2>2, CountStays
<1>4. state' = WaiterMask + Count' /\ state' \in 0 .. 2 * WaiterMask - 1
  <2>1. Count \in Nat
    BY CountZero DEF RunInv
  <2>2. state < WaiterMask
    BY <1>1, <2>1, ThreadsAssumption, MaskAssumption, SMTT(30)
  <2>3. QED
    BY <1>1, <1>3, <2>1, <2>2, MaskAssumption, SMTT(30) DEF WaitOr
<1>5. state = 0 => tasks = {} /\ \A t \in Threads : pc[t] \notin {"run", "notify"}
  BY <1>1, CountZero DEF RunInv
<1>6. TypeInv'
  BY <1>2, <1>4 DEF RunInv, TypeInv, PCs, WaitOr, call, work, AdjustNumThreads
<1>7. PhaseInv'
  <2>1. CASE state = 0
    <3>1. state' = WaiterMask
      BY <1>1, <1>3, <1>4, <2>1, MaskAssumption, SMTT(30)
    <3>2. QED
      BY <1>1, <1>2, <1>5, <2>1, <3>1, WhoIsWho
      DEF RunInv, PhaseInv, Alone, Pooled, Waiting, Late, Locked, WaitOr, call, work
  <2>2. CASE state # 0
    BY <1>1, <1>2, <1>3, <1>4, <2>2, WhoIsWho
    DEF RunInv, PhaseInv, Alone, Pooled, Waiting, Late, Locked, WaitOr, call, work
  <2>3. QED
    BY <2>1, <2>2
<1>8. PoolInv'
  BY <1>1, <1>2, WhoIsWho DEF RunInv, PoolInv, WaitOr, call, work
<1>9. QED
  BY <1>6, <1>7, <1>8 DEF RunInv

(* The caller takes the mutex, or wakes up and will take it. *)
LEMMA WaitLockKeeps ==
  ASSUME RunInv, WaitLock \/ WakeSpuriously
  PROVE  RunInv'
<1> DEFINE x == IF pc[Caller] = "sleep" THEN "wait_lock" ELSE "wait_check"
<1>1. /\ pc[Caller] \in {"wait_lock", "sleep"}
      /\ mutex' = IF pc[Caller] = "sleep" THEN mutex ELSE Caller
      /\ pc[Caller] # "sleep" => mutex = NoThread
      /\ pc' = [pc EXCEPT ![Caller] = x]
      /\ UNCHANGED <<call, work, state, notified, alive>>
  BY DEF WaitLock, WakeSpuriously, Goto, Free, barrier
<1>2. /\ pc' \in [Threads -> PCs] /\ pc'[Caller] = x
      /\ \A u \in Threads : u # Caller => pc'[u] = pc[u]
      /\ pc'[Caller] \in CallerPCs
      /\ \A w \in Workers : pc'[w] \in WorkerPCs
  BY <1>1, Moved, WhoIsWho DEF RunInv, PCs, CallerPCs
<1>3. Count' = Count
  <2>1. x \in PCs /\ x \notin {"run", "notify"}
    BY DEF PCs, CallerPCs
  <2>2. TypeInv /\ pc' = [pc EXCEPT ![Caller] = x] /\ tasks' = tasks /\ Caller \in Threads
    BY <1>1, WhoIsWho DEF RunInv, work
  <2>3. QED
    BY <1>1, <2>1, <2>2, CountStays
<1>4. TypeInv'
  BY <1>1, <1>2, WhoIsWho DEF RunInv, TypeInv, PCs, call, work, AdjustNumThreads
<1>5. PhaseInv'
  BY <1>1, <1>2, <1>3, WhoIsWho
 , SMTT(30) DEF RunInv, TypeInv, PhaseInv, Alone, Pooled, Waiting, Late, Locked, call, work
<1>6. PoolInv'
  BY <1>1, <1>2, WhoIsWho DEF RunInv, PoolInv, call, work
<1>7. QED
  BY <1>4, <1>5, <1>6 DEF RunInv

(* The caller that finds notified_ set holds the mutex, so the notifier    *)
(* has left the barrier and so has everybody else.                         *)
LEMMA WaitCheckKeeps ==
  ASSUME RunInv, WaitCheck
  PROVE  RunInv'
<1> DEFINE x == IF notified THEN "return" ELSE "sleep"
<1>1. pc[Caller] = "wait_check" /\ mutex = Caller /\ mutex' = NoThread
  BY WhoIsWho DEF RunInv, PhaseInv, Locked, WaitCheck, Goto
<1>2. \A w \in Workers : pc[w] \notin {"notify_set", "notify_unlock"}
  BY <1>1, WhoIsWho DEF RunInv, PhaseInv, Locked
<1>3. /\ pc' \in [Threads -> PCs] /\ pc'[Caller] = x
      /\ \A u \in Threads : u # Caller => pc'[u] = pc[u]
      /\ pc'[Caller] \in CallerPCs
      /\ \A w \in Workers : pc'[w] \in WorkerPCs
  BY Moved, WhoIsWho DEF RunInv, PCs, CallerPCs, WaitCheck, Goto
<1>4. Count' = Count
  <2>1. x \in PCs /\ x \notin {"run", "notify"}
    BY DEF PCs, CallerPCs
  <2>2. TypeInv /\ pc' = [pc EXCEPT ![Caller] = x] /\ tasks' = tasks /\ Caller \in Threads
    BY WhoIsWho DEF RunInv, WaitCheck, Goto, work
  <2>3. QED
    BY <1>1, <2>1, <2>2, CountStays
<1>5. TypeInv'
  BY <1>1, <1>3 DEF RunInv, TypeInv, PCs, WaitCheck, call, work, AdjustNumThreads
<1>6. PhaseInv'
  <2>1. CASE notified
    <3>1. Count = 0 /\ state = WaiterMask + Count /\ \A w \in Workers : pc[w] # "notify_lock"
      BY <1>1, <2>1 DEF RunInv, PhaseInv, Waiting
    <3>2. tasks = {} /\ \A w \in Workers : pc[w] \notin {"run", "notify"}
      BY <3>1, CountZero, WhoIsWho DEF RunInv
    <3>3. \A w \in Workers : pc[w] = "idle"
      BY <1>2, <3>1, <3>2 DEF RunInv, TypeInv, WorkerPCs
    <3>4. state = WaiterMask
      BY <3>1, MaskAssumption, SMTT(30)
    <3>5. QED
      BY <1>1, <1>3, <2>1, <3>2, <3>3, <3>4, WhoIsWho
      DEF RunInv, PhaseInv, Alone, Pooled, Waiting, Late, Locked, WaitCheck, call, work
  <2>2. CASE ~notified
    BY <1>1, <1>2, <1>3, <1>4, <2>2, WhoIsWho
    DEF RunInv, PhaseInv, Alone, Pooled, Waiting, Late, Locked, WaitCheck, call, work
  <2>3. QED
    BY <2>1, <2>2
<1>7. PoolInv'
  BY <1>1, <1>3, WhoIsWho DEF RunInv, PoolInv, WaitCheck, call, work
<1>8. QED
  BY <1>5, <1>6, <1>7 DEF RunInv

(* before_exec_hook gives the caller its pool. *)
LEMMA BeforeExecKeeps ==
  ASSUME RunInv, NEW k, BeforeExec(k)
  PROVE  RunInv'
<1>1. pc[Caller] = "idle" /\ pc' = [pc EXCEPT ![Caller] = "idle"]
  BY WhoIsWho DEF RunInv, TypeInv, BeforeExec
<1>2. /\ active' \in [Threads -> BOOLEAN] /\ active'[Caller] = (k # "none")
      /\ \A w \in Workers : active'[w] = active[w]
  BY WhoIsWho DEF RunInv, TypeInv, BeforeExec
<1>3. QED
  BY <1>1, <1>2, AloneStepKeeps DEF RunInv, TypeInv, Alone, BeforeExec, barrier

(* after_exec_hook takes it back. *)
LEMMA AfterExecKeeps ==
  ASSUME RunInv, AfterExec
  PROVE  RunInv'
<1>1. pc[Caller] = "idle" /\ pc' = [pc EXCEPT ![Caller] = "idle"]
  BY WhoIsWho DEF RunInv, TypeInv, AfterExec
<1>2. /\ active' \in [Threads -> BOOLEAN] /\ ~active'[Caller]
      /\ \A w \in Workers : active'[w] = active[w]
  BY WhoIsWho DEF RunInv, TypeInv, AfterExec
<1>3. QED
  BY <1>1, <1>2, AloneStepKeeps DEF RunInv, TypeInv, Alone, AfterExec, barrier

(* parallel_nd: a caller that works alone for several threads puts its     *)
(* pool aside, and only then.                                              *)
LEMMA CallKeeps ==
  ASSUME RunInv, NEW d0 \in Nat, NEW d1 \in Nat, Call(d0, d1)
  PROVE  RunInv'
<1> DEFINE n == AdjustNumThreads(d0 * d1)
           alone == n = 1 \/ kind \in {"none", "busy"}
           x == IF n = 0 THEN "return" ELSE IF alone THEN "next" ELSE "submit"
<1>1. n \in Nat
  BY AdjustBounds, SMTT(30)
<1>2. /\ pc[Caller] = "idle" /\ pc' = [pc EXCEPT ![Caller] = x]
      /\ D0' = d0 /\ D1' = d1 /\ nthr' = n
      /\ active' = [active EXCEPT ![Caller] = active[Caller] /\ ~(n > 1 /\ alone)]
      /\ UNCHANGED <<kind, executing, tasks, left, master, iter, barrier>>
  BY DEF Call, Goto
<1>3. x \in {"next", "submit", "return"}
  OBVIOUS
<1>4. /\ active' \in [Threads -> BOOLEAN]
      /\ active'[Caller] = (active[Caller] /\ ~(n > 1 /\ alone))
      /\ \A w \in Workers : active'[w] = active[w]
  BY <1>2, WhoIsWho DEF RunInv, TypeInv
<1>5. x # "next" => active'[Caller] = active[Caller]
  <2>1. x # "next" => ~(n > 1 /\ alone)
    BY <1>1, SMTT(30)
  <2>2. active[Caller] \in BOOLEAN
    BY WhoIsWho DEF RunInv, TypeInv
  <2> HIDE DEF n, alone, x
  <2>3. QED
    BY <1>4, <2>1, <2>2
<1>6. active[Caller] <=> kind # "none"
  BY <1>2 DEF RunInv, PoolInv
<1> HIDE DEF n, alone, x
<1>7. nthr' = AdjustNumThreads(D0' * D1')
  BY <1>2 DEF n
<1>8. x \notin {"next", "alone"} => (active'[Caller] <=> kind' # "none")
  BY <1>2, <1>3, <1>5, <1>6
<1>9. /\ executing' \in BOOLEAN /\ (~executing' => kind' = "none")
      /\ UNCHANGED <<tasks, left, state, notified, mutex, alive>>
      /\ kind' = kind /\ master' = master /\ D0' \in Nat /\ D1' \in Nat
  BY <1>2 DEF RunInv, TypeInv, PoolInv, barrier
<1>10. pc[Caller] \in Alone /\ x \in {"next", "alone", "submit", "return", "idle"}
       /\ (x = "return" \/ x = pc[Caller] \/ pc[Caller] # "return")
  BY <1>2, <1>3 DEF Alone
<1>11. QED
  BY <1>2, <1>4, <1>7, <1>8, <1>9, <1>10, AloneStepKeeps

(* The loop of a caller that works alone gives the pool back at its end. *)
LEMMA AloneNextKeeps ==
  ASSUME RunInv, AloneNext
  PROVE  RunInv'
<1>1. CASE ithr[Caller] < nthr
  <2>1. /\ pc[Caller] = "next" /\ pc' = [pc EXCEPT ![Caller] = "alone"] /\ active' = active
        /\ UNCHANGED <<call, tasks, left, master, barrier>>
    BY <1>1 DEF AloneNext, Goto
  <2>2. QED
    BY <2>1, AloneStepKeeps DEF RunInv, TypeInv, PoolInv, Alone, call, barrier
<1>2. CASE ~(ithr[Caller] < nthr)
  <2>1. /\ pc[Caller] = "next" /\ pc' = [pc EXCEPT ![Caller] = "return"]
        /\ active' = [active EXCEPT ![Caller] = kind # "none"]
        /\ UNCHANGED <<call, tasks, left, master, barrier>>
    BY <1>2 DEF AloneNext, Goto
  <2>2. /\ active' \in [Threads -> BOOLEAN] /\ active'[Caller] = (kind # "none")
        /\ \A w \in Workers : active'[w] = active[w]
    BY <2>1, WhoIsWho DEF RunInv, TypeInv
  <2>3. QED
    BY <2>1, <2>2, AloneStepKeeps DEF RunInv, TypeInv, PoolInv, Alone, call, barrier
<1>3. QED
  BY <1>1, <1>2

(* The end of one round of that loop. *)
LEMMA AloneEndKeeps ==
  ASSUME RunInv, AloneEnd
  PROVE  RunInv'
<1>1. /\ pc[Caller] = "alone" /\ pc' = [pc EXCEPT ![Caller] = "next"] /\ active' = active
      /\ UNCHANGED <<call, tasks, left, master, barrier>>
  BY DEF AloneEnd, Goto
<1>2. QED
  BY <1>1, AloneStepKeeps DEF RunInv, TypeInv, PoolInv, Alone, call, barrier

(* An iteration of for_nd concerns the items only. *)
LEMMA RunStutter ==
  ASSUME RunInv, UNCHANGED <<call, tasks, left, pc, master, active, barrier>>
  PROVE  RunInv'
<1>1. Count' = Count
  BY DEF Count, Active
<1>2. TypeInv'
  BY DEF RunInv, TypeInv, call, barrier, AdjustNumThreads
<1>3. PhaseInv'
  BY <1>1 DEF RunInv, PhaseInv, call, barrier
<1>4. PoolInv'
  BY DEF RunInv, PoolInv, call
<1>5. QED
  BY <1>2, <1>3, <1>4 DEF RunInv

(* Every step keeps the invariant of the run. *)
LEMMA RunStep ==
  ASSUME RunInv, [Next]_vars
  PROVE  RunInv'
<1>1. ASSUME NEW shape \in Shapes, Call(shape[1], shape[2])
      PROVE  RunInv'
  <2>1. shape[1] \in Nat /\ shape[2] \in Nat
    BY ShapesAssumption
  <2>2. QED
    BY <1>1, <2>1, CallKeeps
<1>2. ASSUME CallerStep
      PROVE  RunInv'
  BY <1>2, AloneNextKeeps, AloneEndKeeps, SubmitKeeps, JoinKeeps, WaitOrKeeps, WaitLockKeeps,
     WaitCheckKeeps, ReturnKeeps DEF CallerStep
<1>3. ASSUME NEW t \in Threads, TaskStep(t)
      PROVE  RunInv'
  <2>1. ASSUME NEW i \in tasks, TaskStart(t, i)
        PROVE  RunInv'
    BY <2>1, TaskStartKeeps
  <2>2. CASE Iterate(t)
    BY <2>2, RunStutter DEF Iterate
  <2>3. QED
    BY <1>3, <2>1, <2>2, TaskEndKeeps, NotifySubKeeps, NotifyLockKeeps, NotifySetKeeps,
       NotifyUnlockKeeps DEF TaskStep
<1>4. ASSUME Done \/ UNCHANGED vars
      PROVE  RunInv'
  BY <1>4, RunStutter DEF Done, vars, work
<1>5. QED
  BY <1>1, <1>2, <1>3, <1>4, WaitLockKeeps, BeforeExecKeeps, AfterExecKeeps DEF Next

(* The inductive invariant holds throughout. *)
THEOREM RunInvHolds == Spec => []RunInv
<1>1. ASSUME Init
      PROVE  RunInv
  <2>1. \A t \in Threads : pc[t] = "idle"
    BY <1>1 DEF Init
  <2>2. TypeInv
    <3>1. nthr = AdjustNumThreads(D0 * D1) /\ nthr \in 0 .. MaxThreads
      BY <1>1, ThreadsAssumption, SMTT(30) DEF Init, AdjustNumThreads
    <3>2. state \in 0 .. 2 * WaiterMask - 1 /\ left \in 0 .. MaxThreads
      BY <1>1, ThreadsAssumption, MaskAssumption, SMTT(30) DEF Init
    <3>3. QED
      BY <1>1, <3>1, <3>2, WhoIsWho DEF Init, TypeInv, CallerPCs, WorkerPCs
  <2>3. PhaseInv
    BY <1>1, <2>1, WhoIsWho DEF Init, PhaseInv, Alone, Pooled, Waiting, Locked
  <2>4. PoolInv
    BY <1>1, <2>1, WhoIsWho DEF Init, PoolInv
  <2>5. QED
    BY <2>2, <2>3, <2>4 DEF RunInv
<1>2. QED
  BY <1>1, RunStep, PTL DEF Spec

(* state_ of the counting_barrier counts exactly the tasks that have yet   *)
(* to notify, so that the assertion in notify() holds and the counter never *)
(* runs into the bit of the waiter; the mutex belongs to who is inside.    *)
THEOREM BarrierCounts == Spec => []CountingInv
<1>1. ASSUME RunInv
      PROVE  CountingInv
  <2>1. TypeOK
    <3>1. 0 .. nthr - 1 \subseteq 0 .. MaxThreads - 1
      BY <1>1, ThreadsAssumption, SMTT(30) DEF RunInv, TypeInv
    <3>2. QED
      BY <1>1, <3>1 DEF RunInv, TypeInv, TypeOK
  <2>2. ASSUME alive, kind = "async"
        PROVE  state % WaiterMask = Count
    <3>1. Count \in Nat
      BY <1>1, CountZero DEF RunInv
    <3>2. CASE pc[Caller] \in Alone
      <4>1. pc[Caller] = "return" /\ state = WaiterMask
        BY <1>1, <2>2, <3>2 DEF RunInv, PhaseInv, Alone
      <4>2. tasks = {} /\ \A t \in Threads : pc[t] \notin {"run", "notify"}
        BY <1>1, <3>2, <4>1, WhoIsWho DEF RunInv, PhaseInv
      <4>3. Count = 0
        BY <4>2, NobodyActive, FS_EmptySet, SMTT(30) DEF Count, Active
      <4>4. QED
        BY <4>1, <4>3, MaskAssumption, ThreadsAssumption, SMTT(30)
    <3>3. CASE pc[Caller] = "wait"
      <4>1. state = Count /\ Count <= MaxThreads
        BY <1>1, <3>3 DEF RunInv, PhaseInv
      <4>2. QED
        BY <3>1, <4>1, MaskAssumption, ThreadsAssumption, SMTT(30)
    <3>4. CASE pc[Caller] \in Waiting
      <4>1. state = WaiterMask + Count /\ Count <= MaxThreads
        BY <1>1, <3>4 DEF RunInv, PhaseInv
      <4>2. QED
        BY <3>1, <4>1, MaskAssumption, ThreadsAssumption, SMTT(30)
    <3>5. pc[Caller] \notin Pooled
      BY <1>1, <2>2 DEF RunInv, PhaseInv
    <3>6. QED
      BY <1>1, <3>2, <3>3, <3>4, <3>5
      DEF RunInv, TypeInv, CallerPCs, Alone, Pooled, Waiting
  <2>3. QED
    BY <1>1, <2>1, <2>2 DEF CountingInv, Count, Active, ActiveIn, RunInv, PhaseInv, Locked
<1>2. QED
  BY <1>1, RunInvHolds, PTL

(* No notify() touches the barrier after the caller has left the function  *)
(* on whose stack the barrier lives.                                       *)
THEOREM BarrierLivesLongEnough == Spec => []BarrierOutlivesNotify
<1>1. ASSUME RunInv
      PROVE  BarrierOutlivesNotify
  BY <1>1, WhoIsWho
  DEF RunInv, TypeInv, PhaseInv, BarrierOutlivesNotify, CallerPCs, Alone, Pooled, Waiting
<1>2. QED
  BY <1>1, RunInvHolds, PTL

(* A worker has no active pool between two tasks, and the caller has the   *)
(* pool of its stream whenever it is not inside parallel_nd.               *)
THEOREM PoolIsRestored == Spec => []PoolRestored
<1>1. ASSUME RunInv
      PROVE  PoolRestored
  BY <1>1, WhoIsWho DEF RunInv, TypeInv, PoolInv, PoolRestored
<1>2. QED
  BY <1>1, RunInvHolds, PTL

-----------------------------------------------------------------------------
(* nd_iterator_init: the pair of indices of place j lies in the shape. *)
LEMMA ItemInShape ==
  ASSUME NEW a \in Nat \ {0}, NEW b \in Nat \ {0}, NEW j \in Nat
  PROVE  (j \div b) % a \in 0 .. a - 1 /\ j % b \in 0 .. b - 1
BY ModFacts

(* No two places have the same pair of indices. *)
LEMMA ItemInjective ==
  ASSUME NEW a \in Nat \ {0}, NEW b \in Nat \ {0},
         NEW j \in 0 .. a * b - 1, NEW k \in 0 .. a * b - 1,
         (j \div b) % a = (k \div b) % a, j % b = k % b
  PROVE  j = k
<1>1. j \in Nat /\ k \in Nat
  BY SMTT(30)
<1>2. j \div b \in 0 .. a - 1 /\ k \div b \in 0 .. a - 1
  BY QuotientBelow
<1>3. (j \div b) % a = j \div b /\ (k \div b) % a = k \div b
  BY <1>2, SMTT(30)
<1>4. j = (j \div b) * b + (j % b) /\ k = (k \div b) * b + (k % b)
  BY <1>1, ModFacts
<1>5. QED
  BY <1>3, <1>4

(* Every pair of indices has a place. *)
LEMMA ItemOnto ==
  ASSUME NEW a \in Nat \ {0}, NEW b \in Nat \ {0}, NEW x \in 0 .. a - 1, NEW y \in 0 .. b - 1
  PROVE  /\ x * b + y \in 0 .. a * b - 1
         /\ ((x * b + y) \div b) % a = x /\ (x * b + y) % b = y
<1>1. x * b + y \in 0 .. a * b - 1
  BY PlaceBelow
<1> DEFINE j == x * b + y
<1>2. j \in Nat
  BY <1>1, SMTT(30)
<1>3. j \div b = x /\ j % b = y
  BY <1>2, DivModUnique, SMTT(30)
<1>4. x % a = x
  BY SMTT(30)
<1> HIDE DEF j
<1>5. QED
  BY <1>1, <1>3, <1>4 DEF j

(* nd_iterator_step goes from a place to the next. *)
LEMMA ItemStep ==
  ASSUME NEW a \in Nat \ {0}, NEW b \in Nat \ {0}, NEW j \in Nat
  PROVE  /\ (j % b) + 1 >= b =>
              /\ (j + 1) % b = 0
              /\ ((j + 1) \div b) % a =
                    IF ((j \div b) % a) + 1 >= a THEN 0 ELSE ((j \div b) % a) + 1
         /\ (j % b) + 1 < b =>
              /\ (j + 1) % b = (j % b) + 1
              /\ ((j + 1) \div b) % a = (j \div b) % a
<1> DEFINE q == j \div b
           r == j % b
<1>1. q \in Nat /\ r \in 0 .. b - 1 /\ j = q * b + r
  BY ModFacts
<1>2. ASSUME NEW n \in Nat, NEW c \in Nat \ {0}
      PROVE  (n + 1) % c = IF (n % c) + 1 >= c THEN 0 ELSE (n % c) + 1
  <2> DEFINE m == n \div c
             s == n % c
  <2>1. m \in Nat /\ s \in 0 .. c - 1 /\ n = m * c + s
    BY ModFacts
  <2> HIDE DEF m, s
  <2>2. CASE s + 1 >= c
    <3>1. s + 1 = c /\ (m + 1) * c = m * c + c /\ m * c \in Nat
      BY <2>1, <2>2, SMTT(30)
    <3>2. n + 1 = (m + 1) * c + 0
      BY <2>1, <3>1, SMTT(30)
    <3>3. (n + 1) % c = 0
      BY <2>1, <3>2, DivModUnique, SMTT(30)
    <3>4. QED
      BY <2>2, <3>3 DEF s
  <2>3. CASE s + 1 < c
    <3>1. n + 1 = m * c + (s + 1)
      BY <2>1, SMTT(30)
    <3>2. (n + 1) % c = s + 1
      BY <2>1, <2>3, <3>1, DivModUnique, SMTT(30)
    <3>3. s + 1 < c /\ s \in Nat
      BY <2>1, <2>3, SMTT(30)
    <3>4. QED
      BY <3>2, <3>3, SMTT(30) DEF s
  <2>4. QED
    BY <2>1, <2>2, <2>3, SMTT(30)
<1> HIDE DEF q, r
<1>3. CASE r + 1 >= b
  <2>1. r + 1 = b /\ (q + 1) * b = q * b + b /\ q * b \in Nat
    BY <1>1, <1>3, SMTT(30)
  <2>2. j + 1 = (q + 1) * b + 0
    BY <1>1, <2>1, SMTT(30)
  <2>3. (j + 1) \div b = q + 1 /\ (j + 1) % b = 0
    BY <1>1, <2>2, DivModUnique, SMTT(30)
  <2>4. (q + 1) % a = IF (q % a) + 1 >= a THEN 0 ELSE (q % a) + 1
    BY <1>1, <1>2
  <2>5. QED
    BY <1>1, <1>3, <2>3, <2>4, SMTT(30) DEF q, r
<1>4. CASE r + 1 < b
  <2>1. j + 1 = q * b + (r + 1)
    BY <1>1, SMTT(30)
  <2>2. (j + 1) \div b = q /\ (j + 1) % b = r + 1
    BY <1>1, <1>4, <2>1, DivModUnique, SMTT(30)
  <2>3. QED
    BY <1>1, <1>4, <2>2, SMTT(30) DEF q, r
<1>5. QED
  BY <1>1, <1>3, <1>4 DEF r

(* The same for the tasks of a call that has work. *)
LEMMA CallShares ==
  ASSUME TypeInv, nthr # 0
  PROVE  /\ D0 \in Nat \ {0} /\ D1 \in Nat \ {0}
         /\ \A i \in 0 .. nthr - 1 : /\ From(i) \in Nat /\ To(i) \in Nat
                                     /\ From(i) <= To(i) /\ To(i) <= D0 * D1
         /\ \A i, k \in 0 .. nthr - 1 : i < k => To(i) <= From(k)
         /\ \A j \in 0 .. D0 * D1 - 1 : \E i \in 0 .. nthr - 1 : From(i) <= j /\ j < To(i)
<1>1. D0 \in Nat /\ D1 \in Nat /\ nthr \in Nat \ {0} /\ nthr = AdjustNumThreads(D0 * D1)
  BY ThreadsAssumption, SMTT(30) DEF TypeInv
<1>2. D0 * D1 \in Nat /\ nthr <= D0 * D1
  BY <1>1, AdjustBounds
<1>3. D0 * D1 # 0
  BY <1>1, <1>2, SMTT(30)
<1>4. D0 # 0 /\ D1 # 0
  BY <1>1, <1>3, SMTT(30)
<1>5. D0 * D1 \in Nat \ {0}
  BY <1>2, <1>3
<1>6. QED
  BY <1>1, <1>4, <1>5, TeamShares DEF From, To

(* The places and the items of a call correspond one to one. *)
LEMMA CallItems ==
  ASSUME TypeInv, nthr # 0
  PROVE  /\ \A j \in 0 .. D0 * D1 - 1 : Item(j) \in Items(D0, D1)
         /\ \A j, k \in 0 .. D0 * D1 - 1 : Item(j) = Item(k) => j = k
         /\ \A it \in Items(D0, D1) : \E j \in 0 .. D0 * D1 - 1 : Item(j) = it
<1>1. D0 \in Nat \ {0} /\ D1 \in Nat \ {0}
  BY CallShares
<1>2. ASSUME NEW j \in 0 .. D0 * D1 - 1
      PROVE  Item(j) \in Items(D0, D1)
  <2>1. j \in Nat
    BY SMTT(30)
  <2>2. QED
    BY <1>1, <2>1, ItemInShape DEF Item, Items
<1>3. ASSUME NEW j \in 0 .. D0 * D1 - 1, NEW k \in 0 .. D0 * D1 - 1, Item(j) = Item(k)
      PROVE  j = k
  <2>1. (j \div D1) % D0 = (k \div D1) % D0 /\ j % D1 = k % D1
    BY <1>3 DEF Item
  <2>2. QED
    BY <1>1, <2>1, ItemInjective
<1>4. ASSUME NEW it \in Items(D0, D1)
      PROVE  \E j \in 0 .. D0 * D1 - 1 : Item(j) = it
  <2>1. PICK x \in 0 .. D0 - 1, y \in 0 .. D1 - 1 : it = <<x, y>>
    BY SMTT(30) DEF Items
  <2>2. /\ x * D1 + y \in 0 .. D0 * D1 - 1
        /\ ((x * D1 + y) \div D1) % D0 = x /\ (x * D1 + y) % D1 = y
    BY <1>1, ItemOnto, SMTT(30)
  <2>3. QED
    BY <2>1, <2>2 DEF Item
<1>5. QED
  BY <1>2, <1>3, <1>4

(* The shape of the call and the visits stay. *)
SameCall == UNCHANGED <<D0, D1, nthr, visits, calls>>

(* The shares and the items of a call depend on its shape only. *)
LEMMA SameShares ==
  ASSUME UNCHANGED <<D0, D1, nthr>>
  PROVE  /\ \A i : From(i)' = From(i) /\ To(i)' = To(i)
         /\ \A j : Item(j)' = Item(j)
BY DEF From, To, Item

(* A step that starts no task, ends none and visits nothing. *)
LEMMA NoWorkStep ==
  ASSUME TypeInv, IterInv, VisitInv, SameCall, ithr' = ithr, iter' = iter,
         \A i \in 0 .. nthr - 1 : Unstarted(i)' <=> Unstarted(i),
         \A t \in Threads : Runs(t)' <=> Runs(t),
         pc'[Caller] = "next" => pc[Caller] = "next"
  PROVE  IterInv' /\ VisitInv'
<1>1. D0' = D0 /\ D1' = D1 /\ nthr' = nthr /\ visits' = visits /\ calls' = calls
  BY DEF SameCall
<1>2. /\ \A i : From(i)' = From(i) /\ To(i)' = To(i)
      /\ \A j : Item(j)' = Item(j)
  BY <1>1, SameShares
<1>3. IterInv'
  BY <1>1, <1>2 DEF IterInv
<1>4. VisitInv'
  BY <1>1, <1>2 DEF VisitInv
<1>5. QED
  BY <1>3, <1>4

(* A thread starts task i, at the first item of its share. *)
LEMMA StartStep ==
  ASSUME TypeInv, IterInv, VisitInv, SameCall,
         NEW t \in Threads, NEW i \in 0 .. nthr - 1, Unstarted(i), ~Runs(t),
         ithr' \in [Threads -> Nat], ithr'[t] = i,
         iter' = [iter EXCEPT ![t] = ForNdStart(i, nthr, D0, D1)],
         \A u \in Threads : u # t => ithr'[u] = ithr[u] /\ (Runs(u)' <=> Runs(u)),
         Runs(t)', pc'[Caller] # "next",
         \A k \in 0 .. nthr - 1 : Unstarted(k)' <=> Unstarted(k) /\ k # i
  PROVE  IterInv' /\ VisitInv'
<1>1. D0' = D0 /\ D1' = D1 /\ nthr' = nthr /\ visits' = visits /\ calls' = calls /\ nthr # 0
  BY SMTT(30) DEF SameCall
<1>2. /\ \A k : From(k)' = From(k) /\ To(k)' = To(k)
      /\ \A j : Item(j)' = Item(j)
  BY <1>1, SameShares
<1>3. D0 \in Nat \ {0} /\ D1 \in Nat \ {0} /\ From(i) \in Nat /\ To(i) \in Nat /\ From(i) <= To(i)
  BY <1>1, CallShares
<1> DEFINE it == ForNdStart(i, nthr, D0, D1)
<1>4. it = [iwork |-> From(i), end |-> To(i), d0 |-> (From(i) \div D1) % D0, d1 |-> From(i) % D1]
  BY DEF ForNdStart, From, To
<1>5. (From(i) \div D1) % D0 \in Nat /\ From(i) % D1 \in Nat
  <2>1. (From(i) \div D1) % D0 \in 0 .. D0 - 1 /\ From(i) % D1 \in 0 .. D1 - 1
    BY <1>3, ItemInShape, ZenonT(20)
  <2>2. QED
    BY <1>3, <2>1, SMTT(30)
<1>6. /\ it \in [iwork : Nat, end : Nat, d0 : Nat, d1 : Nat]
      /\ it.end = To(i) /\ it.iwork = From(i) /\ <<it.d0, it.d1>> = Item(From(i))
  BY <1>3, <1>4, <1>5, SMTT(30) DEF Item
<1> HIDE DEF it
<1>7. /\ iter' \in [Threads -> [iwork : Nat, end : Nat, d0 : Nat, d1 : Nat]] /\ iter'[t] = it
      /\ \A u \in Threads : u # t => iter'[u] = iter[u]
  BY <1>6 DEF IterInv, it
<1>8. \A u \in Threads : Runs(u) => u # t /\ ithr[u] # i
  BY DEF IterInv
<1>9. IterInv'
  <2>1. ASSUME NEW u \in Threads, Runs(u)'
        PROVE  /\ ithr'[u] \in 0 .. nthr' - 1 /\ ~Unstarted(ithr[u])'
               /\ iter'[u].end = To(ithr[u])'
               /\ iter'[u].iwork \in From(ithr[u])' .. To(ithr[u])'
               /\ <<iter'[u].d0, iter'[u].d1>> = Item(iter[u].iwork)'
               /\ \A v \in Threads : Runs(v)' /\ ithr'[u] = ithr'[v] => u = v
    <3>1. CASE u = t
      <4>1. ithr'[u] = i /\ iter'[u] = it /\ ~Unstarted(i)'
        BY <1>7, <3>1
      <4>2. ~Unstarted(ithr[u])' /\ To(ithr[u])' = To(i) /\ From(ithr[u])' = From(i)
            /\ Item(iter[u].iwork)' = Item(From(i))
        BY <1>1, <1>6, <4>1 DEF Unstarted, From, To, Item
      <4>3. \A v \in Threads : Runs(v)' /\ ithr'[u] = ithr'[v] => u = v
        BY <1>8, <3>1, <4>1
      <4>4. QED
        BY <1>1, <1>3, <1>6, <4>1, <4>2, <4>3, SMTT(30)
    <3>2. CASE u # t
      <4>1. Runs(u) /\ ithr'[u] = ithr[u] /\ iter'[u] = iter[u] /\ ithr[u] # i
        BY <1>7, <1>8, <2>1, <3>2
      <4>2. /\ ithr[u] \in 0 .. nthr - 1 /\ ~Unstarted(ithr[u])
            /\ iter[u].end = To(ithr[u])
            /\ iter[u].iwork \in From(ithr[u]) .. To(ithr[u])
            /\ <<iter[u].d0, iter[u].d1>> = Item(iter[u].iwork)
            /\ \A v \in Threads : Runs(v) /\ ithr[u] = ithr[v] => u = v
        BY <4>1 DEF IterInv
      <4>3. ~Unstarted(ithr[u])' /\ To(ithr[u])' = To(ithr[u]) /\ From(ithr[u])' = From(ithr[u])
            /\ Item(iter[u].iwork)' = Item(iter[u].iwork)
        BY <1>1, <4>1, <4>2 DEF Unstarted, From, To, Item
      <4>4. \A v \in Threads : Runs(v)' /\ ithr'[u] = ithr'[v] => u = v
        BY <4>1, <4>2
      <4>5. QED
        BY <1>1, <4>1, <4>2, <4>3, <4>4
    <3>3. QED
      BY <3>1, <3>2
  <2>2. QED
    BY <1>7, <2>1 DEF IterInv
<1>10. VisitInv'
  <2>1. ASSUME NEW k \in 0 .. nthr - 1, NEW j \in From(k) .. To(k) - 1
        PROVE  /\ Unstarted(k)' => visits[Item(j)] = 0
               /\ \A u \in Threads : Runs(u)' /\ ithr'[u] = k =>
                     visits[Item(j)] = IF j < iter'[u].iwork THEN 1 ELSE 0
               /\ ~Unstarted(k)' /\ (\A u \in Threads : Runs(u)' => ithr'[u] # k)
                     => visits[Item(j)] = 1
    <3>1. /\ Unstarted(k) => visits[Item(j)] = 0
          /\ \A u \in Threads : Runs(u) /\ ithr[u] = k =>
                visits[Item(j)] = IF j < iter[u].iwork THEN 1 ELSE 0
          /\ ~Unstarted(k) /\ (\A u \in Threads : Runs(u) => ithr[u] # k) => visits[Item(j)] = 1
      BY DEF VisitInv
    <3>2. CASE k = i
      <4>1. visits[Item(j)] = 0 /\ ~(j < From(i))
        BY <1>3, <3>1, <3>2, SMTT(30)
      <4>2. ASSUME NEW u \in Threads, Runs(u)', ithr'[u] = k
            PROVE  visits[Item(j)] = IF j < iter'[u].iwork THEN 1 ELSE 0
        BY <1>6, <1>7, <1>8, <3>2, <4>1, <4>2
      <4>3. QED
        BY <3>2, <4>1, <4>2
    <3>3. CASE k # i
      BY <1>7, <3>1, <3>3, SMTT(30)
    <3>4. QED
      BY <3>2, <3>3
  <2>2. QED
    BY <1>1, <1>2, <2>1, SMTT(30) DEF VisitInv
<1>11. QED
  BY <1>9, <1>10

(* A task is over when its share is. *)
LEMMA EndStep ==
  ASSUME TypeInv, IterInv, VisitInv, SameCall,
         NEW t \in Threads, Runs(t), iter[t].iwork >= iter[t].end, ~Runs(t)',
         ithr' \in [Threads -> Nat], iter' = iter,
         \A u \in Threads : u # t => ithr'[u] = ithr[u] /\ (Runs(u)' <=> Runs(u)),
         pc'[Caller] = "next" => ithr'[Caller] <= nthr,
         \A k \in 0 .. nthr - 1 : Unstarted(k)' <=> Unstarted(k)
  PROVE  IterInv' /\ VisitInv'
<1>1. D0' = D0 /\ D1' = D1 /\ nthr' = nthr /\ visits' = visits /\ calls' = calls
  BY DEF SameCall
<1>2. /\ \A k : From(k)' = From(k) /\ To(k)' = To(k)
      /\ \A j : Item(j)' = Item(j)
  BY <1>1, SameShares
<1>3. /\ ithr[t] \in 0 .. nthr - 1 /\ ~Unstarted(ithr[t]) /\ iter[t].iwork >= To(ithr[t])
      /\ \A u \in Threads : Runs(u) /\ ithr[t] = ithr[u] => t = u
      /\ iter[t].iwork \in Nat
  BY DEF IterInv
<1>4. \A u \in Threads : Runs(u)' => u # t /\ Runs(u) /\ ithr'[u] = ithr[u] /\ ithr[u] # ithr[t]
  BY <1>3
<1>5. IterInv'
  <2>1. ASSUME NEW u \in Threads, Runs(u)'
        PROVE  /\ ithr'[u] \in 0 .. nthr' - 1 /\ ~Unstarted(ithr[u])'
               /\ iter'[u].end = To(ithr[u])'
               /\ iter'[u].iwork \in From(ithr[u])' .. To(ithr[u])'
               /\ <<iter'[u].d0, iter'[u].d1>> = Item(iter[u].iwork)'
               /\ \A v \in Threads : Runs(v)' /\ ithr'[u] = ithr'[v] => u = v
    <3>1. Runs(u) /\ ithr'[u] = ithr[u]
      BY <1>4, <2>1
    <3>2. /\ ithr[u] \in 0 .. nthr - 1 /\ ~Unstarted(ithr[u])
          /\ iter[u].end = To(ithr[u])
          /\ iter[u].iwork \in From(ithr[u]) .. To(ithr[u])
          /\ <<iter[u].d0, iter[u].d1>> = Item(iter[u].iwork)
          /\ \A v \in Threads : Runs(v) /\ ithr[u] = ithr[v] => u = v
      BY <3>1 DEF IterInv
    <3>3. ~Unstarted(ithr[u])' /\ To(ithr[u])' = To(ithr[u]) /\ From(ithr[u])' = From(ithr[u])
          /\ Item(iter[u].iwork)' = Item(iter[u].iwork)
      BY <1>1, <3>1, <3>2 DEF Unstarted, From, To, Item
    <3>4. QED
      BY <1>1, <1>4, <3>1, <3>2, <3>3
  <2>2. QED
    BY <1>1, <2>1 DEF IterInv
<1>6. VisitInv'
  <2>1. ASSUME NEW k \in 0 .. nthr - 1, NEW j \in From(k) .. To(k) - 1
        PROVE  /\ Unstarted(k)' => visits[Item(j)] = 0
               /\ \A u \in Threads : Runs(u)' /\ ithr'[u] = k =>
                     visits[Item(j)] = IF j < iter'[u].iwork THEN 1 ELSE 0
               /\ ~Unstarted(k)' /\ (\A u \in Threads : Runs(u)' => ithr'[u] # k)
                     => visits[Item(j)] = 1
    <3>1. /\ Unstarted(k) => visits[Item(j)] = 0
          /\ \A u \in Threads : Runs(u) /\ ithr[u] = k =>
                visits[Item(j)] = IF j < iter[u].iwork THEN 1 ELSE 0
          /\ ~Unstarted(k) /\ (\A u \in Threads : Runs(u) => ithr[u] # k) => visits[Item(j)] = 1
      BY DEF VisitInv
    <3>2. CASE k = ithr[t]
      <4>1. From(k) \in Nat /\ To(k) \in Nat
        BY CallShares, SMTT(30)
      <4>2. j < iter[t].iwork
        BY <1>3, <3>2, <4>1, SMTT(30)
      <4>3. visits[Item(j)] = 1
        BY <3>1, <3>2, <4>2
      <4>4. QED
        BY <1>3, <1>4, <3>2, <4>3
    <3>3. CASE k # ithr[t]
      BY <1>4, <3>1, <3>3, SMTT(30)
    <3>4. QED
      BY <3>2, <3>3
  <2>2. QED
    BY <1>1, <1>2, <2>1, SMTT(30) DEF VisitInv
<1>7. QED
  BY <1>5, <1>6

(* One iteration of for_nd: the item visited is the next of the share, and *)
(* nobody else's.                                                          *)
LEMMA IterateStep ==
  ASSUME TypeInv, IterInv, VisitInv, NEW t \in Threads, Iterate(t)
  PROVE  IterInv' /\ VisitInv'
<1>1. /\ D0' = D0 /\ D1' = D1 /\ nthr' = nthr /\ calls' = calls /\ ithr' = ithr
      /\ tasks' = tasks /\ pc' = pc
      /\ Runs(t) /\ iter[t].iwork < iter[t].end
      /\ iter' = [iter EXCEPT ![t] = StepNd(iter[t], D0, D1)]
      /\ visits' = [visits EXCEPT ![<<iter[t].d0, iter[t].d1>>] =
                       visits[<<iter[t].d0, iter[t].d1>>] + 1]
  BY DEF Iterate, Runs, call
<1>2. /\ \A k : From(k)' = From(k) /\ To(k)' = To(k)
      /\ \A j : Item(j)' = Item(j)
  BY <1>1, SameShares
<1>3. /\ \A k : Unstarted(k)' <=> Unstarted(k)
      /\ \A u : Runs(u)' <=> Runs(u)
  BY <1>1 DEF Unstarted, Runs
<1> DEFINE i == ithr[t]
           p == iter[t].iwork
<1>4. /\ i \in 0 .. nthr - 1 /\ ~Unstarted(i) /\ iter[t].end = To(i)
      /\ p \in From(i) .. To(i) /\ <<iter[t].d0, iter[t].d1>> = Item(p)
      /\ \A u \in Threads : Runs(u) /\ ithr[u] = i => u = t
  BY <1>1 DEF IterInv
<1>5. /\ D0 \in Nat \ {0} /\ D1 \in Nat \ {0} /\ nthr # 0
      /\ From(i) \in Nat /\ To(i) \in Nat /\ To(i) <= D0 * D1
  BY <1>4, CallShares, SMTT(30)
<1>6. p \in 0 .. D0 * D1 - 1 /\ p \in From(i) .. To(i) - 1 /\ p \in Nat
  BY <1>1, <1>4, <1>5, SMTT(30)
<1>7. StepNd(iter[t], D0, D1).iwork = p + 1 /\ StepNd(iter[t], D0, D1).end = To(i)
  BY <1>4 DEF StepNd
<1>8. <<StepNd(iter[t], D0, D1).d0, StepNd(iter[t], D0, D1).d1>> = Item(p + 1)
  <2>1. iter[t].d0 = (p \div D1) % D0 /\ iter[t].d1 = p % D1
    BY <1>4 DEF Item
  <2>2. p % D1 \in 0 .. D1 - 1
    BY <1>5, <1>6, ItemInShape
  <2>3. /\ StepNd(iter[t], D0, D1).d1 = IF (p % D1) + 1 >= D1 THEN 0 ELSE (p % D1) + 1
        /\ StepNd(iter[t], D0, D1).d0 =
              IF ~((p % D1) + 1 >= D1) THEN (p \div D1) % D0
              ELSE IF ((p \div D1) % D0) + 1 >= D0 THEN 0 ELSE ((p \div D1) % D0) + 1
    BY <2>1 DEF StepNd
  <2>4. /\ (p % D1) + 1 >= D1 =>
              /\ (p + 1) % D1 = 0
              /\ ((p + 1) \div D1) % D0 =
                    IF ((p \div D1) % D0) + 1 >= D0 THEN 0 ELSE ((p \div D1) % D0) + 1
        /\ (p % D1) + 1 < D1 =>
              /\ (p + 1) % D1 = (p % D1) + 1
              /\ ((p + 1) \div D1) % D0 = (p \div D1) % D0
    BY <1>5, <1>6, ItemStep
  <2>5. ~((p % D1) + 1 >= D1) <=> (p % D1) + 1 < D1
    BY <1>5, <2>2, SMTT(30)
  <2>6. QED
    BY <2>3, <2>4, <2>5 DEF Item
<1>9. StepNd(iter[t], D0, D1) \in [iwork : Nat, end : Nat, d0 : Nat, d1 : Nat]
  <2>1. iter[t] \in [iwork : Nat, end : Nat, d0 : Nat, d1 : Nat]
    BY DEF IterInv
  <2>2. QED
    BY <2>1, SMTT(30) DEF StepNd
<1>10. /\ iter' \in [Threads -> [iwork : Nat, end : Nat, d0 : Nat, d1 : Nat]]
       /\ iter'[t].iwork = p + 1 /\ iter'[t].end = To(i)
       /\ <<iter'[t].d0, iter'[t].d1>> = Item(p + 1)
       /\ \A u \in Threads : u # t => iter'[u] = iter[u]
  BY <1>1, <1>7, <1>8, <1>9 DEF IterInv
<1>11. visits \in [Items(D0, D1) -> Nat] /\ calls # 0 /\ calls \in Nat
  <2>1. calls # 0 /\ calls \in Nat
    BY <1>5 DEF VisitInv
  <2>2. QED
    BY <2>1, SMTT(30) DEF VisitInv
<1>12. /\ visits' \in [Items(D0, D1) -> Nat]
       /\ visits'[Item(p)] = visits[Item(p)] + 1
       /\ \A j \in 0 .. D0 * D1 - 1 : j # p => visits'[Item(j)] = visits[Item(j)]
  <2>1. visits' = [visits EXCEPT ![Item(p)] = visits[Item(p)] + 1]
    BY <1>1, <1>4
  <2>2. Item(p) \in Items(D0, D1)
    BY <1>5, <1>6, CallItems
  <2>3. ASSUME NEW j \in 0 .. D0 * D1 - 1, j # p
        PROVE  visits'[Item(j)] = visits[Item(j)]
    <3>1. Item(j) \in Items(D0, D1) /\ Item(j) # Item(p)
      BY <1>5, <1>6, <2>3, CallItems
    <3>2. QED
      BY <1>11, <2>1, <3>1
  <2>4. QED
    BY <1>11, <2>1, <2>2, <2>3, SMTT(30)
<1>13. IterInv'
  <2>1. ASSUME NEW u \in Threads, Runs(u)'
        PROVE  /\ ithr'[u] \in 0 .. nthr' - 1 /\ ~Unstarted(ithr[u])'
               /\ iter'[u].end = To(ithr[u])'
               /\ iter'[u].iwork \in From(ithr[u])' .. To(ithr[u])'
               /\ <<iter'[u].d0, iter'[u].d1>> = Item(iter[u].iwork)'
               /\ \A v \in Threads : Runs(v)' /\ ithr'[u] = ithr'[v] => u = v
    <3>1. Runs(u) /\ ithr'[u] = ithr[u]
      BY <1>1, <1>3, <2>1
    <3>2. /\ ithr[u] \in 0 .. nthr - 1 /\ ~Unstarted(ithr[u])
          /\ iter[u].end = To(ithr[u])
          /\ iter[u].iwork \in From(ithr[u]) .. To(ithr[u])
          /\ <<iter[u].d0, iter[u].d1>> = Item(iter[u].iwork)
          /\ \A v \in Threads : Runs(v) /\ ithr[u] = ithr[v] => u = v
      BY <3>1 DEF IterInv
    <3>3. ~Unstarted(ithr[u])' /\ To(ithr[u])' = To(ithr[u]) /\ From(ithr[u])' = From(ithr[u])
      BY <1>1, <3>1, <3>2 DEF Unstarted, From, To
    <3>4. \A v \in Threads : Runs(v)' /\ ithr'[u] = ithr'[v] => u = v
      BY <1>1, <1>3, <3>2
    <3>5. CASE u = t
      <4>1. p + 1 \in From(i) .. To(i)
        BY <1>5, <1>6, SMTT(30)
      <4>2. Item(iter[u].iwork)' = Item(p + 1)
        BY <1>1, <1>10, <3>5 DEF Item
      <4>3. QED
        BY <1>1, <1>10, <3>1, <3>2, <3>3, <3>4, <3>5, <4>1, <4>2
    <3>6. CASE u # t
      <4>1. iter'[u] = iter[u] /\ Item(iter[u].iwork)' = Item(iter[u].iwork)
        BY <1>1, <1>10, <3>6 DEF Item
      <4>2. QED
        BY <1>1, <3>1, <3>2, <3>3, <3>4, <4>1
    <3>7. QED
      BY <3>5, <3>6
  <2>2. QED
    BY <1>1, <1>10, <2>1 DEF IterInv
<1>14. VisitInv'
  <2>1. ASSUME NEW k \in 0 .. nthr - 1, NEW j \in From(k) .. To(k) - 1
        PROVE  /\ Unstarted(k) => visits'[Item(j)] = 0
               /\ \A u \in Threads : Runs(u) /\ ithr[u] = k =>
                     visits'[Item(j)] = IF j < iter'[u].iwork THEN 1 ELSE 0
               /\ ~Unstarted(k) /\ (\A u \in Threads : Runs(u) => ithr[u] # k)
                     => visits'[Item(j)] = 1
    <3>1. /\ Unstarted(k) => visits[Item(j)] = 0
          /\ \A u \in Threads : Runs(u) /\ ithr[u] = k =>
                visits[Item(j)] = IF j < iter[u].iwork THEN 1 ELSE 0
          /\ ~Unstarted(k) /\ (\A u \in Threads : Runs(u) => ithr[u] # k) => visits[Item(j)] = 1
      BY DEF VisitInv
    <3>2. From(k) \in Nat /\ To(k) \in Nat /\ To(k) <= D0 * D1 /\ D0 * D1 \in Nat
      BY <1>5, CallShares, SMTT(30)
    <3>3. j \in 0 .. D0 * D1 - 1 /\ j \in Nat
      BY <3>2, SMTT(30)
    <3>4. CASE k = i
      <4>1. visits'[Item(j)] = IF j < p + 1 THEN 1 ELSE 0
        <5>1. visits[Item(j)] = IF j < p THEN 1 ELSE 0
          BY <1>1, <3>1, <3>4
        <5>2. CASE j = p
          BY <1>6, <1>12, <5>1, <5>2, SMTT(30)
        <5>3. CASE j # p
          <6>1. visits'[Item(j)] = visits[Item(j)]
            BY <1>12, <3>3, <5>3
          <6>2. j < p <=> j < p + 1
            BY <1>6, <3>3, <5>3, SMTT(30)
          <6>3. QED
            BY <5>1, <6>1, <6>2
        <5>4. QED
          BY <5>2, <5>3
      <4>2. \A u \in Threads : Runs(u) /\ ithr[u] = k => u = t
        BY <1>4, <3>4
      <4>3. QED
        BY <1>1, <1>4, <1>10, <3>4, <4>1, <4>2
    <3>5. CASE k # i
      <4>1. j # p
        <5>1. k < i \/ i < k
          BY <1>4, <3>5, SMTT(30)
        <5>2. (k < i => To(k) <= From(i)) /\ (i < k => To(i) <= From(k))
          BY <1>4, <1>5, CallShares
        <5>3. QED
          BY <1>5, <1>6, <3>2, <5>1, <5>2, SMTT(30)
      <4>2. visits'[Item(j)] = visits[Item(j)]
        BY <1>12, <3>3, <4>1
      <4>3. \A u \in Threads : Runs(u) /\ ithr[u] = k => iter'[u] = iter[u]
        BY <1>10, <3>5
      <4>4. QED
        BY <3>1, <4>2, <4>3
    <3>6. QED
      BY <3>4, <3>5
  <2>2. visits' \in [Items(D0, D1)' -> Nat]
    BY <1>1, <1>12 DEF Items
  <2>3. QED
    BY <1>1, <1>2, <1>3, <1>11, <2>1, <2>2, SMTT(30) DEF VisitInv
<1>15. QED
  BY <1>13, <1>14

(* A call starts with nothing visited and every task to do. *)
LEMMA CallStep ==
  ASSUME RunInv, IterInv, VisitInv, NEW d0 \in Nat, NEW d1 \in Nat, Call(d0, d1)
  PROVE  IterInv' /\ VisitInv'
<1> DEFINE n == AdjustNumThreads(d0 * d1)
           alone == n = 1 \/ kind \in {"none", "busy"}
           x == IF n = 0 THEN "return" ELSE IF alone THEN "next" ELSE "submit"
<1>1. n \in Nat
  BY AdjustBounds, SMTT(30)
<1>2. /\ pc[Caller] = "idle" /\ pc' = [pc EXCEPT ![Caller] = x]
      /\ D0' = d0 /\ D1' = d1 /\ nthr' = n /\ calls' = calls + 1
      /\ visits' = [i \in Items(d0, d1) |-> 0] /\ tasks' = tasks /\ iter' = iter
      /\ ithr' = [ithr EXCEPT ![Caller] = 0]
  BY DEF Call, Goto
<1>3. tasks = {} /\ \A w \in Workers : pc[w] = "idle"
  BY <1>2 DEF RunInv, PhaseInv, Alone
<1>4. pc'[Caller] = x /\ \A w \in Workers : pc'[w] = "idle"
  BY <1>2, <1>3, WhoIsWho DEF RunInv, TypeInv
<1>5. \A t \in Threads : ~Runs(t)'
  BY <1>4, WhoIsWho DEF Runs
<1>6. ithr' \in [Threads -> Nat] /\ ithr'[Caller] = 0
  BY <1>2, WhoIsWho DEF IterInv
<1>7. n # 0 => \A i \in 0 .. n - 1 : Unstarted(i)'
  BY <1>1, <1>4, <1>6, SMTT(30) DEF Unstarted
<1>8. IterInv'
  BY <1>1, <1>2, <1>5, <1>6, SMTT(30) DEF IterInv
<1>9. VisitInv'
  <2>1. calls' \in Nat /\ calls' # 0
    BY <1>2, SMTT(30) DEF VisitInv
  <2>2. visits' \in [Items(d0, d1) -> Nat]
    BY <1>2
  <2>3. ASSUME NEW i \in 0 .. n - 1, NEW j \in From(i)' .. To(i)' - 1
        PROVE  visits'[Item(j)'] = 0 /\ Unstarted(i)'
    <3>1. n \in Nat \ {0} /\ d0 * d1 \in Nat /\ n <= d0 * d1
      BY <1>1, AdjustBounds, SMTT(30)
    <3>2. d0 * d1 \in Nat \ {0} /\ d0 \in Nat \ {0} /\ d1 \in Nat \ {0}
      BY <3>1, SMTT(30)
    <3>3. From(i)' \in Nat /\ To(i)' \in Nat
      BY <1>2, <3>1, <3>2, TeamShares DEF From, To
    <3>4. Item(j)' \in Items(d0, d1)
      <4>1. j \in Nat
        BY <3>3, SMTT(30)
      <4>2. (j \div d1) % d0 \in 0 .. d0 - 1 /\ j % d1 \in 0 .. d1 - 1
        BY <3>2, <4>1, ItemInShape, ZenonT(20)
      <4>3. QED
        BY <1>2, <4>2 DEF Item, Items
    <3>5. QED
      BY <1>1, <1>2, <1>7, <3>4, SMTT(30)
  <2>4. QED
    BY <1>2, <1>5, <2>1, <2>2, <2>3 DEF VisitInv
<1>10. QED
  BY <1>8, <1>9

(* The caller that works alone takes the tasks one after the other. *)
LEMMA AloneNextStep ==
  ASSUME RunInv, IterInv, VisitInv, AloneNext
  PROVE  IterInv' /\ VisitInv'
<1>1. pc[Caller] = "next" /\ UNCHANGED <<D0, D1, nthr, visits, calls, tasks, ithr>>
  BY DEF AloneNext, call, history
<1>2. tasks = {} /\ \A w \in Workers : pc[w] = "idle"
  BY <1>1 DEF RunInv, PhaseInv, Alone
<1>3. ithr[Caller] \in 0 .. nthr /\ nthr \in Nat /\ TypeInv /\ ithr \in [Threads -> Nat]
  BY <1>1, WhoIsWho, ThreadsAssumption, SMTT(30) DEF IterInv, RunInv, TypeInv
<1>4. \A t \in Threads : ~Runs(t)
  BY <1>1, <1>2, WhoIsWho DEF Runs
<1>5. \A k : Unstarted(k) <=> ithr[Caller] <= k
  BY <1>1, <1>2 DEF Unstarted
<1>6. CASE ithr[Caller] < nthr
  <2>1. /\ pc' = [pc EXCEPT ![Caller] = "alone"]
        /\ iter' = [iter EXCEPT ![Caller] = ForNdStart(ithr[Caller], nthr, D0, D1)]
    BY <1>6 DEF AloneNext, Goto
  <2>2. pc'[Caller] = "alone" /\ \A u \in Threads : u # Caller => pc'[u] = pc[u]
    BY <2>1, WhoIsWho DEF RunInv, TypeInv
  <2>3. ithr[Caller] \in 0 .. nthr - 1
    BY <1>3, <1>6, SMTT(30)
  <2>4. \A k \in 0 .. nthr - 1 : Unstarted(k)' <=> Unstarted(k) /\ k # ithr[Caller]
    BY <1>1, <1>2, <1>3, <1>5, <2>2, SMTT(30) DEF Unstarted
  <2>5. Runs(Caller)' /\ \A u \in Threads : u # Caller => (Runs(u)' <=> Runs(u))
    BY <2>2 DEF Runs
  <2>6. Unstarted(ithr[Caller]) /\ ithr' = ithr /\ SameCall /\ pc'[Caller] # "next"
    BY <1>1, <1>3, <1>5, <2>2, SMTT(30) DEF SameCall
  <2>7. QED
    BY <1>3, <1>4, <2>1, <2>3, <2>4, <2>5, <2>6, WhoIsWho, StartStep
<1>7. CASE ~(ithr[Caller] < nthr)
  <2>1. pc' = [pc EXCEPT ![Caller] = "return"] /\ iter' = iter /\ ithr' = ithr /\ SameCall
    BY <1>1, <1>7 DEF AloneNext, Goto, SameCall
  <2>2. pc'[Caller] = "return" /\ \A u \in Threads : u # Caller => pc'[u] = pc[u]
    BY <2>1, WhoIsWho DEF RunInv, TypeInv
  <2>3. \A k \in 0 .. nthr - 1 : Unstarted(k)' <=> Unstarted(k)
    BY <1>1, <1>2, <1>3, <1>5, <1>7, <2>2, SMTT(30) DEF Unstarted
  <2>4. \A u \in Threads : Runs(u)' <=> Runs(u)
    BY <1>1, <2>2 DEF Runs
  <2>5. QED
    BY <1>3, <2>1, <2>2, <2>3, <2>4, NoWorkStep
<1>8. QED
  BY <1>6, <1>7

(* ... and goes on with the next when one is over. *)
LEMMA AloneEndStep ==
  ASSUME RunInv, IterInv, VisitInv, AloneEnd
  PROVE  IterInv' /\ VisitInv'
<1>1. /\ pc[Caller] = "alone" /\ pc' = [pc EXCEPT ![Caller] = "next"]
      /\ UNCHANGED <<D0, D1, nthr, visits, calls, tasks, iter>>
      /\ ithr' = [ithr EXCEPT ![Caller] = ithr[Caller] + 1]
      /\ iter[Caller].iwork >= iter[Caller].end
  BY DEF AloneEnd, Goto, call, history
<1>2. tasks = {} /\ TypeInv
  BY <1>1 DEF RunInv, PhaseInv, Alone
<1>3. Runs(Caller)
  BY <1>1 DEF Runs
<1>4. ithr \in [Threads -> Nat] /\ ithr[Caller] \in 0 .. nthr - 1 /\ nthr \in Nat
  BY <1>3, WhoIsWho, ThreadsAssumption, SMTT(30) DEF IterInv, RunInv, TypeInv
<1>5. /\ ithr' \in [Threads -> Nat] /\ ithr'[Caller] = ithr[Caller] + 1
      /\ \A u \in Threads : u # Caller => ithr'[u] = ithr[u]
  BY <1>1, <1>4, WhoIsWho, SMTT(30)
<1>6. pc'[Caller] = "next" /\ \A u \in Threads : u # Caller => pc'[u] = pc[u]
  BY <1>1, <1>2, WhoIsWho DEF TypeInv
<1>7. \A k \in 0 .. nthr - 1 : Unstarted(k)' <=> Unstarted(k)
  BY <1>1, <1>2, <1>4, <1>5, <1>6, SMTT(30) DEF Unstarted
<1>8. ~Runs(Caller)' /\ \A u \in Threads : u # Caller => (Runs(u)' <=> Runs(u))
  BY <1>6 DEF Runs
<1>9. ithr'[Caller] <= nthr /\ SameCall /\ iter' = iter
  BY <1>1, <1>4, <1>5, SMTT(30) DEF SameCall
<1>10. QED
  BY <1>1, <1>2, <1>3, <1>5, <1>7, <1>8, <1>9, WhoIsWho, EndStep

(* The pool hands a task to a thread: nobody else runs it or will. *)
LEMMA TaskStartStep ==
  ASSUME RunInv, IterInv, VisitInv, NEW t \in Threads, NEW i, TaskStart(t, i)
  PROVE  IterInv' /\ VisitInv'
<1>1. /\ i \in tasks /\ pc[t] = (IF t = Caller THEN "join" ELSE "idle")
      /\ pc' = [pc EXCEPT ![t] = "run"] /\ tasks' = tasks \ {i}
      /\ ithr' = [ithr EXCEPT ![t] = i]
      /\ iter' = [iter EXCEPT ![t] = ForNdStart(i, nthr, D0, D1)]
      /\ SameCall
  BY DEF TaskStart, call, history, SameCall
<1>2. pc[Caller] \notin Alone /\ TypeInv /\ i \in 0 .. nthr - 1
  BY <1>1 DEF RunInv, PhaseInv, TypeInv
<1>3. pc'[t] = "run" /\ \A u \in Threads : u # t => pc'[u] = pc[u]
  BY <1>1, <1>2 DEF TypeInv
<1>4. pc'[Caller] \notin Alone
  BY <1>2, <1>3, WhoIsWho DEF Alone
<1>5. \A k \in 0 .. nthr - 1 : Unstarted(k)' <=> Unstarted(k) /\ k # i
  BY <1>1, <1>2, <1>4 DEF Unstarted, Alone
<1>6. /\ Unstarted(i) /\ ~Runs(t) /\ Runs(t)' /\ pc'[Caller] # "next"
      /\ \A u \in Threads : u # t => (Runs(u)' <=> Runs(u))
  BY <1>1, <1>3, <1>4 DEF Unstarted, Runs, Alone
<1>7. /\ ithr' \in [Threads -> Nat] /\ ithr'[t] = i
      /\ \A u \in Threads : u # t => ithr'[u] = ithr[u]
  BY <1>1, <1>2, SMTT(30) DEF IterInv
<1>8. QED
  BY <1>1, <1>2, <1>5, <1>6, <1>7, StartStep

(* The end of a task. *)
LEMMA TaskEndStep ==
  ASSUME RunInv, IterInv, VisitInv, NEW t \in Threads, TaskEnd(t)
  PROVE  IterInv' /\ VisitInv'
<1>1. /\ pc[t] = "run" /\ pc' = [pc EXCEPT ![t] = AfterTask(t)]
      /\ AfterTask(t) \in {"notify", "join", "idle"}
      /\ SameCall /\ tasks' = tasks /\ ithr' = ithr /\ iter' = iter
      /\ iter[t].iwork >= iter[t].end
  BY DEF TaskEnd, Goto, AfterTask, call, history, SameCall
<1>2. TypeInv /\ pc[Caller] \notin Alone
  BY <1>1, WhoIsWho DEF RunInv, PhaseInv, Alone
<1>3. pc'[t] \in {"notify", "join", "idle"} /\ \A u \in Threads : u # t => pc'[u] = pc[u]
  BY <1>1, <1>2 DEF TypeInv
<1>4. \A k \in 0 .. nthr - 1 : Unstarted(k)' <=> Unstarted(k)
  BY <1>1, <1>2, <1>3, WhoIsWho DEF Unstarted, Alone
<1>5. /\ Runs(t) /\ ~Runs(t)' /\ pc'[Caller] # "next"
      /\ \A u \in Threads : u # t => (Runs(u)' <=> Runs(u))
  BY <1>1, <1>2, <1>3, WhoIsWho DEF Runs, Alone
<1>6. ithr' \in [Threads -> Nat]
  BY <1>1 DEF IterInv
<1>7. QED
  BY <1>1, <1>2, <1>4, <1>5, <1>6, EndStep

(* parallel_for gets all the tasks. *)
LEMMA SubmitStep ==
  ASSUME RunInv, IterInv, VisitInv, Submit
  PROVE  IterInv' /\ VisitInv'
<1>1. /\ pc[Caller] = "submit"
      /\ pc' = [pc EXCEPT ![Caller] = IF kind = "async" THEN "wait" ELSE "join"]
      /\ SameCall /\ tasks' = 0 .. nthr - 1 /\ ithr' = ithr /\ iter' = iter
  BY DEF Submit, Goto, call, history, SameCall
<1>2. pc'[Caller] \in {"wait", "join"} /\ \A u \in Threads : u # Caller => pc'[u] = pc[u]
  BY <1>1, WhoIsWho DEF RunInv, TypeInv
<1>3. \A k \in 0 .. nthr - 1 : Unstarted(k)' <=> Unstarted(k)
  BY <1>1, <1>2 DEF Unstarted
<1>4. \A u \in Threads : Runs(u)' <=> Runs(u)
  BY <1>1, <1>2 DEF Runs
<1>5. QED
  BY <1>1, <1>2, <1>3, <1>4, NoWorkStep DEF RunInv

(* The steps of the barrier, of the hooks and the ends of parallel_for and *)
(* of parallel() leave the work alone.                                     *)
LEMMA QuietStep ==
  ASSUME RunInv, IterInv, VisitInv, SameCall, tasks' = tasks, ithr' = ithr, iter' = iter,
         \A t \in Threads : \/ pc'[t] = pc[t]
                            \/ /\ pc[t] \notin {"run", "alone", "submit", "next"}
                               /\ pc'[t] \notin {"run", "alone", "submit", "next"}
  PROVE  IterInv' /\ VisitInv'
<1>1. \A k \in 0 .. nthr - 1 : Unstarted(k)' <=> Unstarted(k)
  BY WhoIsWho DEF Unstarted
<1>2. \A u \in Threads : Runs(u)' <=> Runs(u)
  BY DEF Runs
<1>3. pc'[Caller] = "next" => pc[Caller] = "next"
  BY WhoIsWho
<1>4. QED
  BY <1>1, <1>2, <1>3, NoWorkStep DEF RunInv

(* Every step keeps the invariant of the work. *)
LEMMA WorkStep ==
  ASSUME RunInv, IterInv, VisitInv, [Next]_vars
  PROVE  IterInv' /\ VisitInv'
<1> DEFINE Quiet == \A t \in Threads : \/ pc'[t] = pc[t]
                                       \/ /\ pc[t] \notin {"run", "alone", "submit", "next"}
                                          /\ pc'[t] \notin {"run", "alone", "submit", "next"}
           Same == SameCall /\ tasks' = tasks /\ ithr' = ithr /\ iter' = iter
<1>1. ASSUME NEW t \in Threads, NEW x, pc' = [pc EXCEPT ![t] = x],
             pc[t] \notin {"run", "alone", "submit", "next"},
             x \notin {"run", "alone", "submit", "next"}
      PROVE  Quiet
  BY <1>1 DEF RunInv, TypeInv
<1>2. ASSUME Same, Quiet
      PROVE  IterInv' /\ VisitInv'
  BY <1>2, QuietStep
<1>3. ASSUME NEW shape \in Shapes, Call(shape[1], shape[2])
      PROVE  IterInv' /\ VisitInv'
  <2>1. shape[1] \in Nat /\ shape[2] \in Nat
    BY ShapesAssumption
  <2>2. QED
    BY <1>3, <2>1, CallStep
<1>4. ASSUME Join \/ WaitOr \/ WaitLock \/ WaitCheck \/ Return \/ WakeSpuriously
      PROVE  IterInv' /\ VisitInv'
  <2>1. Same
    BY <1>4 DEF Join, WaitOr, WaitLock, WaitCheck, Return, WakeSpuriously, call, work, history, SameCall
  <2>2. Caller \in Threads
    BY WhoIsWho
  <2>3. CASE Join
    BY <1>1, <2>2, <2>3, <1>2, <2>1 DEF Join, Goto
  <2>4. CASE WaitOr
    <3>1. (IF state = 0 THEN "return" ELSE "wait_lock") \notin {"run", "alone", "submit", "next"}
      OBVIOUS
    <3>2. QED
      BY <1>1, <1>2, <2>1, <2>2, <2>4, <3>1 DEF WaitOr, Goto
  <2>5. CASE WaitLock
    BY <1>1, <1>2, <2>1, <2>2, <2>5 DEF WaitLock, Goto
  <2>6. CASE WaitCheck
    <3>1. (IF notified THEN "return" ELSE "sleep") \notin {"run", "alone", "submit", "next"}
      OBVIOUS
    <3>2. QED
      BY <1>1, <1>2, <2>1, <2>2, <2>6, <3>1 DEF WaitCheck, Goto
  <2>7. CASE Return
    BY <1>1, <1>2, <2>1, <2>2, <2>7 DEF Return, Goto
  <2>8. CASE WakeSpuriously
    BY <1>1, <1>2, <2>1, <2>2, <2>8 DEF WakeSpuriously, Goto
  <2>9. QED
    BY <1>4, <2>3, <2>4, <2>5, <2>6, <2>7, <2>8
<1>5. ASSUME NEW t \in Threads, NotifySub(t) \/ NotifyLock(t) \/ NotifyUnlock(t) \/ NotifySet(t)
      PROVE  IterInv' /\ VisitInv'
  <2>1. Same
    BY <1>5 DEF NotifySub, NotifyLock, NotifyUnlock, NotifySet, call, work, history, SameCall
  <2>2. CASE NotifySub(t)
    <3> DEFINE x == IF (state - 1) % (2 * WaiterMask) = WaiterMask THEN "notify_lock" ELSE "idle"
    <3>1. pc' = [pc EXCEPT ![t] = x] /\ x \notin {"run", "alone", "submit", "next"}
      BY <2>2 DEF NotifySub, Goto
    <3>2. pc[t] \notin {"run", "alone", "submit", "next"}
      BY <2>2 DEF NotifySub, Goto
    <3>3. QED
      BY <1>1, <1>2, <2>1, <3>1, <3>2
  <2>3. CASE NotifyLock(t)
    BY <1>1, <1>2, <2>1, <2>3 DEF NotifyLock, Goto
  <2>4. CASE NotifyUnlock(t)
    BY <1>1, <1>2, <2>1, <2>4 DEF NotifyUnlock, Goto
  <2>5. CASE NotifySet(t)
    <3>1. pc[t] = "notify_set" /\ t # Caller
      BY <2>5, WhoIsWho DEF NotifySet, RunInv, TypeInv, CallerPCs
    <3>2. pc' = [pc EXCEPT ![t] = "notify_unlock",
                           ![Caller] = IF pc[Caller] = "sleep" THEN "wait_lock" ELSE pc[Caller]]
      BY <2>5, <3>1 DEF NotifySet, RunInv, TypeInv
    <3>3. Quiet
      BY <3>1, <3>2, WhoIsWho DEF RunInv, TypeInv
    <3>4. QED
      BY <1>2, <2>1, <3>3
  <2>6. QED
    BY <1>5, <2>2, <2>3, <2>4, <2>5
<1>6. ASSUME (\E k \in Kinds : BeforeExec(k)) \/ AfterExec \/ Done \/ UNCHANGED vars
      PROVE  IterInv' /\ VisitInv'
  <2>1. Same /\ pc' = pc
    BY <1>6 DEF BeforeExec, AfterExec, Done, vars, call, work, history, SameCall
  <2>2. QED
    BY <1>2, <2>1
<1>7. ASSUME NEW t \in Threads, NEW i \in tasks, TaskStart(t, i)
      PROVE  IterInv' /\ VisitInv'
  BY <1>7, TaskStartStep
<1>8. TypeInv
  BY DEF RunInv
<1> HIDE DEF Quiet, Same
<1>9. QED
  BY <1>3, <1>4, <1>5, <1>6, <1>7, <1>8, AloneNextStep, AloneEndStep, SubmitStep, IterateStep,
     TaskEndStep DEF Next, CallerStep, TaskStep

(* The whole invariant holds throughout. *)
THEOREM ParallelInvHolds == Spec => []ParallelInv
<1>1. ASSUME Init
      PROVE  IterInv /\ VisitInv
  <2>1. nthr = 0 /\ \A t \in Threads : ~Runs(t)
    BY <1>1 DEF Init, Runs
  <2>2. pc[Caller] = "idle"
    BY <1>1, WhoIsWho DEF Init
  <2>3. IterInv
    BY <1>1, <2>1, <2>2 DEF Init, IterInv
  <2>4. VisitInv
    BY <1>1, <2>1, SMTT(30) DEF Init, VisitInv
  <2>5. QED
    BY <2>3, <2>4
<1>2. ASSUME RunInv, IterInv /\ VisitInv, [Next]_vars
      PROVE  (IterInv /\ VisitInv)'
  BY <1>2, WorkStep
<1>3. QED
  BY <1>1, <1>2, RunInvHolds, PTL DEF Spec, ParallelInv

(* parallel_nd calls f exactly once for each pair of indices, for every    *)
(* shape, every number of threads and every pool: never twice, and not     *)
(* less than once when it returns.                                         *)
THEOREM ItemsVisitedOnce == Spec => []EachItemOnce
<1>1. ASSUME ParallelInv
      PROVE  EachItemOnce
  <2>1. TypeInv /\ PhaseInv /\ IterInv /\ VisitInv
    BY <1>1 DEF ParallelInv, RunInv
  <2>2. CASE calls = 0
    <3>1. DOMAIN visits = {}
      BY <2>1, <2>2, SMTT(30) DEF VisitInv
    <3>2. QED
      BY <3>1 DEF EachItemOnce
  <2>3. CASE calls # 0
    <3>1. visits \in [Items(D0, D1) -> Nat]
      BY <2>1, <2>3, SMTT(30) DEF VisitInv
    <3>2. ASSUME NEW it \in Items(D0, D1)
          PROVE  /\ visits[it] <= 1
                 /\ pc[Caller] \in {"return", "idle"} => visits[it] = 1
      <4>1. nthr # 0
        <5>1. D0 \in Nat /\ D1 \in Nat /\ nthr = AdjustNumThreads(D0 * D1)
          BY <2>1 DEF TypeInv
        <5>2. D0 # 0 /\ D1 # 0
          BY <5>1, SMTT(30) DEF Items
        <5>3. D0 * D1 # 0
          BY <5>1, <5>2, SMTT(30)
        <5>4. QED
          BY <5>1, <5>3, AdjustBounds
      <4>2. PICK j \in 0 .. D0 * D1 - 1 : Item(j) = it
        BY <2>1, <4>1, CallItems
      <4>3. PICK i \in 0 .. nthr - 1 : From(i) <= j /\ j < To(i)
        BY <2>1, <4>1, CallShares
      <4>4. From(i) \in Nat /\ To(i) \in Nat
        BY <2>1, <4>1, CallShares
      <4>5. j \in From(i) .. To(i) - 1
        BY <4>3, <4>4, SMTT(30)
      <4>6. /\ Unstarted(i) => visits[it] = 0
            /\ \A t \in Threads : Runs(t) /\ ithr[t] = i =>
                  visits[it] = IF j < iter[t].iwork THEN 1 ELSE 0
            /\ ~Unstarted(i) /\ (\A t \in Threads : Runs(t) => ithr[t] # i) => visits[it] = 1
        BY <2>1, <4>2, <4>5 DEF VisitInv
      <4>7. visits[it] <= 1
        BY <4>6, SMTT(30)
      <4>8. ASSUME pc[Caller] \in {"return", "idle"}
            PROVE  visits[it] = 1
        <5>1. tasks = {} /\ \A w \in Workers : pc[w] = "idle"
          BY <2>1, <4>8 DEF PhaseInv, Alone
        <5>2. ~Unstarted(i)
          BY <4>8, <5>1 DEF Unstarted
        <5>3. \A t \in Threads : ~Runs(t)
          BY <4>8, <5>1, WhoIsWho DEF Runs
        <5>4. QED
          BY <4>6, <5>2, <5>3
      <4>9. QED
        BY <4>7, <4>8
    <3>3. QED
      BY <3>1, <3>2 DEF EachItemOnce
  <2>4. QED
    BY <2>2, <2>3
<1>2. QED
  BY <1>1, ParallelInvHolds, PTL
=============================================================================
