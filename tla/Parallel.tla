------------------------------ MODULE Parallel ------------------------------
(***************************************************************************)
(* parallel_nd over two dimensions in a build with the threadpool runtime  *)
(* (common/dnnl_thread_parallel_nd.hpp): the caller cuts the work into     *)
(* nthr tasks, the application's threadpool runs them, and with an         *)
(* asynchronous pool the caller waits on a counting_barrier that lives on  *)
(* its stack (common/counting_barrier.hpp).                                *)
(*                                                                         *)
(* The pool is the application's.  A synchronous one runs tasks in its     *)
(* workers and in the caller, and parallel_for returns after the last one; *)
(* an asynchronous one returns at once.  Without a pool, or with one that  *)
(* is already running a parallel section, the caller does all the work.    *)
(***************************************************************************)
EXTENDS Balance211, FiniteSets

CONSTANTS Caller, Workers,
          MaxThreads,     \* dnnl_get_max_threads()
          Shapes,         \* the values of <<D0, D1>>
          Kinds,          \* some of "none", "busy", "sync", "async"
          WaiterMask,     \* 2^31: the bit of state_ that a waiter sets
          MaxCalls        \* bound: calls of parallel_nd

NoThread == "no thread"

ASSUME CallerAssumption == Caller \notin Workers /\ NoThread \notin Workers \cup {Caller}
ASSUME WorkersAssumption == IsFiniteSet(Workers)
ASSUME ThreadsAssumption == MaxThreads \in Nat \ {0}
ASSUME ShapesAssumption == Shapes \subseteq Nat \X Nat
ASSUME MaskAssumption == WaiterMask \in Nat /\ MaxThreads < WaiterMask

Threads == Workers \cup {Caller}

VARIABLES
    kind,     \* what the caller finds: no pool, a busy one, a pool
    executing,\* between before_exec_hook and after_exec_hook
    D0, D1, nthr,
    tasks,    \* the tasks parallel_for has not started yet
    left,     \* sync: the number of tasks that are not finished
    pc,       \* per thread
    ithr,     \* per thread: the task it runs
    master,   \* per thread: is_master of the task it runs
    active,   \* per thread: active_threadpool is the pool
    iter,     \* per thread: iwork, end, d0 and d1 of for_nd
    state, notified, mutex,   \* the counting_barrier b
    alive,    \* b exists
    visits,   \* history: how often f was called for each <<d0, d1>>
    calls

call == <<kind, executing, D0, D1, nthr>>
work == <<tasks, left, ithr, master, active, iter>>
barrier == <<state, notified, mutex, alive>>
history == <<visits, calls>>
vars == <<call, work, barrier, history, pc>>

Free == mutex = NoThread
Items(d0, d1) == (0 .. d0 - 1) \X (0 .. d1 - 1)

Init ==
    /\ kind = "none" /\ executing = FALSE
    /\ D0 = 0 /\ D1 = 0 /\ nthr = 0
    /\ tasks = {} /\ left = 0
    /\ pc = [t \in Threads |-> "idle"]
    /\ ithr = [t \in Threads |-> 0]
    /\ master = [t \in Threads |-> FALSE]
    /\ active = [t \in Threads |-> FALSE]
    /\ iter = [t \in Threads |-> [iwork |-> 0, end |-> 0, d0 |-> 0, d1 |-> 0]]
    /\ state = 0 /\ notified = FALSE /\ mutex = NoThread /\ alive = FALSE
    /\ visits = << >>
    /\ calls = 0

Goto(t, from, to) == pc[t] = from /\ pc' = [pc EXCEPT ![t] = to]

-----------------------------------------------------------------------------
(* balance211 and nd_iterator_init at the start of for_nd(i, nthr, D0, D1, f). *)
ForNdStart(i, n, d0, d1) ==
    LET b == Balance211(d0 * d1, n, i)
    IN [iwork |-> b.start, end |-> b.end,
        d0 |-> (b.start \div d1) % d0, d1 |-> b.start % d1]

(* Mutant: the outer dimension does not advance. *)
StepInner(it, n0, n1) ==
    [it EXCEPT !.iwork = @ + 1, !.d1 = IF @ + 1 >= n1 THEN 0 ELSE @ + 1]

(* The end of an iteration: nd_iterator_step. *)
StepNd(it, n0, n1) ==
    LET carry == it.d1 + 1 >= n1
    IN [iwork |-> it.iwork + 1, end |-> it.end,
        d0 |-> IF ~carry THEN it.d0 ELSE IF it.d0 + 1 >= n0 THEN 0 ELSE it.d0 + 1,
        d1 |-> IF carry THEN 0 ELSE it.d1 + 1]

-----------------------------------------------------------------------------
(* before_exec_hook of a stream whose threadpool is of kind k. *)
BeforeExec(k) ==
    /\ pc[Caller] = "idle"
    /\ ~executing /\ calls < MaxCalls
    /\ executing' = TRUE
    /\ kind' = k
    /\ active' = [active EXCEPT ![Caller] = k # "none"]
    /\ UNCHANGED <<D0, D1, nthr, tasks, left, pc, ithr, master, iter, barrier,
                   history>>

(* after_exec_hook *)
AfterExec ==
    /\ pc[Caller] = "idle"
    /\ executing
    /\ executing' = FALSE
    /\ kind' = "none"
    /\ active' = [active EXCEPT ![Caller] = FALSE]
    /\ UNCHANGED <<D0, D1, nthr, tasks, left, pc, ithr, master, iter, barrier,
                   history>>

(* adjust_num_threads(0, amount) without OpenMP *)
AdjustNumThreads(amount) == IF MaxThreads < amount THEN MaxThreads ELSE amount

(* parallel_nd(d0, d1, f): the number of threads, and the branch parallel()   *)
(* takes.  Without work nothing is called.                                 *)
Call(d0, d1) ==
    LET n == AdjustNumThreads(d0 * d1)
        alone == n = 1 \/ kind \in {"none", "busy"}
    IN /\ calls < MaxCalls
       /\ calls' = calls + 1
       /\ D0' = d0 /\ D1' = d1 /\ nthr' = n
       /\ visits' = [i \in Items(d0, d1) |-> 0]
       /\ Goto(Caller, "idle", IF n = 0 THEN "return"
                               ELSE IF alone THEN "next" ELSE "submit")
       /\ ithr' = [ithr EXCEPT ![Caller] = 0]
       /\ active' = [active EXCEPT ![Caller] = @ /\ ~(n > 1 /\ alone)]
       /\ UNCHANGED <<kind, executing, tasks, left, master, iter, barrier>>

(* The loop over ithr of a caller that works alone. *)
AloneNext ==
    /\ pc[Caller] = "next"
    /\ IF ithr[Caller] < nthr
       THEN /\ Goto(Caller, "next", "alone")
            /\ iter' = [iter EXCEPT ![Caller] = ForNdStart(ithr[Caller], nthr, D0, D1)]
            /\ UNCHANGED active
       ELSE /\ Goto(Caller, "next", "return")
            /\ active' = [active EXCEPT ![Caller] = kind # "none"]
            /\ UNCHANGED iter
    /\ UNCHANGED <<call, tasks, left, ithr, master, barrier, history>>

(* Mutant: the barrier expects one notification less. *)
SubmitShort ==
    /\ Goto(Caller, "submit", IF kind = "async" THEN "wait" ELSE "join")
    /\ tasks' = 0 .. nthr - 1
    /\ left' = IF kind = "async" THEN 0 ELSE nthr
    /\ alive' = TRUE
    /\ notified' = FALSE
    /\ state' = IF kind = "async" THEN nthr - 1 ELSE 0
    /\ UNCHANGED <<call, ithr, master, active, iter, mutex, history>>

(* b.init(nthr) for an asynchronous pool, and tp->parallel_for. *)
Submit ==
    /\ Goto(Caller, "submit", IF kind = "async" THEN "wait" ELSE "join")
    /\ tasks' = 0 .. nthr - 1
    /\ left' = IF kind = "async" THEN 0 ELSE nthr
    /\ alive' = TRUE
    /\ notified' = FALSE
    /\ state' = IF kind = "async" THEN nthr ELSE 0
    /\ UNCHANGED <<call, ithr, master, active, iter, mutex, history>>

(* The pool hands task i to thread t: is_master, activate_threadpool and   *)
(* the start of for_nd.                                                    *)
TaskStart(t, i) ==
    /\ i \in tasks
    /\ pc[t] = IF t = Caller THEN "join" ELSE "idle"
    /\ pc' = [pc EXCEPT ![t] = "run"]
    /\ tasks' = tasks \ {i}
    /\ ithr' = [ithr EXCEPT ![t] = i]
    /\ master' = [master EXCEPT ![t] = active[t]]
    /\ active' = [active EXCEPT ![t] = TRUE]
    /\ iter' = [iter EXCEPT ![t] = ForNdStart(i, nthr, D0, D1)]
    /\ UNCHANGED <<call, left, barrier, history>>

(* One iteration of for_nd. *)
Iterate(t) ==
    /\ pc[t] \in {"run", "alone"}
    /\ iter[t].iwork < iter[t].end
    /\ visits' = [visits EXCEPT ![<<iter[t].d0, iter[t].d1>>] = @ + 1]
    /\ iter' = [iter EXCEPT ![t] = StepNd(@, D0, D1)]
    /\ UNCHANGED <<call, tasks, left, pc, ithr, master, active, barrier, calls>>

(* for_nd ends in a caller that works alone. *)
AloneEnd ==
    /\ Goto(Caller, "alone", "next")
    /\ iter[Caller].iwork >= iter[Caller].end
    /\ ithr' = [ithr EXCEPT ![Caller] = @ + 1]
    /\ UNCHANGED <<call, tasks, left, master, active, iter, barrier, history>>

(* Where a thread goes when its task is over: to notify(), or back into a  *)
(* synchronous pool.                                                       *)
AfterTask(t) ==
    IF kind = "async" THEN "notify" ELSE IF t = Caller THEN "join" ELSE "idle"

(* Mutant: a worker keeps the pool active. *)
TaskEndKeepsPool(t) ==
    /\ Goto(t, "run", AfterTask(t))
    /\ iter[t].iwork >= iter[t].end
    /\ left' = IF kind = "async" THEN left ELSE left - 1
    /\ UNCHANGED <<call, tasks, ithr, master, active, iter, barrier, history>>

(* for_nd ends in a task: deactivate_threadpool unless is_master. *)
TaskEnd(t) ==
    /\ Goto(t, "run", AfterTask(t))
    /\ iter[t].iwork >= iter[t].end
    /\ active' = [active EXCEPT ![t] = master[t]]
    /\ left' = IF kind = "async" THEN left ELSE left - 1
    /\ UNCHANGED <<call, tasks, ithr, master, iter, barrier, history>>

(* parallel_for of a synchronous pool returns. *)
Join ==
    /\ left = 0
    /\ Goto(Caller, "join", "return")
    /\ UNCHANGED <<call, work, barrier, history>>

-----------------------------------------------------------------------------
(* counting_barrier::notify *)

(* Mutant: the last notification does not expect the bit of the waiter. *)
NotifySubNoMask(t) ==
    LET s == (state - 1) % (2 * WaiterMask)
    IN /\ Goto(t, "notify", IF s = 0 THEN "notify_lock" ELSE "idle")
       /\ state' = s
       /\ UNCHANGED <<call, work, notified, mutex, alive, history>>

NotifySub(t) ==
    LET s == (state - 1) % (2 * WaiterMask)
    IN /\ Goto(t, "notify", IF s = WaiterMask THEN "notify_lock" ELSE "idle")
       /\ state' = s
       /\ UNCHANGED <<call, work, notified, mutex, alive, history>>

(* Mutant: notify() does not take the mutex. *)
NotifyLockSkipped(t) ==
    /\ Goto(t, "notify_lock", "notify_set")
    /\ UNCHANGED <<call, work, barrier, history>>

NotifyLock(t) ==
    /\ Goto(t, "notify_lock", "notify_set")
    /\ Free
    /\ mutex' = t
    /\ UNCHANGED <<call, work, state, notified, alive, history>>

(* notified_ = true, and notify_all wakes a caller that sleeps. *)
NotifySet(t) ==
    /\ pc[t] = "notify_set"
    /\ pc' = [pc EXCEPT ![t] = "notify_unlock",
                        ![Caller] = IF @ = "sleep" THEN "wait_lock" ELSE @]
    /\ notified' = TRUE
    /\ UNCHANGED <<call, work, state, mutex, alive, history>>

NotifyUnlock(t) ==
    /\ Goto(t, "notify_unlock", "idle")
    /\ mutex' = NoThread
    /\ UNCHANGED <<call, work, state, notified, alive, history>>

(* counting_barrier::wait *)
WaitOr ==
    /\ Goto(Caller, "wait", IF state = 0 THEN "return" ELSE "wait_lock")
    /\ state' = IF state < WaiterMask THEN state + WaiterMask ELSE state
    /\ UNCHANGED <<call, work, notified, mutex, alive, history>>

WaitLock ==
    /\ Goto(Caller, "wait_lock", "wait_check")
    /\ Free
    /\ mutex' = Caller
    /\ UNCHANGED <<call, work, state, notified, alive, history>>

(* The predicate of cv_.wait: go on, or sleep and release the mutex. *)
WaitCheck ==
    /\ Goto(Caller, "wait_check", IF notified THEN "return" ELSE "sleep")
    /\ mutex' = NoThread
    /\ UNCHANGED <<call, work, state, notified, alive, history>>

WakeSpuriously ==
    /\ Goto(Caller, "sleep", "wait_lock")
    /\ UNCHANGED <<call, work, barrier, history>>

(* parallel() returns and b is destroyed. *)
Return ==
    /\ Goto(Caller, "return", "idle")
    /\ alive' = FALSE
    /\ UNCHANGED <<call, work, state, notified, mutex, history>>

-----------------------------------------------------------------------------
CallerStep ==
    \/ AloneNext \/ AloneEnd \/ Submit \/ Join
    \/ WaitOr \/ WaitLock \/ WaitCheck \/ Return

TaskStep(t) ==
    \/ \E i \in tasks : TaskStart(t, i)
    \/ Iterate(t) \/ TaskEnd(t)
    \/ NotifySub(t) \/ NotifyLock(t) \/ NotifySet(t) \/ NotifyUnlock(t)

Done ==
    /\ calls = MaxCalls /\ ~executing
    /\ \A t \in Threads : pc[t] = "idle"
    /\ UNCHANGED vars

Next ==
    \/ \E shape \in Shapes : Call(shape[1], shape[2])
    \/ CallerStep
    \/ \E t \in Threads : TaskStep(t)
    \/ WakeSpuriously
    \/ \E k \in Kinds : BeforeExec(k)
    \/ AfterExec
    \/ Done

Spec == Init /\ [][Next]_vars

(* The system runs every thread that can run, the pool starts every task,  *)
(* and a thread that asks for a mutex which is released again and again    *)
(* gets it.                                                                *)
FairSpec ==
    /\ Spec
    /\ WF_vars(CallerStep)
    /\ \A t \in Threads : WF_vars(TaskStep(t)) /\ SF_vars(NotifyLock(t))

-----------------------------------------------------------------------------
TypeOK ==
    /\ tasks \subseteq 0 .. MaxThreads - 1
    /\ left \in 0 .. MaxThreads
    /\ state \in 0 .. 2 * WaiterMask - 1
    /\ mutex \in Threads \cup {NoThread}

(* The count in state_ is the number of tasks that have yet to notify, so  *)
(* the assertion in notify() holds; the mutex belongs to who is inside.    *)
CountingInv ==
    /\ TypeOK
    /\ alive /\ kind = "async" =>
         state % WaiterMask =
             Cardinality(tasks)
             + Cardinality({t \in Threads : pc[t] \in {"run", "notify"}})
    /\ \A t \in Threads :
         mutex = t <=> pc[t] \in {"notify_set", "notify_unlock", "wait_check"}

(* parallel_nd returns when f has been called exactly once for each pair   *)
(* of indices, however the pool distributes and orders the tasks.          *)
EachItemOnce ==
    /\ \A i \in DOMAIN visits : visits[i] <= 1
    /\ pc[Caller] \in {"return", "idle"} => \A i \in DOMAIN visits : visits[i] = 1

(* No task touches the barrier after the caller has left the function on   *)
(* whose stack it lives.                                                   *)
BarrierOutlivesNotify ==
    \A t \in Threads :
        pc[t] \in {"notify", "notify_lock", "notify_set", "notify_unlock"} => alive

(* A worker has no active pool between tasks, and the caller has the same  *)
(* one after the call as before.                                           *)
PoolRestored ==
    /\ \A w \in Workers : pc[w] = "idle" => ~active[w]
    /\ pc[Caller] = "idle" => (active[Caller] <=> executing /\ kind # "none")

(* Every call returns. *)
CallReturns == pc[Caller] # "idle" ~> pc[Caller] = "idle"
=============================================================================
