------------------------------ MODULE MaxCpuIsa ------------------------------
(***************************************************************************)
(* The maximal ISA the library dispatches to (cpu/x64/cpu_isa_traits.cpp): *)
(* a set_before_first_get_setting_t that dnnl_set_max_cpu_isa writes, that *)
(* the first use initialises from the environment, and that is frozen by   *)
(* the first get that is not soft.                                         *)
(*                                                                         *)
(* state_ is atomic: one action per load, compare-exchange and store.  A   *)
(* compare-exchange that fails because state_ is busy (or spuriously)      *)
(* leaves the thread in its loop, so it is no action.  value_ and          *)
(* initialized_ are plain members: their two stores in set() may reach     *)
(* other threads in either order.                                          *)
(*                                                                         *)
(* An argument that names no ISA is refused by set_max_cpu_isa before it   *)
(* touches the setting; Isas are the arguments that are not.               *)
(***************************************************************************)
EXTENDS Naturals

CONSTANTS Callers,
          Isas,        \* arguments of set_max_cpu_isa
          EnvIsa,      \* what init_max_cpu_isa reads from the environment
          NoIsa,       \* isa_any: T(0), the value before any set()
          MaxCalls     \* bound: calls per thread

ASSUME IsaAssumption == EnvIsa \in Isas /\ NoIsa \notin Isas
ASSUME CallsAssumption == MaxCalls \in Nat

VARIABLES
    value,        \* value_
    initialized,  \* initialized_
    state,        \* state_
    pc,           \* where each thread is
    user,         \* the thread is in set_max_cpu_isa (else get_max_cpu_isa)
    soft,         \* the argument of get_max_cpu_isa
    arg,          \* the argument of set()
    calls,        \* calls made by each thread
    answers,      \* history: the values hard gets have returned
    chosen        \* history: the value of the last set_max_cpu_isa that
                  \* returned success, NoIsa before that

isaVars == <<value, initialized, state, pc, user, soft, arg, calls, answers, chosen>>

Storing == {"store", "store_value", "store_flag", "unlock"}
PCs == {"idle", "init", "set_load", "set_cas", "get_load", "get_cas", "read"}
         \cup Storing

IsaTypeOK ==
    /\ value \in Isas \cup {NoIsa}
    /\ initialized \in BOOLEAN
    /\ state \in {"idle", "busy_setting", "locked_after_a_get"}
    /\ pc \in [Callers -> PCs]
    /\ user \in [Callers -> BOOLEAN]
    /\ soft \in [Callers -> BOOLEAN]
    /\ arg \in [Callers -> Isas]
    /\ calls \in [Callers -> 0 .. MaxCalls]
    /\ answers \subseteq Isas \cup {NoIsa}
    /\ chosen \in Isas \cup {NoIsa}

IsaInit ==
    /\ value = NoIsa
    /\ initialized = FALSE
    /\ state = "idle"
    /\ pc = [t \in Callers |-> "idle"]
    /\ user = [t \in Callers |-> FALSE]
    /\ soft = [t \in Callers |-> FALSE]
    /\ arg = [t \in Callers |-> EnvIsa]
    /\ calls = [t \in Callers |-> 0]
    /\ answers = {}
    /\ chosen = NoIsa

Goto(t, from, to) == pc[t] = from /\ pc' = [pc EXCEPT ![t] = to]

NewCall(t) == calls[t] < MaxCalls /\ calls' = [calls EXCEPT ![t] = @ + 1]

(* Where a thread goes when set() returns: out of set_max_cpu_isa, or on   *)
(* to the get() that follows init_max_cpu_isa.                             *)
AfterSet(t) == IF user[t] THEN "idle" ELSE "get_load"

-----------------------------------------------------------------------------
SetMaxCpuIsa(t, isa) ==
    /\ Goto(t, "idle", "set_load")
    /\ NewCall(t)
    /\ user' = [user EXCEPT ![t] = TRUE]
    /\ arg' = [arg EXCEPT ![t] = isa]
    /\ UNCHANGED <<value, initialized, state, soft, answers, chosen>>

GetMaxCpuIsa(t, s) ==
    /\ Goto(t, "idle", "init")
    /\ NewCall(t)
    /\ user' = [user EXCEPT ![t] = FALSE]
    /\ soft' = [soft EXCEPT ![t] = s]
    /\ UNCHANGED <<value, initialized, state, arg, answers, chosen>>

(* init_max_cpu_isa: a test of initialized(), then set(). *)
InitMaxCpuIsa(t) ==
    /\ Goto(t, "init", IF initialized THEN "get_load" ELSE "set_load")
    /\ arg' = [arg EXCEPT ![t] = EnvIsa]
    /\ UNCHANGED <<value, initialized, state, user, soft, calls, answers, chosen>>

-----------------------------------------------------------------------------
(* set() *)
SetLoad(t) ==
    /\ Goto(t, "set_load", IF state = "locked_after_a_get" THEN AfterSet(t)
                                                           ELSE "set_cas")
    /\ UNCHANGED <<value, initialized, state, user, soft, arg, calls, answers, chosen>>

(* Mutant: the exchange succeeds from any state. *)
SetAnyway(t) ==
    /\ Goto(t, "set_cas", "store")
    /\ state' = "busy_setting"
    /\ UNCHANGED <<value, initialized, user, soft, arg, calls, answers, chosen>>

(* Mutant: a setter keeps spinning on a locked setting. *)
SetSpins(t) ==
    /\ \/ /\ state = "idle"
          /\ Goto(t, "set_cas", "store")
          /\ state' = "busy_setting"
       \/ /\ state = "locked_after_a_get"
          /\ Goto(t, "set_cas", "set_cas")
          /\ UNCHANGED state
    /\ UNCHANGED <<value, initialized, user, soft, arg, calls, answers, chosen>>

SetExchange(t) ==
    /\ \/ /\ state = "idle"
          /\ Goto(t, "set_cas", "store")
          /\ state' = "busy_setting"
       \/ /\ state = "locked_after_a_get"
          /\ Goto(t, "set_cas", AfterSet(t))
          /\ UNCHANGED state
    /\ UNCHANGED <<value, initialized, user, soft, arg, calls, answers, chosen>>

SetValue(t) ==
    /\ Goto(t, "store", "store_flag") \/ Goto(t, "store_value", "unlock")
    /\ value' = arg[t]
    /\ UNCHANGED <<initialized, state, user, soft, arg, calls, answers, chosen>>

SetInitialized(t) ==
    /\ Goto(t, "store", "store_value") \/ Goto(t, "store_flag", "unlock")
    /\ initialized' = TRUE
    /\ UNCHANGED <<value, state, user, soft, arg, calls, answers, chosen>>

SetUnlock(t) ==
    /\ Goto(t, "unlock", AfterSet(t))
    /\ state' = "idle"
    /\ chosen' = IF user[t] THEN arg[t] ELSE chosen
    /\ UNCHANGED <<value, initialized, user, soft, arg, calls, answers>>

-----------------------------------------------------------------------------
(* get(soft) *)
GetLoad(t) ==
    /\ Goto(t, "get_load", IF ~soft[t] /\ state # "locked_after_a_get"
                           THEN "get_cas" ELSE "read")
    /\ UNCHANGED <<value, initialized, state, user, soft, arg, calls, answers, chosen>>

(* Mutant: the lock is taken while a setter is storing. *)
GetAnyway(t) ==
    /\ Goto(t, "get_cas", "read")
    /\ state' = "locked_after_a_get"
    /\ UNCHANGED <<value, initialized, user, soft, arg, calls, answers, chosen>>

GetExchange(t) ==
    /\ Goto(t, "get_cas", "read")
    /\ state \in {"idle", "locked_after_a_get"}
    /\ state' = "locked_after_a_get"
    /\ UNCHANGED <<value, initialized, user, soft, arg, calls, answers, chosen>>

GetReturn(t) ==
    /\ Goto(t, "read", "idle")
    /\ answers' = IF soft[t] THEN answers ELSE answers \cup {value}
    /\ UNCHANGED <<value, initialized, state, user, soft, arg, calls, chosen>>

-----------------------------------------------------------------------------
Call(t) ==
    \/ \E isa \in Isas : SetMaxCpuIsa(t, isa)
    \/ \E s \in BOOLEAN : GetMaxCpuIsa(t, s)

Step(t) ==
    \/ InitMaxCpuIsa(t)
    \/ SetLoad(t) \/ SetExchange(t) \/ SetValue(t) \/ SetInitialized(t) \/ SetUnlock(t)
    \/ GetLoad(t) \/ GetExchange(t) \/ GetReturn(t)

(* The end of a bounded execution. *)
Finished ==
    /\ \A t \in Callers : pc[t] = "idle" /\ calls[t] = MaxCalls
    /\ UNCHANGED isaVars

IsaNext == (\E t \in Callers : Call(t) \/ Step(t)) \/ Finished

IsaSpec == IsaInit /\ [][IsaNext]_isaVars

(* A thread inside a call keeps running. *)
IsaFairSpec == IsaSpec /\ \A t \in Callers : WF_isaVars(Step(t))

-----------------------------------------------------------------------------
(* Once one get has answered, the setting is frozen: no setter that was    *)
(* already past its first test of state_ changes it, and it is never       *)
(* unlocked.  Kernels generated earlier and later obey the same ISA.       *)
FrozenAfterGet ==
    [][state = "locked_after_a_get" =>
          value' = value /\ state' = "locked_after_a_get"]_isaVars

(* All hard gets, of all threads, return the same value, and that is never *)
(* the initial isa_any, although initialized_ is read without              *)
(* synchronisation.                                                        *)
HardGetsAgree ==
    /\ NoIsa \notin answers
    /\ \A x \in answers : x = value /\ state = "locked_after_a_get"

(* "This function overrides the DNNL_MAX_CPU_ISA environment variable":    *)
(* after a set_max_cpu_isa that returned success, and once no set() is in  *)
(* progress, the value is the one it has set.                              *)
UserOverridesEnvironment ==
    chosen # NoIsa /\ state # "busy_setting" => value = chosen

(* Every call returns, although both loops spin. *)
CallsReturn == \A t \in Callers : pc[t] # "idle" ~> pc[t] = "idle"

-----------------------------------------------------------------------------
(* At most one thread stores, exactly while state_ is busy. *)
OneSetter ==
    /\ \A t \in Callers : pc[t] \in Storing => state = "busy_setting"
    /\ \A t, u \in Callers : pc[t] \in Storing /\ pc[u] \in Storing => t = u

(* A value is there before anyone may lock the setting: a thread on its    *)
(* way to get() has seen initialized_, or set() has returned to it.        *)
ValueBeforeGet ==
    /\ initialized /\ (\A t \in Callers : pc[t] # "store_value") => value # NoIsa
    /\ \A t \in Callers : pc[t] \in {"get_load", "get_cas", "read", "store_value", "unlock"} => initialized
    /\ state = "locked_after_a_get" => initialized
    /\ \A t \in Callers : pc[t] = "store_flag" => value # NoIsa
    /\ \A t \in Callers : pc[t] = "unlock" => value # NoIsa
    /\ \A t \in Callers : pc[t] = "read" /\ ~soft[t] => state = "locked_after_a_get"

(* The inductive invariant. *)
IsaInv == IsaTypeOK /\ OneSetter /\ ValueBeforeGet /\ HardGetsAgree
=============================================================================
