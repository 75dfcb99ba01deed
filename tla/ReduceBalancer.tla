--------------------------- MODULE ReduceBalancer ---------------------------
(***************************************************************************)
(* reduce_balancer_t (cpu/x64/cpu_reducer.hpp, cpu_reducer.cpp): how many  *)
(* groups of threads share the jobs of a reduction, and how many threads   *)
(* of a group share the reduction itself.  b is the question: nthr,        *)
(* job_size, njobs, reduction_size, max_buffer_size and whether the        *)
(* threads of a group can meet (allow_nthr_in_group).                      *)
(***************************************************************************)
EXTENDS Balance211

Lower(x, y) == IF x <= y THEN x ELSE y
AtLeastOne(x) == IF x >= 1 THEN x ELSE 1

MinNjobsPerGroup(b) == AtLeastOne(b.njobs \div b.nthr)
MaxNjobsPerGroup(b) == AtLeastOne(b.max_buffer_size \div (b.nthr * b.job_size))

(* The division that follows from a number of jobs per group. *)
Assumption(b, njobs_per_group) ==
    LET ngroups == Lower(b.njobs \div njobs_per_group, b.nthr)
    IN [ngroups |-> ngroups,
        nthr_per_group |-> IF b.allow_nthr_in_group
                           THEN Lower(b.nthr \div ngroups, b.reduction_size) ELSE 1,
        njobs_per_group_ub |-> DivUp(b.njobs, ngroups)]

ThreadComplexityUb(b, d) ==
    b.job_size * d.njobs_per_group_ub
        * (DivUp(b.reduction_size, d.nthr_per_group) + IF d.nthr_per_group # 1 THEN 1 ELSE 0)

(* The candidates of the brute force that are not skipped, and the first   *)
(* of the best: the one that is left when the loop replaces what it has by *)
(* what is strictly better.                                                *)
Candidates(b) ==
    {c \in MinNjobsPerGroup(b) .. b.njobs - 1 :
        LET d == Assumption(b, c)
        IN /\ d.nthr_per_group > 1 => d.njobs_per_group_ub <= MaxNjobsPerGroup(b)
           /\ ThreadComplexityUb(b, d) < b.njobs * b.job_size * b.reduction_size}

Best(b) ==
    LET cost(c) == ThreadComplexityUb(b, Assumption(b, c))
    IN {c \in Candidates(b) :
            \A e \in Candidates(b) : cost(c) < cost(e) \/ (cost(c) = cost(e) /\ c <= e)}

(* balance(): without a candidate the initial guess stays. *)
Balance(b) ==
    Assumption(b, IF Best(b) # {} THEN CHOOSE c \in Best(b) : TRUE ELSE MinNjobsPerGroup(b))

-----------------------------------------------------------------------------
(* The queries; d is the division that balance() has chosen. *)
IdleThread(d, ithr) == ithr >= d.nthr_per_group * d.ngroups
GroupId(d, ithr) == ithr \div d.nthr_per_group
IdInGroup(d, ithr) == ithr % d.nthr_per_group

GrpNjobs(b, d, grp) ==
    IF grp >= d.ngroups THEN 0
    ELSE (b.njobs \div d.ngroups) + IF grp < b.njobs % d.ngroups THEN 1 ELSE 0
GrpJobOff(b, d, grp) ==
    IF grp >= d.ngroups THEN b.njobs
    ELSE (b.njobs \div d.ngroups) * grp + Lower(grp, b.njobs % d.ngroups)

(* cpu_reducer_t: the space that init_scratchpad books and the place that  *)
(* get_local_ptr gives to a thread, both in jobs.  The master of a group   *)
(* works in the destination.                                               *)
SpaceSize(d) == d.ngroups * (d.nthr_per_group - 1) * d.njobs_per_group_ub

LocalPtr(b, d, ithr) ==
    IF IdInGroup(d, ithr) = 0
    THEN <<"dst", GrpJobOff(b, d, GroupId(d, ithr))>>
    ELSE <<"space", (GroupId(d, ithr) * (d.nthr_per_group - 1) + IdInGroup(d, ithr) - 1)
                        * d.njobs_per_group_ub>>
=============================================================================
