----------------------------- MODULE PoolContract -----------------------------
(* What the pool of native workers promises the coordinator: every job     *)
(* takes a free slot and leaves it with one outcome, an error or an        *)
(* encoding of its own private copy; once the pool is dropped, or its host *)
(* is gone, nothing more is reported.                                      *)
EXTENDS Integers

CONSTANTS Capacity, MaxJobs, None, Failures

VARIABLES next,     \* the next job
          jobs,     \* slot -> the job it holds, or None
          outcome,  \* job -> None, or what was reported
          open

vars == <<next, jobs, outcome, open>>

Slots == 1..Capacity

Init == /\ next = 1 /\ open = TRUE
        /\ jobs = [s \in Slots |-> None]
        /\ outcome = [j \in 1..MaxJobs |-> None]

Submit(s) ==
    /\ open /\ jobs[s] = None /\ next \in 1..MaxJobs
    /\ jobs' = [jobs EXCEPT ![s] = next] /\ next' = next + 1
    /\ UNCHANGED <<outcome, open>>

Report(s) ==
    /\ open /\ jobs[s] # None
    /\ \E o \in Failures \cup {"encoded"} :
          outcome' = [outcome EXCEPT ![jobs[s]] = [is |-> o, of |-> jobs[s]]]
    /\ jobs' = [jobs EXCEPT ![s] = None]
    /\ UNCHANGED <<next, open>>

Close ==
    /\ open /\ open' = FALSE
    /\ jobs' = [s \in Slots |-> None]
    /\ UNCHANGED <<next, outcome>>

Next == (\E s \in Slots : Submit(s) \/ Report(s)) \/ Close

Spec == Init /\ [][Next]_vars
===============================================================================
