---------------------------- MODULE PoolProperties ----------------------------
(* What the pool of native workers must satisfy. *)
EXTENDS NativePool

Steps == {"check", "write", "errors", "output", "frame", "kill", "delete", "reap", "purge"}
Children == {"read", "encode", "write", "gone"}

Pieces == [of : 0..MaxJobs, says : Sayings \cup {None}, end : BOOLEAN]
Processes == [out : Seq(Pieces), response : Seq(Pieces), diagnostics : Nat, elapsed : Nat]
Workers == [state : Children, watched : BOOLEAN, line : Seq(Pieces), logs : Nat, reply : Seq(Pieces),
            stdin : Seq(Pieces), stdout : Seq(Pieces), stderr : Nat, spoiled : BOOLEAN]

\* What None may not be taken for.
ASSUME NoneAssumption ==
    None \notin Jobs /\ None \notin Failures /\ None \notin Processes /\ None \notin Workers

\* Type correctness; while the host lives, a slot with a job has a process or
\* the reason why it has none, and both ends of a process exist together.
TypeOK ==
    /\ next \in 1..MaxJobs + 1 /\ staged \subseteq Jobs /\ faults \in 0..MaxFaults
    /\ prepared \in [Slots -> Jobs \cup {None}]
    /\ error \in [Slots -> Failures \cup {None}]
    /\ outcome \in [Jobs -> [is : Failures \cup {"encoded"}, of : Jobs] \cup {None}]
    /\ at \in [slot : Slots, step : Steps] \cup [slot : {0}, step : {"outside", "closed", "dead"}]
    /\ process \in [Slots -> Processes \cup {None}] /\ child \in [Slots -> Workers \cup {None}]
    /\ \A s \in Slots :
          /\ ~Dead => (process[s] # None <=> child[s] # None)
          /\ s \in Active => process[s] # None \/ error[s] # None \/ At(s, "purge")

\* The promise of PoolContract: whatever crashes, hangs, prints or answers late,
\* no job is ever given the encoding of another one's copy.
Closing == Over \/ at.step \in {"reap", "purge"}

Contract ==
    INSTANCE PoolContract WITH
        open <- ~Closing,
        jobs <- IF Closing THEN [s \in Slots |-> None] ELSE prepared
KeepsContract == Contract!Spec

\* A worker never outlives the private copy it reads: a failed or dropped slot's
\* process group is killed before its copy is deleted (Slot's field order, and
\* Pool::poll).
CopyOutlivesReader ==
    \A s \in Slots : Alive(s) /\ child[s].state = "encode" => child[s].line[1].of \in staged

Failed(j, codes) == outcome[j] # None /\ outcome[j].is \in codes

\* A job fails only for a reason: a fault of its worker, then or before,
\* something past a limit, or diagnostics an earlier job left in the pipe, which
\* count against its own.  In particular a request, a response and diagnostics
\* exactly at their limits pass, and nothing else of an earlier job gets in the
\* way.
FailuresAreReal ==
    \A j \in Jobs : Failed(j, {"WorkerFailed", "InvalidRequest"}) =>
                        j \in history.own \cup history.inherited

\* A worker that failed is replaced for the files that follow
\* (native-encoding.md:76): a job fails only for faults since it was submitted.
FailuresAreOwn ==
    \A j \in Jobs : Failed(j, {"WorkerFailed"}) => j \in history.own

Answered == \A j \in Jobs : j < next ~> (outcome[j] # None \/ Over)

\* Every job gets an outcome, or the pool ends, even if workers hang or die: the
\* coordinator keeps polling and time goes on, a worker owes nothing.
EveryJobEnds == Polled /\ WF_vars(Tick) => Answered

\* A worker that works gets its answer through without the deadline's help,
\* whatever the pipes hold: nobody waits for the other one's end.
HealthyJobsAreAnswered == Polled /\ Working => Answered

\* A worker whose host is killed ends too, whatever it was doing, a hanging
\* encoding included (watch_parent).
OrphansEnd == Watching => \A s \in Slots : Dead ~> ~Alive(s)
===============================================================================
