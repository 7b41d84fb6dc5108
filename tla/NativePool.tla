------------------------------ MODULE NativePool ------------------------------
(***************************************************************************)
(* The pool of native workers (crates/filetwin-core/src/native.rs) and the *)
(* worker process it drives (crates/filetwin-worker/src/main.rs): requests *)
(* and responses travel over three bounded pipes, the coordinator's ends   *)
(* never block, the worker's do, and a worker is reused for one request    *)
(* after the other until something fails.                                  *)
(*                                                                         *)
(* Lines are counted in pieces; the last piece is the newline.             *)
(***************************************************************************)
EXTENDS Integers, Sequences, FiniteSets

CONSTANTS
    Capacity,       \* native worker slots
    None,
    RequestLimit,   \* 64 KiB, the newline apart
    ResponseLimit,  \* MAX_RESPONSE
    Pipe,           \* what a pipe holds
    Requests,       \* lengths of requests
    Bodies,         \* lengths of responses
    Logs,           \* lengths of what a worker writes to stderr for a request
    Deadline,       \* MAX_FILE_SECONDS, in ticks
    MaxJobs,        \* bound: jobs submitted
    MaxFaults       \* bound: crashes, stray output and failed spawns

ASSUME PoolAssumption ==
    /\ Capacity \in Nat \ {0} /\ MaxJobs \in Nat /\ MaxFaults \in Nat
    /\ RequestLimit \in Nat /\ ResponseLimit \in Nat
    /\ Pipe \in Nat \ {0} /\ Deadline \in Nat \ {0}
    /\ Requests \subseteq Nat /\ Bodies \subseteq Nat /\ Logs \subseteq Nat

Slots == 1..Capacity
Jobs == 1..MaxJobs
Failures == {"WorkerTimeout", "WorkerFailed", "UnsupportedFormat", "InvalidRequest"}

\* What a response says of the copy; "misfit" is what validate_encoded refuses.
Sayings == {"encoded", "UnsupportedFormat", "misfit"}

VARIABLES
    next,       \* the next job
    prepared,   \* slot -> its job, or None
    error,      \* slot -> the failure to report for its job, or None
    process,    \* slot -> the coordinator's end of its worker, or None
    child,      \* slot -> the worker and its pipes, or None
    staged,     \* jobs whose private copy exists
    outcome,    \* job -> None, or what poll returned
    at,         \* the coordinator's place in the pool: a slot and a step
    faults,
    history     \* what happened to which job, for the properties

vars == <<next, prepared, error, process, child, staged, outcome, at, faults, history>>

Active == {s \in Slots : prepared[s] # None}

\* A line of n pieces and a newline.
Line(j, n, v) == [i \in 1..n + 1 |-> [of |-> j, says |-> v, end |-> i = n + 1]]
Stray(b)      == [of |-> 0, says |-> None, end |-> b]

NewProcess == [out |-> <<>>, response |-> <<>>, diagnostics |-> 0, elapsed |-> 0]
NewChild   == [state |-> "read", watched |-> FALSE, line |-> <<>>, logs |-> 0, reply |-> <<>>,
               stdin |-> <<>>, stdout |-> <<>>, stderr |-> 0, spoiled |-> FALSE]

At(s, step) == at = [slot |-> s, step |-> step]
Go(s, step) == at' = [slot |-> s, step |-> step]
Outside == At(0, "outside")
Over == At(0, "closed") \/ At(0, "dead")
Dead == At(0, "dead")

Init ==
    /\ next = 1 /\ staged = {} /\ Outside /\ faults = 0
    /\ prepared = [s \in Slots |-> None] /\ error = [s \in Slots |-> None]
    /\ process = [s \in Slots |-> None] /\ child = [s \in Slots |-> None]
    /\ outcome = [j \in Jobs |-> None]
    /\ history = [own |-> {}, inherited |-> {}]


\* A fault of the worker in slot s is held against the job it has.
Blame(s) ==
    history' = IF s \in Active THEN [history EXCEPT !.own = @ \cup {prepared[s]}] ELSE history
-----------------------------------------------------------------------------
(* Pool::submit.                                                           *)

\* Seeded fault: what was read of the last response is kept.
BeginKeepingResponse(p, n) ==
    [p EXCEPT !.out = Line(next, n, None), !.diagnostics = 0, !.elapsed = 0]

\* Process::begin, for a request within the limit.
Begin(p, n) ==
    [p EXCEPT !.out = Line(next, n, None), !.response = <<>>, !.diagnostics = 0, !.elapsed = 0]

\* The coordinator submits only when a slot is free (see Engine).  A process is
\* spawned if the slot has none; a failure to start is reported by poll.
Submit ==
    /\ Outside /\ next <= MaxJobs
    /\ \E s \in Slots \ Active, n \in Requests :
          LET kept == process[s] # None
              p == IF kept THEN process[s] ELSE NewProcess
              c == IF kept THEN child[s] ELSE NewChild
          IN
          /\ \A t \in Slots \ Active : s <= t
          /\ prepared' = [prepared EXCEPT ![s] = next]
          /\ \/ /\ ~kept /\ faults < MaxFaults
                /\ faults' = faults + 1
                /\ error' = [error EXCEPT ![s] = "WorkerFailed"]
                /\ history' = [history EXCEPT !.own = @ \cup {next}]
                /\ UNCHANGED <<process, child>>
             \/ /\ n <= RequestLimit
                /\ process' = [process EXCEPT ![s] = Begin(p, n)]
                /\ child' = [child EXCEPT ![s] = c]
                /\ history' = IF c.spoiled \/ c.stderr > 0 THEN [history EXCEPT !.inherited = @ \cup {next}]
                              ELSE history
                /\ UNCHANGED <<error, faults>>
             \/ /\ n > RequestLimit
                /\ process' = [process EXCEPT ![s] = p]
                /\ child' = [child EXCEPT ![s] = c]
                /\ error' = [error EXCEPT ![s] = "InvalidRequest"]
                /\ history' = [history EXCEPT !.own = @ \cup {next}]
                /\ UNCHANGED faults
    /\ staged' = staged \cup {next} /\ next' = next + 1
    /\ UNCHANGED <<outcome, at>>

-----------------------------------------------------------------------------
(* Pool::poll: the active slots in order, each by Process::poll_io, until  *)
(* one has an outcome.  Workers run on between any two system calls.       *)

PollAfter(s) ==
    \/ (\A t \in Active : t <= s) /\ Go(0, "outside")
    \/ \E t \in Active : t > s /\ (\A u \in Active : u > s => t <= u) /\ Go(t, "check")

PollBegins ==
    /\ Outside /\ Active # {} /\ PollAfter(0)
    /\ UNCHANGED <<next, prepared, error, process, child, staged, outcome, faults, history>>

Fail(s, e) == error' = [error EXCEPT ![s] = e] /\ Go(s, "kill")

\* Seeded fault: nobody looks at the clock.
PollChecksNoClock(s) ==
    /\ At(s, "check")
    /\ IF error[s] # None THEN Go(s, "kill") ELSE Go(s, "write")
    /\ UNCHANGED <<next, prepared, error, process, child, staged, outcome, faults, history>>

PollChecks(s) ==
    /\ At(s, "check")
    /\ \/ error[s] # None /\ Go(s, "kill") /\ UNCHANGED error
       \/ error[s] = None /\ process[s].elapsed >= Deadline /\ Fail(s, "WorkerTimeout")
       \/ error[s] = None /\ process[s].elapsed < Deadline /\ Go(s, "write") /\ UNCHANGED error
    /\ UNCHANGED <<next, prepared, process, child, staged, outcome, faults, history>>

\* Writes what the pipe takes.
PollWrites(s) ==
    /\ At(s, "write")
    /\ LET p == process[s]  c == child[s] IN
       \/ /\ p.out # <<>> /\ c.state = "gone" /\ Fail(s, "WorkerFailed")
          /\ UNCHANGED <<process, child>>
       \/ /\ p.out # <<>> /\ c.state # "gone" /\ Len(c.stdin) < Pipe
          /\ process' = [process EXCEPT ![s].out = Tail(@)]
          /\ child' = [child EXCEPT ![s].stdin = Append(@, Head(p.out))]
          /\ UNCHANGED <<error, at>>
       \/ /\ p.out = <<>> \/ (c.state # "gone" /\ Len(c.stdin) = Pipe)
          /\ Go(s, "errors") /\ UNCHANGED <<error, process, child>>
    /\ UNCHANGED <<next, prepared, staged, outcome, faults, history>>

\* Seeded fault: the worker's stderr is left alone.
PollSkipsErrors(s) ==
    /\ At(s, "errors") /\ Go(s, "output")
    /\ UNCHANGED <<next, prepared, error, process, child, staged, outcome, faults, history>>

\* Drains stderr.
PollErrors(s) ==
    /\ At(s, "errors")
    /\ LET p == process[s]  c == child[s] IN
       \/ /\ c.stderr > 0 /\ p.diagnostics + 1 > ResponseLimit + 1
          /\ Fail(s, "WorkerFailed") /\ UNCHANGED <<process, child>>
       \/ /\ c.stderr > 0 /\ p.diagnostics + 1 <= ResponseLimit + 1
          /\ process' = [process EXCEPT ![s].diagnostics = @ + 1]
          /\ child' = [child EXCEPT ![s].stderr = @ - 1]
          /\ UNCHANGED <<error, at>>
       \/ c.stderr = 0 /\ Go(s, "output") /\ UNCHANGED <<error, process, child>>
    /\ UNCHANGED <<next, prepared, staged, outcome, faults, history>>

\* Seeded fault: the newline is not allowed for.
AcceptsBodyOnly(n) == n <= ResponseLimit

\* How much of a response is read: the body and its newline.
Accepts(n) == n <= ResponseLimit + 1

\* Drains stdout.
PollOutput(s) ==
    /\ At(s, "output")
    /\ LET p == process[s]  c == child[s] IN
       \/ /\ c.stdout # <<>> /\ ~Accepts(Len(p.response) + 1)
          /\ Fail(s, "WorkerFailed") /\ UNCHANGED <<process, child>>
       \/ /\ c.stdout # <<>> /\ Accepts(Len(p.response) + 1)
          /\ process' = [process EXCEPT ![s].response = Append(@, Head(c.stdout))]
          /\ child' = [child EXCEPT ![s].stdout = Tail(@)]
          /\ UNCHANGED <<error, at>>
       \/ c.stdout = <<>> /\ Go(s, "frame") /\ UNCHANGED <<error, process, child>>
    /\ UNCHANGED <<next, prepared, staged, outcome, faults, history>>

\* One newline, at the end; then the line must parse, come from this protocol
\* and pass validate_encoded.
Newlines(r) == {i \in DOMAIN r : r[i].end}
Framed(r) == Newlines(r) = {Len(r)}
Says(r) == IF \A i \in DOMAIN r : r[i].of = r[1].of /\ r[1].of # 0 THEN r[1].says ELSE "misfit"

PollFrames(s) ==
    /\ At(s, "frame")
    /\ LET r == process[s].response  says == Says(r) IN
       \/ /\ Newlines(r) # {} /\ Framed(r) /\ says = "encoded"
          /\ outcome' = [outcome EXCEPT ![prepared[s]] = [is |-> "encoded", of |-> r[1].of]]
          /\ prepared' = [prepared EXCEPT ![s] = None]
          /\ staged' = staged \ {prepared[s]}
          /\ Go(0, "outside") /\ UNCHANGED error
       \/ /\ Newlines(r) # {} /\ ~(Framed(r) /\ says = "encoded")
          /\ Fail(s, IF Framed(r) /\ says # "misfit" THEN says ELSE "WorkerFailed")
          /\ UNCHANGED <<outcome, prepared, staged>>
       \/ /\ Newlines(r) = {} /\ child[s].state = "gone" /\ Fail(s, "WorkerFailed")
          /\ UNCHANGED <<outcome, prepared, staged>>
       \/ /\ Newlines(r) = {} /\ child[s].state # "gone" /\ PollAfter(s)
          /\ UNCHANGED <<outcome, prepared, staged, error>>
    /\ UNCHANGED <<next, process, child, faults, history>>

\* Seeded fault: the process is kept.
KeepsProcess(s) ==
    /\ At(s, "kill") /\ Go(s, "delete")
    /\ UNCHANGED <<next, prepared, error, process, child, staged, outcome, faults, history>>

\* On a failure the process group is killed, and only then the copy deleted.
Kills(s) ==
    /\ At(s, "kill") /\ Go(s, "delete")
    /\ process' = [process EXCEPT ![s] = None]
    /\ child' = [child EXCEPT ![s] = None]
    /\ UNCHANGED <<next, prepared, error, staged, outcome, faults, history>>

Reports(s) ==
    /\ At(s, "delete") /\ Go(0, "outside")
    /\ outcome' = [outcome EXCEPT ![prepared[s]] = [is |-> error[s], of |-> prepared[s]]]
    /\ staged' = staged \ {prepared[s]}
    /\ prepared' = [prepared EXCEPT ![s] = None]
    /\ error' = [error EXCEPT ![s] = None]
    /\ UNCHANGED <<next, process, child, faults, history>>

-----------------------------------------------------------------------------
(* The end of the pool: dropped by encode, or its host is killed.          *)

Shutdown ==
    /\ Outside /\ Go(1, "reap")
    /\ UNCHANGED <<next, prepared, error, process, child, staged, outcome, faults, history>>

\* Seeded fault: Slot's fields in the other order (the copy is deleted first).
ReapsLast(s) ==
    /\ At(s, "reap") /\ Go(s, "purge")
    /\ staged' = staged \ {prepared[s]}
    /\ UNCHANGED <<next, prepared, error, process, child, outcome, faults, history>>

Reaps(s) ==
    /\ At(s, "reap") /\ Go(s, "purge")
    /\ process' = [process EXCEPT ![s] = None]
    /\ child' = [child EXCEPT ![s] = None]
    /\ UNCHANGED <<next, prepared, error, staged, outcome, faults, history>>

Purges(s) ==
    /\ At(s, "purge")
    /\ staged' = staged \ {prepared[s]}
    /\ prepared' = [prepared EXCEPT ![s] = None]
    /\ IF s = Capacity THEN Go(0, "closed") ELSE Go(s + 1, "reap")
    /\ UNCHANGED <<next, error, process, child, outcome, faults, history>>

\* SIGKILL of the host, anywhere: its ends of the pipes close, copies stay.
HostDies ==
    /\ ~Over /\ faults < MaxFaults
    /\ Go(0, "dead") /\ faults' = faults + 1
    /\ process' = [s \in Slots |-> None] /\ prepared' = [s \in Slots |-> None]
    /\ UNCHANGED <<next, error, child, staged, outcome, history>>

-----------------------------------------------------------------------------
(* The worker: one request at a time, blocking.                            *)

Alive(s) == child[s] # None /\ child[s].state # "gone"
ChildOnly == UNCHANGED <<next, prepared, error, process, staged, outcome, at>>

\* The request line: up to a newline, or two pieces past the limit.
Reads(s) ==
    /\ Alive(s) /\ child[s].state = "read" /\ child[s].stdin # <<>>
    /\ LET line == Append(child[s].line, Head(child[s].stdin))
           whole == line[Len(line)].end \/ Len(line) = RequestLimit + 2
           fits == Len(line) <= RequestLimit + 1 /\ line[Len(line)].end
           c == [child[s] EXCEPT !.stdin = Tail(@), !.line = line]
       IN child' = [child EXCEPT ![s] =
                      IF ~whole THEN c
                      ELSE IF fits THEN [c EXCEPT !.state = "encode", !.watched = TRUE]
                      ELSE [c EXCEPT !.state = "write", !.reply = Line(line[1].of, 1, "misfit")]]
    /\ ChildOnly /\ UNCHANGED <<faults, history>>

\* The copy is encoded, or refused; a response past the limit ends the worker.
Encodes(s) ==
    /\ Alive(s) /\ child[s].state = "encode"
    /\ \E n \in Bodies, l \in Logs, v \in Sayings :
          /\ child' = [child EXCEPT ![s] =
                IF n > ResponseLimit THEN [@ EXCEPT !.state = "gone", !.spoiled = TRUE]
                ELSE [@ EXCEPT !.state = "write", !.logs = l, !.reply = Line(child[s].line[1].of, n, v)]]
          /\ IF n > ResponseLimit \/ l > ResponseLimit + 1 \/ v = "misfit" THEN Blame(s) ELSE UNCHANGED history
    /\ ChildOnly /\ UNCHANGED faults

\* stderr, then stdout, each as its pipe has room.
Logging(s) ==
    /\ Alive(s) /\ child[s].state = "write" /\ ~Dead
    /\ child[s].logs > 0 /\ child[s].stderr < Pipe
    /\ child' = [child EXCEPT ![s].logs = @ - 1, ![s].stderr = @ + 1]
    /\ ChildOnly /\ UNCHANGED <<faults, history>>

Replies(s) ==
    /\ Alive(s) /\ child[s].state = "write" /\ ~Dead
    /\ child[s].logs = 0 /\ Len(child[s].stdout) < Pipe
    /\ LET c == child[s]  last == Len(c.reply) = 1 IN
       /\ child' = [child EXCEPT ![s] =
             [c EXCEPT !.stdout = Append(@, Head(c.reply)), !.reply = Tail(@),
                       !.state = IF last THEN "read" ELSE @, !.line = IF last THEN <<>> ELSE @]]
    /\ ChildOnly /\ UNCHANGED <<faults, history>>

\* The host is gone: no input, nobody to reply to; or the watching thread finds
\* another parent than the one the request named.
Leaves(s) ==
    /\ Dead /\ Alive(s)
    /\ child[s].state = "write" \/ (child[s].state = "read" /\ child[s].stdin = <<>>)
    /\ child' = [child EXCEPT ![s].state = "gone"]
    /\ ChildOnly /\ UNCHANGED <<faults, history>>

\* Seeded fault: only an idle worker looks for its parent.
WatchesIdle(s) ==
    /\ Dead /\ Alive(s) /\ child[s].watched /\ child[s].state = "read"
    /\ child' = [child EXCEPT ![s].state = "gone"]
    /\ ChildOnly /\ UNCHANGED <<faults, history>>

Watches(s) ==
    /\ Dead /\ Alive(s) /\ child[s].watched
    /\ child' = [child EXCEPT ![s].state = "gone"]
    /\ ChildOnly /\ UNCHANGED <<faults, history>>

Crashes(s) ==
    /\ Alive(s) /\ ~Over /\ faults < MaxFaults
    /\ faults' = faults + 1
    /\ child' = [child EXCEPT ![s].state = "gone", ![s].spoiled = TRUE]
    /\ Blame(s) /\ ChildOnly

\* A native library prints to the worker's stdout.
Strays(s) ==
    /\ Alive(s) /\ ~Over /\ faults < MaxFaults /\ Len(child[s].stdout) < Pipe
    /\ faults' = faults + 1
    /\ \E b \in BOOLEAN :
          child' = [child EXCEPT ![s].stdout = Append(@, Stray(b)), ![s].spoiled = TRUE]
    /\ Blame(s) /\ ChildOnly

Tick ==
    /\ \E s \in Active : process[s] # None /\ process[s].elapsed < Deadline
    /\ process' = [s \in Slots |->
          IF s \in Active /\ process[s] # None /\ process[s].elapsed < Deadline
          THEN [process[s] EXCEPT !.elapsed = @ + 1] ELSE process[s]]
    /\ UNCHANGED <<next, prepared, error, child, staged, outcome, at, faults, history>>

-----------------------------------------------------------------------------
Poll == PollBegins \/ \E s \in Slots :
            \/ PollChecks(s) \/ PollWrites(s) \/ PollErrors(s) \/ PollOutput(s) \/ PollFrames(s)
            \/ Kills(s) \/ Reports(s)
Drop == \E s \in Slots : Reaps(s) \/ Purges(s)
Work(s) == Reads(s) \/ Encodes(s) \/ Logging(s) \/ Replies(s)
Ended == Over /\ UNCHANGED vars

Next == \/ Submit \/ Poll \/ Shutdown \/ Drop \/ HostDies \/ Ended \/ Tick
        \/ \E s \in Slots : Work(s) \/ Leaves(s) \/ Watches(s) \/ Crashes(s) \/ Strays(s)

Spec == Init /\ [][Next]_vars

\* Who is scheduled: the coordinator polls as long as it has jobs (Run::wait_one)
\* and completes what it drops; a worker works; and of a worker whose host is
\* gone, the watching thread runs and reads return.
Polled   == WF_vars(Poll) /\ WF_vars(Drop)
Working  == \A s \in Slots : WF_vars(Work(s))
Watching == \A s \in Slots : WF_vars(Watches(s)) /\ WF_vars(Leaves(s)) /\ WF_vars(Reads(s))
===============================================================================
