------------------------------- MODULE Capture -------------------------------
(***************************************************************************)
(* One run of a decoder child process by media.rs's capture                *)
(* (crates/filetwin-worker/src/media.rs): the worker's thread drains the   *)
(* child's stdout and another one its stderr, through pipes that hold      *)
(* little; what is beyond a cap is drained and dropped.  Sizes are counted *)
(* in chunks of one read.                                                  *)
(***************************************************************************)
EXTENDS Option, Integers

CONSTANTS
    Pipe,           \* what a pipe holds
    Writes,         \* bound: what the child may write to each stream
    Keeps           \* stream -> its cap: max_stdout, 64 KiB

Streams == {"out", "err"}

ASSUME CaptureAssumption ==
    Pipe \in Nat \ {0} /\ Writes \in Nat /\ Keeps \in [Streams -> Nat]

VARIABLES
    cpc,        \* capture: "idle", "drain", "kill", "wait", "join", "done"
    child,      \* [state: "none", "runs", "exited" or "reaped", success]
    plan,       \* stream -> chunks the child has to write
    pipe,       \* stream -> chunks in the pipe
    written,    \* stream -> chunks the child has written
    drain,      \* stream -> [state, kept, overflow]: the two calls of drain
    captured    \* what capture returns: "ok", "overflow", "failed", "io"

captureVars == <<cpc, child, plan, pipe, written, drain, captured>>

CaptureInit ==
    /\ cpc = "idle" /\ child = [state |-> "none", success |-> FALSE]
    /\ plan = [s \in Streams |-> 0]
    /\ pipe = [s \in Streams |-> 0] /\ written = [s \in Streams |-> 0]
    /\ drain = [s \in Streams |-> [state |-> "open", kept |-> 0, overflow |-> FALSE]]
    /\ captured = None

CaptureBegin ==
    /\ cpc = "idle" /\ cpc' = "drain"
    /\ child' = [child EXCEPT !.state = "runs"]
    /\ plan' \in [Streams -> 0..Writes]
    /\ UNCHANGED <<pipe, written, drain, captured>>

-----------------------------------------------------------------------------
(* The child writes what it has to while there is room, and exits.  It may *)
(* die earlier, by a write to a stream nobody reads any more for one.      *)

ChildWrites(s) ==
    /\ child.state = "runs" /\ written[s] < plan[s]
    /\ drain[s].state = "open" /\ pipe[s] < Pipe
    /\ pipe' = [pipe EXCEPT ![s] = @ + 1] /\ written' = [written EXCEPT ![s] = @ + 1]
    /\ UNCHANGED <<cpc, child, plan, drain, captured>>

Exit(ok) ==
    /\ child.state = "runs" /\ child' = [state |-> "exited", success |-> ok]
    /\ UNCHANGED <<cpc, plan, pipe, written, drain, captured>>

ChildEnds == written = plan /\ \E ok \in BOOLEAN : Exit(ok)
ChildDies == Exit(FALSE)
ChildBreaks == (\E s \in Streams : written[s] < plan[s] /\ drain[s].state # "open") /\ ChildDies

-----------------------------------------------------------------------------
(* drain, for one stream.                                                  *)

\* Seeded fault: stderr is drained after stdout, by the same thread.
DrainsInTurn(s) == cpc # "idle" /\ (s = "err" => drain["out"].state # "open")

\* Both streams are drained at once.
Draining(s) == cpc # "idle"

\* Seeded fault: what is over the cap is dropped without a word.
RetainQuietly(d, s, n) == LET retain == IF d.kept + n <= Keeps[s] THEN n ELSE Keeps[s] - d.kept IN
    [d EXCEPT !.kept = @ + retain]

\* n chunks are read, as many kept as there is room for.
Retain(d, s, n) ==
    LET retain == IF d.kept + n <= Keeps[s] THEN n ELSE Keeps[s] - d.kept IN
    [state |-> d.state, kept |-> d.kept + retain, overflow |-> d.overflow \/ retain < n]

DrainReads(s) ==
    /\ Draining(s) /\ drain[s].state = "open" /\ pipe[s] > 0
    /\ \E n \in 1..pipe[s] :
          /\ pipe' = [pipe EXCEPT ![s] = @ - n]
          /\ drain' = [drain EXCEPT ![s] = Retain(@, s, n)]
    /\ UNCHANGED <<cpc, child, plan, written, captured>>

\* The end of the stream, once the child is gone.
DrainEnds(s) ==
    /\ Draining(s) /\ drain[s].state = "open" /\ pipe[s] = 0 /\ child.state # "runs"
    /\ drain' = [drain EXCEPT ![s].state = "eof"]
    /\ UNCHANGED <<cpc, child, plan, pipe, written, captured>>

DrainFails(s) ==
    /\ Draining(s) /\ drain[s].state = "open"
    /\ drain' = [drain EXCEPT ![s].state = "error"]
    /\ UNCHANGED <<cpc, child, plan, pipe, written, captured>>

-----------------------------------------------------------------------------
(* capture, once its own drain has returned.                               *)

Drained ==
    /\ cpc = "drain" /\ drain["out"].state # "open"
    /\ cpc' = IF drain["out"].state = "error" THEN "kill" ELSE "wait"
    /\ UNCHANGED <<child, plan, pipe, written, drain, captured>>

Kills ==
    /\ cpc = "kill" /\ cpc' = "wait"
    /\ child' = IF child.state = "runs" THEN [state |-> "exited", success |-> FALSE] ELSE child
    /\ UNCHANGED <<plan, pipe, written, drain, captured>>

Waits ==
    /\ cpc = "wait" /\ child.state = "exited"
    /\ child' = [child EXCEPT !.state = "reaped"] /\ cpc' = "join"
    /\ UNCHANGED <<plan, pipe, written, drain, captured>>

Outcome ==
    IF \E s \in Streams : drain[s].state = "error" THEN "io"
    ELSE IF \E s \in Streams : drain[s].overflow THEN "overflow"
    ELSE IF child.success THEN "ok" ELSE "failed"

Joins ==
    /\ cpc = "join" /\ drain["err"].state # "open"
    /\ captured' = Outcome /\ cpc' = "done"
    /\ UNCHANGED <<child, plan, pipe, written, drain>>

Threads == (\E s \in Streams : DrainReads(s) \/ DrainEnds(s) \/ DrainFails(s)) \/ Drained \/ Kills \/ Waits \/ Joins

Works == (\E s \in Streams : ChildWrites(s)) \/ ChildEnds \/ ChildBreaks

CaptureNext == CaptureBegin \/ Works \/ ChildDies \/ Threads

\* The worker's two threads are scheduled, and the child does its work.
CaptureFairness ==
    /\ WF_captureVars(Works) /\ WF_captureVars(Drained \/ Kills \/ Waits \/ Joins)
    /\ \A s \in Streams : WF_captureVars(DrainReads(s) \/ DrainEnds(s))
===============================================================================
