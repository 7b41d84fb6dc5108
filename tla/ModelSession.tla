----------------------------- MODULE ModelSession -----------------------------
(***************************************************************************)
(* The neural model of image and video workers (crates/filetwin-worker/    *)
(* src/raster.rs): each worker process keeps one session for the next      *)
(* file, made from a verified model file, and workers that compile for     *)
(* CoreML into a shared cache take turns by a file lock.  Files of the     *)
(* model may be replaced, and a worker killed, at any moment.              *)
(***************************************************************************)
EXTENDS Option, Integers, FiniteSets

CONSTANTS
    Workers,
    Keys,           \* what with_model's key tells apart: backend, paths, memory
    Compiling,      \* keys of the CoreML backend with a cache directory
    MaxRequests,    \* bound: files handed to the workers
    MaxEdits        \* bound: replacements of the model file

ASSUME SessionAssumption ==
    /\ Compiling \subseteq Keys /\ None \notin Keys /\ None \notin Workers \cup [key : Keys, good : BOOLEAN]
    /\ MaxRequests \in Nat /\ MaxEdits \in Nat

VARIABLES
    worker,     \* worker -> [pc, key, bytes]: with_model's and Sscd::load's locals
    session,    \* worker -> [key, good], or None: MODEL
    model,      \* whether the model file is the profile's
    lock,       \* the worker that holds compile.lock, or None
    requests, modelEdits

sessionVars == <<worker, session, model, lock, requests, modelEdits>>

\* good: read from the very file the profile names.
Idle == [pc |-> "idle", key |-> None, good |-> FALSE]

SessionInit ==
    /\ worker = [w \in Workers |-> Idle] /\ session = [w \in Workers |-> None]
    /\ model \in BOOLEAN /\ lock = None /\ requests = 0 /\ modelEdits = 0

At(w, pc) == worker[w].pc = pc
Go(w, pc) == worker' = [worker EXCEPT ![w].pc = pc]

Reusable(w, key) == session[w] # None /\ session[w].key = key

\* Another key's session goes before another one is loaded.
Request(w, key) ==
    /\ At(w, "idle") /\ requests < MaxRequests /\ requests' = requests + 1
    /\ worker' = [worker EXCEPT ![w] = [pc |-> IF Reusable(w, key) THEN "run" ELSE "read",
                                        key |-> key, good |-> FALSE]]
    /\ session' = IF Reusable(w, key) THEN session ELSE [session EXCEPT ![w] = None]
    /\ UNCHANGED <<model, lock, modelEdits>>

\* Seeded fault: the file is read a second time after its digest is checked.
RereadsModel(w) ==
    /\ At(w, "read")
    /\ IF model THEN \E later \in BOOLEAN : worker' = [worker EXCEPT ![w].pc = "options", ![w].good = later]
       ELSE worker' = [worker EXCEPT ![w] = Idle]
    /\ UNCHANGED <<session, model, lock, requests, modelEdits>>

\* The bytes are read once, and these are digested and later committed.
ReadModel(w) ==
    /\ At(w, "read")
    /\ worker' = [worker EXCEPT ![w] = IF model THEN [@ EXCEPT !.pc = "options", !.good = TRUE] ELSE Idle]
    /\ UNCHANGED <<session, model, lock, requests, modelEdits>>

\* The runtime is verified and the backend set up, or is not available.
Options(w) ==
    /\ At(w, "options")
    /\ \/ Go(w, IF worker[w].key \in Compiling THEN "lock" ELSE "commit")
       \/ worker' = [worker EXCEPT ![w] = Idle]
    /\ UNCHANGED <<session, model, lock, requests, modelEdits>>

\* Seeded fault: the lock is shared.
LocksShared(w) ==
    /\ At(w, "lock")
    /\ lock' = w /\ Go(w, "commit")
    /\ UNCHANGED <<session, model, requests, modelEdits>>

\* lock_exclusive blocks.
Locks(w) ==
    /\ At(w, "lock") /\ lock = None
    /\ lock' = w /\ Go(w, "commit")
    /\ UNCHANGED <<session, model, requests, modelEdits>>

\* Seeded fault: the lock is not let go.
HoldsOn(w) == lock

Unlocked(w) == IF lock = w THEN None ELSE lock

\* commit_from_memory makes the session, compiling if it must, or fails; the lock
\* goes with load's return.
Commits(w) ==
    /\ At(w, "commit") /\ lock' = Unlocked(w)
    /\ \/ /\ session' = [session EXCEPT ![w] = [key |-> worker[w].key, good |-> worker[w].good]]
          /\ Go(w, "run")
       \/ worker' = [worker EXCEPT ![w] = Idle] /\ UNCHANGED session
    /\ UNCHANGED <<model, requests, modelEdits>>

\* The model is run on the picture or the frames, well or not.
Runs(w) ==
    /\ At(w, "run") /\ worker' = [worker EXCEPT ![w] = Idle]
    /\ UNCHANGED <<session, model, lock, requests, modelEdits>>

\* A deadline or the end of the call: the process is killed, its locks go, and
\* another process takes its place.
Killed(w) ==
    /\ ~At(w, "idle") /\ worker' = [worker EXCEPT ![w] = Idle]
    /\ session' = [session EXCEPT ![w] = None] /\ lock' = Unlocked(w)
    /\ UNCHANGED <<model, requests, modelEdits>>

\* The model file is replaced.
Replaced ==
    /\ modelEdits < MaxEdits /\ modelEdits' = modelEdits + 1
    /\ model' = ~model
    /\ UNCHANGED <<worker, session, lock, requests>>

Loading(w) == ReadModel(w) \/ Options(w) \/ Locks(w) \/ Commits(w) \/ Runs(w)

SessionNext ==
    \/ \E w \in Workers : (\E key \in Keys : Request(w, key)) \/ Loading(w) \/ Killed(w)
    \/ Replaced

\* Each process is scheduled; a compilation ends or is killed at its deadline.
SessionFairness == \A w \in Workers : WF_sessionVars(Loading(w))
===============================================================================
