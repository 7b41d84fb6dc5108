------------------------------ MODULE VectorStore ------------------------------
(***************************************************************************)
(* Saving and reading a vector file (crates/filetwin-core/src/             *)
(* vector_file.rs: read_vectors, validate_output, write_vectors): several  *)
(* processes read and replace one output name, others edit it, and the     *)
(* machine may lose power at any moment.                                   *)
(*                                                                         *)
(* A file's data is a sequence of two pieces, each tagged with whose       *)
(* vectors it is part of; Foreign is what is not part of any vector file.  *)
(***************************************************************************)
EXTENDS Integers, Sequences, FiniteSets

CONSTANTS
    Writers,    \* processes 1..Writers save their result once
    Readers,    \* the next Readers processes read the file once
    None,
    Foreign,
    MaxEdits,   \* bound: edits by other programs
    MaxCrashes  \* bound: power losses

ASSUME StoreAssumption ==
    /\ Writers \in Nat /\ Readers \in Nat /\ MaxEdits \in Nat /\ MaxCrashes \in Nat
    /\ None \notin 0..Writers + MaxEdits /\ Foreign \notin 0..Writers
    /\ None \notin [ino : 0..Writers + MaxEdits, rev : 0..MaxEdits]

Procs == 1..Writers + Readers
Saves(p) == p <= Writers

\* Inodes: 0 the file found, p the temporary file of writer p, Writers + e the
\* file the e-th edit puts there.
Inodes == 0..Writers + MaxEdits
Tags == (0..Writers) \cup {Foreign}

VARIABLES
    node,       \* inode -> [data, rev, synced]
    log,        \* what the output name was bound to, oldest first (None: nothing)
    durable,    \* how much of the log a power loss leaves for certain
    proc,       \* process -> [pc, before, ino, rev, got]
    edits, crashes

vars == <<node, log, durable, proc, edits, crashes>>

Out == log[Len(log)]
Whole(data) == Len(data) = 2 /\ data[1] = data[2] /\ data[1] # Foreign

Init ==
    /\ \E d \in {<<0, 0>>, <<Foreign, Foreign>>} :
          node = [i \in Inodes |-> [data |-> IF i = 0 THEN d ELSE <<>>, rev |-> 0, synced |-> TRUE]]
    /\ log \in {<<None>>, <<0>>} /\ durable = 1
    /\ proc = [p \in Procs |-> [pc |-> "idle", before |-> None, ino |-> None, rev |-> 0, got |-> <<>>]]
    /\ edits = 0 /\ crashes = 0

Pc(p, pc) == proc[p].pc = pc
Goto(p, pc) == proc' = [proc EXCEPT ![p].pc = pc]
Files == UNCHANGED <<node, log, durable>>
World == UNCHANGED <<edits, crashes>>

\* local::still_current, for the open file and its revision.
StillCurrent(ino, rev) == Out = ino /\ node[ino].rev = rev

\* An I/O error, disk full, or more than MAX_VECTOR_FILE_BYTES.
Fails(p) ==
    /\ proc[p].pc \notin {"idle", "ok", "failed"} /\ Goto(p, "failed")
    /\ Files /\ World

-----------------------------------------------------------------------------
(* read_vectors; a writer runs it on the file it is about to replace.      *)

\* validate_output: what lstat finds decides.  A reader opens at once.
Starts(p) ==
    /\ Pc(p, "idle")
    /\ IF Saves(p) /\ Out = None THEN Goto(p, "write")
       ELSE proc' = [proc EXCEPT ![p].pc = "open", ![p].before =
                        IF Saves(p) THEN [ino |-> Out, rev |-> node[Out].rev] ELSE None]
    /\ Files /\ World

Opens(p) ==
    /\ Pc(p, "open") /\ Out # None
    /\ proc' = [proc EXCEPT ![p].pc = "read", ![p].ino = Out, ![p].rev = node[Out].rev]
    /\ Files /\ World

Reads(p) ==
    /\ Pc(p, "read")
    /\ LET data == node[proc[p].ino].data  i == Len(proc[p].got) + 1 IN
       IF i <= Len(data)
       THEN proc' = [proc EXCEPT ![p].got = Append(@, data[i])]
       ELSE Goto(p, "check")
    /\ Files /\ World

\* Seeded fault: the file is not looked at again.
ChecksOnlyData(p) ==
    /\ Pc(p, "check")
    /\ Goto(p, IF Len(proc[p].got) # 2 \/ Foreign \in {proc[p].got[1], proc[p].got[2]} THEN "failed"
               ELSE IF Saves(p) THEN "write" ELSE "ok")
    /\ Files /\ World

\* Unchanged while it was read, and valid.  (Parts of two versions might pass
\* for a valid file: only Foreign is refused here.)
Checks(p) ==
    /\ Pc(p, "check")
    /\ Goto(p, IF \/ ~StillCurrent(proc[p].ino, proc[p].rev)
                  \/ Len(proc[p].got) # 2 \/ Foreign \in {proc[p].got[1], proc[p].got[2]} THEN "failed"
               ELSE IF Saves(p) THEN "write" ELSE "ok")
    /\ Files /\ World

-----------------------------------------------------------------------------
(* write_vectors, once the output is known to be new or a vector file.     *)

Writes(p) ==
    /\ Pc(p, "write")
    /\ IF Len(node[p].data) < 2
       THEN /\ node' = [node EXCEPT ![p].data = Append(@, p), ![p].synced = FALSE]
            /\ UNCHANGED proc
       ELSE Goto(p, "sync") /\ UNCHANGED node
    /\ UNCHANGED <<log, durable>> /\ World

\* Seeded fault: the new file's data is left to the page cache.
SyncsNothing(p) ==
    /\ Pc(p, "sync") /\ Goto(p, "recheck")
    /\ Files /\ World

Syncs(p) ==
    /\ Pc(p, "sync") /\ Goto(p, "recheck")
    /\ node' = [node EXCEPT ![p].synced = TRUE]
    /\ UNCHANGED <<log, durable>> /\ World

Rechecks(p) ==
    /\ Pc(p, "recheck")
    /\ LET b == proc[p].before IN
       Goto(p, IF b = None THEN "link" ELSE IF StillCurrent(b.ino, b.rev) THEN "rename" ELSE "failed")
    /\ Files /\ World

\* Seeded fault: a new output is renamed into place like any other.
LinksAnyway(p) ==
    /\ Pc(p, "link")
    /\ log' = Append(log, p) /\ Goto(p, "dirsync")
    /\ UNCHANGED <<node, durable>> /\ World

\* persist_noclobber fails if the name has come to exist.
Links(p) ==
    /\ Pc(p, "link")
    /\ IF Out = None THEN log' = Append(log, p) /\ Goto(p, "dirsync")
       ELSE Goto(p, "failed") /\ UNCHANGED log
    /\ UNCHANGED <<node, durable>> /\ World

Renames(p) ==
    /\ Pc(p, "rename")
    /\ log' = Append(log, p) /\ Goto(p, "dirsync")
    /\ UNCHANGED <<node, durable>> /\ World

\* Seeded fault: the directory is not synced.
SyncsNoDirectory(p) ==
    /\ Pc(p, "dirsync") /\ Goto(p, "ok")
    /\ Files /\ World

SyncsDirectory(p) ==
    /\ Pc(p, "dirsync") /\ Goto(p, "ok")
    /\ durable' = Len(log)
    /\ UNCHANGED <<node, log>> /\ World

-----------------------------------------------------------------------------
(* Other programs and power losses.                                        *)

\* Another file is moved there, or the name is removed, or the file is
\* rewritten in place; always with a new revision.
Edits ==
    /\ edits < MaxEdits /\ edits' = edits + 1
    /\ LET new == Writers + edits + 1
           put(i, t) == node' = [node EXCEPT ![i] = [data |-> <<t, t>>, rev |-> edits + 1, synced |-> TRUE]]
       IN
       \/ \E t \in {0, Foreign} : put(new, t) /\ log' = Append(log, new)
       \/ Out # None /\ log' = Append(log, None) /\ UNCHANGED node
       \/ Out # None /\ (\E t \in {0, Foreign} : put(Out, t)) /\ UNCHANGED log
    /\ UNCHANGED <<durable, proc, crashes>>

\* What was not synced may be lost: the last bindings, the end of the data.
Crash ==
    /\ crashes < MaxCrashes /\ crashes' = crashes + 1
    /\ \E n \in durable..Len(log) : log' = SubSeq(log, 1, n) /\ durable' = n
    /\ \E keep \in [Inodes -> 0..2] :
          /\ \A i \in Inodes : node[i].synced \/ Len(node[i].data) = 0 => keep[i] = 2
          /\ node' = [i \in Inodes |-> [node[i] EXCEPT !.data =
                        IF keep[i] < Len(@) THEN SubSeq(@, 1, keep[i]) ELSE @]]
    /\ proc' = [p \in Procs |-> IF Pc(p, "idle") \/ Pc(p, "ok") THEN proc[p] ELSE [proc[p] EXCEPT !.pc = "failed"]]
    /\ UNCHANGED edits

-----------------------------------------------------------------------------
Process(p) ==
    \/ Starts(p) \/ Opens(p) \/ Reads(p) \/ Checks(p)
    \/ Writes(p) \/ Syncs(p) \/ Rechecks(p) \/ Links(p) \/ Renames(p) \/ SyncsDirectory(p) \/ Fails(p)

Next == (\E p \in Procs : Process(p)) \/ Edits \/ Crash

Spec == Init /\ [][Next]_vars
===============================================================================
