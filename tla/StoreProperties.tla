---------------------------- MODULE StoreProperties ----------------------------
(* What saving and reading a vector file must satisfy. *)
EXTENDS VectorStore

Pcs == {"idle", "open", "read", "check", "write", "sync", "recheck", "link", "rename", "dirsync",
        "ok", "failed"}

\* What is known of a process: where it is, the output's revision it found, the
\* file it has open, and what it read of it.
ProcTypes == [pc : Pcs, before : [ino : Inodes, rev : 0..MaxEdits] \cup {None},
              ino : Inodes \cup {None}, rev : 0..MaxEdits, got : Seq(Tags)]

\* Type correctness: names are bound to files, what is durable was bound, and
\* whoever reads has a file.
TypeOK ==
    /\ node \in [Inodes -> [data : Seq(Tags), rev : 0..MaxEdits, synced : BOOLEAN]]
    /\ log \in Seq(Inodes \cup {None}) /\ durable \in 1..Len(log)
    /\ proc \in [Procs -> ProcTypes]
    /\ edits \in 0..MaxEdits /\ crashes \in 0..MaxCrashes

\* A writer's file appears at the output name only when it is whole, and stays
\* whole whatever the power losses: replacement is atomic (vector_file.rs:179).
OutputIsWhole ==
    \A p \in 1..Writers : Out = p /\ node[p].rev = 0 => Whole(node[p].data)

\* Once write_vectors has returned, no power loss brings an older file back.
SavedIsDurable ==
    \A p \in 1..Writers : Pc(p, "ok") => \E i \in 1..durable : log[i] = p

\* Whoever reads the file gets the whole of one version, never a mixture,
\* although it is replaced and rewritten meanwhile.
ReadsOneVersion ==
    \A p \in Procs : ~Saves(p) /\ Pc(p, "ok") => Whole(proc[p].got)

\* A writer that found no file when it started replaces none, whoever created
\* one since, another writer of the same output included.
NewOutputReplacesNothing ==
    [][\A p \in 1..Writers :
          proc[p].before = None /\ Len(log') > Len(log) /\ log'[Len(log')] = p => Out = None]_vars
===============================================================================
