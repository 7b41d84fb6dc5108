------------------------------- MODULE StoreProofs -------------------------------
(* Theorems about saving and reading a vector file, for every value of the  *)
(* constants.                                                               *)
EXTENDS StoreProperties, TLAPS, SequenceTheorems

-----------------------------------------------------------------------------
(* The inductive invariant: what is known of the files, and of a process   *)
(* whose record is r.                                                      *)

\* A file's data is of one version, and has no revision from the future.
FilesKnown ==
    \A i \in Inodes :
        /\ Len(node[i].data) <= 2
        /\ \A a, b \in 1..Len(node[i].data) : node[i].data[a] = node[i].data[b]
        /\ node[i].rev <= edits

\* As long as the file is as it was opened, what was read of it is its start.
ReadIsPrefix(r) ==
    /\ r.rev <= edits
    /\ r.pc \in {"idle", "open"} => r.got = <<>>
    /\ r.pc \in {"read", "check"} =>
          /\ r.ino \in Inodes
          /\ node[r.ino].rev = r.rev =>
                /\ Len(r.got) <= Len(node[r.ino].data)
                /\ \A k \in 1..Len(r.got) : r.got[k] = node[r.ino].data[k]

\* A reader only reads, and what it returns is a whole file.
ReaderKnown(r) ==
    /\ r.pc \in {"idle", "open", "read", "check", "ok", "failed"}
    /\ r.pc = "ok" => Whole(r.got)

Bound(i) == \E k \in 1..Len(log) : log[k] = i

\* Before it is bound, a writer's file is its own; once bound, it is whole and on
\* the disk, and stays so once the directory is synced.
WriterKnown(p, r) ==
    /\ r.pc \notin {"dirsync", "ok", "failed"} => ~Bound(p) /\ node[p].rev = 0
    /\ r.pc \in {"sync", "recheck", "link", "rename"} => Len(node[p].data) = 2
    /\ r.pc \in {"recheck", "link", "rename"} => node[p].synced
    /\ r.pc = "rename" => r.before # None
    /\ r.pc = "dirsync" => Bound(p)
    /\ r.pc = "ok" => \E i \in 1..durable : log[i] = p

TemporariesKnown ==
    \A p \in 1..Writers :
        /\ node[p].rev = 0 => \A k \in 1..Len(node[p].data) : node[p].data[k] = p
        /\ Bound(p) => node[p].synced /\ Len(node[p].data) = 2

ProcessKnown(p, r) ==
    /\ ReadIsPrefix(r)
    /\ IF Saves(p) THEN WriterKnown(p, r) ELSE ReaderKnown(r)

StoreInv ==
    /\ TypeOK /\ FilesKnown /\ TemporariesKnown
    /\ \A p \in Procs : ProcessKnown(p, proc[p])

-----------------------------------------------------------------------------
LEMMA StoreStarts == Init => StoreInv
<1> SUFFICES ASSUME Init PROVE StoreInv
  OBVIOUS
<1>1. TypeOK
  <2>1. node \in [Inodes -> [data : Seq(Tags), rev : 0..MaxEdits, synced : BOOLEAN]]
    <3>1. PICK d \in {<<0, 0>>, <<Foreign, Foreign>>} :
              node = [i \in Inodes |-> [data |-> IF i = 0 THEN d ELSE <<>>, rev |-> 0, synced |-> TRUE]]
      BY DEF Init
    <3>2. 0 \in Tags /\ Foreign \in Tags /\ 0 \in 0..MaxEdits
      BY StoreAssumption DEF Tags
    <3>3. d \in Seq(Tags) /\ <<>> \in Seq(Tags)
      BY <3>2
    <3> QED BY <3>1, <3>2, <3>3
  <2>2. log \in Seq(Inodes \cup {None}) /\ durable \in 1..Len(log)
    <3>1. 0 \in Inodes
      BY StoreAssumption DEF Inodes
    <3>2. CASE log = <<None>>
      BY <3>1, <3>2 DEF Init
    <3>3. CASE log = <<0>>
      BY <3>1, <3>3 DEF Init
    <3> QED BY <3>2, <3>3 DEF Init
  <2>3. proc \in [Procs -> ProcTypes]
    BY StoreAssumption DEF Init, ProcTypes, Pcs
  <2> QED BY <2>1, <2>2, <2>3, StoreAssumption DEF Init, TypeOK
<1>2. FilesKnown
  <2>1. PICK d \in {<<0, 0>>, <<Foreign, Foreign>>} :
            node = [i \in Inodes |-> [data |-> IF i = 0 THEN d ELSE <<>>, rev |-> 0, synced |-> TRUE]]
    BY DEF Init
  <2>2. \A i \in Inodes : node[i].rev = 0 /\ node[i].data \in {d, <<>>}
    BY <2>1
  <2>3. ASSUME NEW x \in {d, <<>>} PROVE Len(x) <= 2 /\ \A a, b \in 1..Len(x) : x[a] = x[b]
    <3>1. x = <<>> \/ \E t : x = <<t, t>>
      OBVIOUS
    <3>2. CASE x = <<>>
      BY <3>2
    <3>3. CASE \E t : x = <<t, t>>
      <4>1. PICK t : x = <<t, t>>
        BY <3>3
      <4>2. Len(x) = 2 /\ x[1] = t /\ x[2] = t
        BY <4>1
      <4> QED BY <4>2
    <3> QED BY <3>1, <3>2, <3>3
  <2>4. edits = 0
    BY DEF Init
  <2> QED BY <2>2, <2>3, <2>4 DEF FilesKnown
<1>3. TemporariesKnown
  BY StoreAssumption DEF Init, TemporariesKnown, Inodes, Bound
<1>4. \A p \in Procs : ProcessKnown(p, proc[p])
  BY StoreAssumption DEF Init, ProcessKnown, ReadIsPrefix, WriterKnown, ReaderKnown, Inodes, Bound, Procs, Saves
<1> QED BY <1>1, <1>2, <1>3, <1>4 DEF StoreInv

\* A step of one process that leaves the files alone.
LEMMA Moves ==
    ASSUME StoreInv, NEW p \in Procs, NEW r \in ProcTypes, ProcessKnown(p, r),
           proc' = [proc EXCEPT ![p] = r], Files, World
    PROVE  StoreInv'
<1>1. TypeOK'
  BY DEF StoreInv, TypeOK, Files, World
<1>2. FilesKnown' /\ TemporariesKnown'
  BY DEF StoreInv, FilesKnown, TemporariesKnown, Bound, Files, World
<1>3. ASSUME NEW q \in Procs PROVE ProcessKnown(q, proc[q])'
  <2>1. ProcessKnown(q, proc'[q])
    BY DEF StoreInv, TypeOK
  <2> QED
    BY <2>1 DEF ProcessKnown, ReadIsPrefix, WriterKnown, ReaderKnown, Bound, Files, World
<1> QED BY <1>1, <1>2, <1>3 DEF StoreInv

-----------------------------------------------------------------------------
(* The steps of a process.                                                 *)

\* The record of a process that moves to pc and keeps the rest.
LEMMA MovedTo ==
    ASSUME NEW r \in ProcTypes, NEW pc \in Pcs
    PROVE  /\ [r EXCEPT !.pc = pc] \in ProcTypes /\ [r EXCEPT !.pc = pc].pc = pc
           /\ [r EXCEPT !.pc = pc].got = r.got /\ [r EXCEPT !.pc = pc].rev = r.rev
           /\ [r EXCEPT !.pc = pc].ino = r.ino /\ [r EXCEPT !.pc = pc].before = r.before
BY DEF ProcTypes

\* A goto, if what must be known at pc is.
LEMMA Gotos ==
    ASSUME StoreInv, NEW p \in Procs, NEW pc \in Pcs, Goto(p, pc), Files, World,
           ProcessKnown(p, [proc[p] EXCEPT !.pc = pc])
    PROVE  StoreInv'
<1>1. proc[p] \in ProcTypes /\ proc' = [proc EXCEPT ![p] = [proc[p] EXCEPT !.pc = pc]]
  BY DEF StoreInv, TypeOK, Goto
<1>2. [proc[p] EXCEPT !.pc = pc] \in ProcTypes
  BY <1>1, MovedTo
<1> QED BY <1>1, <1>2, Moves

LEMMA StartsStep == ASSUME StoreInv, NEW p \in Procs, Starts(p) PROVE StoreInv'
<1>1. proc[p] \in ProcTypes /\ ProcessKnown(p, proc[p]) /\ proc[p].pc = "idle" /\ Files /\ World
  BY DEF StoreInv, TypeOK, Starts, Pc
<1>2. CASE Saves(p) /\ Out = None
  <2>1. Goto(p, "write")
    BY <1>2 DEF Starts
  <2>2. ProcessKnown(p, [proc[p] EXCEPT !.pc = "write"])
    BY <1>1, <1>2, MovedTo DEF ProcessKnown, ReadIsPrefix, WriterKnown, Pcs
  <2> QED BY <1>1, <2>1, <2>2, Gotos DEF Pcs
<1>3. CASE ~(Saves(p) /\ Out = None)
  <2> DEFINE b == IF Saves(p) THEN [ino |-> Out, rev |-> node[Out].rev] ELSE None
             r == [proc[p] EXCEPT !.pc = "open", !.before = b]
  <2>1. proc' = [proc EXCEPT ![p] = r]
    BY <1>1, <1>3 DEF Starts, StoreInv, TypeOK
  <2>2. b \in [ino : Inodes, rev : 0..MaxEdits] \cup {None}
    BY <1>3 DEF StoreInv, TypeOK, Out
  <2> HIDE DEF b
  <2>3. /\ r \in ProcTypes /\ r.pc = "open" /\ r.got = proc[p].got /\ r.rev = proc[p].rev
    BY <1>1, <2>2 DEF ProcTypes, Pcs
  <2> HIDE DEF r
  <2>4. ProcessKnown(p, r)
    BY <1>1, <2>3 DEF ProcessKnown, ReadIsPrefix, WriterKnown, ReaderKnown
  <2> QED BY <1>1, <2>1, <2>3, <2>4, Moves
<1> QED BY <1>2, <1>3

LEMMA OpensStep == ASSUME StoreInv, NEW p \in Procs, Opens(p) PROVE StoreInv'
<1> DEFINE r == [proc[p] EXCEPT !.pc = "read", !.ino = Out, !.rev = node[Out].rev]
<1>1. /\ proc[p] \in ProcTypes /\ ProcessKnown(p, proc[p]) /\ proc[p].pc = "open" /\ Files /\ World
      /\ proc' = [proc EXCEPT ![p] = r]
  BY DEF StoreInv, TypeOK, Opens, Pc
<1>2. Out \in Inodes /\ node[Out].rev \in 0..MaxEdits /\ node[Out].rev <= edits
  BY DEF StoreInv, TypeOK, FilesKnown, Opens, Out
<1>3. /\ r \in ProcTypes /\ r.pc = "read" /\ r.got = proc[p].got
      /\ r.ino = Out /\ r.rev = node[Out].rev
  BY <1>1, <1>2 DEF ProcTypes, Pcs
<1> HIDE DEF r
<1>4. ProcessKnown(p, r)
  BY <1>1, <1>2, <1>3 DEF StoreInv, TypeOK, ProcessKnown, ReadIsPrefix, WriterKnown, ReaderKnown
<1> QED BY <1>1, <1>3, <1>4, Moves

LEMMA ReadsStep == ASSUME StoreInv, NEW p \in Procs, Reads(p) PROVE StoreInv'
<1>1. /\ proc[p] \in ProcTypes /\ ProcessKnown(p, proc[p]) /\ proc[p].pc = "read" /\ Files /\ World
      /\ proc[p].ino \in Inodes /\ proc[p].got \in Seq(Tags)
  BY DEF StoreInv, TypeOK, Reads, Pc, ProcessKnown, ReadIsPrefix, ProcTypes
<1> DEFINE data == node[proc[p].ino].data
           i == Len(proc[p].got) + 1
           r == [proc[p] EXCEPT !.got = Append(@, data[i])]
<1>2. data \in Seq(Tags)
  BY <1>1 DEF StoreInv, TypeOK
<1>3. CASE i <= Len(data)
  <2>1. proc' = [proc EXCEPT ![p] = r]
    BY <1>1, <1>3 DEF Reads, StoreInv, TypeOK
  <2>2. data[i] \in Tags
    BY <1>1, <1>2, <1>3
  <2>3. /\ Append(proc[p].got, data[i]) \in Seq(Tags) /\ Len(Append(proc[p].got, data[i])) = i
        /\ \A k \in 1..i : Append(proc[p].got, data[i])[k] = IF k = i THEN data[i] ELSE proc[p].got[k]
    BY <1>1, <2>2
  <2>4. /\ r \in ProcTypes /\ r.pc = "read" /\ r.got = Append(proc[p].got, data[i])
        /\ r.ino = proc[p].ino /\ r.rev = proc[p].rev
    BY <1>1, <2>3 DEF ProcTypes
  <2>5. ReadIsPrefix(r)
    <3>1. ReadIsPrefix(proc[p])
      BY <1>1 DEF ProcessKnown
    <3> HIDE DEF r
    <3> QED BY <1>1, <1>2, <1>3, <2>3, <2>4, <3>1 DEF ReadIsPrefix
  <2> HIDE DEF r
  <2>6. ProcessKnown(p, r)
    BY <1>1, <2>4, <2>5 DEF ProcessKnown, WriterKnown, ReaderKnown
  <2> QED BY <1>1, <2>1, <2>4, <2>6, Moves
<1>4. CASE ~(i <= Len(data))
  <2>1. Goto(p, "check")
    BY <1>4 DEF Reads
  <2>2. ProcessKnown(p, [proc[p] EXCEPT !.pc = "check"])
    BY <1>1, MovedTo DEF ProcessKnown, ReadIsPrefix, WriterKnown, ReaderKnown, Pcs
  <2> QED BY <1>1, <2>1, <2>2, Gotos DEF Pcs
<1> QED BY <1>3, <1>4

LEMMA FailsStep == ASSUME StoreInv, NEW p \in Procs, Fails(p) PROVE StoreInv'
<1>1. /\ proc[p] \in ProcTypes /\ ProcessKnown(p, proc[p]) /\ Files /\ World /\ Goto(p, "failed")
  BY DEF StoreInv, TypeOK, Fails
<1>2. ProcessKnown(p, [proc[p] EXCEPT !.pc = "failed"])
  BY <1>1, MovedTo DEF ProcessKnown, ReadIsPrefix, WriterKnown, ReaderKnown, Pcs
<1> QED BY <1>1, <1>2, Gotos DEF Pcs

LEMMA ChecksStep == ASSUME StoreInv, NEW p \in Procs, Checks(p) PROVE StoreInv'
<1>1. /\ proc[p] \in ProcTypes /\ ProcessKnown(p, proc[p]) /\ proc[p].pc = "check" /\ Files /\ World
      /\ proc[p].ino \in Inodes /\ proc[p].got \in Seq(Tags)
  BY DEF StoreInv, TypeOK, Checks, Pc, ProcessKnown, ReadIsPrefix, ProcTypes
<1>2. CASE Goto(p, "failed")
  <2>1. ProcessKnown(p, [proc[p] EXCEPT !.pc = "failed"])
    BY <1>1, MovedTo DEF ProcessKnown, ReadIsPrefix, WriterKnown, ReaderKnown, Pcs
  <2> QED BY <1>1, <1>2, <2>1, Gotos DEF Pcs
<1>3. CASE Goto(p, "write") /\ Saves(p)
  <2>1. ProcessKnown(p, [proc[p] EXCEPT !.pc = "write"])
    BY <1>1, <1>3, MovedTo DEF ProcessKnown, ReadIsPrefix, WriterKnown, Pcs
  <2> QED BY <1>1, <1>3, <2>1, Gotos DEF Pcs
<1>4. CASE /\ Goto(p, "ok") /\ ~Saves(p) /\ StillCurrent(proc[p].ino, proc[p].rev)
           /\ Len(proc[p].got) = 2 /\ Foreign \notin {proc[p].got[1], proc[p].got[2]}
  <2> DEFINE data == node[proc[p].ino].data
  <2>1. /\ 2 <= Len(data) /\ proc[p].got[1] = data[1] /\ proc[p].got[2] = data[2]
    BY <1>1, <1>4 DEF StillCurrent, ProcessKnown, ReadIsPrefix
  <2>2. data[1] = data[2]
    BY <1>1, <2>1 DEF StoreInv, FilesKnown, TypeOK
  <2>3. Whole(proc[p].got)
    BY <1>4, <2>1, <2>2 DEF Whole
  <2>4. ProcessKnown(p, [proc[p] EXCEPT !.pc = "ok"])
    BY <1>1, <1>4, <2>3, MovedTo DEF ProcessKnown, ReadIsPrefix, ReaderKnown, Pcs
  <2> QED BY <1>1, <1>4, <2>4, Gotos DEF Pcs
<1> QED BY <1>2, <1>3, <1>4 DEF Checks

LEMMA RechecksStep == ASSUME StoreInv, NEW p \in Procs, Rechecks(p) PROVE StoreInv'
<1>1. /\ proc[p] \in ProcTypes /\ ProcessKnown(p, proc[p]) /\ proc[p].pc = "recheck" /\ Files /\ World
      /\ Saves(p)
  BY DEF StoreInv, TypeOK, Rechecks, Pc, ProcessKnown, ReaderKnown
<1>2. ASSUME NEW pc \in {"link", "rename", "failed"}, Goto(p, pc), pc = "rename" => proc[p].before # None
      PROVE  StoreInv'
  <2>1. pc \in Pcs
    BY DEF Pcs
  <2>2. ProcessKnown(p, [proc[p] EXCEPT !.pc = pc])
    BY <1>1, <1>2, <2>1, MovedTo DEF ProcessKnown, ReadIsPrefix, WriterKnown
  <2> QED BY <1>1, <1>2, <2>1, <2>2, Gotos
<1> QED BY <1>2 DEF Rechecks

-----------------------------------------------------------------------------
(* The steps that change files.                                            *)

\* A process past its reading is a writer, and its file an inode.
LEMMA IsWriter ==
    ASSUME StoreInv, NEW p \in Procs, proc[p].pc \in {"write", "sync", "recheck", "link", "rename", "dirsync"}
    PROVE  Saves(p) /\ p \in 1..Writers /\ p \in Inodes /\ p \in Tags /\ WriterKnown(p, proc[p])
BY StoreAssumption DEF StoreInv, ProcessKnown, ReaderKnown, Saves, Procs, Inodes, Tags

LEMMA WritesStep == ASSUME StoreInv, NEW p \in Procs, Writes(p) PROVE StoreInv'
<1>1. /\ p \in 1..Writers /\ p \in Inodes /\ p \in Tags /\ WriterKnown(p, proc[p]) /\ Saves(p)
      /\ proc[p] \in ProcTypes /\ ProcessKnown(p, proc[p]) /\ proc[p].pc = "write"
  BY IsWriter DEF Writes, Pc, StoreInv, TypeOK
<1>2. node[p].data \in Seq(Tags) /\ ~Bound(p) /\ node[p].rev = 0
  BY <1>1 DEF StoreInv, TypeOK, WriterKnown
<1>3. CASE Len(node[p].data) < 2
  <2> DEFINE d == Append(node[p].data, p)
             n == [node[p] EXCEPT !.data = d, !.synced = FALSE]
  <2>1. node' = [node EXCEPT ![p] = n] /\ UNCHANGED <<proc, log, durable, edits, crashes>>
    BY <1>1, <1>3 DEF Writes, World, StoreInv, TypeOK
  <2>2. /\ d \in Seq(Tags) /\ Len(d) = Len(node[p].data) + 1 /\ Len(node[p].data) \in Nat
        /\ \A k \in 1..Len(node[p].data) : d[k] = node[p].data[k]
        /\ d[Len(node[p].data) + 1] = p
    BY <1>1, <1>2
  <2>3. \A k \in 1..Len(d) : d[k] = p
    BY <1>1, <1>2, <2>2 DEF StoreInv, TemporariesKnown
  <2> HIDE DEF d
  <2>4. n \in [data : Seq(Tags), rev : 0..MaxEdits, synced : BOOLEAN] /\ n.data = d /\ n.rev = 0
    BY <1>1, <1>2, <2>2 DEF StoreInv, TypeOK
  <2> HIDE DEF n
  <2>5. TypeOK'
    BY <2>1, <2>4 DEF StoreInv, TypeOK
  <2>6. FilesKnown'
    <3>1. /\ node'[p] = n /\ \A i \in Inodes : i # p => node'[i] = node[i]
          /\ edits' = edits /\ edits \in Nat
      BY <1>1, <2>1, StoreAssumption DEF StoreInv, TypeOK
    <3>2. Len(d) <= 2 /\ \A a, b \in 1..Len(d) : d[a] = d[b]
      BY <1>3, <2>2, <2>3
    <3> QED BY <2>4, <3>1, <3>2 DEF StoreInv, FilesKnown
  <2>7. TemporariesKnown'
    <3>1. /\ node'[p] = n /\ log' = log
          /\ \A q \in 1..Writers : q # p => node'[q] = node[q]
      BY <1>1, <2>1, StoreAssumption DEF StoreInv, TypeOK, Inodes
    <3> QED BY <1>2, <2>3, <2>4, <3>1 DEF StoreInv, TemporariesKnown, Bound
  <2>8. ASSUME NEW q \in Procs PROVE ProcessKnown(q, proc[q])'
    <3>1. proc'[q] = proc[q] /\ ProcessKnown(q, proc[q])
      BY <2>1 DEF StoreInv
    <3>2. ReadIsPrefix(proc[q])'
      <4>1. \A i \in Inodes : /\ node'[i].rev = node[i].rev /\ Len(node[i].data) <= Len(node'[i].data)
                             /\ \A k \in 1..Len(node[i].data) : node'[i].data[k] = node[i].data[k]
        BY <1>1, <1>2, <2>1, <2>2, <2>4 DEF StoreInv, TypeOK
      <4>2. proc[q].got \in Seq(Tags)
        BY DEF StoreInv, TypeOK, ProcTypes
      <4>3. \A i \in Inodes : node[i].data \in Seq(Tags) /\ node'[i].data \in Seq(Tags)
        BY <2>5 DEF StoreInv, TypeOK
      <4>4. ReadIsPrefix(proc[q])
        BY <3>1 DEF ProcessKnown
      <4>5. \A i \in Inodes : Len(node[i].data) \in Nat /\ Len(node'[i].data) \in Nat /\ Len(proc[q].got) \in Nat
        BY <4>2, <4>3
      <4> QED BY <2>1, <3>1, <4>1, <4>4, <4>5 DEF ReadIsPrefix
    <3>3. q # p /\ Saves(q) => node'[q] = node[q]
      BY <1>1, <2>1, StoreAssumption DEF StoreInv, TypeOK
    <3>4. CASE q = p
      BY <1>1, <1>2, <2>1, <2>4, <3>1, <3>2, <3>4 DEF ProcessKnown, WriterKnown, Bound, StoreInv, TypeOK
    <3>5. CASE q # p
      BY <2>1, <3>1, <3>2, <3>3, <3>5 DEF ProcessKnown, WriterKnown, ReaderKnown, Bound
    <3> QED BY <3>4, <3>5
  <2> QED BY <2>5, <2>6, <2>7, <2>8 DEF StoreInv
<1>4. CASE ~(Len(node[p].data) < 2)
  <2>1. Goto(p, "sync") /\ Files /\ World
    BY <1>4 DEF Writes, Files
  <2>2. Len(node[p].data) = 2
    <3>1. Len(node[p].data) <= 2 /\ Len(node[p].data) \in Nat
      BY <1>1, <1>2 DEF StoreInv, FilesKnown
    <3>2. \A m \in Nat : m <= 2 /\ ~(m < 2) => m = 2
      OBVIOUS
    <3> QED BY <1>4, <3>1, <3>2, Zenon
  <2>3. ProcessKnown(p, [proc[p] EXCEPT !.pc = "sync"])
    BY <1>1, <2>2, MovedTo DEF ProcessKnown, ReadIsPrefix, WriterKnown, Pcs
  <2> QED BY <2>1, <2>3, Gotos DEF Pcs
<1> QED BY <1>3, <1>4

LEMMA SyncsStep == ASSUME StoreInv, NEW p \in Procs, Syncs(p) PROVE StoreInv'
<1>1. /\ p \in 1..Writers /\ p \in Inodes /\ WriterKnown(p, proc[p]) /\ Saves(p)
      /\ proc[p] \in ProcTypes /\ ProcessKnown(p, proc[p]) /\ proc[p].pc = "sync"
  BY IsWriter DEF Syncs, Pc, StoreInv, TypeOK
<1> DEFINE n == [node[p] EXCEPT !.synced = TRUE]
           r == [proc[p] EXCEPT !.pc = "recheck"]
<1>2. /\ node' = [node EXCEPT ![p] = n] /\ proc' = [proc EXCEPT ![p] = r]
      /\ UNCHANGED <<log, durable, edits, crashes>>
  BY <1>1 DEF Syncs, World, Goto, StoreInv, TypeOK
<1>3. /\ n \in [data : Seq(Tags), rev : 0..MaxEdits, synced : BOOLEAN]
      /\ n.data = node[p].data /\ n.rev = node[p].rev /\ n.synced = TRUE
  BY <1>1 DEF StoreInv, TypeOK
<1>4. /\ r \in ProcTypes /\ r.pc = "recheck" /\ r.got = proc[p].got /\ r.rev = proc[p].rev
  BY <1>1, MovedTo DEF Pcs
<1> HIDE DEF n, r
<1>5. TypeOK'
  BY <1>2, <1>3, <1>4 DEF StoreInv, TypeOK
<1>6. /\ \A i \in Inodes : node'[i].rev = node[i].rev /\ node'[i].data = node[i].data
      /\ \A i \in Inodes : i # p => node'[i].synced = node[i].synced
      /\ node'[p].synced
  BY <1>1, <1>2, <1>3 DEF StoreInv, TypeOK
<1>7. FilesKnown'
  BY <1>2, <1>6 DEF StoreInv, FilesKnown
<1>8. TemporariesKnown'
  BY <1>1, <1>2, <1>6, StoreAssumption DEF StoreInv, TemporariesKnown, Bound, Inodes
<1>9. ASSUME NEW q \in Procs PROVE ProcessKnown(q, proc[q])'
  <2>1. ProcessKnown(q, proc[q]) /\ (Saves(q) => q \in Inodes)
    BY StoreAssumption DEF StoreInv, Procs, Inodes, Saves
  <2>2. CASE q = p
    BY <1>1, <1>2, <1>4, <1>6, <2>2 DEF ProcessKnown, ReadIsPrefix, WriterKnown, Bound, StoreInv, TypeOK
  <2>3. CASE q # p
    <3>1. proc'[q] = proc[q]
      BY <1>2, <2>3 DEF StoreInv, TypeOK
    <3> QED BY <1>2, <1>6, <2>1, <2>3, <3>1 DEF ProcessKnown, ReadIsPrefix, WriterKnown, ReaderKnown, Bound
  <2> QED BY <2>2, <2>3
<1> QED BY <1>5, <1>7, <1>8, <1>9 DEF StoreInv

\* The name is bound to a writer's whole file, or to what an edit puts there.
LEMMA BindsStep ==
    ASSUME StoreInv, NEW p \in Procs, Links(p) \/ Renames(p), log' # log
    PROVE  StoreInv'
<1>1. /\ p \in 1..Writers /\ p \in Inodes /\ WriterKnown(p, proc[p]) /\ Saves(p)
      /\ proc[p] \in ProcTypes /\ ProcessKnown(p, proc[p]) /\ proc[p].pc \in {"link", "rename"}
  BY IsWriter DEF Links, Renames, Pc, StoreInv, TypeOK
<1> DEFINE r == [proc[p] EXCEPT !.pc = "dirsync"]
<1>2. /\ log' = Append(log, p) /\ proc' = [proc EXCEPT ![p] = r]
      /\ UNCHANGED <<node, durable, edits, crashes>>
  BY <1>1 DEF Links, Renames, World, Goto, StoreInv, TypeOK
<1>3. /\ r \in ProcTypes /\ r.pc = "dirsync" /\ r.got = proc[p].got /\ r.rev = proc[p].rev
  BY <1>1, MovedTo DEF Pcs
<1> HIDE DEF r
<1>4. /\ log' \in Seq(Inodes \cup {None}) /\ Len(log') = Len(log) + 1 /\ Len(log) \in Nat
      /\ \A k \in 1..Len(log) : log'[k] = log[k]
      /\ log'[Len(log) + 1] = p
  BY <1>1, <1>2 DEF StoreInv, TypeOK
<1>5. durable \in 1..Len(log) /\ durable' = durable
  BY <1>2 DEF StoreInv, TypeOK
<1>6. TypeOK'
  BY <1>2, <1>3, <1>4, <1>5 DEF StoreInv, TypeOK
<1>7. FilesKnown'
  BY <1>2 DEF StoreInv, FilesKnown
<1>8. \A i : Bound(i)' <=> Bound(i) \/ i = p
  BY <1>4 DEF Bound
<1>9. TemporariesKnown'
  BY <1>1, <1>2, <1>8 DEF StoreInv, TemporariesKnown, WriterKnown
<1>10. ASSUME NEW q \in Procs PROVE ProcessKnown(q, proc[q])'
  <2>1. ProcessKnown(q, proc[q])
    BY DEF StoreInv
  <2>2. CASE q = p
    BY <1>1, <1>2, <1>3, <1>8, <2>2 DEF ProcessKnown, ReadIsPrefix, WriterKnown, StoreInv, TypeOK
  <2>3. CASE q # p
    <3>1. proc'[q] = proc[q] /\ (Bound(q)' <=> Bound(q))
      BY <1>2, <1>8, <2>3 DEF StoreInv, TypeOK
    <3>2. (\E i \in 1..durable : log[i] = q) => \E i \in 1..durable' : log'[i] = q
      BY <1>4, <1>5
    <3> QED BY <1>2, <2>1, <3>1, <3>2 DEF ProcessKnown, ReadIsPrefix, WriterKnown, ReaderKnown
  <2> QED BY <2>2, <2>3
<1> QED BY <1>6, <1>7, <1>9, <1>10 DEF StoreInv

LEMMA LinksStep == ASSUME StoreInv, NEW p \in Procs, Links(p) \/ Renames(p) PROVE StoreInv'
<1>1. CASE log' # log
  BY <1>1, BindsStep
<1>2. CASE log' = log
  <2>1. log \in Seq(Inodes \cup {None})
    BY DEF StoreInv, TypeOK
  <2>2. log' # Append(log, p)
    <3>1. p \in Inodes
      BY IsWriter DEF Links, Renames, Pc
    <3>2. Len(Append(log, p)) # Len(log)
      BY <2>1, <3>1
    <3> QED BY <1>2, <3>2
  <2>3. Goto(p, "failed") /\ Files /\ World
    BY <1>2, <2>2 DEF Links, Renames, Files
  <2>4. ProcessKnown(p, [proc[p] EXCEPT !.pc = "failed"])
    BY MovedTo DEF StoreInv, TypeOK, ProcessKnown, ReadIsPrefix, WriterKnown, ReaderKnown, Pcs
  <2> QED BY <2>3, <2>4, Gotos DEF Pcs
<1> QED BY <1>1, <1>2

LEMMA SyncsDirectoryStep == ASSUME StoreInv, NEW p \in Procs, SyncsDirectory(p) PROVE StoreInv'
<1>1. /\ p \in 1..Writers /\ WriterKnown(p, proc[p]) /\ Saves(p)
      /\ proc[p] \in ProcTypes /\ ProcessKnown(p, proc[p]) /\ proc[p].pc = "dirsync"
  BY IsWriter DEF SyncsDirectory, Pc, StoreInv, TypeOK
<1> DEFINE r == [proc[p] EXCEPT !.pc = "ok"]
<1>2. /\ durable' = Len(log) /\ proc' = [proc EXCEPT ![p] = r]
      /\ UNCHANGED <<node, log, edits, crashes>>
  BY <1>1 DEF SyncsDirectory, World, Goto, StoreInv, TypeOK
<1>3. /\ r \in ProcTypes /\ r.pc = "ok" /\ r.got = proc[p].got /\ r.rev = proc[p].rev
  BY <1>1, MovedTo DEF Pcs
<1> HIDE DEF r
<1>4. durable \in 1..Len(log) /\ Len(log) \in Nat
  BY DEF StoreInv, TypeOK
<1>5. TypeOK'
  BY <1>2, <1>3, <1>4 DEF StoreInv, TypeOK
<1>6. FilesKnown' /\ TemporariesKnown'
  BY <1>2 DEF StoreInv, FilesKnown, TemporariesKnown, Bound
<1>7. ASSUME NEW q \in Procs PROVE ProcessKnown(q, proc[q])'
  <2>1. ProcessKnown(q, proc[q])
    BY DEF StoreInv
  <2>2. CASE q = p
    BY <1>1, <1>2, <1>3, <2>2 DEF ProcessKnown, ReadIsPrefix, WriterKnown, Bound, StoreInv, TypeOK
  <2>3. CASE q # p
    <3>1. proc'[q] = proc[q]
      BY <1>2, <2>3 DEF StoreInv, TypeOK
    <3>2. \A i \in 1..durable : i \in 1..durable'
      BY <1>2, <1>4
    <3> QED BY <1>2, <2>1, <3>1, <3>2 DEF ProcessKnown, ReadIsPrefix, WriterKnown, ReaderKnown, Bound
  <2> QED BY <2>2, <2>3
<1> QED BY <1>5, <1>6, <1>7 DEF StoreInv

-----------------------------------------------------------------------------
(* Other programs and power losses.                                        *)

\* A file put at an inode that is no writer's temporary file any more, or the
\* name bound to something that is no writer's.
LEMMA Edited ==
    ASSUME StoreInv, edits < MaxEdits, edits' = edits + 1, UNCHANGED <<durable, proc, crashes>>,
           NEW i \in Inodes, NEW t \in Tags, i \in 1..Writers => Bound(i),
           NEW x \in Inodes \cup {None}, x \notin 1..Writers,
           node' = node \/ node' = [node EXCEPT ![i] = [data |-> <<t, t>>, rev |-> edits + 1, synced |-> TRUE]],
           log' = log \/ log' = Append(log, x)
    PROVE  StoreInv'
<1>1. edits \in Nat /\ edits + 1 \in 0..MaxEdits /\ edits' \in 0..MaxEdits
  BY StoreAssumption DEF StoreInv, TypeOK
<1>2. \A j \in Inodes : \/ node'[j] = node[j]
                        \/ j = i /\ node'[j] = [data |-> <<t, t>>, rev |-> edits + 1, synced |-> TRUE]
  BY DEF StoreInv, TypeOK
<1>3. /\ log' \in Seq(Inodes \cup {None}) /\ Len(log) \in Nat /\ Len(log') \in Nat
      /\ Len(log') \in {Len(log), Len(log) + 1}
      /\ \A k \in 1..Len(log) : log'[k] = log[k]
      /\ Len(log') # Len(log) => log'[Len(log) + 1] = x
  <2>1. log \in Seq(Inodes \cup {None}) /\ Len(log) \in Nat
    BY DEF StoreInv, TypeOK
  <2>2. CASE log' = log
    BY <2>1, <2>2
  <2>3. CASE log' = Append(log, x)
    BY <2>1, <2>3
  <2> QED BY <2>2, <2>3
<1>4. \A p \in 1..Writers : Bound(p)' <=> Bound(p)
  BY <1>3 DEF Bound
<1>5. durable \in 1..Len(log) /\ durable' = durable
  BY DEF StoreInv, TypeOK
<1>6. <<t, t>> \in Seq(Tags) /\ Len(<<t, t>>) = 2 /\ \A a, b \in 1..2 : <<t, t>>[a] = <<t, t>>[b]
  OBVIOUS
<1>7. TypeOK'
  <2>1. node' \in [Inodes -> [data : Seq(Tags), rev : 0..MaxEdits, synced : BOOLEAN]]
    <3>1. [data |-> <<t, t>>, rev |-> edits + 1, synced |-> TRUE]
              \in [data : Seq(Tags), rev : 0..MaxEdits, synced : BOOLEAN]
      BY <1>1, <1>6
    <3> QED BY <3>1 DEF StoreInv, TypeOK
  <2> QED BY <1>1, <1>3, <1>5, <2>1 DEF StoreInv, TypeOK
<1>8. FilesKnown'
  <2> SUFFICES ASSUME NEW j \in Inodes
               PROVE  /\ Len(node'[j].data) <= 2 /\ node'[j].rev <= edits'
                      /\ \A a, b \in 1..Len(node'[j].data) : node'[j].data[a] = node'[j].data[b]
    BY DEF FilesKnown
  <2>1. CASE node'[j] = node[j]
    BY <1>1, <2>1 DEF StoreInv, FilesKnown, TypeOK
  <2>2. CASE node'[j] = [data |-> <<t, t>>, rev |-> edits + 1, synced |-> TRUE]
    BY <1>1, <1>6, <2>2
  <2> QED BY <1>2, <2>1, <2>2
<1>9. TemporariesKnown'
  <2> SUFFICES ASSUME NEW p \in 1..Writers
               PROVE  /\ node'[p].rev = 0 => \A k \in 1..Len(node'[p].data) : node'[p].data[k] = p
                      /\ Bound(p) => node'[p].synced /\ Len(node'[p].data) = 2
    BY <1>4 DEF TemporariesKnown
  <2>1. p \in Inodes
    BY StoreAssumption DEF Inodes
  <2>2. CASE node'[p] = node[p]
    BY <2>2 DEF StoreInv, TemporariesKnown
  <2>3. CASE node'[p] = [data |-> <<t, t>>, rev |-> edits + 1, synced |-> TRUE]
    BY <1>1, <1>6, <2>3
  <2> QED BY <1>2, <2>1, <2>2, <2>3
<1>10. ASSUME NEW p \in Procs PROVE ProcessKnown(p, proc[p])'
  <2>1. proc'[p] = proc[p] /\ ProcessKnown(p, proc[p])
    BY DEF StoreInv
  <2>2. ReadIsPrefix(proc[p])'
    <3>1. ReadIsPrefix(proc[p]) /\ proc[p].rev \in Nat
      BY <2>1, StoreAssumption DEF ProcessKnown, StoreInv, TypeOK, ProcTypes
    <3>2. \A j \in Inodes : node'[j].rev = proc[p].rev => node'[j] = node[j]
      BY <1>1, <1>2, <3>1 DEF ReadIsPrefix
    <3> QED BY <1>1, <2>1, <3>1, <3>2 DEF ReadIsPrefix
  <2>3. CASE Saves(p)
    <3>1. p \in 1..Writers /\ p \in Inodes /\ WriterKnown(p, proc[p])
      BY <2>1, <2>3, StoreAssumption DEF ProcessKnown, Saves, Procs, Inodes
    <3>2. ~Bound(p) => node'[p] = node[p]
      BY <1>2, <3>1
    <3>3. (\E k \in 1..durable : log[k] = p) => \E k \in 1..durable' : log'[k] = p
      BY <1>3, <1>5
    <3> QED BY <1>4, <2>1, <2>2, <2>3, <3>1, <3>2, <3>3 DEF ProcessKnown, WriterKnown
  <2>4. CASE ~Saves(p)
    BY <2>1, <2>2, <2>4 DEF ProcessKnown, ReaderKnown
  <2> QED BY <2>3, <2>4
<1> QED BY <1>7, <1>8, <1>9, <1>10 DEF StoreInv

LEMMA EditsStep == ASSUME StoreInv, Edits PROVE StoreInv'
<1> DEFINE new == Writers + edits + 1
<1>1. /\ edits < MaxEdits /\ edits' = edits + 1 /\ UNCHANGED <<durable, proc, crashes>>
      /\ 0 \in Tags /\ Foreign \in Tags /\ None \notin 1..Writers
  BY StoreAssumption DEF Edits, Tags
<1>2. new \in Inodes /\ new \notin 1..Writers
  BY <1>1, StoreAssumption DEF Inodes, StoreInv, TypeOK
<1>3. CASE log' = Append(log, None) /\ UNCHANGED node
  BY <1>1, <1>2, <1>3, Edited
<1>4. ASSUME NEW t \in {0, Foreign}, log' = Append(log, new),
             node' = [node EXCEPT ![new] = [data |-> <<t, t>>, rev |-> edits + 1, synced |-> TRUE]]
      PROVE  StoreInv'
  BY <1>1, <1>2, <1>4, Edited
<1>5. ASSUME NEW t \in {0, Foreign}, Out # None, UNCHANGED log,
             node' = [node EXCEPT ![Out] = [data |-> <<t, t>>, rev |-> edits + 1, synced |-> TRUE]]
      PROVE  StoreInv'
  <2>1. Out \in Inodes /\ Bound(Out)
    BY <1>5 DEF Out, Bound, StoreInv, TypeOK
  <2> HIDE DEF Out
  <2> QED BY <1>1, <1>2, <1>5, <2>1, Edited
<1> QED BY <1>3, <1>4, <1>5 DEF Edits

\* What was not synced is cut off, and whoever was at work is gone.
LEMMA CrashStep == ASSUME StoreInv, Crash PROVE StoreInv'
<1>1. PICK n \in durable..Len(log) : log' = SubSeq(log, 1, n) /\ durable' = n
  BY DEF Crash
<1>2. PICK keep \in [Inodes -> 0..2] :
          /\ \A i \in Inodes : node[i].synced \/ Len(node[i].data) = 0 => keep[i] = 2
          /\ node' = [i \in Inodes |-> [node[i] EXCEPT !.data =
                        IF keep[i] < Len(@) THEN SubSeq(@, 1, keep[i]) ELSE @]]
  BY DEF Crash
<1>3. /\ log \in Seq(Inodes \cup {None}) /\ durable \in 1..Len(log) /\ Len(log) \in Nat /\ n \in Nat
      /\ edits' = edits /\ crashes' \in 0..MaxCrashes
  BY <1>1, StoreAssumption DEF StoreInv, TypeOK, Crash
<1>4. /\ log' \in Seq(Inodes \cup {None}) /\ Len(log') = n /\ durable' \in 1..Len(log')
      /\ \A k \in 1..n : k \in 1..Len(log) /\ log'[k] = log[k]
  BY <1>1, <1>3
<1>5. \A i \in Inodes :
          /\ node[i].data \in Seq(Tags) /\ node[i].rev \in 0..MaxEdits /\ node[i].synced \in BOOLEAN
          /\ Len(node[i].data) \in Nat /\ Len(node[i].data) <= 2 /\ keep[i] \in 0..2
  BY DEF StoreInv, TypeOK, FilesKnown
<1>6. ASSUME NEW i \in Inodes
      PROVE  /\ node'[i] \in [data : Seq(Tags), rev : 0..MaxEdits, synced : BOOLEAN]
             /\ node'[i].rev = node[i].rev /\ node'[i].synced = node[i].synced
             /\ Len(node'[i].data) \in Nat /\ Len(node'[i].data) <= Len(node[i].data)
             /\ \A k \in 1..Len(node'[i].data) : node'[i].data[k] = node[i].data[k]
             /\ node[i].synced => node'[i].data = node[i].data
  <2> DEFINE d == IF keep[i] < Len(node[i].data) THEN SubSeq(node[i].data, 1, keep[i]) ELSE node[i].data
  <2>1. /\ d \in Seq(Tags) /\ Len(d) \in Nat /\ Len(d) <= Len(node[i].data)
        /\ \A k \in 1..Len(d) : d[k] = node[i].data[k]
    <3>1. CASE keep[i] < Len(node[i].data)
      BY <1>5, <3>1
    <3>2. CASE ~(keep[i] < Len(node[i].data))
      BY <1>5, <3>2
    <3> QED BY <3>1, <3>2
  <2>2. node[i].synced => d = node[i].data
    BY <1>2, <1>5
  <2>3. node'[i] = [node[i] EXCEPT !.data = d]
    BY <1>2
  <2> HIDE DEF d
  <2>4. node[i] \in [data : Seq(Tags), rev : 0..MaxEdits, synced : BOOLEAN]
    BY DEF StoreInv, TypeOK
  <2>5. /\ node'[i] \in [data : Seq(Tags), rev : 0..MaxEdits, synced : BOOLEAN]
        /\ node'[i].data = d /\ node'[i].rev = node[i].rev /\ node'[i].synced = node[i].synced
    BY <2>1, <2>3, <2>4
  <2> QED BY <2>1, <2>2, <2>5
<1>7. ASSUME NEW p \in Procs
      PROVE  /\ proc[p] \in ProcTypes /\ ProcessKnown(p, proc[p]) /\ proc'[p] \in ProcTypes
             /\ proc'[p].pc \in {"failed", proc[p].pc} /\ proc'[p].pc \in {"idle", "ok", "failed"}
             /\ proc'[p].got = proc[p].got /\ proc'[p].rev = proc[p].rev
  <2> DEFINE r == [proc[p] EXCEPT !.pc = "failed"]
  <2>1. proc[p] \in ProcTypes /\ ProcessKnown(p, proc[p])
    BY DEF StoreInv, TypeOK
  <2>2. r \in ProcTypes /\ r.pc = "failed" /\ r.got = proc[p].got /\ r.rev = proc[p].rev
    BY <2>1, MovedTo DEF Pcs
  <2>3. proc'[p] = r \/ (proc'[p] = proc[p] /\ proc[p].pc \in {"idle", "ok"})
    BY DEF Crash, Pc
  <2> HIDE DEF r
  <2> QED BY <2>1, <2>2, <2>3
<1>9. TypeOK'
  <2>1. DOMAIN node' = Inodes /\ node' = [i \in Inodes |-> node'[i]]
    BY <1>2
  <2>2. node' \in [Inodes -> [data : Seq(Tags), rev : 0..MaxEdits, synced : BOOLEAN]]
    BY <1>6, <2>1
  <2>3. proc' \in [Procs -> ProcTypes]
    <3>1. \A p \in Procs : proc'[p] \in ProcTypes
      BY <1>7
    <3>2. proc' = [p \in Procs |-> proc'[p]]
      BY DEF Crash
    <3> QED BY <3>1, <3>2
  <2> QED BY <1>3, <1>4, <2>2, <2>3 DEF StoreInv, TypeOK
<1>10. FilesKnown'
  <2> SUFFICES ASSUME NEW i \in Inodes
               PROVE  /\ Len(node'[i].data) <= 2 /\ node'[i].rev <= edits'
                      /\ \A a, b \in 1..Len(node'[i].data) : node'[i].data[a] = node'[i].data[b]
    BY DEF FilesKnown
  <2>1. \A k \in 1..Len(node'[i].data) : k \in 1..Len(node[i].data)
    BY <1>5, <1>6
  <2> QED BY <1>3, <1>5, <1>6, <2>1 DEF StoreInv, FilesKnown
<1>11. \A p : Bound(p)' => Bound(p)
  BY <1>4 DEF Bound
<1>12. TemporariesKnown'
  <2> SUFFICES ASSUME NEW p \in 1..Writers
               PROVE  /\ node'[p].rev = 0 => \A k \in 1..Len(node'[p].data) : node'[p].data[k] = p
                      /\ Bound(p)' => node'[p].synced /\ Len(node'[p].data) = 2
    BY DEF TemporariesKnown
  <2>1. p \in Inodes
    BY StoreAssumption DEF Inodes
  <2>2. \A k \in 1..Len(node'[p].data) : k \in 1..Len(node[p].data)
    BY <1>5, <1>6, <2>1
  <2>3. node'[p].rev = 0 => \A k \in 1..Len(node'[p].data) : node'[p].data[k] = p
    BY <1>6, <2>1, <2>2 DEF StoreInv, TemporariesKnown
  <2>4. Bound(p)' => node'[p].synced /\ Len(node'[p].data) = 2
    BY <1>6, <1>11, <2>1 DEF StoreInv, TemporariesKnown
  <2> QED BY <2>3, <2>4
<1>13. ASSUME NEW p \in Procs PROVE ProcessKnown(p, proc[p])'
  <2>2. ReadIsPrefix(proc[p])'
    BY <1>3, <1>7 DEF ProcessKnown, ReadIsPrefix
  <2>3. CASE Saves(p)
    <3>1. p \in Inodes /\ WriterKnown(p, proc[p])
      BY <1>7, <2>3, StoreAssumption DEF ProcessKnown, Saves, Procs, Inodes
    <3>2. (\E k \in 1..durable : log[k] = p) => \E k \in 1..durable' : log'[k] = p
      BY <1>1, <1>3, <1>4
    <3> QED BY <1>6, <1>7, <1>11, <2>2, <2>3, <3>1, <3>2 DEF ProcessKnown, WriterKnown
  <2>4. CASE ~Saves(p)
    BY <1>7, <2>2, <2>4 DEF ProcessKnown, ReaderKnown
  <2> QED BY <2>3, <2>4
<1> QED BY <1>9, <1>10, <1>12, <1>13 DEF StoreInv

-----------------------------------------------------------------------------
(* The theorems.                                                           *)

LEMMA StoreSteps == StoreInv /\ [Next]_vars => StoreInv'
<1> SUFFICES ASSUME StoreInv, [Next]_vars PROVE StoreInv'
  OBVIOUS
<1>1. CASE UNCHANGED vars
  BY <1>1 DEF vars, StoreInv, TypeOK, FilesKnown, TemporariesKnown, Bound, ProcessKnown, ReadIsPrefix,
     WriterKnown, ReaderKnown
<1>2. ASSUME NEW p \in Procs, Process(p) PROVE StoreInv'
  BY <1>2, StartsStep, OpensStep, ReadsStep, ChecksStep, WritesStep, SyncsStep, RechecksStep, LinksStep,
     SyncsDirectoryStep, FailsStep DEF Process
<1> QED BY <1>1, <1>2, EditsStep, CrashStep DEF Next

\* What a writer puts at the output name is whole when it appears there and after
\* any power loss, for any number of writers, readers, edits and losses.
THEOREM OutputStaysWhole == Spec => []OutputIsWhole
<1>1. StoreInv => OutputIsWhole
  <2> SUFFICES ASSUME StoreInv, NEW p \in 1..Writers, Out = p, node[p].rev = 0 PROVE Whole(node[p].data)
    BY DEF OutputIsWhole
  <2>1. Bound(p)
    BY DEF Out, Bound, StoreInv, TypeOK
  <2>2. Len(node[p].data) = 2 /\ \A k \in 1..2 : node[p].data[k] = p
    BY <2>1 DEF StoreInv, TemporariesKnown
  <2> QED BY <2>2, StoreAssumption DEF Whole
<1> QED BY <1>1, StoreStarts, StoreSteps, PTL DEF Spec

\* What write_vectors said it saved is not undone by a power loss.
THEOREM SavedStays == Spec => []SavedIsDurable
<1>1. StoreInv => SavedIsDurable
  BY StoreAssumption DEF StoreInv, ProcessKnown, WriterKnown, SavedIsDurable, Pc, Procs, Saves
<1> QED BY <1>1, StoreStarts, StoreSteps, PTL DEF Spec

\* A reader returns one version of the file, whoever replaces or edits it.
THEOREM ReadersGetOneVersion == Spec => []ReadsOneVersion
<1>1. StoreInv => ReadsOneVersion
  BY DEF StoreInv, ProcessKnown, ReaderKnown, ReadsOneVersion, Pc
<1> QED BY <1>1, StoreStarts, StoreSteps, PTL DEF Spec

\* A writer that found no file replaces none, other writers' included.
THEOREM NewReplacesNothing == Spec => NewOutputReplacesNothing
<1>1. ASSUME StoreInv, [Next]_vars, NEW p \in 1..Writers,
             proc[p].before = None, Len(log') > Len(log), log'[Len(log')] = p
      PROVE  Out = None
  <2>1. log \in Seq(Inodes \cup {None})
    BY <1>1 DEF StoreInv, TypeOK
  <2>2. PICK q \in Procs : Links(q) \/ Renames(q)
    <3>1. ~UNCHANGED log
      BY <1>1
    <3>2. ~Crash
      <4>1. SUFFICES ASSUME Crash PROVE FALSE
        OBVIOUS
      <4>2. PICK n \in durable..Len(log) : log' = SubSeq(log, 1, n)
        BY <4>1 DEF Crash
      <4>3. Len(log') <= Len(log) /\ Len(log) \in Nat /\ Len(log') \in Nat
        BY <1>1, <2>1, <4>2 DEF StoreInv, TypeOK
      <4> QED BY <1>1, <4>3
    <3>3. ~Edits
      <4>1. None # p /\ Writers + edits + 1 # p
        BY <1>1, StoreAssumption DEF StoreInv, TypeOK
      <4> QED BY <1>1, <2>1, <3>1, <4>1 DEF Edits
    <3> QED BY <1>1, <3>1, <3>2, <3>3 DEF Next, Process, Starts, Opens, Reads, Checks, Writes, Syncs,
               Rechecks, SyncsDirectory, Fails, Files, vars
  <2>3. log' = Append(log, q)
    <3>1. ~UNCHANGED log
      BY <1>1
    <3> QED BY <2>2, <3>1 DEF Links, Renames
  <2>4. q = p
    BY <1>1, <2>1, <2>3
  <2>5. ~Pc(p, "rename")
    BY <1>1, StoreAssumption DEF StoreInv, ProcessKnown, WriterKnown, Pc, Procs, Saves
  <2> QED BY <1>1, <2>2, <2>3, <2>4, <2>5 DEF Links, Renames
<1>2. StoreInv /\ [Next]_vars =>
        [\A p \in 1..Writers :
            proc[p].before = None /\ Len(log') > Len(log) /\ log'[Len(log')] = p => Out = None]_vars
  BY <1>1
<1> QED BY <1>2, StoreStarts, StoreSteps, PTL DEF Spec, NewOutputReplacesNothing
===============================================================================
