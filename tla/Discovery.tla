------------------------------- MODULE Discovery -------------------------------
(***************************************************************************)
(* The inventory of the input directory: the first loop of Run::process    *)
(* (crates/filetwin-core/src/engine.rs) and SecureDir and open_secure      *)
(* (local.rs), over a tree which other processes rearrange at any step.    *)
(*                                                                         *)
(* tree[d][n] is what the name n is bound to in directory d.  Names and    *)
(* inodes are apart: a directory may be moved, or mounted at two places,   *)
(* or be below itself.  The program keeps paths and looks each of them up  *)
(* again, component by component, whenever it needs it.                    *)
(***************************************************************************)
EXTENDS Integers, FiniteSets, SequencesExt

CONSTANTS
    Names, Dirs, Regulars, Links,   \* names of entries; inodes by kind
    Root,       \* the input directory
    Outside,    \* directories elsewhere: no directory of the tree has one below it
    Target,     \* the one of them every symbolic link leads to
    None,
    Trees,      \* the trees a run may find
    Excluded,   \* paths that are not looked at (Run::excluded)
    MaxEdits,   \* bound: edits by other programs
    MaxFaults   \* bound: system calls that fail on their own

Inodes == Dirs \cup Regulars \cup Links

ASSUME DiscoveryAssumption ==
    /\ Root \in Dirs \ Outside /\ Target \in Outside /\ Outside \subseteq Dirs
    /\ None \notin Inodes /\ Dirs \cap Regulars = {} /\ Links \cap (Dirs \cup Regulars) = {}
    /\ Trees \subseteq [Dirs -> [Names -> Inodes \cup {None}]]
    /\ \A t \in Trees, d \in Dirs \ Outside, n \in Names : t[d][n] \notin Outside
    /\ Excluded \subseteq Seq(Names)
    /\ MaxEdits \in Nat /\ MaxFaults \in Nat

VARIABLES
    tree, edits, faults,
    moved,      \* history: the entries <<d, n>> edited so far
    cancel,     \* the CancellationToken
    pc,         \* where the loop is; "done", "failed" and "cancelled" are ends
    stack,      \* directories
    visited,    \* inodes of the directories opened
    dir,        \* the directory being listed: [path, ino, must, may]
    child,      \* the entry last read
    files,      \* regular files found, in that order
    records,    \* paths that got a record already: [path, state], failed being
                \* "unlisted" for directories and "unseen" if lstat failed
    discovered, \* counts.files_discovered
    complete,   \* discovery_complete
    opened      \* history: the inodes listed, in that order

world == <<tree, edits, moved>>
found == <<files, records, discovered, complete>>
vars  == <<world, faults, cancel, pc, stack, visited, dir, child, found, opened>>

Empty == [path |-> <<>>, ino |-> None, must |-> {}, may |-> {}]

Init ==
    /\ tree \in Trees /\ edits = 0 /\ faults = 0 /\ moved = {} /\ cancel = FALSE
    /\ pc = "pop" /\ stack = << <<>> >> /\ visited = {}
    /\ dir = Empty /\ child = <<>>
    /\ files = <<>> /\ records = <<>> /\ discovered = 0 /\ complete = TRUE
    /\ opened = <<>>

-----------------------------------------------------------------------------
(* Looking a path up.                                                      *)

Bound(d, n) == IF d \in Dirs THEN tree[d][n] ELSE None

\* The inode a path leads to below d; no link is followed (open_secure).
Secure(d, path) ==
    LET at[k \in 0..Len(path)] == IF k = 0 THEN d ELSE Bound(at[k - 1], path[k]) IN at[Len(path)]

\* The kernel's own lookup, which follows every link but the last component.
Follows(path) ==
    LET at[k \in 0..Len(path)] ==
            IF k = 0 THEN Root ELSE Bound(IF at[k - 1] \in Links THEN Target ELSE at[k - 1], path[k])
    IN at[Len(path)]

\* Seeded fault: only the last component may not be a link.
OpenPath(path) ==
    LET i == Follows(path) IN IF i \in Links THEN None ELSE i

\* What open_secure opens: a link is refused.
OpenSecure(path) ==
    LET i == Secure(Root, path) IN IF i \in Links THEN None ELSE i

-----------------------------------------------------------------------------
(* The loop.  Cancellation is looked at before a directory and before      *)
(* every entry.                                                            *)

\* A call fails because it must, or on its own (no permission, no memory).
Fails(must) == IF must THEN UNCHANGED faults ELSE faults < MaxFaults /\ faults' = faults + 1

Ends(outcome) ==
    /\ pc' = outcome
    /\ UNCHANGED <<world, cancel, stack, visited, dir, child, found, opened>>

Stops ==
    /\ pc = "read" \/ (pc = "pop" /\ stack # <<>>)
    /\ cancel /\ Ends("cancelled") /\ UNCHANGED faults

\* Seeded fault: an entry that gets its record at once is not counted.
Uncounted(path, state) ==
    /\ records' = Append(records, [path |-> path, state |-> state])
    /\ UNCHANGED discovered

Counted(path, state) ==
    /\ discovered' = discovered + 1
    /\ records' = Append(records, [path |-> path, state |-> state])

\* Seeded fault: a child directory that cannot be listed is forgotten by complete.
UnlistedButComplete ==
    IF dir'.path = <<>> THEN pc' = "failed" /\ UNCHANGED found
    ELSE pc' = "pop" /\ Counted(dir'.path, "unlisted") /\ UNCHANGED <<files, complete>>

\* A directory that cannot be listed: fatal for the root, a failed record else.
Unlisted ==
    IF dir'.path = <<>> THEN pc' = "failed" /\ UNCHANGED found
    ELSE pc' = "pop" /\ Counted(dir'.path, "unlisted") /\ complete' = FALSE /\ UNCHANGED files

\* Seeded fault: a directory that cannot be listed is tried again until it can.
PopsRetrying ==
    /\ pc = "pop" /\ stack # <<>> /\ ~cancel
    /\ dir' = [Empty EXCEPT !.path = Last(stack)]
    /\ LET i == OpenSecure(Last(stack)) IN
       \/ /\ i # None /\ i \notin visited
          /\ visited' = visited \cup {i} /\ pc' = "open" /\ stack' = Front(stack) /\ UNCHANGED faults
       \/ i \in visited \cup {None} /\ UNCHANGED <<faults, pc, stack, visited>>
    /\ UNCHANGED <<world, cancel, child, found, opened>>

\* Seeded fault: a directory is listed wherever it is found.
PopsAgain ==
    /\ pc = "pop" /\ stack # <<>> /\ ~cancel
    /\ stack' = Front(stack) /\ dir' = [Empty EXCEPT !.path = Last(stack)]
    /\ LET i == OpenSecure(Last(stack)) IN
       \/ i # None /\ visited' = visited \cup {i} /\ pc' = "open" /\ UNCHANGED <<found, faults>>
       \/ Fails(i = None) /\ Unlisted /\ UNCHANGED visited
    /\ UNCHANGED <<world, cancel, child, opened>>

\* The next directory is opened and its identity compared with those visited.
Pops ==
    /\ pc = "pop" /\ stack # <<>> /\ ~cancel
    /\ stack' = Front(stack) /\ dir' = [Empty EXCEPT !.path = Last(stack)]
    /\ LET i == OpenSecure(Last(stack)) IN
       \/ /\ i # None /\ i \notin visited
          /\ visited' = visited \cup {i} /\ pc' = "open" /\ UNCHANGED <<found, faults>>
       \/ Fails(i \in visited \cup {None}) /\ Unlisted /\ UNCHANGED visited
    /\ UNCHANGED <<world, cancel, child, opened>>

\* SecureDir::open looks the path up once more.
Opens ==
    /\ pc = "open"
    /\ LET i == OpenSecure(dir.path)  ns == {n \in Names : tree[i][n] # None} IN
       \/ /\ i \in Dirs
          /\ dir' = [dir EXCEPT !.ino = i, !.must = ns, !.may = ns]
          /\ opened' = Append(opened, i) /\ pc' = "read" /\ UNCHANGED <<found, faults>>
       \/ UNCHANGED <<dir, opened>> /\ Fails(i \notin Dirs) /\ Unlisted
    /\ UNCHANGED <<world, cancel, stack, visited, child>>

\* readdir: an entry there all the time is returned once; one that is added or
\* removed meanwhile may be or not.
ReadsEntry ==
    /\ pc = "read" /\ ~cancel
    /\ \E n \in dir.may :
          /\ dir' = [dir EXCEPT !.must = @ \ {n}, !.may = @ \ {n}]
          /\ child' = Append(dir.path, n)
          /\ pc' = IF \E x \in Excluded : IsPrefix(x, child') THEN "read" ELSE "stat"
    /\ UNCHANGED <<world, faults, cancel, stack, visited, found, opened>>

\* The listing fails midway.
ReadFails == pc = "read" /\ ~cancel /\ Fails(FALSE) /\ Ends("failed")

ReadsAll ==
    /\ pc = "read" /\ dir.must = {} /\ pc' = "pop"
    /\ dir' = Empty /\ child' = <<>>
    /\ UNCHANGED <<world, faults, cancel, stack, visited, found, opened>>

\* The entry is looked up by its whole path, and classified by what is there.
Classifies ==
    /\ pc = "stat" /\ pc' = "read"
    /\ LET i == Follows(child) IN
       \/ i \in Dirs /\ stack' = Append(stack, child) /\ UNCHANGED <<found, faults>>
       \/ /\ i \in Regulars /\ files' = Append(files, child) /\ discovered' = discovered + 1
          /\ UNCHANGED <<stack, records, complete, faults>>
       \/ i \in Links /\ Counted(child, "skipped") /\ UNCHANGED <<stack, files, complete, faults>>
       \/ Fails(i = None) /\ Counted(child, "unseen") /\ UNCHANGED <<stack, files, complete>>
    /\ UNCHANGED <<world, cancel, visited, dir, child, opened>>

\* files_total = files_discovered; encoding begins.
Completes == pc = "pop" /\ stack = <<>> /\ Ends("done") /\ UNCHANGED faults

-----------------------------------------------------------------------------
(* The host and the other programs, which leave the outside alone.         *)

Cancels ==
    /\ ~cancel /\ cancel' = TRUE
    /\ UNCHANGED <<world, faults, pc, stack, visited, dir, child, found, opened>>

\* Long enough for every path that visits no directory twice.
Paths == UNION {[1..k -> Names] : k \in 0..Cardinality(Dirs \ Outside)}
Below(i) == {Secure(i, p) : p \in Paths}
Placed == {tree[d][n] : d \in Dirs, n \in Names}

\* The listing under way may or may not see the change of the entries s.
Notices(s) ==
    LET ns == {n \in Names : <<dir.ino, n>> \in s} IN
    dir' = [dir EXCEPT !.must = @ \ ns, !.may = @ \cup {n \in ns : tree'[dir.ino][n] # None}]

Edit(s) ==
    /\ edits < MaxEdits /\ edits' = edits + 1 /\ moved' = moved \cup s /\ Notices(s)
    /\ UNCHANGED <<faults, cancel, pc, stack, visited, child, found, opened>>

Creates == \E d \in Dirs \ Outside, n \in Names, i \in (Regulars \cup Links) \ Placed :
    /\ tree[d][n] = None /\ tree' = [tree EXCEPT ![d][n] = i]
    /\ Edit({<<d, n>>})

Removes == \E d \in Dirs \ Outside, n \in Names :
    /\ tree[d][n] \in Regulars \cup Links /\ tree' = [tree EXCEPT ![d][n] = None]
    /\ Edit({<<d, n>>})

\* rename: never of a directory below itself, nor over a directory.
Moves == \E d, e \in Dirs \ Outside, n, m \in Names :
    /\ tree[d][n] # None /\ <<d, n>> # <<e, m>> /\ e \notin Below(tree[d][n])
    /\ tree[e][m] = None \/ (tree[e][m] \notin Dirs /\ tree[d][n] \notin Dirs)
    /\ tree' = [tree EXCEPT ![e][m] = tree[d][n], ![d][n] = None]
    /\ Edit({<<d, n>>, <<e, m>>})

-----------------------------------------------------------------------------
Walk == Stops \/ Pops \/ Opens \/ ReadsEntry \/ ReadFails \/ ReadsAll \/ Classifies \/ Completes
Other == Cancels \/ Creates \/ Removes \/ Moves
Over == pc \in {"done", "failed", "cancelled"}

Next == (~Over /\ (Walk \/ Other)) \/ (Over /\ UNCHANGED vars)

Spec == Init /\ [][Next]_vars

\* The thread of the call keeps running.
FairSpec == Spec /\ WF_vars(~Over /\ Walk)
===============================================================================
