-------------------------- MODULE DiscoveryProperties --------------------------
(* What the inventory of a directory must satisfy. *)
EXTENDS Discovery

\* Type correctness, and every discovered path is a file to encode or has its
\* record already: the counts vector_file::validate relies on.
TypeOK ==
    /\ tree \in [Dirs -> [Names -> Inodes \cup {None}]]
    /\ visited \subseteq Dirs \cup Regulars
    /\ dir.ino \in Dirs \cup {None} /\ dir.must \subseteq dir.may /\ dir.may \subseteq Names
    /\ discovered = Len(files) + Len(records)

\* The entries a path leads through, and whether nobody touched them.
Steps(path) == {<<Secure(Root, SubSeq(path, 1, k - 1)), path[k]>> : k \in 1..Len(path)}
Untouched(path) == Steps(path) \cap moved = {}
Included(path) == ~\E x \in Excluded : IsPrefix(x, path)

HasRecord(path, state) == \E k \in DOMAIN records : records[k] = [path |-> path, state |-> state]

\* A complete inventory has every file that was there all the time: whatever
\* else is moved meanwhile, a file nobody touched is encoded and a link has its
\* record, unless complete is false, or the file or a directory above it has a
\* failed record of its own because lstat failed.
CompleteMeansCovered ==
    pc = "done" /\ complete =>
        \A path \in Paths : Untouched(path) /\ Included(path) =>
            LET i == Secure(Root, path) IN
            \/ /\ i \in Regulars => \E k \in DOMAIN files : files[k] = path
               /\ i \in Links => HasRecord(path, "skipped")
            \/ \E k \in 1..Len(path) : HasRecord(SubSeq(path, 1, k), "unseen")

\* complete is "False on ... an incomplete directory listing" (api.rs:225): when
\* it is true, every directory that was there all the time was listed.
CompleteMeansListed ==
    pc = "done" /\ complete =>
        \A path \in Paths : Untouched(path) /\ Included(path) /\ Secure(Root, path) \in Dirs =>
            \E k \in DOMAIN opened : opened[k] = Secure(Root, path)

\* A directory that is mounted twice, or is below itself, is listed once as
\* long as nobody moves directories.
ListedOnce == moved = {} => IsInjective(opened)

\* No directory outside the tree is opened for listing, even when a directory
\* is replaced by a symbolic link between the lookup and the opening.  What is
\* recorded is another matter: an entry is looked up by lstat, which follows
\* links in the middle of its path (engine.rs:316).
NeverOutside == \A k \in DOMAIN opened : opened[k] \notin Outside

\* The inventory ends once nobody changes the tree any more.
WalkEnds == <>Over
===============================================================================
