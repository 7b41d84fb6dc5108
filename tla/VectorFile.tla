---------------------------- MODULE VectorFile ----------------------------
(***************************************************************************)
(* The vector file: FileRecord, Counts and VectorFile of                   *)
(* crates/filetwin-core/src/api.rs, and vector_file::validate, the check   *)
(* every vector file passes before it is written or reused.                *)
(*                                                                         *)
(* A content is a sequence of chunks and a file_id is that sequence itself *)
(* (SHA-256 taken as injective), so a record's bytes is Len(id).  A        *)
(* profile is named by its family: each build has one per family.          *)
(***************************************************************************)
EXTENDS Integers, Sequences, FiniteSets

CONSTANTS
    N,              \* number of path names below the source root
    Chunks,         \* what one read() returns
    None            \* the absent value (Option::None)

Paths == 1..N                                     \* numbered in sorted order
Profiles == {"text", "image", "audio", "video"}
States == {"ready", "failed", "unsupported", "skipped"}
Errors == {"IoError", "SourceChanged", "UnsupportedFormat", "WorkerFailed",
           "InvalidText", "InsufficientContent", "ResourceBudgetTooSmall",
           "RuntimeUnavailable"}

\* A vector remembers the content it was computed from and who computed it:
\* a path of this call, or 0 for an earlier one.  Two encodings of the same
\* content are thus never equal: the worst case for conflicts.
Vectors == [of : Seq(Chunks), made : Paths \cup {0}]

FileRecords ==
    [path    : Paths,
     id      : Seq(Chunks) \cup {None},
     state   : States,
     family  : Profiles \cup {None},
     profile : Profiles \cup {None},
     vector  : Vectors \cup {None},
     reused  : BOOLEAN,
     error   : Errors \cup {None}]

\* What a vector is reused by: Run::cache's key.
Key(r) == <<r.id, r.profile>>

Tallies == [discovered : Nat, processed : Nat, total : Nat \cup {None}, ready : Nat,
            failed : Nat, skipped : Nat, encoded : Nat, hits : Nat]

NoCounts == [discovered |-> 0, processed |-> 0, total |-> None, ready |-> 0,
             failed |-> 0, skipped |-> 0, encoded |-> 0, hits |-> 0]

-----------------------------------------------------------------------------
(* vector_file::validate, over a file's sequence of records, its counts    *)
(* and its two flags.  The sizes read and hashed, the number of workers    *)
(* and the time taken are not modelled, nor are their checks.              *)

ReadyRecordOK(r) ==
    /\ r.id # None /\ r.profile # None /\ r.family = r.profile
    /\ r.error = None /\ r.vector # None

UnavailableRecordOK(r) == r.vector = None /\ ~r.reused /\ r.error # None

RecordOK(r) == IF r.state = "ready" THEN ReadyRecordOK(r) ELSE UnavailableRecordOK(r)

\* The paths that have more than one record.
Repeated(files) ==
    {p \in Paths : \E i, j \in DOMAIN files : i # j /\ files[i].path = p /\ files[j].path = p}

UniquePaths(files) == Repeated(files) = {}

NoConflicts(files) ==
    \A i, j \in DOMAIN files :
        files[i].state = "ready" /\ files[j].state = "ready" /\ Key(files[i]) = Key(files[j])
            => files[i].vector = files[j].vector

CountsOK(files, c, complete, cancelled) ==
    LET ready     == Cardinality({i \in DOMAIN files : files[i].state = "ready"})
        reused    == Cardinality({i \in DOMAIN files : files[i].reused})
        skipped   == Cardinality({i \in DOMAIN files : files[i].state = "skipped"})
        processed == Len(files)
    IN  /\ ~(cancelled /\ complete)
        /\ c.processed = processed
        /\ c.ready = ready /\ c.skipped = skipped
        /\ c.failed = processed - ready - skipped
        /\ c.hits = reused /\ c.encoded = ready - reused
        /\ c.discovered >= processed
        /\ c.total # None => c.total = c.discovered
        /\ complete => c.total = processed

\* All of validate but the paths.
Consistent(files, c, complete, cancelled) ==
    /\ \A i \in DOMAIN files : RecordOK(files[i])
    /\ NoConflicts(files)
    /\ CountsOK(files, c, complete, cancelled)

Validate(files, c, complete, cancelled) ==
    UniquePaths(files) /\ Consistent(files, c, complete, cancelled)

\* VectorFile::exit_code.
ExitCode(c, complete, cancelled) ==
    IF cancelled THEN 130
    ELSE IF ~complete \/ c.failed > 0 \/ c.skipped > 0 THEN 3 ELSE 0
===============================================================================
