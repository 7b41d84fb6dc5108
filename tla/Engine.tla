------------------------------- MODULE Engine -------------------------------
(***************************************************************************)
(* The coordinator of one Encoder::encode call (crates/filetwin-core/src/  *)
(* engine.rs): one thread walks a directory, hashes every file, reuses     *)
(* vectors by content, encodes text itself and hands private copies of the *)
(* other formats to a pool of native workers.  Around it, other processes  *)
(* edit the directory, workers answer when they like and the host may set  *)
(* the cancellation token at any moment.                                   *)
(*                                                                         *)
(* Contents, identifiers and records are those of VectorFile.  Lengths,    *)
(* StagingBytes and Reserve are counted in chunks.                         *)
(***************************************************************************)
EXTENDS VectorFile

CONSTANTS
    Start,          \* the directories the call may find: path -> entry
    Contents,       \* the contents files are edited to
    Magic,          \* leading chunk -> format, for chunks with a signature
    Hint,           \* path -> format its extension suggests
    Capacity,       \* native worker slots
    StagingBytes,   \* EncoderConfig::staging_bytes
    Reserve,        \* 2 * MAX_RESPONSE: protocol reserve of each staged job
    Previous,       \* <<content, profile>> keys of the vectors_file given
    MaxEdits        \* bound: edits other processes make during the call

Slots == 1..Capacity

\* The formats detect_format returns, and the family that goes with each.
Family == [utf8 |-> "text", pdf |-> "text", raster |-> "image",
           wav |-> "audio", mp4 |-> "video", archive |-> "unknown"]
Formats  == DOMAIN Family
Media    == {"wav", "mp4"}

Kinds == {"file", "dir", "other", "gone"}
Entries == [kind : Kinds, rev : 0..MaxEdits, data : Seq(Chunks)]

ASSUME SizesAssumption ==
    /\ N \in Nat \ {0} /\ Capacity \in Nat \ {0} /\ StagingBytes \in Nat
    /\ Reserve \in Nat /\ MaxEdits \in Nat
ASSUME DataAssumption ==
    /\ Start \subseteq [Paths -> {e \in Entries : e.rev = 0}]
    /\ Contents \subseteq Seq(Chunks)
    /\ DOMAIN Magic \subseteq Chunks
    /\ \A c \in DOMAIN Magic : Magic[c] \in Formats \ {"utf8"}
    /\ Hint \in [Paths -> Formats \ {"pdf", "archive"}]
    /\ Previous \subseteq Seq(Chunks) \X Profiles
-----------------------------------------------------------------------------
(* Detection, candidates and records.                                      *)

\* detect_format: a signature at the start decides, else the extension.
DetectFormat(p, data) ==
    IF data # <<>> /\ data[1] \in DOMAIN Magic THEN Magic[data[1]] ELSE Hint[p]

IsNative(fmt) == fmt # "utf8" /\ Family[fmt] # "unknown"

\* The profiles a cached vector may have, the preferred one first.
Candidates(fmt) == IF fmt \in Media THEN <<"audio", "video">> ELSE <<Family[fmt]>>

Blank(p) ==
    [path |-> p, id |-> None, state |-> "failed", family |-> None,
     profile |-> None, vector |-> None, reused |-> FALSE, error |-> None]

Refused(p, state, e) == [Blank(p) EXCEPT !.state = state, !.error = e]

\* What an encoder reports: the content it read and the family it found it to
\* be, or an error.
Verdicts ==
    {v \in [family : Profiles \cup {None}, source : Seq(Chunks), error : Errors \cup {None}] :
        v.error = None => v.family # None}
Good(f, data) == [family |-> f, source |-> data, error |-> None]
Bad(e)        == [family |-> None, source |-> <<>>, error |-> e]

-----------------------------------------------------------------------------
VARIABLES
    disk,       \* path -> what stands there: kind, revision, content
    edits,      \* edits made so far; an edit's number is the new revision
    cancelAt,   \* None, or Len(records) when the token was set
    pc,         \* where the coordinator thread is
    ret,        \* where wait_one / drain returns to
    unseen,     \* names the open listings may still return
    again,      \* history: names that came back to a listing after it gave them
    dirs,       \* directories found and not listed yet
    files,      \* regular files found and not encoded yet, a sequence
    cur,        \* encode_file's locals
    pool,       \* slot -> job, or None: Pool::slots[s].prepared
    pending,    \* slot -> source context of its job: Run::pending
    held,       \* None, or <<slot, verdict>> that poll returned
    cache,      \* records usable for reuse, at most one per Key
    records,    \* Run::records
    counts,     \* Run::counts
    listed,     \* Run::discovery_complete
    outcome,    \* what process returned, None while it runs
    result      \* what encode returns

world  == <<disk, edits, cancelAt>>
walk   == <<unseen, again, dirs, files, listed>>
native == <<pool, pending, held>>
report == <<cache, records, counts>>
ends   == <<outcome, result>>
vars   == <<world, pc, ret, walk, cur, native, report, ends>>

Outcomes == {"ok", "cancelled", "fatal"}

\* Private copies; no copy is larger than the whole allowance.
Copies == {c \in Seq(Chunks) : Len(c) <= StagingBytes}
Jobs == [copy : Copies, fmt : {f \in Formats : IsNative(f)}, answer : Verdicts \cup {None}]
Contexts == [path : Paths, rev : 0..MaxEdits, record : FileRecords]
Opened ==
    [path     : Paths,
     rev      : 0..MaxEdits,            \* Revision at fstat
     size     : Nat,                    \* revision.bytes
     data     : Seq(Chunks),            \* what reading the descriptor yields
     linked   : BOOLEAN,                \* the path still names this inode
     fmt      : Formats \cup {None},
     staged   : BOOLEAN,                \* a private copy is being written
     copy     : Copies,
     limit    : 0..StagingBytes,                   \* source_limit
     overflow : BOOLEAN,                \* stage_overflow
     hashed   : Seq(Chunks),
     reread   : Seq(Chunks),            \* what text::encode has read
     verdict  : Verdicts \cup {None}]

ASSUME NoneAssumption ==
    /\ None \notin Seq(Chunks) /\ None \notin Profiles /\ None \notin Errors
    /\ None \notin Formats /\ None \notin Outcomes
    /\ None \notin Verdicts /\ None \notin Jobs /\ None \notin Contexts
    /\ None \notin Opened /\ None \notin Nat /\ None \notin Vectors
    /\ None \notin Slots \X Verdicts

NotOpened(p) ==
    [path |-> p, rev |-> 0, size |-> 0, data |-> <<>>, linked |-> FALSE, fmt |-> None,
     staged |-> FALSE, copy |-> <<>>, limit |-> 0, overflow |-> FALSE, hashed |-> <<>>,
     reread |-> <<>>, verdict |-> None]

Cancelled == cancelAt # None

Active == {s \in Slots : pool[s] # None}

\* Pool::staged_bytes: what the jobs hold, counted as <<slot, chunk>> pairs.
Holding(s) == {s} \X (1..(Len(pool[s].copy) + Reserve))
Staged == Cardinality(UNION {Holding(s) : s \in Active})

\* Seeded fault: the revision is not compared.
StillRegular(p, rev) == disk[p].kind = "file"

\* local::still_current: the name leads to a regular file with the revision
\* seen at open.  Every edit gives a new revision (ctime), and the open
\* descriptor keeps the inode number from being reused.
StillCurrent(p, rev) == disk[p].kind = "file" /\ disk[p].rev = rev

\* Seeded fault: a verdict is recorded without looking at the source again.
SettledUnchecked(ctx, v) ==
    [ctx.record EXCEPT !.state = IF v.error = None THEN "ready" ELSE "failed",
                       !.family = v.family, !.profile = v.family,
                       !.vector = IF v.error = None THEN [of |-> v.source, made |-> ctx.path] ELSE None,
                       !.error = v.error]

\* finish_record: what is recorded for a source context and its verdict.
Settled(ctx, v) ==
    IF ~StillCurrent(ctx.path, ctx.rev)
    THEN [ctx.record EXCEPT !.id = None, !.error = "SourceChanged"]
    ELSE IF v.error = None
    THEN [ctx.record EXCEPT !.state = "ready", !.family = v.family, !.profile = v.family,
                            !.vector = [of |-> v.source, made |-> ctx.path]]
    ELSE [ctx.record EXCEPT !.state = IF v.error = "UnsupportedFormat" THEN "unsupported" ELSE @,
                            !.error = v.error]

\* Seeded fault: the family of a format without a reader is recorded.
ContextOfAnyFamily ==
    [path |-> cur.path, rev |-> cur.rev,
     record |-> [Blank(cur.path) EXCEPT !.id = cur.hashed, !.family = Family[cur.fmt]]]

\* The source context of the file in hand, once it is hashed.
Context ==
    [path |-> cur.path, rev |-> cur.rev,
     record |-> [Blank(cur.path) EXCEPT
                    !.id = cur.hashed,
                    !.family = IF Family[cur.fmt] = "unknown" THEN None ELSE Family[cur.fmt]]]

One(b) == IF b THEN 1 ELSE 0

\* sort() and sort_by_key(), which are stable: the one way to take the positions
\* of these paths in the order of the paths.
Orders(ps) ==
    {o \in [DOMAIN ps -> DOMAIN ps] :
        \A i, j \in DOMAIN ps :
            i < j => ps[o[i]] < ps[o[j]] \/ (ps[o[i]] = ps[o[j]] /\ o[i] < o[j])}

\* Run::record, counting on from the tallies c.
Record(c, r) ==
    /\ records' = Append(records, r)
    /\ counts' = [c EXCEPT !.processed = @ + 1,
                           !.ready   = @ + One(r.state = "ready"),
                           !.encoded = @ + One(r.state = "ready" /\ ~r.reused),
                           !.hits    = @ + One(r.state = "ready" /\ r.reused),
                           !.skipped = @ + One(r.state = "skipped"),
                           !.failed  = @ + One(r.state \in {"failed", "unsupported"})]
    /\ cache' = IF r.state = "ready" THEN {h \in cache : Key(h) # Key(r)} \cup {r} ELSE cache

\* encode_file returns to process's loop.
NextFile == pc' = "top" /\ cur' = None

-----------------------------------------------------------------------------
Results == [error : {None, "IoError"}, cancelled : BOOLEAN, complete : BOOLEAN,
            files : Seq(FileRecords), counts : Tallies]

Failure == [error |-> "IoError", cancelled |-> FALSE, complete |-> FALSE,
            files |-> <<>>, counts |-> NoCounts]

\* The cache starts with the ready records of the previous vector file, which
\* read_vectors validated: one vector per content and profile.
Init ==
    /\ disk \in Start
    /\ edits = 0 /\ cancelAt = None
    /\ pc = "discover" /\ ret = "final"
    /\ unseen = Paths /\ again = {} /\ dirs = {} /\ files = <<>> /\ listed = TRUE
    /\ cur = None /\ held = None
    /\ pool = [s \in Slots |-> None] /\ pending = [s \in Slots |-> None]
    /\ cache = {[path |-> 1, id |-> k[1], state |-> "ready", family |-> k[2], profile |-> k[2],
                 vector |-> [of |-> k[1], made |-> 0], reused |-> FALSE, error |-> None] :
                   k \in Previous}
    /\ records = <<>> /\ counts = NoCounts
    /\ outcome = None /\ result = None

-----------------------------------------------------------------------------
(* Cancellation: Run::check, at the places the coordinator calls it.       *)

\* Seeded faults: wait_one polls, or finish takes an outcome, without checking.
CheckPointsButWait   == {"discover", "top", "finish", "hash", "text"}
CheckPointsButFinish == {"discover", "top", "wait", "hash", "text"}

CheckPoints == {"discover", "top", "wait", "finish", "hash", "text"}

\* Check returns Ok.
Passes == pc \in CheckPoints => ~Cancelled

\* The two for-loops check only when there is an element to work on.
AtCheck ==
    /\ pc \in CheckPoints
    /\ pc = "discover" => dirs \cup unseen # {}
    /\ pc = "top" => files # <<>>

\* process returns Cancelled: the file in hand and a polled verdict are lost.
Interrupt ==
    /\ AtCheck /\ Cancelled
    /\ outcome' = "cancelled" /\ pc' = "assemble" /\ cur' = None /\ held' = None
    /\ UNCHANGED <<world, ret, walk, pool, pending, report, result>>

-----------------------------------------------------------------------------
(* Discovery, the first loop of process: an entry is classified by what    *)
(* lstat finds when it is reached.  A name the exclusions cover (the vector *)
(* file given, the private directory) is skipped before that, as if readdir *)
(* had not returned it: Paths are the others.                              *)

\* Seeded fault: an entry is not counted when it is found.
FoundUncounted == counts

Found == [counts EXCEPT !.discovered = @ + 1]

ListEntry(p) ==
    /\ pc = "discover" /\ p \in unseen /\ Passes
    /\ unseen' = unseen \ {p}
    /\ \/ /\ disk[p].kind = "dir"
          /\ dirs' = dirs \cup {p}
          /\ UNCHANGED <<files, report>>
       \/ /\ disk[p].kind = "file"
          /\ files' = Append(files, p) /\ counts' = Found
          /\ UNCHANGED <<dirs, cache, records>>
       \/ /\ disk[p].kind = "other"
          /\ Record(Found, Refused(p, "skipped", "UnsupportedFormat"))
          /\ UNCHANGED <<dirs, files>>
       \/ /\ disk[p].kind = "gone"
          /\ Record(Found, Refused(p, "failed", "IoError"))
          /\ UNCHANGED <<dirs, files>>
    /\ UNCHANGED <<world, pc, ret, again, listed, cur, native, ends>>

\* A directory below the root is opened for listing, or cannot be.
ListDirectory(p) ==
    /\ pc = "discover" /\ p \in dirs /\ Passes
    /\ dirs' = dirs \ {p}
    /\ \/ disk[p].kind = "dir" /\ UNCHANGED <<listed, report>>
       \/ listed' = FALSE /\ Record(Found, Refused(p, "failed", "IoError"))
    /\ UNCHANGED <<world, pc, ret, unseen, again, files, cur, native, ends>>

\* The root cannot be listed, or readdir fails in the middle of any listing.
ListingFails ==
    /\ pc = "discover" /\ Passes
    /\ outcome' = "fatal" /\ pc' = "assemble"
    /\ UNCHANGED <<world, ret, walk, cur, native, report, result>>

\* The files are sorted.  Names not returned by now were not there when their
\* directory was read.
DiscoveryEnds ==
    /\ pc = "discover" /\ dirs = {}
    /\ counts' = [counts EXCEPT !.total = counts.discovered]
    /\ \E o \in Orders(files) : files' = [i \in DOMAIN files |-> files[o[i]]]
    /\ pc' = "top" /\ unseen' = {}
    /\ UNCHANGED <<world, ret, again, dirs, listed, cur, native, cache, records, ends>>

-----------------------------------------------------------------------------
(* The encoding loop, and the outcomes of native workers.                  *)

\* The next file in path order.
TakeFile ==
    /\ pc = "top" /\ files # <<>> /\ Passes
    /\ files' = Tail(files) /\ cur' = NotOpened(Head(files))
    /\ pc' = "drain"
    /\ UNCHANGED <<world, ret, unseen, again, dirs, listed, native, report, ends>>

\* Pool::poll: the lowest slot with an answer gives up its job.
Ready == {s \in Slots : pool[s] # None /\ pool[s].answer # None}
Poll ==
    \E s \in Ready :
       /\ \A t \in Ready : s <= t
       /\ held' = <<s, pool[s].answer>>
       /\ pool' = [pool EXCEPT ![s] = None]

Drain ==
    /\ pc = "drain"
    /\ \/ Poll /\ pc' = "finish" /\ ret' = "drain"
       \/ Ready = {} /\ pc' = "open" /\ UNCHANGED <<ret, pool, held>>
    /\ UNCHANGED <<world, walk, cur, pending, report, ends>>

\* wait_one's loop; without an answer it sleeps and polls again.
WaitOne ==
    /\ pc = "wait" /\ Passes
    /\ Poll /\ pc' = "finish"
    /\ UNCHANGED <<world, ret, walk, cur, pending, report, ends>>

\* finish: one more check, then the slot's source context is taken.  The code
\* panics if there is none (expect "Pending source"): see SlotsPaired.
Finish ==
    /\ pc = "finish" /\ Passes
    /\ pc' = "settle"
    /\ UNCHANGED <<world, ret, walk, cur, native, report, ends>>

Settle ==
    /\ pc = "settle"
    /\ LET s == held[1] IN
       /\ pending[s] # None
       /\ Record(counts, Settled(pending[s], held[2]))
       /\ pending' = [pending EXCEPT ![s] = None]
    /\ held' = None /\ pc' = ret
    /\ UNCHANGED <<world, ret, walk, cur, pool, ends>>

FilesEnd ==
    /\ pc = "top" /\ files = <<>>
    /\ pc' = "final"
    /\ UNCHANGED <<world, ret, walk, cur, native, report, ends>>

AwaitWorkers ==
    /\ pc = "final"
    /\ \/ Active # {} /\ pc' = "wait" /\ ret' = "final" /\ UNCHANGED outcome
       \/ Active = {} /\ pc' = "assemble" /\ outcome' = "ok" /\ UNCHANGED ret
    /\ UNCHANGED <<world, walk, cur, native, report, result>>

-----------------------------------------------------------------------------
(* encode_file.                                                            *)

InHand == cur # None

\* An I/O error that encode_file returns: open, fstat, read, the private copy's
\* creation or writing.  process records it without a file_id.  (Flushing the
\* copy before submission cannot fail: a File keeps no buffer.)
FileFails ==
    /\ pc \in {"open", "sniff", "stage", "hash"}
    /\ Passes
    /\ Record(counts, Refused(cur.path, "failed", "IoError"))
    /\ NextFile
    /\ UNCHANGED <<world, ret, walk, native, ends>>

Open ==
    /\ pc = "open"
    /\ \/ /\ disk[cur.path].kind = "file"
          /\ cur' = [cur EXCEPT !.rev = disk[cur.path].rev, !.size = Len(disk[cur.path].data),
                                !.data = disk[cur.path].data, !.linked = TRUE]
          /\ pc' = "sniff"
          /\ UNCHANGED report
       \/ /\ disk[cur.path].kind \in {"dir", "other"}
          /\ Record(counts, Refused(cur.path, "failed", "SourceChanged"))
          /\ NextFile
    /\ UNCHANGED <<world, ret, walk, native, ends>>

Sniff ==
    /\ pc = "sniff"
    /\ LET fmt == DetectFormat(cur.path, cur.data) IN
       /\ cur' = [cur EXCEPT !.fmt = fmt]
       /\ pc' = IF IsNative(fmt) THEN "admit" ELSE "hash"
    /\ UNCHANGED <<world, ret, walk, native, report, ends>>

\* Seeded faults: admission looks at slots only, at room only, or wants room
\* even for a file alone.
WaitForSlotOnly      == Cardinality(Active) = Capacity
WaitForRoomOnly      == Active # {} /\ Staged + cur.size + Reserve > StagingBytes
WaitForRoomWhenAlone == Cardinality(Active) = Capacity \/ Staged + cur.size + Reserve > StagingBytes

\* A native file waits for a free slot and for room for its copy beside those
\* of the running jobs; alone, it is admitted whatever its size.
MustWait ==
    \/ Cardinality(Active) = Capacity
    \/ Active # {} /\ Staged + cur.size + Reserve > StagingBytes

Admit ==
    /\ pc = "admit"
    /\ \/ MustWait /\ pc' = "wait" /\ ret' = "admit"
       \/ ~MustWait /\ pc' = "stage" /\ UNCHANGED ret
    /\ UNCHANGED <<world, walk, cur, native, report, ends>>

\* Seeded fault: the limit forgets the copies of the running jobs.
SourceLimitAlone == StagingBytes - Reserve

\* The private file is created and its limit set; a file already larger keeps
\* no copy but is hashed all the same.
SourceLimit ==
    IF StagingBytes > Staged + Reserve THEN StagingBytes - (Staged + Reserve) ELSE 0

Stage ==
    /\ pc = "stage"
    /\ cur' = [cur EXCEPT !.limit = SourceLimit, !.overflow = cur.size > SourceLimit,
                          !.staged = ~(cur.size > SourceLimit)]
    /\ pc' = "hash"
    /\ UNCHANGED <<world, ret, walk, native, report, ends>>

\* One round of the hash loop: a chunk, and its copy while it fits.
Hash ==
    /\ pc = "hash" /\ Passes
    /\ LET i == Len(cur.hashed) + 1
           fits == cur.staged /\ i <= cur.limit
       IN
       \/ /\ i <= Len(cur.data)
          /\ cur' = [cur EXCEPT
                       !.hashed = Append(@, cur.data[i]),
                       !.staged = fits,
                       !.overflow = @ \/ (cur.staged /\ ~fits),
                       !.copy = IF fits THEN Append(@, cur.data[i]) ELSE <<>>]
          /\ UNCHANGED pc
       \/ /\ i > Len(cur.data)
          /\ pc' = "verify" /\ UNCHANGED cur
    /\ UNCHANGED <<world, ret, walk, native, report, ends>>

\* The whole source is hashed; was it the same file throughout?
Verify ==
    /\ pc = "verify"
    /\ \/ /\ StillCurrent(cur.path, cur.rev)
          /\ pc' = "dedup" /\ UNCHANGED <<cur, report>>
       \/ /\ ~StillCurrent(cur.path, cur.rev)
          /\ Record(counts, Settled(Context, Bad("SourceChanged")))
          /\ NextFile
    /\ UNCHANGED <<world, ret, walk, native, ends>>

\* Seeded fault: nobody waits for identical content.
NoTwin == FALSE

\* The same content is being encoded for another path: wait for its vector.
Twin == \E s \in Slots : pending[s] # None /\ pending[s].record.id = cur.hashed

Dedup ==
    /\ pc = "dedup"
    /\ \/ Twin /\ pc' = "wait" /\ ret' = "dedup"
       \/ ~Twin /\ pc' = "lookup" /\ UNCHANGED ret
    /\ UNCHANGED <<world, walk, cur, native, report, ends>>

\* Cached records of this content under one of its candidate profiles; the
\* first candidate that has one wins.
CachedAs(f) == {h \in cache : Key(h) = <<cur.hashed, f>>}
Hits ==
    LET c == Candidates(cur.fmt) IN
    IF CachedAs(c[1]) # {} THEN CachedAs(c[1])
    ELSE IF Len(c) = 2 THEN CachedAs(c[2]) ELSE {}

Lookup ==
    /\ pc = "lookup"
    /\ LET judge(e) == pc' = "judge" /\ cur' = [cur EXCEPT !.verdict = Bad(e)] IN
       \/ Hits # {} /\ pc' = "reuse" /\ UNCHANGED cur
       \/ Hits = {} /\ cur.overflow /\ judge("ResourceBudgetTooSmall")
       \/ /\ Hits = {} /\ ~cur.overflow
          /\ \/ Family[cur.fmt] = "unknown" /\ judge("UnsupportedFormat")
             \/ cur.fmt = "utf8" /\ pc' = "text" /\ UNCHANGED cur
             \/ IsNative(cur.fmt) /\ judge("RuntimeUnavailable")    \* validate_runtime
             \/ IsNative(cur.fmt) /\ pc' = "submit" /\ UNCHANGED cur
    /\ UNCHANGED <<world, ret, walk, native, report, ends>>

Reuse ==
    /\ pc = "reuse"
    /\ \/ /\ StillCurrent(cur.path, cur.rev)
          /\ \E h \in Hits : Record(counts, [h EXCEPT !.path = cur.path, !.reused = TRUE])
       \/ /\ ~StillCurrent(cur.path, cur.rev)
          /\ Record(counts, Settled(Context, Bad("SourceChanged")))
    /\ NextFile
    /\ UNCHANGED <<world, ret, walk, native, ends>>

\* text::encode reads the source a second time, from the start, checking for
\* cancellation before each read, and reports on the text it read.
EncodeText ==
    /\ pc = "text"
    /\ LET i == Len(cur.reread) + 1
           judge(v) == pc' = "judge" /\ cur' = [cur EXCEPT !.verdict = v]
       IN
       \/ /\ Passes /\ i <= Len(cur.data)
          /\ cur' = [cur EXCEPT !.reread = Append(@, cur.data[i])]
          /\ UNCHANGED pc
       \/ /\ Passes /\ i > Len(cur.data)
          /\ judge(Good("text", cur.reread)) \/ judge(Bad("InsufficientContent"))
       \/ Passes /\ judge(Bad("IoError"))
       \/ cur.reread # <<>> /\ judge(Bad("InvalidText"))
    /\ UNCHANGED <<world, ret, walk, native, report, ends>>

Judge ==
    /\ pc = "judge"
    /\ Record(counts, Settled(Context, cur.verdict))
    /\ NextFile
    /\ UNCHANGED <<world, ret, walk, native, ends>>

\* The copy and its source context enter the first free slot.  The code panics
\* if there is no copy or no free slot: see SubmitExpectations.
Submit ==
    /\ pc = "submit" /\ cur.staged
    /\ \E s \in Slots \ Active :
          /\ \A t \in Slots \ Active : s <= t
          /\ pool' = [pool EXCEPT ![s] = [copy |-> cur.copy, fmt |-> cur.fmt, answer |-> None]]
          /\ pending' = [pending EXCEPT ![s] = Context]
    /\ NextFile
    /\ UNCHANGED <<world, ret, walk, held, report, ends>>

-----------------------------------------------------------------------------
(* The end of encode.                                                      *)

\* Workers are killed, copies deleted, and the records become the result,
\* sorted by path.
Assemble ==
    /\ pc = "assemble"
    /\ pool' = [s \in Slots |-> None] /\ pending' = [s \in Slots |-> None]
    /\ \E o \in Orders([i \in DOMAIN records |-> records[i].path]) :
          result' = IF outcome = "fatal" THEN Failure
                    ELSE [error |-> None, cancelled |-> outcome = "cancelled",
                          complete |-> outcome # "cancelled" /\ listed,
                          files |-> [i \in DOMAIN records |-> records[o[i]]],
                          counts |-> counts]
    /\ pc' = "cleanup"
    /\ UNCHANGED <<world, ret, walk, cur, held, report, outcome>>

\* Removing the private directory may fail, and then there is no result.
Cleanup ==
    /\ pc = "cleanup"
    /\ result' = result \/ result' = Failure
    /\ pc' = "done"
    /\ UNCHANGED <<world, ret, walk, cur, native, report, outcome>>

-----------------------------------------------------------------------------
(* The environment.  Once process has returned nothing reads it any more.  *)

Running == outcome = None

\* A worker answers its request, or Pool::poll finds it dead or overdue.
WorkerAnswers(s) ==
    /\ Running /\ pool[s] # None /\ pool[s].answer = None
    /\ \E v \in {Bad("WorkerFailed"), Bad("UnsupportedFormat")} \cup
                {Good(Candidates(pool[s].fmt)[i], pool[s].copy) :
                   i \in DOMAIN Candidates(pool[s].fmt)} :
          pool' = [pool EXCEPT ![s].answer = v]
    /\ UNCHANGED <<world, pc, ret, walk, cur, pending, held, report, ends>>

\* Other processes: each edit leaves a new revision at the path.
Edit(p, entry) ==
    /\ Running /\ edits < MaxEdits
    /\ edits' = edits + 1
    /\ disk' = [disk EXCEPT ![p] = entry]
    /\ UNCHANGED <<cancelAt, pc, ret, native, report, ends>>

HoldsInode(p) == InHand /\ cur.path = p /\ cur.linked

\* In place: a descriptor already open reads the new content.
Overwrite(p, c) ==
    /\ disk[p].kind = "file"
    /\ Edit(p, [kind |-> "file", rev |-> edits + 1, data |-> c])
    /\ cur' = IF HoldsInode(p) THEN [cur EXCEPT !.data = c] ELSE cur
    /\ UNCHANGED walk

\* A name made anew in a directory being listed may have a place the listing has
\* not reached: readdir then returns it once more.
ComesBack(p) ==
    /\ pc = "discover" /\ p \notin unseen
    /\ unseen' = unseen \cup {p} /\ again' = again \cup {p}
    /\ UNCHANGED <<dirs, files, listed>>

\* By unlink or rename: a descriptor already open keeps the old content.
Rename(p, entry) ==
    /\ Edit(p, [entry EXCEPT !.rev = edits + 1])
    /\ cur' = IF HoldsInode(p) THEN [cur EXCEPT !.linked = FALSE] ELSE cur
    /\ UNCHANGED walk \/ (entry.kind # "gone" /\ ComesBack(p))

\* Directories that come or are moved are Discovery's subject.
Substitutes ==
    {[kind |-> "file", rev |-> 0, data |-> c] : c \in Contents}
        \cup {[kind |-> k, rev |-> 0, data |-> <<>>] : k \in {"other", "gone"}}

Cancel ==
    /\ Running /\ ~Cancelled
    /\ cancelAt' = Len(records)
    /\ UNCHANGED <<disk, edits, pc, ret, walk, cur, native, report, ends>>

-----------------------------------------------------------------------------
Returned == pc = "done" /\ UNCHANGED vars

Coordinator ==
    \/ Interrupt \/ (\E p \in Paths : ListEntry(p)) \/ (\E p \in Paths : ListDirectory(p))
    \/ ListingFails \/ DiscoveryEnds
    \/ TakeFile \/ Drain \/ WaitOne \/ Finish \/ Settle \/ FilesEnd \/ AwaitWorkers
    \/ FileFails \/ Open \/ Sniff \/ Admit \/ Stage \/ Hash \/ Verify \/ Dedup \/ Lookup
    \/ Reuse \/ EncodeText \/ Judge \/ Submit
    \/ Assemble \/ Cleanup

Environment ==
    \/ \E s \in Slots : WorkerAnswers(s)
    \/ \E p \in Paths : (\E c \in Contents : Overwrite(p, c)) \/ (\E e \in Substitutes : Rename(p, e))
    \/ Cancel

Next == Coordinator \/ Environment \/ Returned

Spec == Init /\ [][Next]_vars

\* The coordinator's thread is scheduled.
FairSpec == Spec /\ WF_vars(Coordinator)

\* A worker is held to its deadline (poll_io reports it overdue after
\* MAX_FILE_SECONDS), so every job ends.
Deadlines == \A s \in Slots : WF_vars(WorkerAnswers(s))
===============================================================================
