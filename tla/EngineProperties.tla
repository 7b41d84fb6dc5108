------------------------- MODULE EngineProperties -------------------------
(* What a run of the coordinator must satisfy, whatever is edited, however *)
(* workers answer and whenever it is cancelled.                            *)
EXTENDS Engine

NewRecords == {records'[i] : i \in DOMAIN records' \ DOMAIN records}

\* Type correctness, and with it where the coordinator keeps what: encode_file's
\* locals exist exactly while a file is in hand, their format once it is
\* sniffed; a polled answer is held until it is settled; process has an outcome
\* once it has returned.
FilePcs  == {"drain", "open", "sniff", "admit", "stage", "hash", "verify", "dedup", "lookup",
             "reuse", "text", "judge", "submit"}
AwaitPcs == {"wait", "finish", "settle"}
Awaiting(back) == pc \in AwaitPcs /\ ret \in back

InFile  == pc \in FilePcs \/ Awaiting({"drain", "admit", "dedup"})
Sniffed == pc \in FilePcs \ {"drain", "open", "sniff"} \/ Awaiting({"admit", "dedup"})
ForNative == pc \in {"admit", "stage", "submit"} \/ Awaiting({"admit"})
Ended   == pc \in {"assemble", "cleanup", "done"}

\* A private copy is never ahead of the hash.
FilesInHand == {f \in Opened : Len(f.copy) <= Len(f.hashed)}

WorldType  == disk \in [Paths -> Entries] /\ edits \in 0..MaxEdits /\ cancelAt \in Nat \cup {None}
PlaceType  == /\ pc \in {"discover", "top", "final"} \cup AwaitPcs \cup FilePcs
                            \cup {"assemble", "cleanup", "done"}
              /\ ret \in {"drain", "admit", "dedup", "final"}
WalkType   == /\ unseen \subseteq Paths /\ again \subseteq Paths /\ dirs \subseteq Paths
              /\ files \in Seq(Paths) /\ listed \in BOOLEAN
FileType   == IF InFile THEN /\ cur \in FilesInHand
                             /\ Sniffed => cur.fmt \in Formats
                             /\ ForNative => IsNative(cur.fmt)
                             /\ pc = "judge" => cur.verdict \in Verdicts
              ELSE cur = None
SlotsType  == pool \in [Slots -> Jobs \cup {None}] /\ pending \in [Slots -> Contexts \cup {None}]
HeldType   == IF pc \in {"finish", "settle"} THEN held \in Slots \X Verdicts ELSE held = None
ReportType == cache \subseteq FileRecords /\ records \in Seq(FileRecords) /\ counts \in Tallies
EndsType   == /\ IF Ended THEN outcome \in Outcomes ELSE outcome = None
              /\ result \in Results \cup {None}

TypeOK == /\ WorldType /\ PlaceType /\ WalkType /\ FileType /\ SlotsType /\ HeldType
          /\ ReportType /\ EndsType

\* A record that carries a file_id describes the file standing at its path at
\* that moment: an edit at any point of sniffing, hashing, waiting, encoding or
\* reuse withholds the identifier (Run::finish_record and the reuse branch of
\* encode_file, both by still_current).
RecordsAreCurrent ==
    [][\A r \in NewRecords :
          r.id # None => disk[r.path].kind = "file" /\ disk[r.path].data = r.id]_vars

\* The families a file of a format may turn out to be.
Families(fmt) == {Candidates(fmt)[k] : k \in DOMAIN Candidates(fmt)}

\* A verdict, if good, is on this very content, as its format at this path allows.
Sound(v, p, id) == v.error = None => v.source = id /\ v.family \in Families(DetectFormat(p, id))

\* A ready record's vector was computed from the very content its file_id
\* names, under a profile the file's format allows: true of text read a second
\* time, of a native worker's private copy, and of a vector reused.
VectorsMatchContent ==
    \A i \in DOMAIN records :
        LET r == records[i] IN
        r.state = "ready" =>
            /\ r.vector.of = r.id
            /\ r.profile \in Families(DetectFormat(r.path, r.id))

\* No content is encoded twice under one profile in a call, nor encoded at all
\* when the previous vector file had it: identical files wait for each other
\* even while the first is still with a worker (encode_file, engine.rs:498-538).
EncodedOnce ==
    \A i, j \in DOMAIN records :
        LET r == records[i]  q == records[j] IN
        r.state = "ready" /\ ~r.reused =>
            /\ Key(r) \notin Previous
            /\ i # j /\ q.state = "ready" /\ ~q.reused => Key(r) # Key(q)

\* encode's result passes vector_file::validate, so it can be written and read
\* back: consistent records and counts, no conflicting vectors, complete only if
\* every file discovered has its record, and unique paths, unless a listing
\* returned a name twice; then that path alone may have two records.
ResultValidates ==
    result # None /\ result.error = None =>
        /\ Consistent(result.files, result.counts, result.complete, result.cancelled)
        /\ Repeated(result.files) \subseteq again

\* "There is one record per discovered path" (README.md:89-90), whatever
\* directories are read from.
OneRecordPerPath ==
    result # None /\ result.error = None => UniquePaths(result.files)

\* While process runs, every file discovered is in exactly one place: still to
\* do, in hand, with a worker, or recorded.
NothingLost ==
    Running => counts.discovered =
                  Len(files) + One(InHand)
                  + Cardinality({s \in Slots : pending[s] # None}) + Len(records)

\* The expect()s and unwrap()s of the coordinator hold: a slot that has a job
\* has its source context and conversely, a polled answer finds its context, a
\* submission has its copy and a free slot; and wait_one never waits for
\* nothing.
ExpectationsHold ==
    Running =>
    /\ \A s \in Slots : pending[s] # None <=> pool[s] # None \/ (held # None /\ held[1] = s)
    /\ pc \in {"finish", "settle"} <=> held # None
    /\ held # None => pool[held[1]] = None
    /\ pc = "submit" => cur.staged /\ Active # Slots
    /\ pc = "wait" => Active # {}

\* Private copies and their reserves never exceed the staging allowance, the
\* copy being written included, even when the source grows as it is copied.  Only
\* an allowance smaller than one reserve is exceeded, by an empty file's reserve
\* alone, because source_limit saturates at 0 (engine.rs:445).
Allowance == IF StagingBytes >= Reserve THEN StagingBytes ELSE Reserve
StagingWithinAllowance ==
    Staged + (IF InHand /\ cur.staged THEN Len(cur.copy) + Reserve ELSE 0) <= Allowance

\* A file is refused for its size only if it would not fit alone: the load at
\* that moment makes it wait, never fail.
RefusalsAreReal ==
    \A i \in DOMAIN records :
        records[i].error = "ResourceBudgetTooSmall" =>
            Len(records[i].id) + Reserve > StagingBytes

\* Once the token is set, at most two more records are made: one by a finish
\* already past its check, one for the file in hand.
PromptCancel == Cancelled => Len(records) <= cancelAt + 2

\* A readable file keeps its identifier when only its private copy cannot be
\* created ("Hash every readable original", engine.rs:450).
StagingKeepsId == [][pc = "stage" => \A r \in NewRecords : r.id # None]_vars

-----------------------------------------------------------------------------
\* A cancelled call returns even if no worker ever answers again.
CancelCompletes == Cancelled ~> (pc = "done")

\* Every call returns, if workers meet their deadline.
Termination == Deadlines => <>(pc = "done")

-----------------------------------------------------------------------------
(* The inductive invariant behind the theorems of EngineProofs.            *)

\* How far encode_file has come with the file in hand.
Admitted == pc \in FilePcs \ {"drain", "open", "sniff", "admit"} \/ Awaiting({"dedup"})
Sized    == pc \in FilePcs \ {"drain", "open", "sniff", "admit", "stage"} \/ Awaiting({"dedup"})
HashDone == pc \in {"verify", "dedup", "lookup", "reuse", "text", "judge", "submit"}
                \/ Awaiting({"dedup"})

\* Jobs and source contexts go together.
SlotsInv ==
    Running => \A s \in Slots :
        /\ pending[s] # None <=> pool[s] # None \/ (held # None /\ held[1] = s)
        /\ held # None /\ held[1] = s => pool[s] = None

\* An admitted native file keeps its slot free until it is submitted, and its
\* copy unless it is refused.
AdmissionInv ==
    /\ Admitted /\ IsNative(cur.fmt) => Active # Slots
    /\ Sized /\ IsNative(cur.fmt) /\ ~cur.overflow => cur.staged
    /\ pc = "submit" => ~cur.overflow
    /\ pc = "wait" => Active # {}

\* The running jobs are within the allowance, and with the copy being written
\* they stay within it however far the copy goes.
StagingInv ==
    /\ Staged <= Allowance
    /\ pc = "stage" => ~MustWait
    /\ InFile /\ ~Sized => ~cur.staged /\ cur.copy = <<>>
    /\ InFile /\ cur.staged =>
          Staged + cur.limit + Reserve <= Allowance /\ Len(cur.copy) <= cur.limit

\* Revisions number the edits: the one an edit leaves is never one seen before.
RevisionsInv ==
    /\ \A p \in Paths : disk[p].rev <= edits
    /\ InFile => cur.rev <= edits
    /\ \A s \in Slots : pending[s] # None => pending[s].rev <= edits

\* What has been read of the file in hand; while it is still the file that was
\* opened, all of it stands at its path.
IsOpen == pc \in FilePcs \ {"drain", "open"} \/ Awaiting({"admit", "dedup"})
PrefixOf(s, t) == Len(s) <= Len(t) /\ \A i \in 1..Len(s) : s[i] = t[i]

ReadingInv ==
    InFile =>
    /\ ~Sized => cur.hashed = <<>> /\ ~cur.staged
    /\ pc \notin {"text", "judge"} => cur.reread = <<>>
    /\ pc = "text" => cur.fmt = "utf8"
    /\ cur.staged => cur.copy = cur.hashed
    /\ IsOpen /\ StillCurrent(cur.path, cur.rev) =>
          /\ cur.data = disk[cur.path].data
          /\ PrefixOf(cur.hashed, cur.data) /\ PrefixOf(cur.reread, cur.data)
          /\ HashDone => cur.hashed = cur.data
          /\ Sniffed => cur.fmt = DetectFormat(cur.path, cur.data)
          /\ pc = "judge" => Sound(cur.verdict, cur.path, cur.hashed)

\* A file too large for its copy would be so alone: at admission it has room
\* beside the jobs or runs alone, and a file that grows later is not the one
\* that was opened.
FitInv ==
    /\ pc = "stage" => ~MustWait
    /\ InFile /\ ~Sized => ~cur.overflow
    /\ InFile /\ cur.staged => cur.size <= cur.limit
    /\ IsOpen /\ StillCurrent(cur.path, cur.rev) =>
          /\ cur.size = Len(cur.data)
          /\ cur.overflow => cur.size + Reserve > StagingBytes
    /\ pc = "judge" /\ cur.verdict.error = "ResourceBudgetTooSmall" => cur.overflow

\* Nobody but the coordinator refuses a file for its size.
AnswersInv ==
    /\ \A s \in Slots : pool[s] # None /\ pool[s].answer # None =>
          pool[s].answer.error # "ResourceBudgetTooSmall"
    /\ held # None => held[2].error # "ResourceBudgetTooSmall"
    /\ \A h \in cache : h.error = None

\* While a job's source is still the file that was opened, its identifier names
\* what stands at its path, its copy is that content, and a verdict is on it.
JobOK(s) ==
    LET c == pending[s]  current == StillCurrent(c.path, c.rev) IN
    /\ c.record = [Blank(c.path) EXCEPT !.id = c.record.id, !.family = c.record.family]
    /\ c.record.id # None
    /\ current => c.record.id = disk[c.path].data
    /\ pool[s] # None =>
          /\ pool[s].copy = c.record.id
          /\ current => pool[s].fmt = DetectFormat(c.path, c.record.id)
          /\ pool[s].answer # None /\ pool[s].answer.error = None =>
                /\ pool[s].answer.source = pool[s].copy
                /\ pool[s].answer.family \in Families(pool[s].fmt)
    /\ current /\ held # None /\ held[1] = s => Sound(held[2], c.path, c.record.id)

JobsInv == \A s \in Slots : pending[s] # None => JobOK(s)

\* What may still be recorded once the token is set: the outcome being settled
\* and the file in hand.  Neither is taken up again after the next check.
CancelInv == Cancelled => Len(records) + (One(pc = "settle") + One(InHand)) <= cancelAt + 2

\* Whatever may be reused was computed from the content it is kept under.
CacheInv == \A h \in cache : h.vector.of = h.id

\* A vector of this content under this profile may be reused.
KeptIn(hs, id, f) == \E h \in hs : Key(h) = <<id, f>>
Kept(id, f) == KeptIn(cache, id, f)

\* The file in hand has no twin with a worker; and nothing to reuse.
Deduped == pc \in {"lookup", "reuse", "text", "judge", "submit"}
Fresh   == pc \in {"text", "submit"} \/ (pc = "judge" /\ cur.verdict.error = None)

\* All that was ever ready may be reused, with the vector it was given.
KeptInv ==
    /\ \A k \in Previous : Kept(k[1], k[2])
    /\ \A i \in DOMAIN records : records[i].state = "ready" =>
          \E h \in cache : Key(h) = Key(records[i]) /\ h.vector = records[i].vector
    /\ \A h \in cache : h.state = "ready" /\ RecordOK(h)
    /\ \A g, h \in cache : Key(g) = Key(h) => g = h
    /\ \A i \in DOMAIN records : RecordOK(records[i])

\* No two jobs have the same content, nor has the file in hand that of a job.
TwinsInv ==
    /\ \A s, t \in Slots : s # t /\ pending[s] # None /\ pending[t] # None =>
          pending[s].record.id # pending[t].record.id
    /\ Deduped => \A s \in Slots : pending[s] # None => pending[s].record.id # cur.hashed

\* What is being encoded cannot be reused yet, while its source is current.
FreshInv ==
    /\ Fresh => \A f \in Families(cur.fmt) : ~Kept(cur.hashed, f)
    /\ \A s \in Slots : pending[s] # None /\ StillCurrent(pending[s].path, pending[s].rev) =>
          LET id == pending[s].record.id IN
          \A f \in Families(DetectFormat(pending[s].path, id)) : ~Kept(id, f)

\* A path that never came back to a listing has one place: to be listed, to be
\* encoded, in hand, with a worker or in the report.
Filed    == {files[i] : i \in DOMAIN files}
Ahead    == unseen \cup dirs \cup Filed
Reported == {records[i].path : i \in DOMAIN records}

FiledOnce(p)    == \A i, j \in DOMAIN files : files[i] = p /\ files[j] = p => i = j
ReportedOnce(p) ==
    \A i, j \in DOMAIN records : records[i].path = p /\ records[j].path = p => i = j

InOnePlace(p) ==
    /\ p \notin unseen \cap dirs
    /\ p \in Filed => p \notin unseen \cup dirs
    /\ FiledOnce(p)
    /\ p \in Ahead => p \notin Reported
    /\ InHand /\ cur.path = p => p \notin Ahead \cup Reported
    /\ \A s \in Slots : pending[s] # None /\ pending[s].path = p =>
          /\ p \notin Ahead \cup Reported /\ (InHand => cur.path # p)
          /\ \A t \in Slots \ {s} : pending[t] # None => pending[t].path # p

PlacesInv == \A p \in Paths \ again : ReportedOnce(p) /\ (Running => InOnePlace(p))

\* The counts are those of the records, whatever order they came in.
CountsInv ==
    /\ counts.processed = Len(records)
    /\ counts.ready   = Cardinality({i \in DOMAIN records : records[i].state = "ready"})
    /\ counts.skipped = Cardinality({i \in DOMAIN records : records[i].state = "skipped"})
    /\ counts.hits    = Cardinality({i \in DOMAIN records : records[i].reused})
    /\ counts.failed  = counts.processed - counts.ready - counts.skipped
    /\ counts.encoded = counts.ready - counts.hits
    /\ counts.discovered >= counts.processed

\* The total is known once discovery has ended; when all is done it is what has
\* been processed.
TotalInv ==
    /\ counts.total # None => counts.total = counts.discovered
    /\ pc = "discover" => counts.total = None
    /\ Running /\ pc # "discover" => counts.total # None
    /\ pc = "final" \/ Awaiting({"final"}) => files = <<>>
    /\ outcome = "ok" => counts.total = counts.processed
===============================================================================
