# FileTwin: a TLA+ verification project

FileTwin walks a directory, gives every regular file a content identifier
(SHA-256) and computes a similarity vector for the files it can read, reusing
the vectors of a previous run. This directory holds TLA+ models of its
concurrent core, the TLC runs that check them and TLAPS proofs about them.
`PROJECT.json` lists the components, the runs, the mutants that show that each
property can fail, the source lines of every definition, the findings, the
hazards and the theorems. Paths below are relative to `crates/`.

## The system

| Component | State it keeps | Operations | Hard because |
|---|---|---|---|
| Coordinator (`filetwin-core/src/engine.rs`) | records, counts, reuse cache, source contexts of running jobs | hash, deduplicate, reuse, admit, submit, settle, assemble | other processes edit the directory at any step; workers answer at any time; the host may cancel at any time |
| Discovery (`engine.rs`, `local.rs`) | stack of paths, visited inodes, files found, complete | open, list, look up, classify | it goes by paths over a tree that others rearrange |
| Worker pool (`native.rs`) | slots with a process, a job, a deferred error; pipe buffers; deadlines | submit, poll, spawn, kill | separate processes, bounded pipes, deadlines, crashes, reuse of a process |
| Worker process (`filetwin-worker/src/main.rs`) | serve loop | read a request, encode, answer, watch its parent | dies, hangs, prints, is orphaned |
| Vector file (`vector_file.rs`) | a JSON file | validate, read, replace | concurrent writers and readers, power loss between steps |
| Text encoder (`text.rs`) | a buffer, the scalar in hand, filters | decode, compose, count n-grams; read the source a second time | scalars and line ends cut by the end of a read; the source may have changed since it was hashed |
| Document reader (`filetwin-worker/src/documents.rs`) | a depth and three markers | follow the events of a DOCX, join the pages of a PDF | depths instead of a stack of open elements; words run together at page ends |
| Media reader (`media.rs`) | none | choose a stream, sample windows and frames, run decoders | two ways to fetch the same frames; rounding at the ends of intervals; two pipes of one child |
| Raster reader (`raster.rs`) | a model session, a lock file | load and verify a model, compile it once, encode a picture | sessions kept from file to file, workers that share a cache and are killed |
| Command line (`filetwin-cli/src/main.rs`) | none | one encode call, one save, one print | signals, failure after partial effects |

One thread runs the coordinator. It calls the pool synchronously (`submit`,
`poll`); the pool talks to worker processes over nonblocking pipes and hands
them private copies of the sources. A cancellation token is shared with the
host. The directory being encoded and the vector file are shared with every
other process of the machine; the code detects their edits by comparing a
`Revision` (inode, size, times) of the open descriptor and of the path before
and after (`local::still_current`).

What makes each part correct:

- coordinator: an identifier or a vector in a record belongs to the content that
  is at the path; no content is encoded twice; every file discovered gets one
  record; the result passes its own validation, unless a directory's listing gave a
  name twice; staging stays within its allowance, or one reserve; none of its `expect`s fails; every call returns, a cancelled one
  promptly;
- discovery: `complete` means that nothing that was there all the time is missing;
  no directory outside it is opened for listing; the walk ends;
- pool and worker: a job gets one outcome, never another job's encoding; it fails
  only for a reason; no worker outlives the copy it reads or its host; nobody
  waits for a pipe for ever;
- readers: the encoding does not depend on how bytes are cut into reads or by which
  way frames are fetched; a document's text is what its author wrote; a decoder's
  output is whole or refused, and its call returns; a picture goes through the model
  that was verified for it, and one worker compiles at a time;
- vector file: the output is always a whole file, a successful save survives a
  power loss, a reader gets one version.

## Modules

| Module | What it is |
|---|---|
| `VectorFile` | records, counts and `vector_file::validate`, shared by the others |
| `Engine` | the coordinator of one `encode` call and its environment |
| `EngineProperties` | what it must satisfy, and the parts of the inductive invariants |
| `EngineProofs`, `EngineReport` | theorems about it, the second module on top of the first |
| `Discovery`, `DiscoveryProperties` | the walk over a tree of names and inodes |
| `PoolContract` | what the pool promises the coordinator, in one page |
| `NativePool`, `PoolProperties` | the pool, the pipes and the workers; refines `PoolContract` |
| `VectorStore`, `StoreProperties` | saving and reading the vector file |
| `PoolProofs`, `StoreProofs`, `DiscoveryProofs` | theorems about them and the walk |
| `TextReader`, `DocumentReader`, `MediaReader`, `Capture`, `ModelSession` | the parts of a worker's readers (`Option` holds the `None` and the `Filter` they share) |
| `Readers`, `ReaderProperties` | a worker's readers together |
| `MediaProofs`, `ReaderProofs` | theorems about the media reader; about sessions, decoders, documents, pages and texts |
| `Induction` | induction over numbers and sequences as facts about sets, functions defined by recursion |
| `MCEngine`, `MCDiscovery`, `MCPool`, `MCStore`, `MCReaders` | values of the constants for TLC |

Operators marked *Seeded fault* in the modules are not part of the models: they
are the mutated forms of the definition that follows them, and show for each
property that a plausible bug breaks it.

### Engine

`pc` is the place of the coordinator's thread between two points where something
else can interfere, one action per step: discovery (`ListEntry`, `ListDirectory`,
`ListingFails`, `DiscoveryEnds`), then for each file `TakeFile`, `Drain`, `Open`,
`Sniff`, `Admit` (waits through `WaitOne`, `Finish`, `Settle` while the load is too
high), `Stage`, `Hash` (one chunk at a time, copying as it goes), `Verify`, `Dedup`
(waits for a twin), `Lookup`, `Reuse`, `EncodeText`, `Judge`, `Submit`; at the end
`AwaitWorkers`, `Assemble`, `Cleanup`. `cur` holds `encode_file`'s locals, `pool` and
`pending` the two tables indexed by slot, `held` an answer that was polled and is not
settled yet, `ret` where `wait_one` returns to. `Interrupt` is the cancellation check
at each of the code's check points.

A content is a short sequence of chunks; its first chunk may carry a signature, and
the identifier of a content is the content itself (SHA-256 without collisions). The
directory is `disk`: path -> kind, revision, content. `Overwrite` edits in place (an
open descriptor reads the new content), `Rename` replaces the entry (an open
descriptor keeps the old one); each leaves a revision never seen before. A worker is
one action, `WorkerAnswers`; its protocol is `NativePool`'s subject, its promise
`PoolContract`'s. The directory is flat: trees are `Discovery`'s subject.

The code keeps lists where one might expect sets, and so does the model: `files` is a
sequence, sorted by `Orders` when discovery ends, and the result is the sequence of
records, sorted once more (`Assemble`). Nothing in the code makes their paths distinct; that
is left to the listing. `ComesBack` is a name that `readdir` returns again, because it was
removed and made anew while the listing went on (POSIX leaves that open, and programs that
save by a rename do it); `again` remembers which did, for the properties only. A name may
come back once in the model. The names that the exclusions cover (the vector file given, the
private directory; `engine.rs:313`) are not in `Paths`. Of `validate`, `VectorFile` has what is about
records, vectors and their counts; the sizes read and hashed, the number of workers and the
time taken are not modelled, nor are the checks of them (`vector_file.rs:130`).

### Discovery

`tree[d][n]` is what name `n` is bound to in directory inode `d`; the program's `stack`,
`files` and `child` are paths, looked up again each time by `Secure` (`open_secure`, no
link followed) or `Follows` (`lstat` of a whole path, links in the middle followed).
`Pops` opens a directory once for its identity, `Opens` a second time for listing, as
the code does, and the tree may change in between. A listing knows which names
`readdir` must still return (there since it was opened) and which it may return (POSIX
leaves names added or removed meanwhile open).

### NativePool

Lines on the pipes are sequences of pieces, the newline the last one. `Submit` is
`Pool::submit` with `spawn` and `begin`; a poll goes through the active slots in order,
each through `PollChecks` (deadline), `PollWrites`, `PollErrors`, `PollOutput` (one piece
a step: workers run between any two system calls) and `PollFrames`; a failure through
`Kills` and `Reports`, in the order of the code's drops. `Reaps` and `Purges` are the drop
of the pool, `HostDies` a SIGKILL of the host. The worker is `Reads`, `Encodes`,
`Logging`, `Replies`, `Leaves`, and `Watches` for its watching thread. `history` records
which faults happened to which job, for the properties only.

### VectorStore

`node` is inode -> data (two pieces, tagged with whose vectors they are part of),
revision, synced. `log` is what the output name was bound to, oldest first, and
`durable` how much of it a power loss leaves for certain. Each process goes through the
steps of `write_vectors` or `read_vectors`; `Edits` moves another file there, removes it or
rewrites it in place; `Crash` drops unsynced bindings and the ends of unsynced data.

### Readers

`TextReader` gives its input to the decoder in reads of any size up to the buffer:
`Refill` is `Scalars::byte`'s read, `DecodeByte` one byte of `raw_char`, with `Filtered`
as `Scalars::next` (byte order mark, CR and CRLF, marks in a row), and `TextEnds` composes
and counts n-grams. A scalar is the sequence of its bytes, among a few that stand for
their class; NFC is reduced to the one composition of a letter and an accent.

`DocumentReader` is `docx_xml`, an action per parser event (`Start`, `Empty`, `End`, `Text`,
`Refuse`, `Eof`) with the code's `depth`, `bodyDepth`, `skipDepth` and `textDepth`; the stack of
open elements exists only in the parser, which checks nesting, and in the property.
`should` collects the text an author means, read off that stack. A `w:t` holds no other
element of its namespace, as the schema of the format says. `ReadPage` joins PDF pages.

`MediaReader` goes through `Versions`, `TooLittleMemory` or `Probed`, and then `AudioWindow` for
each window, `DecodeBatch` or `SeekTarget` with `Frame` for each target, or `StillImage`. Times
are integers; a fraction keeps its denominator beside it. A window is kept as the decoder is
asked for it: a seek from the container's start, to which the stream's offset is added, and a
length. A tile grid has its tiles and the number ffprobe gives of them, which need not
agree. A decoder is one step there;
`Capture` has its inside: the child, two pipes, a thread for each, the cap, and the
child's death at any time. `ModelSession` has several workers, each in `with_model`, with
the file lock of the compile cache and a model file others replace.

`Readers` composes them: a request is read by one reader (`Alone`), a document's text goes
on to the text encoder (`EncodeDocument`), and plain text comes to it directly. Readers of
one process never run at the same time (the serve loop answers a request before it reads
the next one); what does run concurrently, processes and threads, is inside
`ModelSession` and `Capture`.

## Runs

| Run | Instance | Shows |
|---|---|---|
| `engine_edits` | 2 names that may be anything, become anything and come back to a listing, 2 edits, 2 slots, room for two native twins side by side | identifiers and vectors belong to the content at the path, the result validates (but for a path that came back), nothing is lost |
| `engine_load` | 3 files with twins, 2 slots, a tight allowance, a previous result, 1 edit to a file too large | types, no content encoded twice, the code's expectations, the allowance, refusals only of what never fits, prompt cancellation |
| `engine_liveness` | 3 names, the first anything, the others native files of one chunk or none, 2 slots, an allowance below one reserve, 1 edit | no more is staged than one reserve; every call returns; a cancelled one without the workers |
| `discovery_trees` | 4 trees of 3 directories (one mounted twice, one below itself) and 2 outside, 2 edits, 1 failing call | complete inventories, each directory once, none outside opened, the walk ends |
| `pool_limits` | 1 slot, 3 jobs, lines below, at and past the limits, 1 fault of any kind | refinement of `PoolContract`; failures have a reason |
| `pool_liveness` | 2 slots, 2 jobs, diagnostics longer than a pipe, 1 fault | no worker outlives its copy; jobs end, healthy ones without the deadline, orphans end |
| `store_races` | 2 writers, 1 reader, 1 edit, 1 power loss | whole, durable, one version, nothing replaced by a new output |
| `readers` | texts of up to 3 units of 10 kinds and 4 of those that interact, every DOCX nested up to 4 deep over 6 elements, PDFs of up to 3 pages of 10 kinds of which 2 are allowed, text of 5 characters and line ends, all probes, films and stills of the sets in `MCReaders`, a decoder that writes up to 3 chunks to pipes of 1, 2 workers with 3 requests | what the readers must satisfy, above |
| `engine_listed_twice`, `engine_staging_loses_id`, `pool_reuse`, `discovery_unsearchable` | the smallest instance | the findings below |

Why these bounds are enough for what they are meant to show. Two names let one file
be in hand while another's job runs; two edits let a file change and change again
between any two looks, or change at two places; six chunks of allowance hold two jobs with
their reserves, so that twins run side by side. Three files and two slots make a file
wait for a slot, for room and for a twin, in every order. Three jobs in one worker
make one job's leftovers meet the next and the one after. A pipe of one piece makes
every write block, one of two holds the leftovers that matter to a limit of two; a line of two
pieces is read in parts. Two pieces of data are
enough to be torn or mixed. A buffer of two bytes cuts every scalar of two or three
bytes and every CRLF at each place; the n-gram window of two is passed by the longest
inputs. A document four deep has a deletion in a deletion's paragraph, a second body and a
body that is not below the root. Five pieces of
text hold two pages with each kind of line end where they meet; longer ones and third pages pass
the limits. Two windows have a first and a last; durations below, at
and past what they hold, late starts and frames before, between and after the targets
meet each rounding. A decoder that writes three chunks to a pipe of one, with caps of two
and one, blocks on either pipe and passes each cap. Two workers meet at the lock, and
three requests let one of them change the key and come back. Three directories give a subtree that is moved while its
parent is listed, and with two edits it can be replaced by a link as well.

Assumptions: SHA-256 has no collisions; every edit changes the revision (`ctime` grows
with each, and an inode is not reused while its descriptor is open); a synced file and
directory survive a power loss; `rename` and `link` are atomic.

Fairness is assumed only in the liveness properties. The coordinator's thread is
scheduled (it never blocks: pipes are nonblocking and `wait_one` sleeps 5 ms), which is
the specification's `WF_vars(Coordinator)`, `Polled` and `FairSpec`. That a worker's
job ends (`Deadlines`) is assumed of `WorkerAnswers` in `Engine` and is what
`pool_liveness` shows of the pool: it needs no worker to do anything, only the clock
(`WF_vars(Tick)`). Of the readers, `CaptureFairness` says that the two draining threads and
the child run (a child that hangs is ended by the pool's deadline, not by `capture`), and
`SessionFairness` that each worker process is scheduled, which is all `CompilersProceed`
needs: a lock whose holder is killed is released by the system. `Working` is assumed only where the property is about healthy
workers, `Watching` (the watching thread runs, reads of a closed pipe return) only where
it is about orphans. Edits, cancellation and faults are never fair.

## Proofs

TLAPS proves, for every value of the constants: any number of paths, contents,
processes, slots, jobs, workers, faults and edits, any limits, capacities and pipes,
any listing, tree, document, text, film, sound or picture:

| Theorem | States |
|---|---|
| `EngineProofs!TypeCorrect` | `Spec => []TypeOK` |
| `EngineProofs!Expectations` | `Spec => []ExpectationsHold`: a submission finds a slot, an answer its context, a wait a running worker |
| `EngineProofs!StagingAllowance` | `Spec => []StagingWithinAllowance`, for an allowance smaller than a reserve too |
| `EngineProofs!VectorsAreOfTheirContent` | `Spec => []VectorsMatchContent` |
| `EngineProofs!IdentifiersAreCurrent` | `Spec => RecordsAreCurrent`, an action property |
| `EngineReport!RefusalsHold` | `Spec => []RefusalsAreReal` |
| `EngineReport!EncodesOnce` | `Spec => []EncodedOnce` |
| `EngineReport!CancelIsPrompt` | `Spec => []PromptCancel` |
| `EngineReport!NoneIsLost` | `Spec => []NothingLost` |
| `EngineReport!ResultIsValid` | `Spec => []ResultValidates`: two records of a path only if it came back to a listing |
| `PoolProofs!PoolTyped` | `Spec => []TypeOK` |
| `PoolProofs!CopyStays` | `Spec => []CopyOutlivesReader` |
| `PoolProofs!PoolKeepsContract` | `Spec => KeepsContract`: the pool implements `PoolContract` |
| `PoolProofs!FailuresStayReal` | `Spec => []FailuresAreReal` |
| `DiscoveryProofs!WalkTyped` | `Spec => []TypeOK` |
| `DiscoveryProofs!NoFileIsMissed` | `Spec => []CompleteMeansCovered` |
| `DiscoveryProofs!StaysInside` | `Spec => []NeverOutside`: about directories opened, not about records |
| `DiscoveryProofs!NoneIsListedTwice` | `Spec => []ListedOnce` |
| `StoreProofs!OutputStaysWhole` | `Spec => []OutputIsWhole` |
| `StoreProofs!SavedStays` | `Spec => []SavedIsDurable` |
| `StoreProofs!ReadersGetOneVersion` | `Spec => []ReadsOneVersion` |
| `StoreProofs!NewReplacesNothing` | `Spec => NewOutputReplacesNothing`, an action property |
| `ReaderProofs!BodyIsWritten` | `Spec => []BodyAsWritten` |
| `ReaderProofs!SessionsFit` | `Spec => []SessionFits` |
| `ReaderProofs!CompilersTakeTurns` | `Spec => []OneCompiler` |
| `ReaderProofs!DecoderOutputIsWhole` | `Spec => []CaptureIsWhole` |
| `ReaderProofs!PagesAreWhole` | `Spec => []PagesAreComplete` |
| `ReaderProofs!EncodingIsOfTheText` | `Spec => []TextAsSpecified` |
| `MediaProofs!FamilyIsFollowed` | `Spec => []FamilyAsSpecified` |
| `MediaProofs!PictureIsPrimary` | `Spec => []PrimaryPicture` |
| `MediaProofs!WindowsAreEven` | `Spec => []WindowsAsSpecified` |
| `MediaProofs!FramesAreTheTargets` | `Spec => []FramesAsSpecified` |

That is every invariant and every action property the passing runs check.

They rest on the named assumptions about the constants in the modules that declare
them, and on `NoneAssumption` in `PoolProperties` (positive sizes, contents are sequences
of chunks, `None` is none of the values), which TLC evaluates on every run of the module.
Besides types, these say something of the world, and each is needed:

- `DiscoveryAssumption`: no directory of the tree contains, at first, one that is outside
  it; edits may bring links to the outside, never a directory;
- `ContainerAssumption`: a container starts no later than its streams, attached pictures
  aside (FFmpeg's `start_time` of a file is the least of its audio and video streams');
  else the offset of a seek, which the code does not let be negative, would be too large;
- `GridAssumption`: an HEIF grid has tiles (`media.rs` refuses one without), its tiles are
  pictures, and two grids share none;
- `TextAssumption`: texts are made of ten units: six scalars, NUL, a byte that is never in
  UTF-8, and two beginnings of scalars. So invalid texts have their fault at a scalar's first
  byte or after it, but a scalar is not made of two broken ones.

No run checks the `TypeOK` of the pool, which `PoolTyped` proves for every instance.

None of the properties is inductive by itself; each module names the parts of its
strengthening.

*Engine.* They are in `EngineProperties`: `SlotsInv` (a slot has a context exactly if it has a
job or its answer is held), `AdmissionInv` (a native file past admission keeps a slot
free until it is submitted: other files' answers only free slots), `StagingInv` (jobs
plus the copy being written, up to its limit, fit the allowance, or are one reserve: a file
that does not fit beside others waits for them, so only one is ever let in without room), and for the contents
`RevisionsInv` (a revision left by an edit is new), `ReadingInv` (as long as the file in hand is
current, what was hashed, copied or read again is a prefix of what is at the path,
and all of it once the hash is done), `JobsInv` (the same of every running job and of
the answer held) and `CacheInv`. The heart of the argument: if `still_current` holds at
the end, no edit of that path has happened since the open, so every byte came from the
content now there; otherwise the record is stripped.

Three more arguments stand on that one. *Refusals*: `FitInv` says that a file in hand too
large for its copy would not fit alone either, because admission gave it its room before
the copy began and a file that grows later is no longer current. *Encoding once*:
`KeptInv` (all that was ever ready may be reused, with the vector it was given, and there
is one vector per key), `TwinsInv` (no two jobs have the same content, nor the file in hand
that of a job) and `FreshInv` (what is being encoded cannot be reused yet, as long as its
source is current) make every new vector the first of its key; a job whose source has
changed may have a twin in the cache by then, but makes no vector. *The report*:
`PlacesInv` (a path that did not come back to its listing is in one place: to be listed, to be
encoded, in hand, with a worker or recorded, and there once), `NothingLost` (the places add up to what was discovered), `CountsInv` (the
counts are those of the records, whatever order they came in, and of the sorted ones too: a
sort is a bijection) and `TotalInv` (when
all is done the total is what has been processed) give each conjunct of `Consistent` at
`Assemble`, and that only paths that came back are repeated; that no two vectors of the result conflict comes from `KeptInv`. `CancelInv`
counts what may still be recorded after the token is set: an answer being settled and
the file in hand, neither of which is replaced before the next check.

*Pool.* `PoolInv` has, besides types, where the coordinator is (`PlaceKnown`), that no job
is in two slots and that what workers have of requests is staged (`JobsKnown`), and
`SlotKnown`, which follows the pieces of one job round a slot: its request lies, in order,
in the coordinator's buffer, the pipe and the worker's line; its answer in the worker's
buffer, the pipe and the response read so far; and once the answer's newline is on its
way the request has been used up and nothing of the job follows (`Answers`). So a frame
that is accepted leaves the worker `Idle`: no piece of a job is left anywhere in the
slot, whatever stray output is. That is why the next job cannot get the last one's
answer, and why the copy may be deleted although the worker lives on. A slot that failed
is killed, so that there is nothing to follow. *Failures*: `FairInv` says
that while nothing can be held against a slot's job its worker is not spoiled, all that
is on its way back says one thing, and what has been read, is in the pipe and is still to
be written stays within each limit (`Clean`): nothing is left for the coordinator to refuse.

*Discovery.* What a path leads to is a function of its length, so facts about it are proved
by induction over that: a path nobody touched leads where it led (`StableLookup`), and none
leads from the root to a directory outside, though trees change (`LookStaysInside`). Then
`NothingSkipped` says that as long as the inventory is complete, each file or link nobody
touched is recorded, or else some directory above it is on the stack, or is being opened or
listed with the next entry of the path still to come (`Pending`); it uses that what is
listed is what its path leads to (`ListsItsPath`). When the walk is done the stack is empty,
so nothing is pending. `WalkInv` is about trees nobody edits: a directory opened for its
identity is the one opened for listing, and what was listed was visited.

*Vector file.* `StoreInv`: a file of the revision that was opened has what was read of it
as its start (`ReadIsPrefix`); a writer's temporary file is its own until it is bound, and
whole and synced before that (`WriterKnown`, `TemporariesKnown`); what is bound to the
output stays in the log, and a power loss cuts the log only past what is durable.

*Readers.* `MarkersFollow` says of the parser's stack all that is asked of it by the three
markers: `skipDepth` is the depth of the outermost deletion or text box if there is one,
`textDepth` that of a `w:t` in text that counts, `bodyDepth` is two exactly inside the first
body. The text added at each event is then the author's. `SessionInv` follows the bytes
that were verified to the session, and the lock's holder to the compilation; `CaptureInv`
that what was written is in the pipe, kept, or dropped with the overflow noted.

`PagesInv`: the runs of characters in the text so far are those of the pages read so far. It
needs of `Lines` that it keeps the runs of a page, and of `Separated` that no run reaches
over a page's end; both are inductions over the pieces of a page.

`TextInv`: the buffer and what is left are the end of the input (`Ahead`); before them are n
whole units and the bytes in hand (`AtUnit`), and what was passed on, the filter's flags and its
count of marks are those of the first n units (`Follows`). So it says nothing of where reads
end. The next bytes are then those of the next unit, and it is passed on if it is whole
(`WholeUnit`) and refused if it is not (`BrokenUnit`). At the end, `FeaturesList` gives a
bijection between the n-grams listed and the places of the text where one can end
(`PlacedBy`), so that each is counted as often as it occurs.

*Media.* `SourceInv`: the stream in hand is the first of its family. `SelectedIsPrimary`: the
target that is chosen among the pictures is a whole one, and a primary one if there is one,
else the first grid or picture (`TargetsAre` says what the targets are). `SamplesInv`: the windows so far are the first of
the timeline's, shifted by the stream's offset; their places are arithmetic over any duration. `FramesInv`: the frames so far
are those of the targets in hand so far, and a batch has those of all; `SeeksAgree` says that
the first frame a seek finds is the one the batch keeps, whatever the rounding of the target.

*Induction.* The library's induction theorems cannot be used here, since they take an
operator. `Induction` states the same for sets: a set that has 0 and with each number the next
has all (`SetInduction`, from the well-foundedness of `<`), likewise for sequences
(`SeqInduction`), and a function defined by recursion exists and is what it says
(`Recursion`, `Recursive`). The models therefore use recursive functions and no `RECURSIVE`
operators.

Each `...Step` lemma has one step per action. TLC checked the conjuncts as invariants
before they were proved.

Only model-checked: the liveness properties (`WalkEnds`, `Termination`, `CancelCompletes`,
`EveryJobEnds`, `HealthyJobsAreAnswered`, `OrphansEnd`, `CaptureReturns`, `CompilersProceed`),
since TLAPS has no rule for fairness and `ENABLED` here, and the runs that look for a violation.

## Findings

Where the code does other than its documentation says, with a run for each:

1. `engine_staging_loses_id`: a native file whose private copy cannot be created is
   recorded without an identifier, though it is readable (`engine.rs:441`;
   `README.md:332`).
2. `pool_reuse`: a worker that died while idle fails the next file of its slot
   (`native.rs:181`; `native-encoding.md:76`).
3. `engine_listed_twice`: a name that a listing returns twice, because it was removed and made
   anew meanwhile, gets two records, and the result cannot be saved (`engine.rs:310`;
   `README.md:89`).
4. `discovery_unsearchable`: below a directory that may be read but not searched,
   nothing is walked and the result says `complete` (`engine.rs:335`; `api.rs:225`).

Seen while modelling and left without a run: a read error in a child directory's
listing ends the whole call (`engine.rs:312`), where one in opening it does not; a foreign file put at the output's name between
the last check and the rename is replaced (`vector_file.rs:218-223`); a directory sync
that fails after the rename is an error though the output was replaced; an answer that
is complete in the pipe is discarded as a timeout if the coordinator polls late, because
the clock is looked at before the pipe (`native.rs:374`); diagnostics still in the pipe when
a job is answered are read in the next one's time, count against its limit and can fail
it (`native.rs:341`, `native.rs:396`; `history.inherited` in `Submit`); the runtime library is verified
by one open of its path and loaded by another (`raster.rs:52`); with `staging_bytes` below the
2 MiB reserve, which `Encoder::new` accepts (it refuses only 0, `engine.rs:43`), the limit of a
copy saturates to 0 and an empty native file is still staged, its reserve past the allowance
(`StagingWithinAllowance` says so).

## Not modelled

The numeric work (hashing of n-grams, spectra and landmarks, resizing, the network,
norms), what the parsers of archives, XML, PDF and images do below their events, the
tables of Unicode, profile tables (`profile.rs`), error details, progress throttling and
the text of messages: no property here depends on them, and TLC could not evaluate
them. What is reduced, and how:

- the checks of a DOCX archive are a choice between its main document and a refusal;
- times of frames are exact; the code prints them with nine decimals for FFmpeg
  (`media.rs:821`), finer than half a tick of the usual time bases;
- an accurate seek is FFmpeg's, external: it gives the frames from its target on;
- keys of a model session are any set; what makes two of them equal is not modelled;
- diagnostics are counted, their text is left out;
- FFmpeg descendants of a worker share its process group and are not separate processes
  in `NativePool`; `Capture` has one of them.

The command line (`filetwin-cli/src/main.rs`) is a straight sequence of one `encode`, one
`write_vectors` and one print, whose parts are modelled; its handling of signals sets the
token that `Engine` has as cancellation at any moment. The standalone mode of the worker,
installation scripts and schemas are left out.

## Plan

Done, in the order of importance: the coordinator, the pool and
its refinement, the vector file, discovery and the readers, and theorems of all their
safety properties. What would come next:

1. an abstract specification of `encode` (each discovered path gets one record whose
   identifier was current, vectors by content) that `Engine` implements, with the proof
   from the invariants above;
2. a session: the command line's encode, save and signals, composed of that specification
   and `VectorStore`, with reuse of the saved file by a later call;
3. runtime admission and `worker_count` (`native.rs`), the archive preflight of documents;
4. measures that decrease with each step of the coordinator and of the walk, so that only
   fairness is left to TLC.
