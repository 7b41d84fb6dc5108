----------------------------- MODULE MediaReader -----------------------------
(***************************************************************************)
(* The media reader of a worker (crates/filetwin-worker/src/media.rs):     *)
(* which stream of a file is read, at which times it is sampled, and by    *)
(* which of two ways video frames are fetched.  Each call of a decoder is  *)
(* one step, whose inside is Capture's subject.                            *)
(*                                                                         *)
(* A time is an integer: seconds for sound, ticks of the stream's time     *)
(* base for pictures.  Fractions keep their denominator beside them.       *)
(***************************************************************************)
EXTENDS Option, Integers, Sequences, FiniteSets, SequencesExt

CONSTANTS
    Calls,          \* the requests: [kind, backend, selected]
    Probes,         \* what ffprobe may say of a file: [streams, start, duration]
    Films,          \* the time stamps of a picture stream's frames
    Stills,         \* what ffprobe may say of an HEIF/AVIF file: [streams, groups]
    Windows,        \* MAX_MEDIA_WINDOWS: 32
    WindowSeconds,  \* AUDIO_WINDOW_SECONDS: 8
    Short,          \* 60 seconds: what is decoded in one go
    Longest,        \* one year
    MinLandmarks    \* 32

\* What ffprobe says of a stream, of an item of an HEIF/AVIF file, and of a tile
\* grid there: count is nb_tiles, which is 0 if absent and need not be how many
\* streams the grid names.
StreamInfo == [type : STRING, attached : BOOLEAN, hdr : BOOLEAN, start : Int \cup {None}, duration : Int \cup {None}]
ItemInfo == [primary : BOOLEAN, video : BOOLEAN]
GroupInfo == [primary : BOOLEAN, count : Nat, tiles : Seq(Nat)]

ASSUME MediaAssumption ==
    /\ None \notin Int \cup {"ok"}
    /\ Windows \in Nat \ {0} /\ WindowSeconds \in Nat \ {0}
    /\ Short \in Nat /\ Longest \in Nat /\ MinLandmarks \in Nat
    /\ Calls \subseteq [kind : {"media", "audio", "video", "still"}, backend : STRING, selected : SUBSET STRING]
    /\ Probes \subseteq [streams : Seq(StreamInfo), start : Int, duration : Int \cup {None}]
    /\ Films \subseteq Seq(Int) /\ \A f \in Films : \A i \in 1..Len(f) - 1 : f[i] < f[i + 1]
    /\ Stills \subseteq [streams : Seq(ItemInfo), groups : Seq(GroupInfo)]

\* External: a container starts with the first of its streams, covers aside.
ASSUME ContainerAssumption ==
    \A p \in Probes : \A i \in DOMAIN p.streams :
        p.streams[i].attached \/ p.streams[i].start = None \/ p.streams[i].start >= p.start

\* A grid without tiles is refused.  External: the tiles of a grid are pictures,
\* and two grids share none.
ASSUME GridAssumption ==
    \A p \in Stills : \A i \in DOMAIN p.groups :
        /\ p.groups[i].tiles # <<>>
        /\ Range(p.groups[i].tiles) \subseteq {j \in DOMAIN p.streams : p.streams[j].video}
        /\ \A j \in DOMAIN p.groups \ {i} : Range(p.groups[i].tiles) \cap Range(p.groups[j].tiles) = {}

VARIABLES
    mpc,        \* "idle", "versions", "probe", "audio", "batch", "frames", "still", "done"
    call,       \* the request
    probe,      \* metadata
    film,       \* the frames of the picture stream
    source,     \* the stream read
    batch,      \* frames decoded in one go, or None
    next,       \* window or target in hand: i
    samples,    \* windows read: [seek, length], with denominators 2n and n
    landmarks,
    frames, missing,
    answer      \* None, "ok", or an error

mediaVars == <<mpc, call, probe, film, source, batch, next, samples, landmarks, frames, missing, answer>>

MediaInit ==
    /\ mpc = "idle" /\ call = None /\ probe = None /\ film = <<>> /\ source = None
    /\ batch = None /\ next = 0 /\ samples = <<>> /\ landmarks = 0
    /\ frames = <<>> /\ missing = {} /\ answer = None

\* Frames are those of a picture stream, and none is from before its stream's
\* start, as ffprobe tells it.
Begun(p, t) == /\ \E i \in DOMAIN p.streams : p.streams[i].type = "video" /\ ~p.streams[i].attached
               /\ t >= p.start
               /\ \A i \in DOMAIN p.streams :
                      p.streams[i].start = None \/ p.streams[i].type = "audio" \/ t >= p.streams[i].start

MediaBegin(c) ==
    /\ mpc = "idle" /\ mpc' = "versions" /\ call' = c
    /\ IF c.kind = "still" THEN probe' \in Stills /\ UNCHANGED film
       ELSE /\ probe' \in Probes
            /\ film' \in {f \in Films : \A k \in DOMAIN f : Begun(probe', f[k])}
    /\ UNCHANGED <<source, batch, next, samples, landmarks, frames, missing, answer>>

Ends(e) ==
    /\ mpc' = "done" /\ answer' = e
    /\ UNCHANGED <<call, probe, film, source, batch, next, samples, landmarks, frames, missing>>

\* Any run of ffmpeg or ffprobe may fail, or tell of dimensions no picture has,
\* and then the file does.
DecoderFails == mpc \in {"versions", "probe", "audio", "batch", "frames", "still"} /\ Ends("DecodeFailed")

-----------------------------------------------------------------------------
(* probe, and the choice of a stream.                                      *)

\* version, of both programs: another major version is refused.
Versions ==
    /\ mpc = "versions"
    /\ \/ Ends("RuntimeUnavailable")
       \/ /\ mpc' = IF call.kind = "still" THEN "still" ELSE "probe"
          /\ UNCHANGED <<call, probe, film, source, batch, next, samples, landmarks, frames, missing, answer>>

\* Seeded fault: a cover picture counts as the video of its file.
StreamsWithCovers(family) ==
    Filter(probe.streams, {i \in DOMAIN probe.streams : probe.streams[i].type = family})

StreamsOf(family) ==
    Filter(probe.streams, {i \in DOMAIN probe.streams :
                              probe.streams[i].type = family /\ ~probe.streams[i].attached})

Offset(s) ==
    LET start == IF s.start = None THEN probe.start ELSE s.start
    IN IF start > probe.start THEN start - probe.start ELSE 0

\* duration: the stream's, else what the container has left of its own.
Duration(s) == IF s.duration # None THEN s.duration
               ELSE IF probe.duration # None THEN probe.duration - Offset(s) ELSE 0

Family == IF call.kind # "media" THEN call.kind
          ELSE IF StreamsOf("video") # <<>> THEN "video" ELSE "audio"

Unselected == call.kind = "media" /\ Family \notin call.selected

\* Video takes 512 MiB, whatever the file holds.
TooLittleMemory ==
    /\ mpc = "probe" /\ ~Unselected /\ Family = "video"
    /\ Ends("ResourceBudgetTooSmall")

Probed ==
    /\ mpc = "probe"
    /\ LET found == StreamsOf(Family) IN
       IF Unselected THEN Ends("UnselectedFamily")
       ELSE IF found = <<>> THEN Ends("InsufficientContent")
       ELSE IF Family = "video" /\ found[1].hdr THEN Ends("UnsupportedFormat")
       ELSE IF Duration(found[1]) <= 0 \/ Duration(found[1]) > Longest THEN Ends("InsufficientContent")
       ELSE /\ source' = found[1]
            /\ mpc' = IF Family = "audio" THEN "audio"
                      ELSE IF Duration(found[1]) <= Short /\ call.backend # "reference" THEN "batch"
                      ELSE "frames"
            /\ UNCHANGED <<call, probe, film, batch, next, samples, landmarks, frames, missing, answer>>

\* The frame buffers would not fit the memory allowance, or there is no model.
VideoRefused ==
    /\ mpc \in {"batch", "frames"} /\ next = 0 /\ batch = None
    /\ Ends("ResourceBudgetTooSmall") \/ Ends("RuntimeUnavailable")

-----------------------------------------------------------------------------
(* audio_with_probe.                                                       *)

Least(a, b) == IF a < b THEN a ELSE b
Most(a, b)  == IF a > b THEN a ELSE b

\* Seeded fault: the part of a window at the end is not worth a window.
WindowCountDown(d) == Least(Most(d \div WindowSeconds, 1), Windows)

\* n: the duration in windows, rounded up, from 1 to Windows.
WindowCount(d) == Least(Most((d + WindowSeconds - 1) \div WindowSeconds, 1), Windows)

\* A window's start counts from the stream's, the decoder's seek from the
\* container's.
AudioWindow ==
    LET d == Duration(source)  n == WindowCount(d)  length == Least(WindowSeconds * n, d)
        start == Most((2 * next + 1) * d - length, 0)
    IN
    /\ mpc = "audio" /\ next < n
    /\ \/ Ends("InsufficientContent")       \* fewer than 1024 samples
       \/ /\ next' = next + 1
          /\ samples' = Append(samples, [seek |-> start + 2 * n * Offset(source), length |-> length])
          /\ \E found \in 0..1 : landmarks' = landmarks + found
          /\ UNCHANGED <<mpc, call, probe, film, source, batch, frames, missing, answer>>

\* coverage, as the extraction states it.
CompleteAudio == LET d == Duration(source) IN Least(WindowSeconds * WindowCount(d), d) >= d

AudioEnds ==
    /\ mpc = "audio" /\ next = WindowCount(Duration(source))
    /\ Ends(IF landmarks < MinLandmarks THEN "InsufficientContent" ELSE "ok")

-----------------------------------------------------------------------------
(* video_with_probe.                                                       *)

\* Targets are the middles of equal intervals: numerators over 2 * Windows.
Origin == IF source.start # None THEN source.start ELSE probe.start
Target(i) == Duration(source) * (2 * i + 1)
Rounded(num, den) == (2 * num + den) \div (2 * den)     \* to the nearest tick

Tick(i) == Rounded(2 * Windows * Origin + Target(i), 2 * Windows)

\* Seeded fault: a frame is selected by the targets it is past, not at.
CrossingsPast(f, k) == {i \in 0..Windows - 1 : f[k] > Tick(i) /\ (k = 1 \/ f[k - 1] <= Tick(i))}

\* The select filter: targets that frame k reaches and the one before did not.
Crossings(f, k) == {i \in 0..Windows - 1 : f[k] >= Tick(i) /\ (k = 1 \/ f[k - 1] < Tick(i))}

\* continuous_video_frames.
DecodeBatch ==
    /\ mpc = "batch" /\ mpc' = "frames"
    /\ LET chosen == Filter(film, {k \in DOMAIN film : Crossings(film, k) # {}}) IN
       batch' = SubSeq(chosen, 1, Least(Len(chosen), Windows))
    /\ UNCHANGED <<call, probe, film, source, next, samples, landmarks, frames, missing, answer>>

FirstFrom(f, tick) == IF \E k \in DOMAIN f : f[k] >= tick
                      THEN f[CHOOSE k \in DOMAIN f : f[k] >= tick /\ \A j \in 1..k - 1 : f[j] < tick]
                      ELSE None

\* ffmpeg -ss: the first frame from a position after the container's start.
Seek(num, den) == FirstFrom(film, Rounded(den * probe.start + num, den))

\* seek_video_frame at a target, and for the fallback at the stream's start.
SeekTarget(i) == Seek(Target(i) + 2 * Windows * Offset(source), 2 * Windows)
SeekStart == Seek(Offset(source), 1)

Frame ==
    /\ mpc = "frames" /\ next <= Windows
    /\ next = Windows => frames = <<>>
    /\ next' = next + 1
    /\ LET decoded == IF next = Windows THEN SeekStart
                      ELSE IF batch # None THEN FirstFrom(batch, Tick(next)) ELSE SeekTarget(next)
       IN
       /\ missing' = IF decoded = None THEN missing \cup {next} ELSE missing
       /\ frames' = IF decoded = None \/ Contains(frames, decoded) THEN frames ELSE Append(frames, decoded)
    /\ UNCHANGED <<mpc, call, probe, film, source, batch, samples, landmarks, answer>>

FramesEnd ==
    /\ mpc = "frames" /\ (next > Windows \/ (next = Windows /\ frames # <<>>))
    /\ Ends(IF frames = <<>> THEN "InsufficientContent" ELSE "ok")

-----------------------------------------------------------------------------
(* still_image: an HEIF/AVIF file holds items, some of them the tiles of a *)
(* grid.  probe.streams are its items, numbered from 1, and probe.groups   *)
(* its groups that are tile grids.                                         *)

\* Seeded fault: tiles are pictures like any other.
NoTiles == {}

\* Items that are tiles of some grid.
Tiled == UNION {{g.tiles[k] : k \in DOMAIN g.tiles} : g \in {probe.groups[i] : i \in DOMAIN probe.groups}}

\* Pictures that are no tiles; others are streams of data or sound.
Untiled == {j \in DOMAIN probe.streams : probe.streams[j].video} \ Tiled

\* still_target's targets: the grids, then the pictures that are no tiles.  A grid
\* of one tile is the tile.
Targets ==
    [i \in DOMAIN probe.groups |->
        LET g == probe.groups[i] IN
        [primary |-> g.primary, mapping |-> IF g.count > 1 THEN <<"grid", i>> ELSE <<"item", g.tiles[1]>>]]
    \o LET alone == Filter([i \in DOMAIN probe.streams |-> i], Untiled)
       IN [k \in DOMAIN alone |-> [primary |-> probe.streams[alone[k]].primary, mapping |-> <<"item", alone[k]>>]]

\* The first primary one, else the first.
Selected ==
    IF \E k \in DOMAIN Targets : Targets[k].primary
    THEN CHOOSE k \in DOMAIN Targets : Targets[k].primary /\ \A j \in 1..k - 1 : ~Targets[j].primary
    ELSE 1

\* It is decoded, or refused: for more than 256 items or its size, for having no
\* picture, or for a transfer of high dynamic range.
StillImage ==
    /\ mpc = "still"
    /\ \/ Ends("ResourceBudgetTooSmall")
       \/ Targets = <<>> /\ Ends("InsufficientContent")
       \/ Targets # <<>> /\ Ends("UnsupportedFormat")
       \/ /\ Targets # <<>>
          /\ mpc' = "done" /\ answer' = "ok" /\ source' = Targets[Selected].mapping
          /\ UNCHANGED <<call, probe, film, batch, next, samples, landmarks, frames, missing>>

MediaNext ==
    \/ (\E c \in Calls : MediaBegin(c)) \/ DecoderFails \/ Versions \/ TooLittleMemory \/ Probed \/ VideoRefused
    \/ AudioWindow \/ AudioEnds \/ DecodeBatch \/ Frame \/ FramesEnd \/ StillImage
===============================================================================
