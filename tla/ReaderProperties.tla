--------------------------- MODULE ReaderProperties ---------------------------
(* What the readers of a worker must satisfy, whatever they are given.     *)
EXTENDS Readers

-----------------------------------------------------------------------------
(* What the text of an input is, looking at all of it at once.             *)

\* Without a leading byte order mark, and with one LF for each end of line.
Plain(u) ==
    LET w == IF u # <<>> /\ u[1] = BOM THEN Tail(u) ELSE u
        kept == {i \in DOMAIN w : ~(i > 1 /\ w[i] = LF /\ w[i - 1] = CR)}
    IN Filter([i \in DOMAIN w |-> IF w[i] = CR THEN LF ELSE w[i]], kept)

TooManyMarks(s) == \E i \in 1..Len(s) - MaxMarks : \A j \in i..i + MaxMarks : s[j] = MARK
Accepts(u) == (\A i \in DOMAIN u : u[i] \in WholeUnits) /\ ~TooManyMarks(Plain(u))
Blank(s) == \A i \in DOMAIN s : s[i] \in White

\* Every substring of at most Grams scalars, by where it ends and how long it is.
Substrings(s) ==
    [p \in {q \in (1..Len(s)) \X (1..Grams) : q[2] <= q[1]} |-> SubSeq(s, p[1] - p[2] + 1, p[1])]
Occurrences(f, g) == Cardinality({x \in DOMAIN f : f[x] = g})

\* The encoding does not depend on how the bytes are cut into reads: a text is
\* refused as invalid only if it is, and when it is not refused all its bytes
\* were read and each substring of its composed text is counted as often as it
\* occurs (Scalars::next and encode, text.rs:30-197).
TextAsSpecified ==
    tpc = "done" =>
    LET text == Plain(units)  all == Substrings(Nfc(text))  grams == encoded.grams IN
    CASE encoded.error = "InvalidText" -> ~Accepts(units)
      [] encoded.error = "InsufficientContent" -> Accepts(units) /\ Blank(text)
      [] encoded.error = None ->
            /\ Accepts(units) /\ ~Blank(text)
            /\ encoded.bytes = Len(FlattenSeq(units))
            /\ Len(grams) = Cardinality(DOMAIN all)
            /\ \A i \in DOMAIN grams : Occurrences(grams, grams[i]) = Occurrences(all, grams[i])
      [] OTHER -> TRUE

-----------------------------------------------------------------------------
\* The text extracted from a DOCX is what its author wrote in the body: every
\* piece of it, nothing deleted, nothing of text boxes or of a second body, and
\* only from a document that is closed and has a body (docx_xml).
BodyAsWritten ==
    /\ dpc = "xml" => body = should
    /\ dpc = "xml_done" => body = should /\ stack = <<>> /\ bodies > 0

\* Runs of characters between ends of lines, by length.
Longer(lengths) == [lengths EXCEPT ![Len(lengths)] = @ + 1]
Stretches(s) ==
    LET runs[n \in 0..Len(s)] ==
            IF n = 0 THEN <<>>
            ELSE IF s[n] # T THEN runs[n - 1]
            ELSE IF n > 1 /\ s[n - 1] = T THEN Longer(runs[n - 1])
            ELSE Append(runs[n - 1], 1)
    IN runs[Len(s)]

\* The text of a PDF has every run of characters of every page, in order and
\* none run together with the next page's, and no page is without text (pdf).
PagesAreComplete ==
    dpc = "pages_done" =>
        /\ \A i \in DOMAIN book : HasText(book[i])
        /\ Stretches(body) = FlattenSeq([i \in DOMAIN book |-> Stretches(book[i])])
        /\ Len(body) <= MaxText

-----------------------------------------------------------------------------
Encoded(family) == answer = "ok" /\ call.kind # "still" /\ source.type = family

\* Window i is decoded from samples[i].seek / 2n after the container's start, and
\* lasts samples[i].length / n.  Where it begins and ends in the stream's own
\* time, over 2n:
From(i) == samples[i].seek + 2 * Len(samples) * (probe.start - Origin)
To(i) == From(i) + 2 * samples[i].length

\* Sound is sampled in windows of at most WindowSeconds, each in the middle of
\* its part of the timeline, none reaching into the next or past the end; a
\* file of at most Windows of them is read whole, and said to be
\* (audio_profile: "disjoint", "centered", "short_files_complete").
WindowsAsSpecified ==
    Encoded("audio") =>
    LET d == Duration(source)  n == Len(samples) IN
    /\ n \in 1..Windows
    /\ \A i \in 1..n : /\ From(i) >= 0 /\ To(i) <= 2 * n * d
                       /\ samples[i].length <= WindowSeconds * n
                       /\ From(i) + To(i) = 2 * (2 * i - 1) * d
                       /\ i < n => To(i) <= From(i + 1)
    /\ d <= Windows * WindowSeconds =>
          From(1) = 0 /\ To(n) = 2 * n * d /\ \A i \in 1..n - 1 : To(i) = From(i + 1)
    /\ CompleteAudio <=> d <= Windows * WindowSeconds

\* Whichever way they are fetched, in one go or by a seek for each, the frames
\* encoded are the first ones at or after each target, each once and in order,
\* or the first of the stream if no target has any (video_profile_v1's
\* sampling, and media.rs:809: "the same midpoint samples").  A frame reaches
\* a target half a tick early.
Reaches(t, i) == Windows * (2 * t + 1) > 2 * Windows * Origin + Duration(source) * (2 * i + 1)
Wanted == Filter(film, {k \in DOMAIN film : \E i \in 0..Windows - 1 :
             Reaches(film[k], i) /\ \A j \in DOMAIN film : Reaches(film[j], i) => k <= j})
FramesAsSpecified ==
    Encoded("video") => frames = IF Wanted # <<>> THEN Wanted ELSE <<film[1]>>

\* A file is encoded from the family's first stream that is no attached picture,
\* and as sound only if it has no such video stream or sound was asked for; and
\* only under a family that was selected (encode, media.rs:424).
FamilyAsSpecified ==
    answer = "ok" /\ call.kind # "still" =>
        LET of(f) == {i \in DOMAIN probe.streams : probe.streams[i].type = f /\ ~probe.streams[i].attached} IN
        /\ \E i \in of(source.type) : source = probe.streams[i] /\ \A j \in of(source.type) : i <= j
        /\ call.kind = "media" =>
              source.type \in call.selected /\ (source.type = "audio" => of("video") = {})

\* An HEIF/AVIF file is encoded from a whole picture, never from a tile of a
\* larger one (still_target: "Mapping individual tile streams would encode only
\* part of the picture"): from a primary one, if it names one, and else from its
\* first grid, or its first picture if it has no grid (image_profile_v2:
\* "default_disposition_then_first_item_or_grid").
PrimaryPicture ==
    answer = "ok" /\ call.kind = "still" =>
        LET grids == {i \in DOMAIN probe.groups : probe.groups[i].count > 1}
            owner(j) == {i \in DOMAIN probe.groups : j \in Range(probe.groups[i].tiles)}
            items == {j \in DOMAIN probe.streams : probe.streams[j].video /\ owner(j) \cap grids = {}}
            whole == ({"grid"} \X grids) \cup ({"item"} \X items)
            groups(p) == IF p[1] = "grid" THEN {p[2]} ELSE owner(p[2])
            primary(p) == IF groups(p) = {} THEN probe.streams[p[2]].primary
                          ELSE \E i \in groups(p) : probe.groups[i].primary
        IN /\ source \in whole
           /\ IF \E p \in whole : primary(p) THEN primary(source)
              ELSE IF probe.groups # <<>> THEN 1 \in groups(source)
              ELSE \A p \in whole : source[2] <= p[2]

-----------------------------------------------------------------------------
\* What capture returns as a success is everything a child that succeeded wrote,
\* and no child outlives its call (media.rs:21).
CaptureIsWhole ==
    cpc = "done" =>
        /\ child.state = "reaped"
        /\ captured = "ok" => child.success /\ \A s \in Streams : drain[s].kept = written[s] /\ written[s] = plan[s]

\* A call of a decoder returns if the decoder does its work, however much it
\* writes to either stream ("Pipes are drained concurrently", media.rs:21).
CaptureReturns == (cpc = "drain") ~> (cpc = "done")

-----------------------------------------------------------------------------
\* A file is encoded by a session made for its own key, from model bytes with the
\* profile's digest, whatever becomes of the model file (with_model and
\* Sscd::load).
SessionFits ==
    \A w \in Workers : At(w, "run") =>
        session[w] # None /\ session[w].key = worker[w].key /\ session[w].good

\* One worker at a time compiles into the shared cache (raster.rs:99).
OneCompiler ==
    \A v, w \in Workers :
        At(v, "commit") /\ At(w, "commit") /\ {worker[v].key, worker[w].key} \subseteq Compiling => v = w

\* A worker that waits for the lock gets it, or is killed, however those before it
\* end.
CompilersProceed == \A w \in Workers : At(w, "lock") ~> ~At(w, "lock")
===============================================================================
