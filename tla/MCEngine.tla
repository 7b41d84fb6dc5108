------------------------------ MODULE MCEngine ------------------------------
(* Values of Engine's constants for TLC. *)
EXTENDS EngineProperties

\* Contents: a text, a media file, two longer ones, an archive.
MCChunks == {"t", "m", "z"}
MCMagic == [c \in {"m", "z"} |-> IF c = "m" THEN "mp4" ELSE "archive"]
Text     == <<"t">>
Film     == <<"m">>
LongFilm == <<"m", "t">>
Feature  == <<"m", "t", "t", "t">>
Epic     == <<"m", "t", "t", "t", "t", "t">>
Archive  == <<"z">>

\* By name alone, path 1 is a text and every other one a sound recording.
MCHint == [p \in Paths |-> IF p = 1 THEN "utf8" ELSE "wav"]

Regular(c) == [kind |-> "file", rev |-> 0, data |-> c]
Special(k) == [kind |-> k, rev |-> 0, data |-> <<>>]

\* Edits: anything may be anything, and become anything.
EditContents == {Text, LongFilm}
EditStart == [Paths -> {Regular(Text), Regular(LongFilm), Special("dir"), Special("other")}]

\* Load: three files that compete for slots and staging room. The three
\* smallest fit together, Feature fits alone only, Epic never; there may be
\* twins, and the previous vector file has LongFilm.
LoadContents == {Epic}
LoadStart ==
    {d \in [Paths -> {Regular(c) : c \in {<<>>, Text, Film, LongFilm, Feature, Archive}}] :
        /\ d[1].data \in {Film, Feature}
        /\ d[2].data \in {Text, Film, LongFilm, Feature}
        /\ \A p \in 3..N : d[p].data \in {<<>>, Film, Feature, Archive}}
LoadPrevious == {<<LongFilm, "video">>}

\* Small: native files of one chunk or none, and first any entry.
SmallStart ==
    {d \in [Paths -> {Regular(c) : c \in {<<>>, Text, Film}} \cup {Special("dir"), Special("other")}] :
        /\ d[1] # Regular(<<>>)
        /\ \A p \in 2..N : d[p] \in {Regular(<<>>), Regular(Film)}}
SmallContents == {Film}

NoPrevious == {}
===============================================================================
