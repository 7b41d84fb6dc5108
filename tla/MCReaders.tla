------------------------------- MODULE MCReaders -------------------------------
(* Values of the readers' constants for TLC. *)
EXTENDS ReaderProperties

\* Up to three units, and four of those that matter together.
MCTextInputs ==
    UNION {[1..n -> TextUnits] : n \in 0..3} \cup [1..4 -> {<<"a">>, CR, LF, BOM, MARK}]

\* Element names with a meaning, and one of another namespace.
MCElements ==
    {Word(n) : n \in {"document", "body", "p", "t", "del"}} \cup {[word |-> FALSE, name |-> "t"]}
MCPages == {<<>>, <<T>>, <<NL>>, <<T, RET>>, <<RET, NL>>, <<T, NL>>, <<TAB, T>>, <<RET, T>>, <<T, T>>,
            <<T, RET, NL>>}
MCBooks == UNION {[1..n -> MCPages] : n \in 0..3}

\* Whatever streams a file has, in whatever order.
Stream(type, attached, start, duration) ==
    [type |-> type, attached |-> attached, hdr |-> FALSE, start |-> start, duration |-> duration]
Sound(start, d) == Stream("audio", FALSE, start, d)
Picture(start, d) == Stream("video", FALSE, start, d)
Cover == Stream("video", TRUE, 0, 1)
Probe(streams, start, d) == [streams |-> streams, start |-> start, duration |-> d]
MCProbes ==
    {Probe(<<Cover, Sound(s, d)>>, 1, e) : s \in {1, 3}, d \in {None, 1, 4, 6, 7, 13}, e \in {4}}
    \cup {Probe(<<Sound(1, 4), Cover, Picture(s, d)>>, c, 6) :
             s \in {None, 1, 2}, d \in {None, 5, 9}, c \in {0, 1}}
    \cup {Probe(<<>>, 0, 1), Probe(<<[Picture(0, 4) EXCEPT !.hdr = TRUE]>>, 0, 4),
          Probe(<<Picture(0, 4), Picture(0, 6)>>, 0, 6)}
MCFilms == {SetToSortSeq(f, LAMBDA a, b : a < b) : f \in {g \in SUBSET (1..6) : Cardinality(g) <= 3}}
MCCalls ==
    [kind : {"media"}, backend : {"reference", "cpu"}, selected : {{"audio"}, {"audio", "video"}}]
    \cup {[kind |-> k, backend |-> "cpu", selected |-> {}] : k \in {"audio", "video", "still"}}

\* Up to three items, and up to two grids of them that share none; a grid of
\* several tiles may name one stream for all, and one of one tile two.
Item == [primary : BOOLEAN, video : BOOLEAN]
Grids(pictures) ==
    [primary : BOOLEAN, count : {1, 2},
     tiles : {s \in UNION {[1..k -> pictures] : k \in 1..2} : IsInjective(s)}]
Groups(pictures) ==
    {g \in UNION {[1..k -> Grids(pictures)] : k \in 0..2} :
        Len(g) = 2 => Range(g[1].tiles) \cap Range(g[2].tiles) = {}}
MCStills ==
    UNION {[streams : {s}, groups : Groups({j \in DOMAIN s : s[j].video})] :
               s \in UNION {[1..n -> Item] : n \in 0..3}}

MCKeeps == [out |-> 2, err |-> 1]
===============================================================================
