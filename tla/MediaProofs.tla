------------------------------ MODULE MediaProofs ------------------------------
(* Theorems about the media reader, for every value of the constants: which *)
(* stream or picture is read, and what is sampled of it.                    *)
EXTENDS ReaderProperties, Induction, SequenceTheorems

-----------------------------------------------------------------------------
(* Iterator::filter.                                                       *)

\* The function the definition of Filter recurs to.
FilterSteps(s, ps, f) ==
    f = [n \in 0..Len(s) |->
            IF n = 0 THEN <<>> ELSE IF n \in ps THEN Append(f[n - 1], s[n]) ELSE f[n - 1]]

LEMMA FilterRecurs ==
    ASSUME NEW V, NEW s \in Seq(V), NEW ps
    PROVE  \E f : /\ FilterSteps(s, ps, f) /\ Filter(s, ps) = f[Len(s)]
                  /\ \A n \in 0..Len(s) : f[n] \in Seq(V)
<1> DEFINE m == Len(s)
           step == [n \in 1..m |-> [v \in Seq(V) |-> IF n \in ps THEN Append(v, s[n]) ELSE v]]
           Rec(g) == g = [n \in 0..Len(s) |->
                             IF n = 0 THEN <<>> ELSE IF n \in ps THEN Append(g[n - 1], s[n]) ELSE g[n - 1]]
           f == CHOOSE g : Rec(g)
<1>1. m \in Nat /\ <<>> \in Seq(V) /\ \A n \in 1..m : s[n] \in V
  OBVIOUS
<1>2. StepsIn(step, m, Seq(V))
  <2>1. ASSUME NEW n \in 1..m, NEW v \in Seq(V) PROVE (IF n \in ps THEN Append(v, s[n]) ELSE v) \in Seq(V)
    BY <1>1
  <2> QED BY <2>1 DEF StepsIn
<1>3. PICK g : Recurs(g, m, Seq(V), <<>>, step)
  <2> HIDE DEF m, step, Rec, f
  <2> QED BY <1>1, <1>2, Recursion
<1>4. \A n \in 0..m : g[n] \in Seq(V)
  BY <1>3 DEF Recurs
<1>5. Rec(g)
  <2>1. g = [n \in 0..m |-> g[n]] /\ g[0] = <<>>
    BY <1>3 DEF Recurs
  <2>2. ASSUME NEW n \in 1..m PROVE g[n] = IF n \in ps THEN Append(g[n - 1], s[n]) ELSE g[n - 1]
    <3>1. n - 1 \in 0..m
      BY <1>1
    <3> QED BY <3>1, <1>3, <1>4 DEF Recurs
  <2> QED BY <2>1, <2>2
<1>6. Rec(f)
  <2> HIDE DEF Rec
  <2> QED BY <1>5
<1>7. Filter(s, ps) = f[m]
  BY DEF Filter
<1> HIDE DEF f
<1> DEFINE S == {n \in Nat : n <= m => f[n] = g[n]}
<1>8. 0 \in S
  BY <1>1, <1>5, <1>6
<1>9. ASSUME NEW n \in Nat, n \in S PROVE n + 1 \in S
  <2>1. CASE n + 1 <= m
    <3>1. n + 1 \in 0..m /\ n + 1 # 0 /\ (n + 1) - 1 = n /\ n <= m
      BY <1>1, <2>1
    <3>2. f[n] = g[n]
      BY <1>9, <3>1
    <3>3. f[n + 1] = IF n + 1 \in ps THEN Append(f[n], s[n + 1]) ELSE f[n]
      BY <1>6, <3>1
    <3>4. g[n + 1] = IF n + 1 \in ps THEN Append(g[n], s[n + 1]) ELSE g[n]
      BY <1>5, <3>1
    <3> QED BY <3>2, <3>3, <3>4
  <2> QED BY <2>1
<1>10. \A n \in Nat : n \in S
  <2> HIDE DEF S
  <2> QED BY <1>8, <1>9, SetInduction
<1>11. \A n \in 0..m : f[n] \in Seq(V)
  BY <1>1, <1>4, <1>10
<1> QED BY <1>6, <1>7, <1>11 DEF FilterSteps

\* at are the positions of ps, in order, that the first n elements of s have.
Positions(s, ps, n, u, at) ==
    /\ at \in [1..Len(u) -> ps \cap (1..n)]
    /\ \A i, j \in 1..Len(u) : i < j => at[i] < at[j]
    /\ \A k \in ps \cap (1..n) : \E i \in 1..Len(u) : at[i] = k
    /\ \A i \in 1..Len(u) : u[i] = s[at[i]]

LEMMA FilterIs ==
    ASSUME NEW V, NEW s \in Seq(V), NEW ps
    PROVE  Filter(s, ps) \in Seq(V) /\ \E at : Positions(s, ps, Len(s), Filter(s, ps), at)
<1>1. PICK f : /\ FilterSteps(s, ps, f) /\ Filter(s, ps) = f[Len(s)]
               /\ \A n \in 0..Len(s) : f[n] \in Seq(V)
  BY FilterRecurs
<1> DEFINE S == {n \in Nat : n <= Len(s) => \E at : Positions(s, ps, n, f[n], at)}
<1>2. 0 \in S
  <2>1. f[0] = <<>> /\ Len(f[0]) = 0
    BY <1>1 DEF FilterSteps
  <2>2. Positions(s, ps, 0, f[0], <<>>)
    BY <2>1 DEF Positions
  <2> QED BY <2>2
<1>3. ASSUME NEW n \in Nat, n \in S, n + 1 <= Len(s) PROVE \E at : Positions(s, ps, n + 1, f[n + 1], at)
  <2>1. /\ n + 1 \in 0..Len(s) /\ n \in 0..Len(s) /\ n + 1 # 0 /\ (n + 1) - 1 = n /\ n <= Len(s)
        /\ s[n + 1] \in V
    BY <1>3
  <2>2. PICK at : Positions(s, ps, n, f[n], at)
    BY <1>3, <2>1
  <2>3. CASE n + 1 \notin ps
    <3>1. f[n + 1] = f[n]
      BY <1>1, <2>1, <2>3 DEF FilterSteps
    <3>2. ps \cap (1..n + 1) = ps \cap (1..n)
      BY <2>3
    <3> QED BY <2>2, <3>1, <3>2 DEF Positions
  <2>4. CASE n + 1 \in ps
    <3> DEFINE m == Len(f[n])
               new == [i \in 1..m + 1 |-> IF i = m + 1 THEN n + 1 ELSE at[i]]
    <3>1. f[n + 1] = Append(f[n], s[n + 1]) /\ f[n] \in Seq(V)
      BY <1>1, <2>1, <2>4 DEF FilterSteps
    <3>2. /\ m \in Nat /\ Len(f[n + 1]) = m + 1 /\ f[n + 1][m + 1] = s[n + 1]
          /\ \A i \in 1..m : f[n + 1][i] = f[n][i]
      BY <2>1, <3>1
    <3>3. \A i \in 1..m : at[i] \in ps /\ at[i] \in 1..n /\ f[n][i] = s[at[i]]
      BY <2>2 DEF Positions
    <3> HIDE DEF m
    <3>4. new \in [1..m + 1 -> ps \cap (1..n + 1)]
      BY <2>4, <3>2, <3>3
    <3>5. \A i, j \in 1..m + 1 : i < j => new[i] < new[j]
      <4>1. \A i, j \in 1..m : i < j => at[i] < at[j]
        BY <2>2 DEF Positions, m
      <4> QED BY <3>2, <3>3, <4>1
    <3>6. ASSUME NEW k \in ps \cap (1..n + 1) PROVE \E i \in 1..m + 1 : new[i] = k
      <4>1. CASE k = n + 1
        <5>1. m + 1 \in 1..m + 1 /\ new[m + 1] = k
          BY <3>2, <4>1
        <5> QED BY <5>1
      <4>2. CASE k # n + 1
        <5>1. PICK i \in 1..m : at[i] = k
          BY <2>2, <4>2 DEF Positions, m
        <5> QED BY <3>2, <5>1
      <4> QED BY <4>1, <4>2
    <3>7. \A i \in 1..m + 1 : f[n + 1][i] = s[new[i]]
      BY <3>2, <3>3
    <3> HIDE DEF new
    <3>8. Positions(s, ps, n + 1, f[n + 1], new)
      BY <3>2, <3>4, <3>5, <3>6, <3>7 DEF Positions
    <3> QED BY <3>8
  <2> QED BY <2>3, <2>4
<1>4. Len(s) \in S
  <2>1. ASSUME NEW n \in Nat, n \in S PROVE n + 1 \in S
    <3>1. CASE n + 1 <= Len(s)
      <4>1. \E at : Positions(s, ps, n + 1, f[n + 1], at)
        BY <1>3, <2>1, <3>1
      <4> QED BY <4>1
    <3>2. CASE ~(n + 1 <= Len(s))
      BY <3>2
    <3> QED BY <3>1, <3>2
  <2>2. Len(s) \in Nat
    OBVIOUS
  <2> HIDE DEF S
  <2> QED BY <1>2, <2>1, <2>2, SetInduction
<1> QED BY <1>1, <1>4

\* What is filtered is not empty if there is a position, and begins with the first.
LEMMA FilterFirst ==
    ASSUME NEW V, NEW s \in Seq(V), NEW ps, Filter(s, ps) # <<>>
    PROVE  \E i \in ps \cap DOMAIN s : Filter(s, ps)[1] = s[i] /\ \A j \in ps \cap DOMAIN s : i <= j
<1>1. Filter(s, ps) \in Seq(V)
  BY FilterIs
<1>2. PICK at : Positions(s, ps, Len(s), Filter(s, ps), at)
  BY FilterIs
<1> DEFINE u == Filter(s, ps)
<1>3. Len(u) \in Nat /\ Len(u) # 0 /\ 1 \in 1..Len(u)
  BY <1>1
<1> HIDE DEF u
<1>4. at[1] \in ps \cap (1..Len(s)) /\ u[1] = s[at[1]]
  BY <1>2, <1>3 DEF Positions, u
<1>5. ASSUME NEW j \in ps \cap (1..Len(s)) PROVE at[1] <= j
  <2>1. PICK i \in 1..Len(u) : at[i] = j
    BY <1>2 DEF Positions, u
  <2>2. i = 1 \/ 1 < i
    BY <1>3
  <2> QED BY <1>2, <1>3, <1>4, <2>1, <2>2 DEF Positions, u
<1> QED BY <1>4, <1>5 DEF u

LEMMA FilterEmpty ==
    ASSUME NEW V, NEW s \in Seq(V), NEW ps, Filter(s, ps) = <<>>
    PROVE  ps \cap DOMAIN s = {}
<1>1. PICK at : Positions(s, ps, Len(s), Filter(s, ps), at)
  BY FilterIs
<1> QED BY <1>1 DEF Positions

\* What is filtered are the elements at the positions.
LEMMA FilterHas ==
    ASSUME NEW V, NEW s \in Seq(V), NEW ps
    PROVE  /\ Filter(s, ps) \in Seq(V)
           /\ \A k \in DOMAIN Filter(s, ps) : \E i \in ps \cap DOMAIN s : Filter(s, ps)[k] = s[i]
           /\ \A i \in ps \cap DOMAIN s : \E k \in DOMAIN Filter(s, ps) : Filter(s, ps)[k] = s[i]
<1>1. Filter(s, ps) \in Seq(V)
  BY FilterIs
<1>2. PICK at : Positions(s, ps, Len(s), Filter(s, ps), at)
  BY FilterIs
<1> DEFINE u == Filter(s, ps)
<1>3. DOMAIN u = 1..Len(u) /\ DOMAIN s = 1..Len(s)
  BY <1>1
<1>4. Positions(s, ps, Len(s), u, at)
  BY <1>2
<1> HIDE DEF u
<1>5. \A k \in DOMAIN u : at[k] \in ps \cap DOMAIN s /\ u[k] = s[at[k]]
  BY <1>3, <1>4 DEF Positions
<1>6. \A i \in ps \cap DOMAIN s : \E k \in DOMAIN u : u[k] = s[i]
  BY <1>3, <1>4 DEF Positions
<1>7. \A k \in DOMAIN u : \E i \in ps \cap DOMAIN s : u[k] = s[i]
  BY <1>5
<1> QED BY <1>1, <1>6, <1>7 DEF u

-----------------------------------------------------------------------------
(* Media files: what is read of them.                                      *)

MediaStages == {"idle", "versions", "probe", "audio", "batch", "frames", "still", "done"}

\* What a request is about, and what has been asked of it so far.
MediaKnown ==
    /\ mpc \in MediaStages
    /\ answer = "ok" => mpc = "done"
    /\ mpc # "idle" => /\ call \in Calls
                       /\ IF call.kind = "still" THEN probe \in Stills
                          ELSE /\ probe \in Probes /\ film \in Films
                               /\ \A k \in DOMAIN film : Begun(probe, film[k])
    /\ mpc = "still" => call.kind = "still"
    /\ mpc \in {"probe", "audio", "batch", "frames"} => call.kind # "still"

\* The source is the stream that is to be read.
FirstOfFamily(family, i) ==
    /\ i \in DOMAIN probe.streams
    /\ probe.streams[i].type = family /\ ~probe.streams[i].attached
    /\ \A j \in DOMAIN probe.streams :
           probe.streams[j].type = family /\ ~probe.streams[j].attached => i <= j

SourceChosen ==
    /\ \E i \in DOMAIN probe.streams : source = probe.streams[i] /\ FirstOfFamily(source.type, i)
    /\ call.kind = "media" =>
          /\ source.type \in call.selected
          /\ source.type = "audio" =>
                \A j \in DOMAIN probe.streams : ~(probe.streams[j].type = "video" /\ ~probe.streams[j].attached)
    /\ Duration(source) \in Int /\ Duration(source) > 0
    /\ CASE mpc = "audio" -> source.type = "audio"
         [] mpc \in {"batch", "frames"} -> source.type = "video"
         [] OTHER -> TRUE

Read == mpc \in {"audio", "batch", "frames"} \/ (answer = "ok" /\ call.kind # "still")

SourceInv == MediaKnown /\ (Read => SourceChosen)

LEMMA EndsOtherwise ==
    ASSUME NEW e, Ends(e), MediaKnown, mpc # "idle"
    PROVE  /\ MediaKnown'
           /\ mpc' = "done" /\ answer' = e
           /\ UNCHANGED <<call, probe, film, source, batch, next, samples, landmarks, frames, missing>>
BY DEF Ends, MediaKnown, MediaStages, Begun

\* What a stream of a family is, and that there is none, if the filter says so.
LEMMA StreamsOfFamily ==
    ASSUME probe \in Probes, NEW family
    PROVE  /\ StreamsOf(family) # <<>> =>
                \E i \in DOMAIN probe.streams : StreamsOf(family)[1] = probe.streams[i] /\ FirstOfFamily(family, i)
           /\ StreamsOf(family) = <<>> =>
                \A j \in DOMAIN probe.streams : ~(probe.streams[j].type = family /\ ~probe.streams[j].attached)
<1> DEFINE s == probe.streams
           ps == {i \in DOMAIN s : s[i].type = family /\ ~s[i].attached}
<1>1. s \in Seq(StreamInfo)
  BY MediaAssumption
<1>2. StreamsOf(family) = Filter(s, ps) /\ ps \cap DOMAIN s = ps
  BY DEF StreamsOf
<1>3. Filter(s, ps) # <<>> => \E i \in ps : Filter(s, ps)[1] = s[i] /\ \A j \in ps : i <= j
  <2> HIDE DEF s, ps
  <2> QED BY <1>1, <1>2, FilterFirst
<1>4. Filter(s, ps) = <<>> => ps = {}
  <2> HIDE DEF s, ps
  <2> QED BY <1>1, <1>2, FilterEmpty
<1> QED BY <1>2, <1>3, <1>4 DEF FirstOfFamily

LEMMA DurationIsInt ==
    ASSUME probe \in Probes, NEW s \in StreamInfo
    PROVE  Duration(s) \in Int /\ Offset(s) \in Nat
<1>1. probe.start \in Int /\ probe.duration \in Int \cup {None} /\ s.start \in Int \cup {None} /\ s.duration \in Int \cup {None}
  BY MediaAssumption DEF StreamInfo
<1>2. (IF s.start = None THEN probe.start ELSE s.start) \in Int
  BY <1>1
<1>3. Offset(s) \in Nat
  BY <1>1, <1>2 DEF Offset
<1> QED BY <1>1, <1>3 DEF Duration

\* A stream is chosen.
LEMMA ProbedChooses ==
    ASSUME MediaKnown, Probed, ~(mpc' = "done")
    PROVE  MediaKnown' /\ SourceChosen'
<1>1. call \in Calls /\ call.kind # "still" /\ probe \in Probes /\ mpc = "probe"
  BY DEF MediaKnown, Probed
<1> DEFINE family == Family
           found == StreamsOf(family)
<1>2. call.kind \in {"media", "audio", "video"} /\ family \in {"audio", "video"}
  BY <1>1, MediaAssumption DEF Family
<1>3. /\ call.kind = "media" => family \in call.selected
      /\ found # <<>> /\ ~(Duration(found[1]) <= 0)
      /\ source' = found[1]
      /\ mpc' = IF family = "audio" THEN "audio"
                ELSE IF Duration(found[1]) <= Short /\ call.backend # "reference" THEN "batch" ELSE "frames"
      /\ UNCHANGED <<call, probe, film, answer>>
  BY DEF Probed, Unselected, Ends
<1>4. PICK i \in DOMAIN probe.streams : found[1] = probe.streams[i] /\ FirstOfFamily(family, i)
  <2> HIDE DEF family
  <2> QED BY <1>1, <1>3, StreamsOfFamily
<1>5. found[1].type = family /\ found[1] \in StreamInfo
  BY <1>1, <1>4, MediaAssumption DEF FirstOfFamily
<1>6. family = "audio" /\ call.kind = "media" =>
          \A j \in DOMAIN probe.streams : ~(probe.streams[j].type = "video" /\ ~probe.streams[j].attached)
  BY <1>1, StreamsOfFamily DEF Family
<1>7. Duration(found[1]) \in Int /\ Duration(found[1]) > 0
  <2> HIDE DEF family, found
  <2>1. Duration(found[1]) \in Int
    BY <1>1, <1>5, DurationIsInt
  <2> QED BY <1>3, <2>1
<1> HIDE DEF family, found
<1>8. MediaKnown'
  BY <1>1, <1>2, <1>3 DEF MediaKnown, MediaStages, Begun
<1>9. Duration(source)' = Duration(found[1])
  BY <1>3 DEF Duration, Offset
<1>10. \E k \in DOMAIN probe.streams : source' = probe.streams[k] /\ FirstOfFamily(source.type, k)'
  BY <1>3, <1>4, <1>5 DEF FirstOfFamily
<1> QED BY <1>2, <1>3, <1>5, <1>6, <1>7, <1>8, <1>9, <1>10 DEF SourceChosen

\* What else a step of the media reader may do to the choice.
LEMMA SourceStays ==
    ASSUME SourceChosen, UNCHANGED <<call, probe, source>>, mpc' \in {mpc, "frames", "done"},
           mpc' = "frames" => mpc \in {"batch", "frames"}
    PROVE  SourceChosen'
BY DEF SourceChosen, FirstOfFamily, Duration, Offset

LEMMA SourceStep ==
    ASSUME SourceInv, MediaNext
    PROVE  SourceInv'
<1> USE DEF SourceInv
<1>1. ASSUME NEW c \in Calls, MediaBegin(c) PROVE SourceInv'
  BY <1>1 DEF MediaBegin, MediaKnown, MediaStages, Read
<1>2. ASSUME NEW e, Ends(e), e # "ok", mpc # "idle" PROVE SourceInv'
  BY <1>2, EndsOtherwise DEF Read
<1>3. ASSUME Ends("ok"), mpc \in {"audio", "frames"} PROVE SourceInv'
  BY <1>3, EndsOtherwise, SourceStays DEF Read
<1>4. CASE DecoderFails \/ TooLittleMemory
  BY <1>2, <1>4 DEF DecoderFails, TooLittleMemory
<1>5. CASE Versions
  BY <1>2, <1>5 DEF Versions, MediaKnown, MediaStages, Read, Begun
<1>6. CASE Probed
  <2>1. CASE mpc' = "done"
    BY <1>2, <1>6, <2>1 DEF Probed
  <2> QED BY <1>6, <2>1, ProbedChooses
<1>7. CASE VideoRefused
  BY <1>2, <1>7 DEF VideoRefused
<1>8. CASE AudioWindow
  <2>1. CASE Ends("InsufficientContent")
    BY <1>2, <1>8, <2>1 DEF AudioWindow
  <2>2. CASE UNCHANGED <<mpc, call, probe, film, source, batch, frames, missing, answer>>
    BY <1>8, <2>2, SourceStays DEF AudioWindow, MediaKnown, Read, Begun
  <2> QED BY <1>8, <2>1, <2>2 DEF AudioWindow
<1>9. CASE AudioEnds
  BY <1>2, <1>3, <1>9 DEF AudioEnds
<1>10. CASE DecodeBatch
  BY <1>10, SourceStays DEF DecodeBatch, MediaKnown, MediaStages, Read, Begun
<1>11. CASE Frame
  BY <1>11, SourceStays DEF Frame, MediaKnown, Read, Begun
<1>12. CASE FramesEnd
  BY <1>2, <1>3, <1>12 DEF FramesEnd
<1>13. CASE StillImage
  <2>1. mpc = "still" /\ call.kind = "still"
    BY <1>13 DEF StillImage, MediaKnown
  <2>2. CASE Ends("InsufficientContent") \/ Ends("ResourceBudgetTooSmall") \/ Ends("UnsupportedFormat")
    BY <1>2, <2>1, <2>2
  <2>3. CASE mpc' = "done" /\ UNCHANGED <<call, probe, film>>
    BY <2>1, <2>3 DEF MediaKnown, MediaStages, Read, Begun
  <2> QED BY <1>13, <2>2, <2>3 DEF StillImage
<1> QED BY <1>1, <1>4, <1>5, <1>6, <1>7, <1>8, <1>9, <1>10, <1>11, <1>12, <1>13 DEF MediaNext

LEMMA SourceStarts == Init => SourceInv
<1>1. None # "ok"
  BY MediaAssumption
<1> QED BY <1>1 DEF Init, MediaInit, SourceInv, MediaKnown, MediaStages, Read

\* The other readers leave the media reader alone.
LEMMA MediaOrNot ==
    ASSUME [Next]_vars
    PROVE  MediaNext \/ UNCHANGED mediaVars
BY DEF Next, vars, ReadsText, ReadsDocument, EncodeDocument, ReadsMedia, RunsDecoder, RunsModel

LEMMA SourceSteps == SourceInv /\ [Next]_vars => SourceInv'
<1> SUFFICES ASSUME SourceInv, UNCHANGED mediaVars PROVE SourceInv'
  BY MediaOrNot, SourceStep
<1>1. SourceChosen => SourceChosen'
  BY SourceStays DEF mediaVars
<1> QED BY <1>1 DEF mediaVars, SourceInv, MediaKnown, Read, Begun

\* A file is read from the first stream of its family that is no attached
\* picture, and from a family that was selected, whatever streams it has.
THEOREM FamilyIsFollowed == Spec => []FamilyAsSpecified
<1>1. SourceInv => FamilyAsSpecified
  <2> SUFFICES ASSUME SourceInv, answer = "ok", call.kind # "still"
               PROVE  LET of(f) == {i \in DOMAIN probe.streams : probe.streams[i].type = f /\ ~probe.streams[i].attached} IN
                      /\ \E i \in of(source.type) : source = probe.streams[i] /\ \A j \in of(source.type) : i <= j
                      /\ call.kind = "media" =>
                            source.type \in call.selected /\ (source.type = "audio" => of("video") = {})
    BY DEF FamilyAsSpecified
  <2>1. SourceChosen
    BY DEF SourceInv, Read
  <2> QED BY <2>1 DEF SourceChosen, FirstOfFamily
<1> QED BY <1>1, SourceStarts, SourceSteps, PTL DEF Spec

-----------------------------------------------------------------------------
(* Still pictures.                                                         *)

LEMMA ElementIn == ASSUME NEW V, NEW s \in Seq(V), NEW i \in DOMAIN s PROVE s[i] \in V
OBVIOUS

Groups == DOMAIN probe.groups
Items == DOMAIN probe.streams
Tiles(i) == {probe.groups[i].tiles[k] : k \in DOMAIN probe.groups[i].tiles}
IsGrid(i) == probe.groups[i].count > 1

LEMMA StillTypes ==
    ASSUME probe \in Stills
    PROVE  /\ probe.streams \in Seq(ItemInfo)
           /\ probe.groups \in Seq(GroupInfo)
           /\ \A i \in Groups : /\ probe.groups[i].tiles \in Seq(Nat) /\ probe.groups[i].tiles # <<>>
                                /\ Range(probe.groups[i].tiles) = Tiles(i)
                                /\ Tiles(i) \subseteq Items /\ \A j \in Tiles(i) : probe.streams[j].video
                                /\ \A j \in Groups : j # i => Tiles(i) \cap Tiles(j) = {}
<1>1. probe.groups \in Seq(GroupInfo) /\ probe.streams \in Seq(ItemInfo)
  BY MediaAssumption
<1>2. ASSUME NEW i \in Groups
      PROVE  /\ probe.groups[i].tiles \in Seq(Nat) /\ probe.groups[i].tiles # <<>>
             /\ Range(probe.groups[i].tiles) = Tiles(i)
             /\ Tiles(i) \subseteq Items /\ \A j \in Tiles(i) : probe.streams[j].video
  <2>1. probe.groups[i] \in GroupInfo
    BY <1>1, ElementIn DEF Groups
  <2>2. probe.groups[i].tiles \in Seq(Nat)
    BY <2>1 DEF GroupInfo
  <2>3. Range(probe.groups[i].tiles) = Tiles(i)
    BY DEF Range, Tiles
  <2> QED BY <2>2, <2>3, GridAssumption DEF Groups, Items
<1>3. ASSUME NEW i \in Groups, NEW j \in Groups, j # i PROVE Tiles(i) \cap Tiles(j) = {}
  BY <1>2, <1>3, GridAssumption DEF Groups
<1> QED BY <1>1, <1>2, <1>3

\* Every group has a first tile.
LEMMA FirstTile ==
    ASSUME probe \in Stills, NEW i \in Groups
    PROVE  /\ 1 \in DOMAIN probe.groups[i].tiles /\ probe.groups[i].tiles[1] \in Nat
           /\ probe.groups[i].tiles[1] \in Tiles(i)
<1>1. probe.groups[i].tiles \in Seq(Nat) /\ probe.groups[i].tiles # <<>>
  BY StillTypes
<1>2. 1 \in DOMAIN probe.groups[i].tiles
  BY <1>1, EmptySeq
<1> QED BY <1>1, <1>2 DEF Tiles

\* A picture that is no tile.
IsAlone(j) == j \in Items /\ probe.streams[j].video /\ \A i \in Groups : j \notin Tiles(i)

\* What a target is.
GroupTarget(t, i) ==
    /\ i \in Groups
    /\ t.primary = probe.groups[i].primary
    /\ t.mapping = IF IsGrid(i) THEN <<"grid", i>> ELSE <<"item", probe.groups[i].tiles[1]>>
ItemTarget(t, j) ==
    /\ IsAlone(j)
    /\ t.primary = probe.streams[j].primary
    /\ t.mapping = <<"item", j>>

\* Every grid has a target and every picture that is no tile, and nothing else
\* has; the first target is the first grid's, or the first picture's.
LEMMA TargetsAre ==
    ASSUME probe \in Stills
    PROVE  /\ Targets \in Seq([primary : BOOLEAN, mapping : {"grid", "item"} \X Nat])
           /\ \A k \in DOMAIN Targets : \/ \E i \in Groups : GroupTarget(Targets[k], i)
                                        \/ \E j \in Items : ItemTarget(Targets[k], j)
           /\ \A i \in Groups : \E k \in DOMAIN Targets : GroupTarget(Targets[k], i)
           /\ \A j \in Items : IsAlone(j) => \E k \in DOMAIN Targets : ItemTarget(Targets[k], j)
           /\ Groups # {} => GroupTarget(Targets[1], 1)
           /\ Groups = {} /\ Targets # <<>> =>
                 \E j \in Items : ItemTarget(Targets[1], j) /\ \A k \in Items : IsAlone(k) => j <= k
<1> DEFINE R == [primary : BOOLEAN, mapping : {"grid", "item"} \X Nat]
           ids == [i \in Items |-> i]
           alone == Filter(ids, Untiled)
           g == [i \in Groups |->
                    [primary |-> probe.groups[i].primary,
                     mapping |-> IF IsGrid(i) THEN <<"grid", i>> ELSE <<"item", probe.groups[i].tiles[1]>>]]
           a == [k \in DOMAIN alone |-> [primary |-> probe.streams[alone[k]].primary, mapping |-> <<"item", alone[k]>>]]
<1>1. Targets = g \o a
  BY DEF Targets, Groups, Items, IsGrid
<1>2. Items = 1..Len(probe.streams) /\ Len(probe.streams) \in Nat /\ Groups = 1..Len(probe.groups) /\ Len(probe.groups) \in Nat
  BY StillTypes DEF Items, Groups
<1>3. Untiled = {j \in Items : IsAlone(j)}
  BY DEF Untiled, Tiled, Tiles, Groups, Items, IsAlone
<1>4. ids \in Seq(Items)
  BY <1>2
<1>5. DOMAIN ids = Items /\ \A i \in Items : ids[i] = i
  OBVIOUS
<1>6. /\ alone \in Seq(Items)
      /\ \A k \in DOMAIN alone : alone[k] \in Untiled
      /\ \A j \in Untiled : \E k \in DOMAIN alone : alone[k] = j
      /\ alone # <<>> => \A j \in Untiled : alone[1] <= j
  <2>1. Untiled \cap DOMAIN ids = Untiled /\ Untiled \subseteq Items
    BY <1>3, <1>5
  <2> HIDE DEF ids
  <2>2. /\ Filter(ids, Untiled) \in Seq(Items)
        /\ \A k \in DOMAIN Filter(ids, Untiled) : \E i \in Untiled : Filter(ids, Untiled)[k] = ids[i]
        /\ \A i \in Untiled : \E k \in DOMAIN Filter(ids, Untiled) : Filter(ids, Untiled)[k] = ids[i]
    BY <1>4, <2>1, FilterHas
  <2>3. \A i \in Untiled : ids[i] = i
    BY <1>5, <2>1
  <2>4. Filter(ids, Untiled) # <<>> =>
            \E i \in Untiled : Filter(ids, Untiled)[1] = ids[i] /\ \A j \in Untiled : i <= j
    BY <1>4, <2>1, FilterFirst
  <2>5. alone = Filter(ids, Untiled)
    OBVIOUS
  <2> HIDE DEF alone
  <2>6. alone # <<>> => \A j \in Untiled : alone[1] <= j
    BY <2>3, <2>4, <2>5
  <2>7. ASSUME NEW k \in DOMAIN alone PROVE alone[k] \in Untiled
    <3>1. PICK i \in Untiled : Filter(ids, Untiled)[k] = ids[i]
      BY <2>2, <2>5
    <3> QED BY <2>3, <2>5, <3>1
  <2>8. ASSUME NEW j \in Untiled PROVE \E k \in DOMAIN alone : alone[k] = j
    <3>1. PICK k \in DOMAIN Filter(ids, Untiled) : Filter(ids, Untiled)[k] = ids[j]
      BY <2>2
    <3> QED BY <2>3, <2>5, <3>1
  <2> QED BY <2>2, <2>5, <2>6, <2>7, <2>8
<1> HIDE DEF alone, ids
<1>7. DOMAIN alone = 1..Len(alone) /\ Len(alone) \in Nat
  BY <1>6
<1>8. \A i \in Groups : g[i] \in R /\ GroupTarget(g[i], i)
  <2>1. \A i \in Groups : probe.groups[i].primary \in BOOLEAN /\ probe.groups[i].tiles[1] \in Nat /\ i \in Nat
    <3>1. \A i \in Groups : probe.groups[i] \in GroupInfo
      BY StillTypes, ElementIn DEF Groups
    <3>2. \A i \in Groups : probe.groups[i].primary \in BOOLEAN
      BY <3>1 DEF GroupInfo
    <3> QED BY <1>2, <3>2, FirstTile
  <2> QED BY <2>1 DEF GroupTarget
<1>9. \A k \in DOMAIN alone : a[k] \in R /\ ItemTarget(a[k], alone[k])
  <2>1. \A j \in Items : probe.streams[j].primary \in BOOLEAN /\ j \in Nat
    <3>1. \A j \in Items : probe.streams[j] \in ItemInfo
      BY StillTypes, ElementIn DEF Items
    <3>2. \A j \in Items : probe.streams[j].primary \in BOOLEAN
      BY <3>1 DEF ItemInfo
    <3> QED BY <1>2, <3>2
  <2>2. ASSUME NEW k \in DOMAIN alone PROVE a[k] \in R /\ ItemTarget(a[k], alone[k])
    <3>1. alone[k] \in Items /\ IsAlone(alone[k])
      BY <1>3, <1>6
    <3> QED BY <2>1, <3>1 DEF ItemTarget
  <2> QED BY <2>2
<1>10. g \in Seq(R) /\ a \in Seq(R) /\ Len(g) = Len(probe.groups) /\ Len(a) = Len(alone)
  <2>1. g \in [1..Len(probe.groups) -> R] /\ a \in [1..Len(alone) -> R]
    <3> HIDE DEF R
    <3> QED BY <1>2, <1>7, <1>8, <1>9
  <2> HIDE DEF R, g, a
  <2> QED BY <1>2, <1>7, <2>1
<1> HIDE DEF R, g, a
<1>11. /\ Targets \in Seq(R) /\ DOMAIN Targets = 1..Len(g) + Len(a)
       /\ \A k \in 1..Len(g) : Targets[k] = g[k]
       /\ \A k \in 1..Len(a) : Targets[Len(g) + k] = a[k]
  <2>1. Len(g) \in Nat /\ Len(a) \in Nat
    BY <1>10
  <2>2. Targets \in Seq(R)
    BY <1>1, <1>10
  <2>3. Len(Targets) = Len(g) + Len(a)
    BY <1>1, <1>10, ConcatProperties
  <2>4. DOMAIN Targets = 1..Len(g) + Len(a)
    BY <2>2, <2>3
  <2>5. \A k \in 1..Len(g) : (g \o a)[k] = g[k]
    BY <1>10
  <2>6. \A k \in 1..Len(a) : (g \o a)[Len(g) + k] = a[k]
    BY <1>10, <2>1
  <2> QED BY <1>1, <2>2, <2>4, <2>5, <2>6
<1>12. ASSUME NEW k \in DOMAIN Targets
       PROVE  (\E i \in Groups : GroupTarget(Targets[k], i)) \/ (\E j \in Items : ItemTarget(Targets[k], j))
  <2>1. CASE k <= Len(g)
    BY <1>2, <1>8, <1>10, <1>11, <2>1
  <2>2. CASE ~(k <= Len(g))
    <3>1. k - Len(g) \in 1..Len(a) /\ Len(g) + (k - Len(g)) = k
      BY <1>2, <1>7, <1>10, <1>11, <2>2
    <3>2. Targets[k] = a[k - Len(g)]
      BY <1>11, <3>1
    <3>3. k - Len(g) \in DOMAIN alone
      BY <1>7, <1>10, <3>1
    <3>4. alone[k - Len(g)] \in Items
      BY <1>3, <1>6, <3>3
    <3> QED BY <1>9, <3>2, <3>3, <3>4
  <2> QED BY <2>1, <2>2
<1>13. ASSUME NEW i \in Groups PROVE \E k \in DOMAIN Targets : GroupTarget(Targets[k], i)
  <2>1. i \in DOMAIN Targets /\ Targets[i] = g[i]
    BY <1>2, <1>7, <1>10, <1>11
  <2> QED BY <1>8, <2>1
<1>14. ASSUME NEW k \in DOMAIN alone
       PROVE  Len(g) + k \in DOMAIN Targets /\ ItemTarget(Targets[Len(g) + k], alone[k])
  <2>1. k \in 1..Len(a) /\ Len(g) \in Nat
    BY <1>2, <1>7, <1>10
  <2>2. Len(g) + k \in DOMAIN Targets /\ Targets[Len(g) + k] = a[k]
    BY <1>11, <2>1
  <2> QED BY <1>9, <2>2
<1>15. ASSUME NEW j \in Items, IsAlone(j) PROVE \E k \in DOMAIN Targets : ItemTarget(Targets[k], j)
  <2>1. PICK k \in DOMAIN alone : alone[k] = j
    BY <1>3, <1>6, <1>15
  <2> QED BY <1>14, <2>1
<1>16. ASSUME Groups # {} PROVE GroupTarget(Targets[1], 1)
  <2>1. 1 \in Groups /\ 1 \in 1..Len(g)
    BY <1>2, <1>10, <1>16
  <2> QED BY <1>8, <1>11, <2>1
<1>17. ASSUME Groups = {}, Targets # <<>>
       PROVE  \E j \in Items : ItemTarget(Targets[1], j) /\ \A k \in Items : IsAlone(k) => j <= k
  <2>1. Len(g) = 0
    BY <1>2, <1>10, <1>17
  <2>2. Len(alone) # 0
    <3>1. Len(Targets) # 0
      BY <1>11, <1>17, EmptySeq
    <3> QED BY <1>7, <1>10, <1>11, <2>1, <3>1
  <2>3. 1 \in DOMAIN alone /\ alone # <<>>
    BY <1>7, <2>2
  <2>4. ItemTarget(Targets[1], alone[1])
    <3>1. Len(g) + 1 = 1
      BY <2>1
    <3> QED BY <1>14, <2>3, <3>1
  <2>5. \A k \in Items : IsAlone(k) => alone[1] <= k
    BY <1>3, <1>6, <2>3
  <2>6. alone[1] \in Items
    BY <1>3, <1>6, <2>3
  <2> QED BY <2>4, <2>5, <2>6
<1> QED BY <1>11, <1>12, <1>13, <1>15, <1>16, <1>17 DEF R

\* A set of numbers has a least one.
LEMMA LeastOf ==
    ASSUME NEW S, S \subseteq Nat, S # {}
    PROVE  \E x \in S : \A y \in S : x <= y
<1> DEFINE Lt == OpToRel(<, Nat)
<1>1. \A m, n \in Nat : <<m, n>> \in Lt <=> m < n
  BY DEF OpToRel
<1>2. IsWellFoundedOn(Lt, Nat)
  BY NatLessThanWellFounded
<1> HIDE DEF Lt
<1>3. PICK x \in S : \A y \in S : <<y, x>> \notin Lt
  BY <1>2, WFMin
<1>4. ASSUME NEW y \in S PROVE x <= y
  <2>1. ~(y < x)
    BY <1>1, <1>3
  <2> QED BY <2>1
<1> QED BY <1>4

LEMMA SelectedIs ==
    ASSUME probe \in Stills, Targets # <<>>
    PROVE  /\ Selected \in DOMAIN Targets
           /\ IF \E k \in DOMAIN Targets : Targets[k].primary THEN Targets[Selected].primary
              ELSE Selected = 1
<1>1. Targets \in Seq([primary : BOOLEAN, mapping : {"grid", "item"} \X Nat])
  BY TargetsAre
<1>2. DOMAIN Targets = 1..Len(Targets) /\ Len(Targets) \in Nat /\ Len(Targets) # 0
  BY <1>1, EmptySeq
<1>3. CASE \E k \in DOMAIN Targets : Targets[k].primary
  <2> DEFINE S == {k \in DOMAIN Targets : Targets[k].primary}
  <2>1. PICK k \in S : \A j \in S : k <= j
    <3>1. S \subseteq Nat /\ S # {}
      BY <1>2, <1>3
    <3> HIDE DEF S
    <3> QED BY <3>1, LeastOf
  <2>2. Targets[k].primary /\ k \in DOMAIN Targets /\ \A j \in 1..k - 1 : ~Targets[j].primary
    BY <1>2, <2>1
  <2> QED BY <1>3, <2>2 DEF Selected
<1>4. CASE ~\E k \in DOMAIN Targets : Targets[k].primary
  BY <1>2, <1>4 DEF Selected
<1> QED BY <1>3, <1>4

-----------------------------------------------------------------------------
\* src is the picture of p to encode (PrimaryPicture).
IsPrimary(p, src) ==
    LET grids == {i \in DOMAIN p.groups : p.groups[i].count > 1}
        owner(j) == {i \in DOMAIN p.groups : j \in Range(p.groups[i].tiles)}
        items == {j \in DOMAIN p.streams : p.streams[j].video /\ owner(j) \cap grids = {}}
        whole == ({"grid"} \X grids) \cup ({"item"} \X items)
        groups(q) == IF q[1] = "grid" THEN {q[2]} ELSE owner(q[2])
        primary(q) == IF groups(q) = {} THEN p.streams[q[2]].primary
                      ELSE \E i \in groups(q) : p.groups[i].primary
    IN /\ src \in whole
       /\ IF \E q \in whole : primary(q) THEN primary(src)
          ELSE IF p.groups # <<>> THEN 1 \in groups(src)
          ELSE \A q \in whole : src[2] <= q[2]

PictureInv == answer = "ok" /\ call.kind = "still" => IsPrimary(probe, source)

\* The target selected is a whole picture, primary if any is, and else the first.
LEMMA SelectedIsPrimary ==
    ASSUME probe \in Stills, Targets # <<>>
    PROVE  IsPrimary(probe, Targets[Selected].mapping)
<1> DEFINE grids == {i \in Groups : IsGrid(i)}
           owner(j) == {i \in Groups : j \in Range(probe.groups[i].tiles)}
           items == {j \in Items : probe.streams[j].video /\ owner(j) \cap grids = {}}
           whole == ({"grid"} \X grids) \cup ({"item"} \X items)
           groups(q) == IF q[1] = "grid" THEN {q[2]} ELSE owner(q[2])
           primary(q) == IF groups(q) = {} THEN probe.streams[q[2]].primary
                         ELSE \E i \in groups(q) : probe.groups[i].primary
           src == Targets[Selected].mapping
<1>1. \A j : \A i \in Groups : i \in owner(j) <=> j \in Tiles(i)
  BY StillTypes
<1>2. \A j : owner(j) \subseteq Groups
  OBVIOUS
<1> HIDE DEF owner
<1>3. ASSUME NEW t, NEW i \in Groups, GroupTarget(t, i)
      PROVE  t.mapping \in whole /\ i \in groups(t.mapping)
  <2>1. CASE IsGrid(i)
    <3>1. t.mapping = <<"grid", i>>
      BY <1>3, <2>1 DEF GroupTarget
    <3> QED BY <2>1, <3>1
  <2>2. CASE ~IsGrid(i)
    <3> DEFINE x == probe.groups[i].tiles[1]
    <3>1. t.mapping = <<"item", x>>
      BY <1>3, <2>2 DEF GroupTarget
    <3>2. x \in Tiles(i)
      BY FirstTile
    <3> HIDE DEF x
    <3>3. x \in Items /\ probe.streams[x].video
      BY <3>2, StillTypes
    <3>4. i \in owner(x) /\ \A j \in owner(x) : j = i
      BY <1>1, <1>2, <3>2, StillTypes
    <3>5. owner(x) \cap grids = {}
      BY <2>2, <3>4
    <3> QED BY <3>1, <3>3, <3>4, <3>5
  <2> QED BY <2>1, <2>2
<1>4. ASSUME NEW t, NEW j \in Items, ItemTarget(t, j)
      PROVE  t.mapping = <<"item", j>> /\ t.mapping \in whole /\ groups(t.mapping) = {}
  <2>1. owner(j) = {} /\ probe.streams[j].video /\ t.mapping = <<"item", j>>
    BY <1>1, <1>2, <1>4 DEF ItemTarget, IsAlone
  <2> QED BY <2>1
<1>5. ASSUME NEW k \in DOMAIN Targets
      PROVE  Targets[k].mapping \in whole /\ (Targets[k].primary => primary(Targets[k].mapping))
  <2>1. ASSUME NEW i \in Groups, GroupTarget(Targets[k], i)
        PROVE  Targets[k].mapping \in whole /\ (Targets[k].primary => primary(Targets[k].mapping))
    <3>1. Targets[k].primary = probe.groups[i].primary
      BY <2>1 DEF GroupTarget
    <3>2. Targets[k].mapping \in whole /\ i \in groups(Targets[k].mapping)
      BY <1>3, <2>1
    <3> HIDE DEF whole, groups
    <3> QED BY <3>1, <3>2
  <2>2. ASSUME NEW j \in Items, ItemTarget(Targets[k], j)
        PROVE  Targets[k].mapping \in whole /\ (Targets[k].primary => primary(Targets[k].mapping))
    <3>1. Targets[k].primary = probe.streams[j].primary
      BY <2>2 DEF ItemTarget
    <3>2. Targets[k].mapping = <<"item", j>> /\ Targets[k].mapping \in whole /\ groups(Targets[k].mapping) = {}
      BY <1>4, <2>2
    <3>3. Targets[k].mapping[2] = j
      BY <3>2
    <3> HIDE DEF whole, groups
    <3> QED BY <3>1, <3>2, <3>3
  <2> HIDE DEF whole, primary
  <2> QED BY <2>1, <2>2, TargetsAre
<1>6. ASSUME NEW q \in whole, primary(q) PROVE \E k \in DOMAIN Targets : Targets[k].primary
  <2>1. CASE groups(q) # {}
    <3>1. PICK i \in groups(q) : probe.groups[i].primary
      <4> HIDE DEF groups
      <4> QED BY <1>6, <2>1
    <3>2. i \in Groups
      BY <1>2, <1>6
    <3> QED BY <3>1, <3>2, TargetsAre DEF GroupTarget
  <2>2. CASE groups(q) = {}
    <3>1. q[1] # "grid" /\ q[2] \in items /\ owner(q[2]) = {}
      BY <1>6, <2>2
    <3>2. probe.streams[q[2]].primary
      <4> HIDE DEF groups
      <4> QED BY <1>6, <2>2
    <3>3. IsAlone(q[2]) /\ q[2] \in Items
      BY <1>1, <3>1 DEF IsAlone
    <3> QED BY <3>2, <3>3, TargetsAre DEF ItemTarget
  <2> QED BY <2>1, <2>2
<1>7. Selected \in DOMAIN Targets /\ src \in whole
  <2> HIDE DEF whole, primary
  <2> QED BY <1>5, SelectedIs
<1>8. ASSUME \E q \in whole : primary(q) PROVE primary(src)
  <2> HIDE DEF whole, primary
  <2> QED BY <1>5, <1>6, <1>7, <1>8, SelectedIs
<1>9. ASSUME ~\E q \in whole : primary(q) PROVE Selected = 1 /\ 1 \in DOMAIN Targets
  <2>1. ~\E k \in DOMAIN Targets : Targets[k].primary
    <3> HIDE DEF whole, primary
    <3> QED BY <1>5, <1>9
  <2> QED BY <2>1, SelectedIs
<1>10. ASSUME ~\E q \in whole : primary(q), probe.groups # <<>> PROVE 1 \in groups(src)
  <2>1. Groups = 1..Len(probe.groups) /\ Len(probe.groups) \in Nat /\ Len(probe.groups) # 0
    BY <1>10, StillTypes, EmptySeq DEF Groups
  <2>2. 1 \in Groups /\ GroupTarget(Targets[1], 1)
    BY <2>1, TargetsAre
  <2>3. 1 \in groups(Targets[1].mapping)
    <3> HIDE DEF whole, groups
    <3> QED BY <1>3, <2>2
  <2> HIDE DEF whole, groups, primary
  <2> QED BY <1>9, <1>10, <2>3
<1>11. ASSUME ~\E q \in whole : primary(q), probe.groups = <<>>, NEW q \in whole PROVE src[2] <= q[2]
  <2>1. Groups = {}
    BY <1>11 DEF Groups
  <2>2. PICK j \in Items : ItemTarget(Targets[1], j) /\ \A k \in Items : IsAlone(k) => j <= k
    BY <2>1, TargetsAre
  <2>3. Targets[1].mapping = <<"item", j>>
    <3> HIDE DEF whole, groups
    <3> QED BY <1>4, <2>2
  <2>4. src[2] = j
    <3> HIDE DEF whole, primary
    <3> QED BY <1>9, <1>11, <2>3
  <2>5. IsAlone(q[2]) /\ q[2] \in Items
    BY <1>11, <2>1 DEF IsAlone
  <2> QED BY <2>2, <2>4, <2>5
<1> HIDE DEF src
<1>12. /\ src \in whole
       /\ IF \E q \in whole : primary(q) THEN primary(src)
          ELSE IF probe.groups # <<>> THEN 1 \in groups(src)
          ELSE \A q \in whole : src[2] <= q[2]
  <2> HIDE DEF whole, groups, primary
  <2> QED BY <1>7, <1>8, <1>10, <1>11
<1>13. IsPrimary(probe, src)
  BY <1>12 DEF IsPrimary, Groups, Items, IsGrid, owner
<1> QED BY <1>13 DEF src

LEMMA PictureStep ==
    ASSUME SourceInv, PictureInv, MediaNext
    PROVE  PictureInv'
<1>1. CASE UNCHANGED <<call, probe, source, answer>>
  BY <1>1 DEF PictureInv
<1>2. ASSUME NEW e, Ends(e), e # "ok" PROVE PictureInv'
  BY <1>2 DEF Ends, PictureInv
<1>3. CASE Read' \/ answer' # "ok"
  BY <1>3, SourceStep DEF SourceInv, MediaKnown, Read, PictureInv
<1>4. CASE StillImage
  <2>1. CASE Targets # <<>> /\ source' = Targets[Selected].mapping /\ probe' = probe
    <3>1. probe \in Stills
      BY <1>4 DEF StillImage, SourceInv, MediaKnown
    <3>2. IsPrimary(probe', source')
      BY <2>1, <3>1, SelectedIsPrimary
    <3> QED BY <3>2 DEF PictureInv
  <2> QED BY <1>2, <1>4, <2>1 DEF StillImage
<1>5. CASE Ends("ok") /\ mpc \in {"audio", "frames"}
  BY <1>3, <1>5 DEF Ends, SourceInv, MediaKnown, Read
<1> QED BY <1>1, <1>2, <1>3, <1>4, <1>5 DEF MediaNext, MediaBegin, DecoderFails, Versions, TooLittleMemory, Probed, VideoRefused,
        AudioWindow, AudioEnds, DecodeBatch, Frame, FramesEnd, SourceInv, MediaKnown, Read

\* An HEIF/AVIF file is encoded from a whole picture, the primary one if it names
\* one, and else the first, whatever grids and items it has.
THEOREM PictureIsPrimary == Spec => []PrimaryPicture
<1>1. Init => SourceInv /\ PictureInv
  <2>1. None # "ok"
    BY MediaAssumption
  <2> QED BY <2>1, SourceStarts DEF Init, MediaInit, PictureInv
<1>2. SourceInv /\ PictureInv /\ [Next]_vars => SourceInv' /\ PictureInv'
  <2> SUFFICES ASSUME SourceInv, PictureInv, [Next]_vars PROVE PictureInv'
    BY SourceSteps
  <2>1. CASE UNCHANGED mediaVars
    BY <2>1 DEF mediaVars, PictureInv
  <2> QED BY <2>1, MediaOrNot, PictureStep
<1>3. PictureInv => PrimaryPicture
  BY DEF PictureInv, PrimaryPicture, IsPrimary
<1> QED BY <1>1, <1>2, <1>3, PTL DEF Spec

-----------------------------------------------------------------------------
(* The windows of a sound.                                                 *)

\* The times the reader reckons with are whole.
LEMMA TimesAreInts ==
    ASSUME SourceInv, Read, call.kind # "still"
    PROVE  /\ Origin \in Int /\ Duration(source) \in Nat \ {0} /\ Offset(source) \in Nat
           /\ probe.start \in Int
           /\ Origin = probe.start + Offset(source)
<1>1. SourceChosen /\ probe \in Probes
  BY DEF SourceInv, MediaKnown, Read
<1>2. PICK i \in DOMAIN probe.streams : source = probe.streams[i] /\ FirstOfFamily(source.type, i)
  BY <1>1 DEF SourceChosen
<1>3. probe \in [streams : Seq(StreamInfo), start : Int, duration : Int \cup {None}]
  BY <1>1, MediaAssumption
<1>4. source \in StreamInfo
  <2>1. probe.streams \in Seq(StreamInfo)
    BY <1>3
  <2> QED BY <1>2, <2>1, ElementIn
<1>5. source.start \in Int \cup {None} /\ probe.start \in Int
  BY <1>3, <1>4 DEF StreamInfo
<1>6. source.start # None => source.start >= probe.start
  BY <1>1, <1>2, ContainerAssumption DEF FirstOfFamily
<1>7. Duration(source) \in Nat \ {0}
  BY <1>1 DEF SourceChosen
<1> QED BY <1>5, <1>6, <1>7 DEF Origin, Offset

WindowLength(d) == Least(WindowSeconds * WindowCount(d), d)
Window(d, i) == [start |-> Most((2 * i - 1) * d - WindowLength(d), 0), length |-> WindowLength(d)]

\* The same, as it is decoded: d is the stream's duration and o its offset.
Sample(d, o, i) == [seek |-> Window(d, i).start + 2 * WindowCount(d) * o, length |-> Window(d, i).length]

\* The windows read so far are the first of the timeline's.
SamplesInv ==
    /\ mpc \in {"idle", "versions", "probe"} => samples = <<>> /\ next = 0
    /\ mpc = "audio" \/ Encoded("audio") =>
          /\ next \in 0..WindowCount(Duration(source))
          /\ samples = [i \in 1..next |-> Sample(Duration(source), Offset(source), i)]
          /\ mpc = "done" => next = WindowCount(Duration(source))

\* There are from 1 to Windows of them, as many as it takes to read all unless
\* that is too many.
LEMMA CountOfWindows ==
    ASSUME NEW d \in Int, d > 0
    PROVE  /\ WindowCount(d) \in 1..Windows
           /\ d <= Windows * WindowSeconds => WindowSeconds * WindowCount(d) >= d
           /\ d > Windows * WindowSeconds => WindowSeconds * WindowCount(d) < d
<1> DEFINE q == (d + WindowSeconds - 1) \div WindowSeconds
<1>1. WindowSeconds \in Nat \ {0} /\ Windows \in Nat \ {0}
  BY MediaAssumption
<1>2. q \in Int /\ WindowSeconds * q <= d + WindowSeconds - 1 /\ d + WindowSeconds - 1 < WindowSeconds * q + WindowSeconds
  BY <1>1
<1>3. WindowCount(d) = Least(Most(q, 1), Windows)
  BY DEF WindowCount
<1> HIDE DEF q
<1>4. q >= 1
  BY <1>1, <1>2
<1>5. WindowCount(d) = IF q < Windows THEN q ELSE Windows
  BY <1>1, <1>2, <1>3, <1>4 DEF Least, Most
<1>6. WindowSeconds * q >= d
  BY <1>1, <1>2
<1>7. d <= Windows * WindowSeconds => WindowSeconds * WindowCount(d) >= d
  BY <1>1, <1>2, <1>5, <1>6
<1>8. d > Windows * WindowSeconds => WindowSeconds * WindowCount(d) < d
  <2>1. ASSUME q < Windows PROVE d <= Windows * WindowSeconds
    <3>1. WindowSeconds * q <= WindowSeconds * Windows
      BY <1>1, <1>2, <2>1
    <3> QED BY <1>1, <1>2, <1>6, <3>1
  <2> QED BY <1>1, <1>5, <2>1
<1> QED BY <1>1, <1>2, <1>4, <1>5, <1>7, <1>8

LEMMA LengthOfWindows ==
    ASSUME NEW d \in Int, d > 0
    PROVE  /\ WindowLength(d) \in Nat /\ WindowLength(d) <= d
           /\ WindowLength(d) <= WindowSeconds * WindowCount(d)
           /\ d <= Windows * WindowSeconds => WindowLength(d) = d
           /\ WindowLength(d) >= d <=> d <= Windows * WindowSeconds
<1>1. WindowCount(d) \in Nat /\ WindowSeconds \in Nat
  BY CountOfWindows, MediaAssumption
<1>2. WindowSeconds * WindowCount(d) \in Nat
  BY <1>1
<1>3. Windows * WindowSeconds \in Nat
  BY MediaAssumption
<1> DEFINE a == WindowSeconds * WindowCount(d)
           b == Windows * WindowSeconds
<1>4. /\ WindowLength(d) = IF a < d THEN a ELSE d
      /\ a \in Nat /\ b \in Nat /\ (d <= b => a >= d) /\ (d > b => a < d)
  BY <1>2, <1>3, CountOfWindows DEF WindowLength, Least
<1> HIDE DEF a, b
<1>5. /\ WindowLength(d) \in Nat /\ WindowLength(d) <= d /\ WindowLength(d) <= a
      /\ d <= b => WindowLength(d) = d
      /\ WindowLength(d) >= d <=> d <= b
  BY <1>4
<1> QED BY <1>5 DEF a, b

\* Where window i is.
LEMMA PlaceOfWindow ==
    ASSUME NEW d \in Int, d > 0, NEW n \in Nat, NEW i \in 1..n
    PROVE  /\ Window(d, i).start = (2 * i - 1) * d - WindowLength(d)
           /\ Window(d, i).start \in Nat
           /\ Window(d, i).length = WindowLength(d)
           /\ Window(d, i).start + 2 * Window(d, i).length = (2 * i - 1) * d + WindowLength(d)
           /\ Window(d, i).start + 2 * Window(d, i).length <= 2 * n * d
<1>1. WindowLength(d) \in Nat /\ WindowLength(d) <= d
  BY LengthOfWindows
<1>2. (2 * i - 1) * d >= d /\ (2 * i - 1) * d \in Int /\ (2 * i - 1) * d + d = 2 * (i * d) /\ i * d <= n * d /\ n * d \in Int
      /\ 2 * n * d = 2 * (n * d)
  OBVIOUS
<1>3. Window(d, i).start = Most((2 * i - 1) * d - WindowLength(d), 0) /\ Window(d, i).length = WindowLength(d)
  BY DEF Window
<1> DEFINE a == (2 * i - 1) * d
           b == i * d
           c == n * d
<1>4. a \in Int /\ a >= d /\ b \in Int /\ c \in Int /\ a + d = 2 * b /\ b <= c
  BY <1>2
<1>5. /\ Window(d, i).start = Most(a - WindowLength(d), 0)
      /\ 2 * n * d = 2 * c
  BY <1>2, <1>3
<1>6. a = (2 * i - 1) * d
  OBVIOUS
<1> HIDE DEF a, b, c
<1>7. Window(d, i).start = a - WindowLength(d) /\ a - WindowLength(d) \in Nat
  BY <1>1, <1>4, <1>5 DEF Most
<1>8. a + WindowLength(d) <= 2 * c
  BY <1>1, <1>4
<1> QED BY <1>1, <1>3, <1>4, <1>5, <1>6, <1>7, <1>8

\* The windows of a timeline, all of them, are as is specified.
LEMMA AllWindows ==
    ASSUME NEW d \in Int, d > 0, d = Duration(source), NEW o \in Nat,
           probe.start \in Int, Origin = probe.start + o,
           samples = [i \in 1..WindowCount(d) |-> Sample(d, o, i)]
    PROVE  WindowsAsSpecified
<1> DEFINE n == Len(samples)
<1>1. WindowCount(d) \in 1..Windows /\ Windows \in Nat
  BY CountOfWindows, MediaAssumption
<1>2. n = WindowCount(d) /\ n \in 1..Windows
  BY <1>1
<1>3. \A i \in 1..n : /\ samples[i].seek = Window(d, i).start + 2 * n * o
                     /\ samples[i].length = Window(d, i).length
  BY <1>1, <1>2 DEF Sample
<1> HIDE DEF n
<1>4. ASSUME NEW i \in 1..n
      PROVE  /\ From(i) \in Nat /\ To(i) <= 2 * n * d
             /\ From(i) = (2 * i - 1) * d - WindowLength(d)
             /\ To(i) = (2 * i - 1) * d + WindowLength(d)
             /\ samples[i].length = WindowLength(d)
  <2>1. n \in Nat
    BY <1>1, <1>2
  <2>2. /\ Window(d, i).start = (2 * i - 1) * d - WindowLength(d)
        /\ Window(d, i).start \in Nat
        /\ Window(d, i).length = WindowLength(d)
        /\ Window(d, i).start + 2 * Window(d, i).length = (2 * i - 1) * d + WindowLength(d)
        /\ Window(d, i).start + 2 * Window(d, i).length <= 2 * n * d
    BY <2>1, PlaceOfWindow
  <2>3. From(i) = Window(d, i).start
    <3>1. samples[i].seek = Window(d, i).start + 2 * n * o
      BY <1>3
    <3>2. 2 * n * (probe.start - Origin) = -(2 * n * o)
      BY <2>1
    <3>3. Window(d, i).start \in Int /\ 2 * n * o \in Int
      BY <2>1, <2>2
    <3>4. From(i) = samples[i].seek + 2 * n * (probe.start - Origin)
      BY DEF From, n
    <3> DEFINE k == 2 * n * o
               e == 2 * n * (probe.start - Origin)
    <3>5. samples[i].seek = Window(d, i).start + k /\ e = -k /\ k \in Int /\ From(i) = samples[i].seek + e
      BY <3>1, <3>2, <3>3, <3>4
    <3> HIDE DEF k, e
    <3> QED BY <3>3, <3>5
  <2>4. samples[i].length = WindowLength(d)
    BY <1>3, <2>2
  <2>5. To(i) = From(i) + 2 * WindowLength(d)
    BY <2>4 DEF To
  <2> QED BY <2>2, <2>3, <2>4, <2>5
<1>5. WindowLength(d) \in Nat /\ WindowLength(d) <= d /\ WindowLength(d) <= WindowSeconds * n
  BY <1>2, LengthOfWindows
<1>6. ASSUME NEW i \in 1..n
      PROVE  /\ From(i) + To(i) = 2 * (2 * i - 1) * d
             /\ i < n => To(i) <= From(i + 1) /\ From(i + 1) - To(i) = 2 * (d - WindowLength(d))
  <2> DEFINE a == (2 * i - 1) * d
             b == (2 * (i + 1) - 1) * d
  <2>1. i \in Nat /\ a \in Int /\ b \in Int /\ b = a + 2 * d /\ 2 * (2 * i - 1) * d = 2 * a
    BY <1>1, <1>2
  <2>2. From(i) = a - WindowLength(d) /\ To(i) = a + WindowLength(d)
    BY <1>4
  <2>3. i < n => From(i + 1) = b - WindowLength(d)
    <3>1. i < n => i + 1 \in 1..n
      BY <1>1, <1>2
    <3> QED BY <1>4, <3>1
  <2>4. From(i) + To(i) = 2 * a
    <3> HIDE DEF a, b
    <3> QED BY <1>5, <2>1, <2>2
  <2>5. i < n => To(i) <= From(i + 1) /\ From(i + 1) - To(i) = 2 * (d - WindowLength(d))
    <3> HIDE DEF a, b
    <3>1. WindowLength(d) \in Int /\ WindowLength(d) <= d /\ a \in Int /\ b = a + 2 * d
      BY <1>5, <2>1
    <3>2. ASSUME i < n
          PROVE  To(i) <= From(i + 1) /\ From(i + 1) - To(i) = 2 * (d - WindowLength(d))
      <4>1. From(i + 1) = b - WindowLength(d) /\ To(i) = a + WindowLength(d)
        BY <2>2, <2>3, <3>2
      <4>2. b - WindowLength(d) = a + 2 * d - WindowLength(d)
        BY <3>1
      <4> QED BY <3>1, <4>1, <4>2
    <3> QED BY <3>2
  <2> QED BY <2>1, <2>4, <2>5
<1>7. ASSUME d <= Windows * WindowSeconds
      PROVE  From(1) = 0 /\ To(n) = 2 * n * d /\ \A i \in 1..n - 1 : To(i) = From(i + 1)
  <2>1. WindowLength(d) = d /\ 1 \in 1..n /\ n \in 1..n /\ n \in Nat
    BY <1>1, <1>2, <1>7, LengthOfWindows
  <2>2. From(1) = (2 * 1 - 1) * d - d /\ To(n) = (2 * n - 1) * d + d
    BY <1>4, <2>1
  <2>3. \A i \in 1..n - 1 : To(i) = From(i + 1)
    <3>1. ASSUME NEW i \in 1..n - 1 PROVE To(i) = From(i + 1)
      <4>1. i \in 1..n /\ i + 1 \in 1..n /\ i < n
        BY <1>1, <1>2
      <4>2. From(i + 1) \in Int /\ To(i) \in Int
        <5>1. From(i + 1) \in Nat
          BY <1>4, <4>1
        <5>2. (2 * i - 1) * d \in Int
          BY <1>1, <1>2, <4>1
        <5>3. To(i) = (2 * i - 1) * d + WindowLength(d)
          BY <1>4, <4>1
        <5> QED BY <1>5, <5>1, <5>2, <5>3
      <4> QED BY <1>6, <2>1, <4>1, <4>2
    <3> QED BY <3>1
  <2> QED BY <2>1, <2>2, <2>3
<1>8. CompleteAudio <=> d <= Windows * WindowSeconds
  BY LengthOfWindows DEF CompleteAudio, WindowLength
<1>9. \A i \in 1..n : /\ From(i) >= 0 /\ To(i) <= 2 * n * d
                      /\ samples[i].length <= WindowSeconds * n
                      /\ From(i) + To(i) = 2 * (2 * i - 1) * d
                      /\ i < n => To(i) <= From(i + 1)
  <2> SUFFICES ASSUME NEW i \in 1..n
               PROVE  /\ From(i) >= 0 /\ To(i) <= 2 * n * d
                      /\ samples[i].length <= WindowSeconds * n
                      /\ From(i) + To(i) = 2 * (2 * i - 1) * d
                      /\ i < n => To(i) <= From(i + 1)
    OBVIOUS
  <2>1. From(i) \in Nat
    BY <1>4
  <2>2. From(i) >= 0
    BY <2>1
  <2>3. To(i) <= 2 * n * d
    BY <1>4
  <2>4. samples[i].length <= WindowSeconds * n
    BY <1>4, <1>5
  <2>5. From(i) + To(i) = 2 * (2 * i - 1) * d /\ (i < n => To(i) <= From(i + 1))
    BY <1>6
  <2> QED BY <2>2, <2>3, <2>4, <2>5
<1> QED BY <1>2, <1>7, <1>8, <1>9 DEF WindowsAsSpecified, n

LEMMA SamplesStep ==
    ASSUME SourceInv, SamplesInv, MediaNext
    PROVE  SamplesInv'
<1>1. ASSUME NEW e, Ends(e), e # "ok" PROVE SamplesInv'
  BY <1>1 DEF Ends, SamplesInv, Encoded
<1>2. CASE mpc' \in {"versions", "probe", "still"} /\ answer' # "ok" /\ UNCHANGED <<samples, next>> /\ mpc \in {"idle", "versions"}
  BY <1>2 DEF SamplesInv, Encoded
<1>3. CASE \E c \in Calls : MediaBegin(c)
  BY <1>2, <1>3 DEF MediaBegin, SourceInv, MediaKnown
<1>4. CASE Versions
  BY <1>1, <1>2, <1>4 DEF Versions, SourceInv, MediaKnown
<1>5. CASE Probed
  <2>1. CASE mpc' = "done"
    BY <1>1, <1>5, <2>1 DEF Probed
  <2>2. CASE mpc' # "done"
    <3>1. samples' = <<>> /\ next' = 0 /\ answer' # "ok" /\ mpc' \in {"audio", "batch", "frames"}
      BY <1>5, <2>2 DEF Probed, Ends, SamplesInv, SourceInv, MediaKnown
    <3>2. Duration(source)' \in Int /\ Duration(source)' > 0
      BY <1>5, <2>2, ProbedChooses DEF SourceChosen, SourceInv
    <3>3. WindowCount(Duration(source)') \in 1..Windows /\ Windows \in Nat
      BY <3>2, CountOfWindows, MediaAssumption
    <3>4. 0 \in 0..WindowCount(Duration(source)')
      BY <3>3
    <3>5. samples' = [i \in 1..0 |-> Sample(Duration(source), Offset(source), i)']
      BY <3>1
    <3> QED BY <3>1, <3>4, <3>5 DEF SamplesInv, Encoded
  <2> QED BY <2>1, <2>2
<1>6. CASE AudioWindow
  <2>1. CASE Ends("InsufficientContent")
    BY <1>1, <2>1
  <2>2. CASE ~Ends("InsufficientContent")
    <3> DEFINE d == Duration(source)
               o == Offset(source)
    <3>1. /\ mpc = "audio" /\ next < WindowCount(d) /\ next' = next + 1
          /\ samples' = Append(samples, [seek |-> Most((2 * next + 1) * d - WindowLength(d), 0) + 2 * WindowCount(d) * o,
                                         length |-> WindowLength(d)])
          /\ UNCHANGED <<mpc, call, probe, source, answer>>
      BY <1>6, <2>2 DEF AudioWindow, WindowLength
    <3>2. next \in 0..WindowCount(d) /\ samples = [i \in 1..next |-> Sample(d, o, i)]
      BY <3>1 DEF SamplesInv
    <3>3. Duration(source)' = d /\ Offset(source)' = o
      BY <3>1 DEF Duration, Offset
    <3>4. d \in Int /\ d > 0
      BY <3>1 DEF SourceInv, SourceChosen, Read
    <3> HIDE DEF d, o
    <3>5. WindowCount(d) \in Nat
      BY <3>4, CountOfWindows
    <3>6. next \in Nat /\ (2 * next + 1) = (2 * (next + 1) - 1)
      BY <3>2, <3>5
    <3>7. samples' = Append(samples, Sample(d, o, next + 1))
      BY <3>1, <3>6 DEF Window, Sample
    <3>8. samples' = [i \in 1..next + 1 |-> Sample(d, o, i)]
      <4>1. samples = [i \in 1..next |-> Sample(d, o, i)] /\ Len(samples) = next
        BY <3>2, <3>6
      <4> QED BY <3>6, <3>7, <4>1
    <3> QED BY <3>1, <3>2, <3>3, <3>5, <3>8 DEF SamplesInv, SourceInv, MediaKnown
  <2> QED BY <2>1, <2>2
<1>7. CASE AudioEnds
  <2>1. CASE Ends("ok")
    <3>1. UNCHANGED <<call, probe, source, samples, next>> /\ mpc' = "done" /\ mpc = "audio"
          /\ next = WindowCount(Duration(source))
      BY <1>7, <2>1 DEF AudioEnds, Ends
    <3>2. Duration(source)' = Duration(source) /\ Offset(source)' = Offset(source)
      BY <3>1 DEF Duration, Offset
    <3> QED BY <3>1, <3>2 DEF SamplesInv
  <2> QED BY <1>1, <1>7, <2>1 DEF AudioEnds
<1>8. CASE DecodeBatch \/ Frame
  <2>1. mpc' = "frames" /\ answer' # "ok"
    BY <1>8 DEF DecodeBatch, Frame, SourceInv, MediaKnown
  <2> QED BY <2>1 DEF SamplesInv, Encoded
<1>9. CASE FramesEnd
  <2>1. CASE Ends("ok")
    <3>1. source.type = "video" /\ source' = source /\ mpc' = "done"
      BY <1>9, <2>1 DEF FramesEnd, Ends, SourceInv, Read, SourceChosen
    <3> QED BY <3>1 DEF SamplesInv, Encoded
  <2> QED BY <1>1, <1>9, <2>1 DEF FramesEnd
<1>10. CASE StillImage
  <2>1. call'.kind = "still" /\ mpc' = "done"
    BY <1>10 DEF StillImage, Ends, SourceInv, MediaKnown
  <2> QED BY <2>1 DEF SamplesInv, Encoded
<1>11. CASE DecoderFails \/ TooLittleMemory \/ VideoRefused
  BY <1>1, <1>11 DEF DecoderFails, TooLittleMemory, VideoRefused
<1> QED BY <1>3, <1>4, <1>5, <1>6, <1>7, <1>8, <1>9, <1>10, <1>11 DEF MediaNext

\* Sound is sampled evenly, in the middle of each part of the timeline, and read
\* whole if it is no longer than Windows windows: for any durations and sizes.
THEOREM WindowsAreEven == Spec => []WindowsAsSpecified
<1>1. Init => SourceInv /\ SamplesInv
  <2>1. None # "ok"
    BY MediaAssumption
  <2> QED BY <2>1, SourceStarts DEF Init, MediaInit, SamplesInv, Encoded
<1>2. SourceInv /\ SamplesInv /\ [Next]_vars => SourceInv' /\ SamplesInv'
  <2> SUFFICES ASSUME SourceInv, SamplesInv, [Next]_vars PROVE SamplesInv'
    BY SourceSteps
  <2>1. CASE UNCHANGED mediaVars
    BY <2>1 DEF mediaVars, SamplesInv, Encoded, Duration, Offset
  <2> QED BY <2>1, MediaOrNot, SamplesStep
<1>3. SourceInv /\ SamplesInv => WindowsAsSpecified
  <2> SUFFICES ASSUME SourceInv, SamplesInv, Encoded("audio") PROVE WindowsAsSpecified
    BY DEF WindowsAsSpecified
  <2>1. Duration(source) \in Int /\ Duration(source) > 0
    BY DEF SourceInv, SourceChosen, Read, Encoded
  <2>2. samples = [i \in 1..WindowCount(Duration(source)) |-> Sample(Duration(source), Offset(source), i)]
    BY DEF SamplesInv, SourceInv, MediaKnown, Encoded
  <2>3. probe.start \in Int /\ Offset(source) \in Nat /\ Origin = probe.start + Offset(source)
    BY TimesAreInts DEF Read, SourceInv, MediaKnown, Encoded
  <2> QED BY <2>1, <2>2, <2>3, AllWindows
<1> QED BY <1>1, <1>2, <1>3, PTL DEF Spec

-----------------------------------------------------------------------------
(* Frames and targets.                                                     *)

\* An element after all positions filtered comes last.
LEMMA FilterAppends ==
    ASSUME NEW V, NEW s \in Seq(V), NEW ps, NEW k \in DOMAIN s, \A j \in ps : j \in DOMAIN s /\ j < k
    PROVE  Filter(s, ps \cup {k}) = Append(Filter(s, ps), s[k])
<1>1. PICK f : FilterSteps(s, ps, f) /\ Filter(s, ps) = f[Len(s)]
  BY FilterRecurs
<1>2. PICK g : FilterSteps(s, ps \cup {k}, g) /\ Filter(s, ps \cup {k}) = g[Len(s)]
  BY FilterRecurs
<1> DEFINE S == {n \in Nat : n <= Len(s) => g[n] = IF n < k THEN f[n] ELSE Append(f[n], s[k])}
<1>3. Len(s) \in Nat /\ k \in 1..Len(s)
  OBVIOUS
<1>4. 0 \in S
  BY <1>1, <1>2, <1>3 DEF FilterSteps
<1>5. ASSUME NEW n \in Nat, n \in S, n + 1 <= Len(s)
      PROVE  g[n + 1] = IF n + 1 < k THEN f[n + 1] ELSE Append(f[n + 1], s[k])
  <2>1. n + 1 \in 0..Len(s) /\ n + 1 # 0 /\ (n + 1) - 1 = n /\ n <= Len(s)
    BY <1>3, <1>5
  <2>2. f[n + 1] = IF n + 1 \in ps THEN Append(f[n], s[n + 1]) ELSE f[n]
    BY <1>1, <2>1 DEF FilterSteps
  <2>3. g[n + 1] = IF n + 1 \in ps \cup {k} THEN Append(g[n], s[n + 1]) ELSE g[n]
    BY <1>2, <2>1 DEF FilterSteps
  <2>4. g[n] = IF n < k THEN f[n] ELSE Append(f[n], s[k])
    BY <1>5, <2>1
  <2>5. n + 1 \in ps => n + 1 < k
    OBVIOUS
  <2>6. CASE n + 1 < k
    <3>1. n < k /\ n + 1 # k
      BY <1>3, <2>6
    <3> QED BY <2>2, <2>3, <2>4, <2>6, <3>1
  <2>7. CASE n + 1 = k
    <3>1. n < k /\ n + 1 \notin ps /\ ~(n + 1 < k)
      BY <1>3, <2>5, <2>7
    <3> QED BY <2>2, <2>3, <2>4, <2>7, <3>1
  <2>8. CASE ~(n + 1 < k) /\ n + 1 # k
    <3>1. ~(n < k) /\ n + 1 \notin ps \cup {k}
      BY <1>3, <2>5, <2>8
    <3> QED BY <2>2, <2>3, <2>4, <2>8, <3>1
  <2> QED BY <2>6, <2>7, <2>8
<1>6. Len(s) \in S
  <2>1. \A n \in Nat : n \in S => n + 1 \in S
    BY <1>5
  <2> HIDE DEF S
  <2> QED BY <1>3, <1>4, <2>1, SetInduction
<1>7. g[Len(s)] = Append(f[Len(s)], s[k])
  <2>1. Len(s) <= Len(s) /\ ~(Len(s) < k)
    BY <1>3
  <2>2. g[Len(s)] = IF Len(s) < k THEN f[Len(s)] ELSE Append(f[Len(s)], s[k])
    BY <1>6, <2>1, Zenon
  <2> QED BY <2>1, <2>2
<1> QED BY <1>1, <1>2, <1>7

-----------------------------------------------------------------------------
(* The frames of a film and the targets.                                   *)

\* A film: its frames in order of time.
IsFilm(f) == f \in Seq(Int) /\ \A i, j \in DOMAIN f : i < j => f[i] < f[j]

\* Targets, as ticks.
AreTargets(t) == t \in [0..Windows - 1 -> Int] /\ \A i, j \in 0..Windows - 1 : i <= j => t[i] <= t[j]

\* Frame k is the first at or after x.
FirstAt(f, x, k) == k \in DOMAIN f /\ f[k] >= x /\ \A j \in DOMAIN f : f[j] >= x => k <= j

\* The frames wanted for the first n targets.
UpTo(f, t, n) == {k \in DOMAIN f : \E i \in 0..n - 1 : FirstAt(f, t[i], k)}

LEMMA FilmsAreFilms == ASSUME NEW f \in Films PROVE IsFilm(f)
<1>1. f \in Seq(Int) /\ \A i \in 1..Len(f) - 1 : f[i] < f[i + 1]
  BY MediaAssumption
<1>2. DOMAIN f = 1..Len(f) /\ Len(f) \in Nat /\ \A i \in DOMAIN f : f[i] \in Int
  BY <1>1
<1> DEFINE S == {n \in Nat : \A i \in DOMAIN f : i + n + 1 \in DOMAIN f => f[i] < f[i + n + 1]}
<1>3. 0 \in S
  <2>1. ASSUME NEW i \in DOMAIN f, i + 0 + 1 \in DOMAIN f PROVE f[i] < f[i + 0 + 1]
    <3>1. i \in 1..Len(f) - 1 /\ i + 0 + 1 = i + 1
      BY <1>2, <2>1
    <3> QED BY <1>1, <3>1
  <2> QED BY <2>1
<1>4. ASSUME NEW n \in Nat, n \in S PROVE n + 1 \in S
  <2>1. ASSUME NEW i \in DOMAIN f, i + (n + 1) + 1 \in DOMAIN f PROVE f[i] < f[i + (n + 1) + 1]
    <3>1. /\ i + n + 1 \in DOMAIN f /\ i + n + 1 \in 1..Len(f) - 1
          /\ (i + n + 1) + 1 = i + (n + 1) + 1
      BY <1>2, <2>1
    <3>2. f[i] < f[i + n + 1]
      BY <1>4, <3>1
    <3>3. f[i + n + 1] < f[i + (n + 1) + 1]
      BY <1>1, <3>1
    <3> QED BY <1>2, <2>1, <3>1, <3>2, <3>3
  <2> QED BY <2>1
<1>5. \A n \in Nat : n \in S
  <2> HIDE DEF S
  <2> QED BY <1>3, <1>4, SetInduction
<1>6. ASSUME NEW i \in DOMAIN f, NEW j \in DOMAIN f, i < j PROVE f[i] < f[j]
  <2>1. j - i - 1 \in Nat /\ i + (j - i - 1) + 1 = j
    BY <1>2, <1>6
  <2> QED BY <1>5, <2>1
<1> QED BY <1>1, <1>6 DEF IsFilm

\* Frames filtered of a film are a film.
LEMMA FilterFilm ==
    ASSUME NEW f, IsFilm(f), NEW ps
    PROVE  IsFilm(Filter(f, ps))
<1>1. f \in Seq(Int)
  BY DEF IsFilm
<1> DEFINE u == Filter(f, ps)
<1>2. u \in Seq(Int)
  BY <1>1, FilterIs
<1>3. PICK at : Positions(f, ps, Len(f), u, at)
  BY <1>1, FilterIs
<1> HIDE DEF u
<1>4. ASSUME NEW i \in DOMAIN u, NEW j \in DOMAIN u, i < j PROVE u[i] < u[j]
  <2>1. i \in 1..Len(u) /\ j \in 1..Len(u)
    BY <1>2
  <2>2. at[i] \in DOMAIN f /\ at[j] \in DOMAIN f /\ at[i] < at[j] /\ u[i] = f[at[i]] /\ u[j] = f[at[j]]
    BY <1>1, <1>3, <1>4, <2>1 DEF Positions
  <2> QED BY <2>2 DEF IsFilm
<1> QED BY <1>2, <1>4 DEF IsFilm, u

\* What FirstFrom is.
LEMMA FirstFromIs ==
    ASSUME NEW f, IsFilm(f), NEW x \in Int
    PROVE  /\ (\A k \in DOMAIN f : ~(f[k] >= x)) => FirstFrom(f, x) = None
           /\ \A k \in DOMAIN f : FirstAt(f, x, k) => FirstFrom(f, x) = f[k]
           /\ (\E k \in DOMAIN f : f[k] >= x) => \E k \in DOMAIN f : FirstAt(f, x, k)
<1>1. f \in Seq(Int) /\ DOMAIN f = 1..Len(f) /\ Len(f) \in Nat /\ \A k \in DOMAIN f : f[k] \in Int
  BY DEF IsFilm
<1>2. ASSUME NEW k \in DOMAIN f, FirstAt(f, x, k) PROVE FirstFrom(f, x) = f[k]
  <2>1. f[k] >= x /\ \A j \in 1..k - 1 : f[j] < x
    <3>1. \A j \in 1..k - 1 : j \in DOMAIN f /\ ~(k <= j)
      BY <1>1
    <3> QED BY <1>1, <1>2, <3>1 DEF FirstAt
  <2>2. \A m \in DOMAIN f : f[m] >= x /\ (\A j \in 1..m - 1 : f[j] < x) => m = k
    <3> SUFFICES ASSUME NEW m \in DOMAIN f, f[m] >= x, \A j \in 1..m - 1 : f[j] < x PROVE m = k
      OBVIOUS
    <3>1. k <= m
      BY <1>2 DEF FirstAt
    <3>2. ~(k < m)
      <4>1. k < m => k \in 1..m - 1
        BY <1>1
      <4> QED BY <1>1, <2>1, <4>1
    <3> QED BY <1>1, <3>1, <3>2
  <2>3. (CHOOSE m \in DOMAIN f : f[m] >= x /\ \A j \in 1..m - 1 : f[j] < x) = k
    BY <2>1, <2>2
  <2> QED BY <2>1, <2>3 DEF FirstFrom
<1>3. ASSUME NEW m \in DOMAIN f, f[m] >= x PROVE \E k \in DOMAIN f : FirstAt(f, x, k)
  <2> DEFINE S == {k \in DOMAIN f : f[k] >= x}
  <2>1. PICK k \in S : \A j \in S : k <= j
    <3>1. S \subseteq Nat /\ S # {}
      BY <1>1, <1>3
    <3> HIDE DEF S
    <3> QED BY <3>1, LeastOf
  <2> QED BY <2>1 DEF FirstAt
<1> QED BY <1>2, <1>3 DEF FirstFrom

\* One more target: its frame is wanted already, or comes after all that are.
LEMMA OneMoreTarget ==
    ASSUME NEW f, IsFilm(f), NEW t, AreTargets(t), NEW n \in 0..Windows - 1
    PROVE  /\ (\A k \in DOMAIN f : ~FirstAt(f, t[n], k)) => UpTo(f, t, n + 1) = UpTo(f, t, n)
           /\ \A k \in DOMAIN f : FirstAt(f, t[n], k) =>
                /\ UpTo(f, t, n + 1) = UpTo(f, t, n) \cup {k}
                /\ \A j \in UpTo(f, t, n) : j = k \/ j < k
<1>1. Windows \in Nat \ {0}
  BY MediaAssumption
<1>2. 0..(n + 1) - 1 = (0..n - 1) \cup {n}
  BY <1>1
<1>3. \A k : k \in UpTo(f, t, n + 1) <=> k \in UpTo(f, t, n) \/ (k \in DOMAIN f /\ FirstAt(f, t[n], k))
  BY <1>2 DEF UpTo
<1>4. ASSUME NEW k \in DOMAIN f, FirstAt(f, t[n], k), NEW j \in UpTo(f, t, n) PROVE j = k \/ j < k
  <2>1. PICK i \in 0..n - 1 : FirstAt(f, t[i], j)
    BY DEF UpTo
  <2>2. t[i] <= t[n] /\ t[i] \in Int /\ t[n] \in Int
    BY <1>1 DEF AreTargets
  <2>3. f[k] \in Int /\ f[k] >= t[i]
    BY <1>4, <2>2 DEF FirstAt, IsFilm
  <2>4. j <= k /\ j \in Int /\ k \in Int
    BY <2>1, <2>3 DEF FirstAt, IsFilm
  <2> QED BY <2>4
<1>5. ASSUME NEW k \in DOMAIN f, FirstAt(f, t[n], k), NEW j \in DOMAIN f, FirstAt(f, t[n], j) PROVE j = k
  BY <1>5 DEF FirstAt, IsFilm
<1> QED BY <1>3, <1>4, <1>5

\* No more frames are wanted than there are targets.
LEMMA FewAreWanted ==
    ASSUME NEW f, IsFilm(f), NEW t, AreTargets(t)
    PROVE  Len(Filter(f, UpTo(f, t, Windows))) <= Windows
<1> DEFINE F(n) == Filter(f, UpTo(f, t, n))
           S == {n \in Nat : n <= Windows => Len(F(n)) <= n}
<1>1. f \in Seq(Int) /\ Windows \in Nat \ {0}
  BY MediaAssumption DEF IsFilm
<1>2. \A n : F(n) \in Seq(Int)
  BY <1>1, FilterIs
<1>3. 0 \in S
  <2>1. UpTo(f, t, 0) = {}
    BY DEF UpTo
  <2>2. DOMAIN F(0) = {}
    BY <1>1, <2>1, FilterHas
  <2> QED BY <1>2, <2>2
<1>4. ASSUME NEW n \in Nat, n \in S, n + 1 <= Windows PROVE Len(F(n + 1)) <= n + 1
  <2>1. n \in 0..Windows - 1
    BY <1>1, <1>4
  <2>2. Len(F(n)) <= n /\ Len(F(n)) \in Nat
    <3>1. F(n) \in Seq(Int) /\ n <= Windows
      BY <1>1, <1>2, <1>4
    <3>2. Len(F(n)) <= n
      BY <1>4, <3>1
    <3> HIDE DEF F
    <3> QED BY <3>1, <3>2
  <2>3. CASE UpTo(f, t, n + 1) = UpTo(f, t, n)
    BY <2>2, <2>3
  <2>4. CASE UpTo(f, t, n + 1) # UpTo(f, t, n)
    <3>1. PICK k \in DOMAIN f : FirstAt(f, t[n], k)
      BY <2>1, <2>4, OneMoreTarget
    <3>2. UpTo(f, t, n + 1) = UpTo(f, t, n) \cup {k} /\ \A j \in UpTo(f, t, n) : j = k \/ j < k
      BY <2>1, <3>1, OneMoreTarget
    <3>3. \A j \in UpTo(f, t, n) : j \in DOMAIN f /\ j < k
      BY <2>4, <3>2 DEF UpTo
    <3>4. F(n + 1) = Append(F(n), f[k])
      BY <1>1, <3>2, <3>3, FilterAppends
    <3>5. f[k] \in Int
      BY <1>1
    <3>6. Len(Append(F(n), f[k])) = Len(F(n)) + 1
      <4> HIDE DEF F
      <4> QED BY <1>2, <3>5
    <3> QED BY <2>2, <3>4, <3>6
  <2> QED BY <2>3, <2>4
<1>5. Windows \in S
  <2>1. \A n \in Nat : n \in S => n + 1 \in S
    BY <1>4
  <2> HIDE DEF S
  <2> QED BY <1>1, <1>3, <2>1, SetInduction
<1> QED BY <1>1, <1>5

\* For a target, the first frame of those wanted is the first of the film.
LEMMA FirstOfWanted ==
    ASSUME NEW f, IsFilm(f), NEW t, AreTargets(t), NEW n \in 0..Windows - 1
    PROVE  FirstFrom(Filter(f, UpTo(f, t, Windows)), t[n]) = FirstFrom(f, t[n])
<1> DEFINE ps == UpTo(f, t, Windows)
           u == Filter(f, ps)
<1>1. f \in Seq(Int) /\ t[n] \in Int /\ IsFilm(u)
  BY FilterFilm DEF IsFilm, AreTargets
<1>2. ps \cap DOMAIN f = ps /\ ps \subseteq DOMAIN f
  BY DEF UpTo
<1> HIDE DEF ps
<1>3. \A m \in DOMAIN u : \E i \in ps : u[m] = f[i]
  BY <1>1, <1>2, FilterHas
<1>4. \A i \in ps : \E m \in DOMAIN u : u[m] = f[i]
  BY <1>1, <1>2, FilterHas
<1> HIDE DEF u
<1>5. CASE \A k \in DOMAIN f : ~(f[k] >= t[n])
  <2>1. \A m \in DOMAIN u : ~(u[m] >= t[n])
    BY <1>2, <1>3, <1>5
  <2> QED BY <1>1, <1>5, <2>1, FirstFromIs DEF u, ps
<1>6. CASE \E k \in DOMAIN f : f[k] >= t[n]
  <2>1. PICK k \in DOMAIN f : FirstAt(f, t[n], k)
    BY <1>1, <1>6, FirstFromIs
  <2>2. k \in ps
    BY <2>1 DEF ps, UpTo
  <2>3. PICK m \in DOMAIN u : u[m] = f[k]
    BY <1>4, <2>2
  <2>4. ASSUME NEW j \in DOMAIN u, u[j] >= t[n] PROVE m <= j
    <3>1. PICK i \in ps : u[j] = f[i]
      BY <1>3
    <3>2. k <= i /\ i \in DOMAIN f
      BY <1>2, <2>1, <2>4, <3>1 DEF FirstAt
    <3>3. f[k] <= f[i] /\ f[k] \in Int /\ f[i] \in Int
      <4>1. f[k] \in Int /\ f[i] \in Int /\ k \in Int /\ i \in Int
        BY <1>1, <2>1, <3>2
      <4>2. k = i \/ k < i
        BY <3>2, <4>1
      <4> QED BY <2>1, <3>2, <4>1, <4>2 DEF IsFilm
    <3>4. j < m => u[j] < u[m]
      BY <1>1 DEF IsFilm
    <3>5. j \in Int /\ m \in Int
      BY <1>1 DEF IsFilm
    <3> QED BY <2>3, <3>1, <3>3, <3>4, <3>5
  <2>5. FirstAt(u, t[n], m)
    BY <2>1, <2>3, <2>4 DEF FirstAt
  <2>6. FirstFrom(u, t[n]) = u[m] /\ FirstFrom(f, t[n]) = f[k]
    BY <1>1, <2>1, <2>5, FirstFromIs
  <2> QED BY <2>3, <2>6 DEF u, ps
<1> QED BY <1>5, <1>6

\* The frame of one more target is put last, unless it is there already.
LEMMA OneMoreFrame ==
    ASSUME NEW f, IsFilm(f), NEW t, AreTargets(t), NEW n \in 0..Windows - 1,
           NEW u, u = Filter(f, UpTo(f, t, n)), NEW d, d = FirstFrom(f, t[n])
    PROVE  Filter(f, UpTo(f, t, n + 1)) = IF d = None \/ Contains(u, d) THEN u ELSE Append(u, d)
<1>1. f \in Seq(Int) /\ t[n] \in Int /\ None \notin Int
  BY MediaAssumption DEF IsFilm, AreTargets
<1>2. CASE \A k \in DOMAIN f : ~(f[k] >= t[n])
  <2>1. d = None
    BY <1>1, <1>2, FirstFromIs
  <2>2. \A k \in DOMAIN f : ~FirstAt(f, t[n], k)
    BY <1>2 DEF FirstAt
  <2> QED BY <2>1, <2>2, OneMoreTarget
<1>3. CASE \E k \in DOMAIN f : f[k] >= t[n]
  <2>1. PICK k \in DOMAIN f : FirstAt(f, t[n], k)
    BY <1>1, <1>3, FirstFromIs
  <2>2. d = f[k] /\ f[k] \in Int
    BY <1>1, <2>1, FirstFromIs
  <2> DEFINE ps == UpTo(f, t, n)
  <2>3. UpTo(f, t, n + 1) = ps \cup {k} /\ \A j \in ps : j = k \/ j < k
    BY <2>1, OneMoreTarget
  <2>4. ps \subseteq DOMAIN f /\ ps \cap DOMAIN f = ps
    BY DEF UpTo
  <2> HIDE DEF ps
  <2>5. /\ u \in Seq(Int)
        /\ \A m \in DOMAIN u : \E i \in ps : u[m] = f[i]
        /\ \A i \in ps : \E m \in DOMAIN u : u[m] = f[i]
    <3>1. u = Filter(f, ps)
      BY DEF ps
    <3> QED BY <1>1, <2>4, <3>1, FilterHas
  <2>6. Contains(u, d) <=> k \in ps
    <3>1. Contains(u, d) <=> \E m \in DOMAIN u : u[m] = d
      BY <2>5 DEF Contains
    <3>2. ASSUME NEW i \in ps, f[i] = f[k] PROVE i = k
      <4>1. i \in DOMAIN f /\ i \in Int /\ k \in Int /\ f[i] \in Int
        BY <1>1, <2>4
      <4>2. ~(i < k) /\ ~(k < i)
        BY <2>2, <3>2, <4>1 DEF IsFilm
      <4> QED BY <4>1, <4>2
    <3> QED BY <2>2, <2>5, <3>1, <3>2
  <2>7. CASE k \in ps
    <3>1. ps \cup {k} = ps
      BY <2>7
    <3> QED BY <2>3, <2>6, <2>7, <3>1 DEF ps
  <2>8. CASE k \notin ps
    <3>1. \A j \in ps : j \in DOMAIN f /\ j < k
      BY <2>3, <2>4, <2>8
    <3>2. Filter(f, ps \cup {k}) = Append(Filter(f, ps), f[k])
      BY <1>1, <3>1, FilterAppends
    <3>3. ~(d = None \/ Contains(u, d))
      BY <1>1, <2>2, <2>6, <2>8
    <3> QED BY <2>2, <2>3, <3>2, <3>3 DEF ps
  <2> QED BY <2>7, <2>8
<1> QED BY <1>2, <1>3

-----------------------------------------------------------------------------
(* The frames of a video.                                                  *)

Ticks == [i \in 0..Windows - 1 |-> Tick(i)]

\* Rounding to the nearest, from half up.
LEMMA RoundedIs ==
    ASSUME NEW a \in Int, NEW b \in Nat \ {0}, NEW t \in Int
    PROVE  Rounded(a, b) \in Int /\ (t >= Rounded(a, b) <=> 2 * (b * t) + b > 2 * a)
<1> DEFINE q == (2 * a + b) \div (2 * b)
<1>1. q \in Int /\ (2 * b) * q <= 2 * a + b /\ 2 * a + b < (2 * b) * q + 2 * b
  OBVIOUS
<1>2. Rounded(a, b) = q
  BY DEF Rounded
<1> HIDE DEF q
<1>3. t >= q => b * t >= b * q
  BY <1>1
<1>4. q >= t + 1 => b * q >= b * t + b
  <2>1. ASSUME q >= t + 1 PROVE b * q >= b * (t + 1)
    BY <1>1, <2>1
  <2> QED BY <1>1, <2>1
<1>5. b * t \in Int /\ b * q \in Int /\ (2 * b) * q = 2 * (b * q)
  BY <1>1
<1>6. t >= q \/ q >= t + 1
  BY <1>1
<1> QED BY <1>1, <1>2, <1>3, <1>4, <1>5, <1>6

\* A frame reaches a target if it is not before the target's tick.
LEMMA ReachesTick ==
    ASSUME SourceInv, Read, call.kind # "still", NEW t \in Int, NEW i \in 0..Windows - 1
    PROVE  Tick(i) \in Int /\ (t >= Tick(i) <=> Reaches(t, i))
<1> DEFINE d == Duration(source)
           w == Windows
           x == 2 * w * Origin + d * (2 * i + 1)
<1>1. d \in Nat /\ w \in Nat \ {0} /\ Origin \in Int /\ i \in Int
  BY TimesAreInts, MediaAssumption
<1>2. Tick(i) = Rounded(x, 2 * w)
  BY DEF Tick, Target
<1>3. Reaches(t, i) <=> w * (2 * t + 1) > x
  BY DEF Reaches
<1> HIDE DEF d, w
<1>4. x \in Int /\ 2 * w \in Nat \ {0}
  BY <1>1
<1> HIDE DEF x
<1>5. Rounded(x, 2 * w) \in Int /\ (t >= Rounded(x, 2 * w) <=> 2 * ((2 * w) * t) + 2 * w > 2 * x)
  BY <1>4, RoundedIs
<1>6. (2 * w) * t = 2 * (w * t) /\ w * t \in Int /\ w * (2 * t + 1) = 2 * (w * t) + w
  BY <1>1
<1>7. 2 * ((2 * w) * t) + 2 * w > 2 * x <=> w * (2 * t + 1) > x
  BY <1>1, <1>4, <1>6
<1> QED BY <1>2, <1>3, <1>5, <1>7

LEMMA TicksAreTargets ==
    ASSUME SourceInv, Read, call.kind # "still"
    PROVE  AreTargets(Ticks)
<1>1. Windows \in Nat \ {0}
  BY MediaAssumption
<1>2. \A i \in 0..Windows - 1 : Tick(i) \in Int
  BY ReachesTick
<1>3. ASSUME NEW i \in 0..Windows - 1, NEW j \in 0..Windows - 1, i <= j PROVE Tick(i) <= Tick(j)
  <2> DEFINE t == Tick(j)
  <2>1. t \in Int
    BY <1>2
  <2>2. Reaches(t, j)
    <3>1. t >= Tick(j)
      BY <2>1
    <3> HIDE DEF t
    <3> QED BY <2>1, <3>1, ReachesTick
  <2>3. Reaches(t, i)
    <3> DEFINE d == Duration(source)
               x == 2 * Windows * Origin
    <3>1. d \in Nat /\ i \in Int /\ j \in Int /\ x \in Int
      BY <1>1, TimesAreInts
    <3>2. Windows * (2 * t + 1) > x + d * (2 * j + 1)
      BY <2>2 DEF Reaches
    <3>3. Windows * (2 * t + 1) > x + d * (2 * i + 1) => Reaches(t, i)
      BY DEF Reaches
    <3> HIDE DEF d, x, t
    <3>4. d * (2 * i + 1) <= d * (2 * j + 1) /\ d * (2 * i + 1) \in Int /\ d * (2 * j + 1) \in Int
      BY <1>3, <3>1
    <3>5. Windows * (2 * t + 1) \in Int
      BY <1>1, <2>1
    <3> QED BY <3>1, <3>2, <3>3, <3>4, <3>5
  <2>4. t >= Tick(i)
    <3> HIDE DEF t
    <3> QED BY <2>1, <2>3, ReachesTick
  <2> QED BY <1>2, <2>1, <2>4
<1> QED BY <1>2, <1>3 DEF AreTargets, Ticks

\* Wanted, by the ticks of the targets.
LEMMA WantedIs ==
    ASSUME SourceInv, Read, call.kind # "still", IsFilm(film)
    PROVE  Wanted = Filter(film, UpTo(film, Ticks, Windows))
<1>1. \A k \in DOMAIN film : film[k] \in Int
  BY DEF IsFilm
<1>2. ASSUME NEW k \in DOMAIN film, NEW i \in 0..Windows - 1
      PROVE  FirstAt(film, Ticks[i], k) <=> Reaches(film[k], i) /\ \A j \in DOMAIN film : Reaches(film[j], i) => k <= j
  <2>1. Ticks[i] = Tick(i)
    BY DEF Ticks
  <2>2. \A j \in DOMAIN film : film[j] >= Tick(i) <=> Reaches(film[j], i)
    BY <1>1, ReachesTick
  <2> QED BY <2>1, <2>2 DEF FirstAt
<1>3. UpTo(film, Ticks, Windows) =
          {k \in DOMAIN film : \E i \in 0..Windows - 1 :
              Reaches(film[k], i) /\ \A j \in DOMAIN film : Reaches(film[j], i) => k <= j}
  BY <1>2 DEF UpTo
<1> QED BY <1>3 DEF Wanted

\* What the filter selects in one go, all of it.
LEMMA ChosenIs ==
    ASSUME NEW f, IsFilm(f), AreTargets(Ticks),
           NEW chosen, chosen = Filter(f, {k \in DOMAIN f : Crossings(f, k) # {}})
    PROVE  SubSeq(chosen, 1, Least(Len(chosen), Windows)) = Filter(f, UpTo(f, Ticks, Windows))
<1>1. f \in Seq(Int) /\ DOMAIN f = 1..Len(f) /\ Len(f) \in Nat /\ \A k \in DOMAIN f : f[k] \in Int
  BY DEF IsFilm
<1>2. ASSUME NEW k \in DOMAIN f, NEW i \in 0..Windows - 1
      PROVE  i \in Crossings(f, k) <=> FirstAt(f, Ticks[i], k)
  <2>1. Ticks[i] = Tick(i) /\ Tick(i) \in Int
    BY DEF Ticks, AreTargets
  <2>2. ASSUME i \in Crossings(f, k), NEW j \in DOMAIN f, f[j] >= Tick(i) PROVE k <= j
    <3>1. CASE k = 1
      BY <1>1, <3>1
    <3>2. CASE k # 1 /\ j < k
      <4>1. k - 1 \in DOMAIN f /\ f[k - 1] < Tick(i)
        BY <1>1, <2>2, <3>2 DEF Crossings
      <4>2. j = k - 1 \/ j < k - 1
        BY <1>1, <3>2
      <4>3. f[j] <= f[k - 1]
        BY <1>1, <4>1, <4>2 DEF IsFilm
      <4>4. f[j] \in Int /\ f[k - 1] \in Int
        BY <1>1, <4>1
      <4> QED BY <2>1, <2>2, <4>1, <4>3, <4>4
    <3> QED BY <1>1, <3>1, <3>2
  <2>3. ASSUME FirstAt(f, Ticks[i], k) PROVE i \in Crossings(f, k)
    <3>1. f[k] >= Tick(i)
      BY <2>1, <2>3 DEF FirstAt
    <3>2. k = 1 \/ f[k - 1] < Tick(i)
      <4>1. CASE k # 1
        <5>1. k - 1 \in DOMAIN f /\ ~(k <= k - 1)
          BY <1>1, <4>1
        <5>2. ~(f[k - 1] >= Tick(i)) /\ f[k - 1] \in Int
          BY <1>1, <2>1, <2>3, <5>1 DEF FirstAt
        <5> QED BY <2>1, <5>2
      <4> QED BY <4>1
    <3> QED BY <3>1, <3>2 DEF Crossings
  <2> QED BY <2>1, <2>2, <2>3 DEF FirstAt, Crossings
<1>3. {k \in DOMAIN f : Crossings(f, k) # {}} = UpTo(f, Ticks, Windows)
  <2>1. \A k \in DOMAIN f : Crossings(f, k) # {} <=> \E i \in 0..Windows - 1 : FirstAt(f, Ticks[i], k)
    <3>1. \A k \in DOMAIN f : \A i \in Crossings(f, k) : i \in 0..Windows - 1
      BY DEF Crossings
    <3> QED BY <1>2, <3>1
  <2> QED BY <2>1 DEF UpTo
<1>4. chosen = Filter(f, UpTo(f, Ticks, Windows))
  BY <1>3
<1>5. chosen \in Seq(Int) /\ Len(chosen) <= Windows /\ Len(chosen) \in Nat /\ Windows \in Nat
  <2>1. chosen \in Seq(Int)
    BY <1>1, <1>4, FilterIs
  <2>2. Len(chosen) <= Windows
    BY <1>4, FewAreWanted
  <2> QED BY <2>1, <2>2, MediaAssumption
<1>6. Least(Len(chosen), Windows) = Len(chosen)
  BY <1>5 DEF Least
<1> QED BY <1>4, <1>5, <1>6, SubSeqFull

\* A seek finds the same frame as the filter.
LEMMA SeeksAgree ==
    ASSUME SourceInv, Read, call.kind # "still", NEW i \in 0..Windows - 1
    PROVE  SeekTarget(i) = FirstFrom(film, Ticks[i])
<1> DEFINE w == Windows
           o == Offset(source)
           s == probe.start
           g == Target(i)
<1>1. w \in Nat \ {0} /\ o \in Int /\ s \in Int /\ Origin = s + o
  BY TimesAreInts, MediaAssumption
<1>2. g \in Int
  <2>1. Duration(source) \in Int /\ i \in Int
    BY TimesAreInts, MediaAssumption
  <2> QED BY <2>1 DEF Target
<1>3. SeekTarget(i) = FirstFrom(film, Rounded(2 * w * s + (g + 2 * w * o), 2 * w))
  BY DEF SeekTarget, Seek
<1>4. Ticks[i] = Rounded(2 * w * Origin + g, 2 * w)
  BY DEF Ticks, Tick
<1>5. 2 * w * s + (g + 2 * w * o) = 2 * w * Origin + g
  <2> HIDE DEF w, o, s, g
  <2> QED BY <1>1, <1>2
<1> HIDE DEF w, o, s, g
<1> QED BY <1>3, <1>4, <1>5

\* If no target has a frame, the first of the film is taken.
LEMMA SeekStartIs ==
    ASSUME SourceInv, Read, call.kind # "still", source.type = "video", IsFilm(film)
    PROVE  SeekStart = IF film = <<>> THEN None ELSE film[1]
<1> DEFINE x == probe.start + Offset(source)
<1>1. x \in Int /\ probe.start \in Int /\ Offset(source) \in Int
  BY TimesAreInts
<1>2. SeekStart = FirstFrom(film, x)
  <2>1. 1 * probe.start + Offset(source) = x
    BY <1>1
  <2>2. Rounded(x, 1) = x
    <3> HIDE DEF x
    <3>1. (2 * x + 1) \div (2 * 1) = x
      BY <1>1
    <3> QED BY <3>1 DEF Rounded
  <2> HIDE DEF x
  <2> QED BY <2>1, <2>2 DEF SeekStart, Seek
<1>3. film \in Seq(Int) /\ DOMAIN film = 1..Len(film) /\ Len(film) \in Nat
  BY DEF IsFilm
<1>4. CASE film = <<>>
  BY <1>2, <1>4 DEF FirstFrom
<1>5. CASE film # <<>>
  <2>1. 1 \in DOMAIN film /\ film[1] \in Int
    BY <1>3, <1>5, EmptySeq
  <2>2. PICK i \in DOMAIN probe.streams : source = probe.streams[i]
    BY DEF SourceInv, SourceChosen
  <2>3. Begun(probe, film[1])
    BY <2>1 DEF SourceInv, MediaKnown, Read
  <2>4. film[1] >= probe.start /\ (source.start = None \/ film[1] >= source.start)
    BY <2>2, <2>3 DEF Begun
  <2>5. x = Origin
    BY TimesAreInts
  <2>6. film[1] >= x
    BY <2>4, <2>5 DEF Origin
  <2> HIDE DEF x
  <2>7. FirstAt(film, x, 1)
    BY <1>3, <2>1, <2>6 DEF FirstAt
  <2> QED BY <1>1, <1>2, <1>5, <2>1, <2>7, FirstFromIs
<1> QED BY <1>4, <1>5

\* u are the frames of the first n targets, or else the first frame there is.
FilmFollows(f, t, n, u) ==
    /\ n \in 0..Windows + 1
    /\ n <= Windows => u = Filter(f, UpTo(f, t, n))
    /\ n > Windows => Filter(f, UpTo(f, t, Windows)) = <<>> /\ u = IF f = <<>> THEN <<>> ELSE <<f[1]>>

\* The frames so far are those of the targets in hand so far.
FramesInv ==
    /\ mpc \in {"idle", "versions", "probe", "batch"} => frames = <<>> /\ next = 0 /\ batch = None
    /\ mpc = "frames" \/ Encoded("video") =>
          /\ FilmFollows(film, Ticks, next, frames)
          /\ batch # None => batch = Filter(film, UpTo(film, Ticks, Windows))
    /\ Encoded("video") => next >= Windows /\ frames # <<>>

LEMMA TicksStay == ASSUME UNCHANGED <<probe, source>> PROVE Ticks' = Ticks
<1>1. ASSUME NEW i PROVE Tick(i)' = Tick(i)
  BY DEF Tick, Target, Origin, Duration, Offset
<1> QED BY <1>1 DEF Ticks

LEMMA NoFramesYet == ASSUME NEW f, IsFilm(f), NEW t PROVE FilmFollows(f, t, 0, <<>>)
<1>1. Windows \in Nat \ {0} /\ f \in Seq(Int)
  BY MediaAssumption DEF IsFilm
<1>2. UpTo(f, t, 0) = {}
  BY DEF UpTo
<1>3. Filter(f, {}) \in Seq(Int) /\ DOMAIN Filter(f, {}) = {}
  BY <1>1, FilterHas
<1>4. Filter(f, {}) = <<>>
  <2>1. Len(Filter(f, {})) = 0
    BY <1>3
  <2> QED BY <1>3, <2>1, EmptySeq
<1>5. Filter(f, UpTo(f, t, 0)) = <<>>
  BY <1>2, <1>4
<1>6. 0 \in 0..Windows + 1 /\ ~(0 > Windows)
  BY <1>1
<1> QED BY <1>5, <1>6 DEF FilmFollows

LEMMA FrameFollows ==
    ASSUME SourceInv, FramesInv, Frame
    PROVE  /\ FilmFollows(film, Ticks, next', frames')
           /\ batch # None => batch = Filter(film, UpTo(film, Ticks, Windows))
<1>1. mpc = "frames" /\ next <= Windows /\ (next = Windows => frames = <<>>) /\ next' = next + 1
  BY DEF Frame
<1>2. Read /\ call.kind # "still" /\ source.type = "video" /\ film \in Films
  BY <1>1 DEF Read, SourceInv, SourceChosen, MediaKnown
<1>3. IsFilm(film) /\ AreTargets(Ticks) /\ Windows \in Nat \ {0}
  BY <1>2, FilmsAreFilms, TicksAreTargets, MediaAssumption
<1>4. FilmFollows(film, Ticks, next, frames) /\ (batch # None => batch = Filter(film, UpTo(film, Ticks, Windows)))
  BY <1>1 DEF FramesInv
<1>5. next \in 0..Windows + 1 /\ frames = Filter(film, UpTo(film, Ticks, next))
  BY <1>1, <1>4 DEF FilmFollows
<1> DEFINE decoded == IF next = Windows THEN SeekStart
                      ELSE IF batch # None THEN FirstFrom(batch, Tick(next)) ELSE SeekTarget(next)
<1>6. frames' = IF decoded = None \/ Contains(frames, decoded) THEN frames ELSE Append(frames, decoded)
  BY DEF Frame
<1>7. CASE next < Windows
  <2>1. next \in 0..Windows - 1
    BY <1>3, <1>5, <1>7
  <2>2. Ticks[next] = Tick(next)
    BY <2>1 DEF Ticks
  <2>3. decoded = FirstFrom(film, Ticks[next])
    <3>1. CASE batch # None
      BY <1>3, <1>4, <1>7, <2>1, <2>2, <3>1, FirstOfWanted
    <3>2. CASE batch = None
      BY <1>2, <1>7, <2>1, <3>2, SeeksAgree
    <3> QED BY <3>1, <3>2
  <2> HIDE DEF decoded
  <2>4. frames' = Filter(film, UpTo(film, Ticks, next + 1))
    BY <1>3, <1>5, <1>6, <2>1, <2>3, OneMoreFrame
  <2> QED BY <1>1, <1>3, <1>4, <2>1, <2>4 DEF FilmFollows
<1>8. CASE next = Windows
  <2>1. frames = <<>> /\ Filter(film, UpTo(film, Ticks, Windows)) = <<>>
    BY <1>1, <1>5, <1>8
  <2>2. decoded = IF film = <<>> THEN None ELSE film[1]
    BY <1>2, <1>3, <1>8, SeekStartIs
  <2> HIDE DEF decoded
  <2>3. ~Contains(frames, decoded)
    BY <2>1 DEF Contains
  <2>4. frames' = IF film = <<>> THEN <<>> ELSE <<film[1]>>
    <3>1. CASE film = <<>>
      BY <1>6, <2>1, <2>2, <3>1
    <3>2. CASE film # <<>>
      <4>1. film[1] \in Int
        BY <1>3, <3>2, EmptySeq DEF IsFilm
      <4>2. decoded # None /\ decoded = film[1]
        BY <2>2, <3>2, <4>1, MediaAssumption
      <4> QED BY <1>6, <2>1, <2>3, <3>2, <4>2
    <3> QED BY <3>1, <3>2
  <2> QED BY <1>1, <1>3, <1>4, <1>8, <2>1, <2>4 DEF FilmFollows
<1> QED BY <1>1, <1>3, <1>5, <1>7, <1>8

LEMMA FramesStep ==
    ASSUME SourceInv, FramesInv, MediaNext
    PROVE  FramesInv'
<1>0. SourceInv'
  BY SourceStep
<1>1. ASSUME NEW e, Ends(e), e # "ok" PROVE FramesInv'
  BY <1>1 DEF Ends, FramesInv, Encoded
<1>2. CASE mpc' \in {"versions", "probe", "still"} /\ answer' # "ok" /\ UNCHANGED <<frames, next, batch>> /\ mpc \in {"idle", "versions"}
  BY <1>2 DEF FramesInv, Encoded
<1>3. CASE \E c \in Calls : MediaBegin(c)
  BY <1>2, <1>3 DEF MediaBegin, SourceInv, MediaKnown
<1>4. CASE Versions
  BY <1>1, <1>2, <1>4 DEF Versions, SourceInv, MediaKnown
<1>5. CASE Probed
  <2>1. CASE mpc' = "done"
    BY <1>1, <1>5, <2>1 DEF Probed
  <2>2. CASE mpc' # "done"
    <3>1. /\ frames' = <<>> /\ next' = 0 /\ batch' = None /\ film' = film /\ answer' # "ok"
          /\ mpc' \in {"audio", "batch", "frames"} /\ film \in Films
      BY <1>5, <2>2 DEF Probed, Ends, FramesInv, SourceInv, MediaKnown
    <3>2. FilmFollows(film', Ticks', next', frames')
      BY <3>1, FilmsAreFilms, NoFramesYet
    <3> QED BY <3>1, <3>2 DEF FramesInv, Encoded
  <2> QED BY <2>1, <2>2
<1>6. CASE AudioWindow
  BY <1>1, <1>6 DEF AudioWindow, FramesInv, Encoded, SourceInv, MediaKnown
<1>7. CASE AudioEnds
  <2>1. CASE Ends("ok")
    <3>1. source.type = "audio" /\ source' = source /\ mpc' = "done"
      BY <1>7, <2>1 DEF AudioEnds, Ends, SourceInv, Read, SourceChosen
    <3> QED BY <3>1 DEF FramesInv, Encoded
  <2> QED BY <1>1, <1>7, <2>1 DEF AudioEnds
<1>8. CASE DecodeBatch
  <2>1. /\ mpc = "batch" /\ mpc' = "frames" /\ answer' # "ok" /\ UNCHANGED <<probe, source, film>>
        /\ next' = 0 /\ frames' = <<>> /\ film \in Films
    BY <1>8 DEF DecodeBatch, FramesInv, SourceInv, MediaKnown
  <2>2. Read /\ call.kind # "still"
    BY <2>1 DEF Read, SourceInv, MediaKnown
  <2>3. IsFilm(film) /\ AreTargets(Ticks)
    BY <2>1, <2>2, FilmsAreFilms, TicksAreTargets
  <2>4. batch' = Filter(film, UpTo(film, Ticks, Windows))
    <3> DEFINE chosen == Filter(film, {k \in DOMAIN film : Crossings(film, k) # {}})
    <3>1. batch' = SubSeq(chosen, 1, Least(Len(chosen), Windows))
      BY <1>8 DEF DecodeBatch
    <3> QED BY <2>3, <3>1, ChosenIs
  <2>5. FilmFollows(film, Ticks, 0, <<>>)
    BY <2>3, NoFramesYet
  <2>6. Ticks' = Ticks
    BY <2>1, TicksStay
  <2> QED BY <2>1, <2>4, <2>5, <2>6 DEF FramesInv, Encoded
<1>9. CASE Frame
  <2>1. UNCHANGED <<probe, source, film, batch, mpc, answer>> /\ mpc = "frames" /\ answer' # "ok"
    BY <1>9 DEF Frame, SourceInv, MediaKnown
  <2>2. Ticks' = Ticks
    BY <2>1, TicksStay
  <2> QED BY <1>9, <2>1, <2>2, FrameFollows DEF FramesInv, Encoded
<1>10. CASE FramesEnd
  <2>1. CASE Ends("ok")
    <3>1. /\ mpc = "frames" /\ mpc' = "done" /\ UNCHANGED <<probe, source, film, batch, next, frames>>
          /\ next > Windows \/ (next = Windows /\ frames # <<>>)
      BY <1>10, <2>1 DEF FramesEnd, Ends
    <3>2. frames # <<>>
      <4>1. Ends(IF frames = <<>> THEN "InsufficientContent" ELSE "ok")
        BY <1>10 DEF FramesEnd
      <4> QED BY <2>1, <4>1 DEF Ends
    <3>3. FilmFollows(film, Ticks, next, frames) /\ (batch # None => batch = Filter(film, UpTo(film, Ticks, Windows)))
      BY <3>1 DEF FramesInv
    <3>4. Ticks' = Ticks
      BY <3>1, TicksStay
    <3>5. next >= Windows
      BY <3>1, <3>3, MediaAssumption DEF FilmFollows
    <3> QED BY <3>1, <3>2, <3>3, <3>4, <3>5 DEF FramesInv
  <2> QED BY <1>1, <1>10, <2>1 DEF FramesEnd
<1>11. CASE StillImage
  <2>1. call'.kind = "still" /\ mpc' = "done"
    BY <1>11 DEF StillImage, Ends, SourceInv, MediaKnown
  <2> QED BY <2>1 DEF FramesInv, Encoded
<1>12. CASE DecoderFails \/ TooLittleMemory \/ VideoRefused
  BY <1>1, <1>12 DEF DecoderFails, TooLittleMemory, VideoRefused
<1> QED BY <1>3, <1>4, <1>5, <1>6, <1>7, <1>8, <1>9, <1>10, <1>11, <1>12 DEF MediaNext

\* Whichever way frames are fetched, those encoded are the first at or after each
\* target, each once and in order, or else the first of the film: for any film,
\* duration, start and number of targets.
THEOREM FramesAreTheTargets == Spec => []FramesAsSpecified
<1>1. Init => SourceInv /\ FramesInv
  <2>1. None # "ok"
    BY MediaAssumption
  <2> QED BY <2>1, SourceStarts DEF Init, MediaInit, FramesInv, Encoded
<1>2. SourceInv /\ FramesInv /\ [Next]_vars => SourceInv' /\ FramesInv'
  <2> SUFFICES ASSUME SourceInv, FramesInv, [Next]_vars PROVE FramesInv'
    BY SourceSteps
  <2>1. CASE UNCHANGED mediaVars
    <3>1. Ticks' = Ticks
      BY <2>1, TicksStay DEF mediaVars
    <3> QED BY <2>1, <3>1 DEF mediaVars, FramesInv, Encoded
  <2> QED BY <2>1, MediaOrNot, FramesStep
<1>3. SourceInv /\ FramesInv => FramesAsSpecified
  <2> SUFFICES ASSUME SourceInv, FramesInv, Encoded("video")
               PROVE  frames = IF Wanted # <<>> THEN Wanted ELSE <<film[1]>>
    BY DEF FramesAsSpecified
  <2>1. Read /\ call.kind # "still" /\ film \in Films
    BY DEF Encoded, Read, SourceInv, MediaKnown
  <2>2. Wanted = Filter(film, UpTo(film, Ticks, Windows))
    BY <2>1, FilmsAreFilms, WantedIs
  <2>3. FilmFollows(film, Ticks, next, frames) /\ next >= Windows /\ frames # <<>>
    BY DEF FramesInv
  <2>4. CASE next <= Windows
    <3>1. next = Windows
      BY <2>3, <2>4, MediaAssumption DEF FilmFollows
    <3> QED BY <2>2, <2>3, <2>4, <3>1 DEF FilmFollows
  <2>5. CASE next > Windows
    BY <2>2, <2>3, <2>5 DEF FilmFollows
  <2>6. next <= Windows \/ next > Windows
    BY <2>3, MediaAssumption DEF FilmFollows
  <2> QED BY <2>4, <2>5, <2>6
<1> QED BY <1>1, <1>2, <1>3, PTL DEF Spec
===============================================================================
