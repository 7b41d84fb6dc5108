------------------------------ MODULE ReaderProofs ------------------------------
(* Theorems about the other readers, for every value of the constants:    *)
(* model sessions, decoders, documents, the pages of a PDF, and texts.     *)
EXTENDS MediaProofs, FiniteSetTheorems

-----------------------------------------------------------------------------
(* Model sessions.                                                         *)

Stages == {"idle", "read", "options", "lock", "commit", "run"}

SessionTypes ==
    /\ worker \in [Workers -> [pc : Stages, key : Keys \cup {None}, good : BOOLEAN]]
    /\ session \in [Workers -> [key : Keys \cup {None}, good : BOOLEAN] \cup {None}]
    /\ \A w \in Workers : ~At(w, "idle") => worker[w].key \in Keys

\* What is past the check of the digest is of the profile's model.
GoodBytes ==
    /\ \A w \in Workers : worker[w].pc \in {"options", "lock", "commit"} => worker[w].good
    /\ \A w \in Workers : session[w] # None => session[w].good
    /\ \A w \in Workers : At(w, "run") => session[w] # None /\ session[w].key = worker[w].key

\* Whoever compiles into the cache has the lock.
CompilerHasLock ==
    \A w \in Workers : At(w, "commit") /\ worker[w].key \in Compiling => lock = w

SessionInv == SessionTypes /\ GoodBytes /\ CompilerHasLock

LEMMA SessionStep ==
    ASSUME SessionInv, SessionNext
    PROVE  SessionInv'
<1> USE SessionAssumption DEF SessionInv, SessionTypes, GoodBytes, CompilerHasLock, Stages, At, Idle
<1>1. ASSUME NEW w \in Workers, NEW key \in Keys, Request(w, key) PROVE SessionInv'
  BY <1>1 DEF Request, Reusable
<1>2. ASSUME NEW w \in Workers, ReadModel(w) PROVE SessionInv'
  BY <1>2 DEF ReadModel
<1>3. ASSUME NEW w \in Workers, Options(w) PROVE SessionInv'
  <2>1. CASE worker' = [worker EXCEPT ![w] = Idle]
    BY <1>3, <2>1 DEF Options
  <2>2. CASE Go(w, "lock") /\ worker[w].key \in Compiling
    BY <1>3, <2>2 DEF Options, Go
  <2>3. CASE Go(w, "commit") /\ worker[w].key \notin Compiling
    BY <1>3, <2>3 DEF Options, Go
  <2> QED BY <1>3, <2>1, <2>2, <2>3 DEF Options
<1>4. ASSUME NEW w \in Workers, Locks(w) PROVE SessionInv'
  BY <1>4 DEF Locks, Go
<1>5. ASSUME NEW w \in Workers, Commits(w) PROVE SessionInv'
  <2>1. \A v \in Workers : v # w /\ lock = v => lock' = v
    BY <1>5 DEF Commits, Unlocked
  <2>2. CASE worker' = [worker EXCEPT ![w] = Idle] /\ UNCHANGED session
    BY <2>1, <2>2
  <2>3. CASE /\ session' = [session EXCEPT ![w] = [key |-> worker[w].key, good |-> worker[w].good]]
             /\ Go(w, "run")
    <3>1. worker[w].good /\ session' \in [Workers -> [key : Keys \cup {None}, good : BOOLEAN] \cup {None}]
      BY <1>5, <2>3 DEF Commits
    <3>2. session'[w] # None /\ session'[w].key = worker[w].key /\ session'[w].good
      <4>1. worker[w].key \in Keys
        BY <1>5 DEF Commits
      <4>2. session'[w] = [key |-> worker[w].key, good |-> worker[w].good]
        BY <2>3
      <4>3. [key |-> worker[w].key, good |-> worker[w].good] \in [key : Keys, good : BOOLEAN]
        BY <4>1
      <4>4. session'[w] # None
        BY <4>2, <4>3
      <4>5. session'[w].key = worker[w].key /\ session'[w].good = worker[w].good
        BY <4>2
      <4> QED BY <3>1, <4>4, <4>5
    <3> QED BY <1>5, <2>1, <2>3, <3>1, <3>2 DEF Commits, Go
  <2> QED BY <1>5, <2>2, <2>3 DEF Commits
<1>6. ASSUME NEW w \in Workers, Runs(w) PROVE SessionInv'
  BY <1>6 DEF Runs
<1>7. ASSUME NEW w \in Workers, Killed(w) PROVE SessionInv'
  BY <1>7 DEF Killed, Unlocked
<1>8. CASE Replaced
  BY <1>8 DEF Replaced
<1> QED BY <1>1, <1>2, <1>3, <1>4, <1>5, <1>6, <1>7, <1>8 DEF SessionNext, Loading

\* The other readers leave the sessions alone.
LEMMA SessionsKept == Init => SessionInv
BY SessionAssumption DEF Init, SessionInit, SessionInv, SessionTypes, GoodBytes, CompilerHasLock, Stages, At, Idle

LEMMA SessionsSteps == SessionInv /\ [Next]_vars => SessionInv'
<1> SUFFICES ASSUME SessionInv, [Next]_vars PROVE SessionInv'
  OBVIOUS
<1>1. CASE UNCHANGED sessionVars
  BY <1>1 DEF sessionVars, SessionInv, SessionTypes, GoodBytes, CompilerHasLock, At
<1>2. CASE RunsModel
  BY <1>2, SessionStep DEF RunsModel
<1> QED BY <1>1, <1>2 DEF Next, vars, ReadsText, ReadsDocument, EncodeDocument, ReadsMedia, RunsDecoder

\* A file is encoded by a session made for its key from the profile's model, for
\* any number of workers, backends, files and replacements of the model.
THEOREM SessionsFit == Spec => []SessionFits
<1>1. SessionInv => SessionFits
  BY DEF SessionInv, SessionTypes, GoodBytes, SessionFits, At
<1> QED BY <1>1, SessionsKept, SessionsSteps, PTL DEF Spec

\* No two workers compile into the cache at once.
THEOREM CompilersTakeTurns == Spec => []OneCompiler
<1>1. SessionInv => OneCompiler
  BY DEF SessionInv, CompilerHasLock, OneCompiler
<1> QED BY <1>1, SessionsKept, SessionsSteps, PTL DEF Spec

-----------------------------------------------------------------------------
(* A decoder's output.                                                     *)

CaptureTypes ==
    /\ plan \in [Streams -> Nat] /\ pipe \in [Streams -> Nat] /\ written \in [Streams -> Nat]
    /\ child \in [state : {"none", "runs", "exited", "reaped"}, success : BOOLEAN]
    /\ drain \in [Streams -> [state : {"open", "eof", "error"}, kept : Nat, overflow : BOOLEAN]]

\* Where a chunk that was written is.
NothingDropped ==
    \A s \in Streams : ~drain[s].overflow => drain[s].kept + pipe[s] = written[s]

\* What is known of a child that is gone, and of a drain at its end.
ChildKnown ==
    /\ child.success => written = plan /\ child.state \in {"exited", "reaped"}
    /\ \A s \in Streams : drain[s].state = "eof" => pipe[s] = 0 /\ child.state \in {"exited", "reaped"}
    /\ cpc = "idle" <=> child.state = "none"
    /\ cpc \in {"join", "done"} <=> child.state = "reaped"

AnswerKnown ==
    cpc = "done" =>
        /\ \A s \in Streams : drain[s].state # "open"
        /\ captured = "ok" =>
              child.success /\ \A s \in Streams : drain[s].state # "error" /\ ~drain[s].overflow

WithinCap == \A s \in Streams : drain[s].kept <= Keeps[s]

DrainedFirst == cpc \in {"kill", "wait", "join", "done"} => drain["out"].state # "open"

CaptureInv == CaptureTypes /\ NothingDropped /\ WithinCap /\ ChildKnown /\ AnswerKnown /\ DrainedFirst

LEMMA CaptureStep ==
    ASSUME CaptureInv, CaptureNext
    PROVE  CaptureInv'
<1> USE CaptureAssumption DEF CaptureInv, CaptureTypes, NothingDropped, WithinCap,
        ChildKnown, AnswerKnown, DrainedFirst
<1>1. CASE CaptureBegin
  BY <1>1 DEF CaptureBegin
<1>2. ASSUME NEW s \in Streams, ChildWrites(s) PROVE CaptureInv'
  BY <1>2 DEF ChildWrites
<1>3. ASSUME NEW ok \in BOOLEAN, Exit(ok), ok => written = plan PROVE CaptureInv'
  BY <1>3 DEF Exit
<1>4. ASSUME NEW s \in Streams, DrainReads(s) PROVE CaptureInv'
  <2>1. PICK n \in 1..pipe[s] :
            /\ pipe' = [pipe EXCEPT ![s] = @ - n]
            /\ drain' = [drain EXCEPT ![s] = Retain(@, s, n)]
    BY <1>4 DEF DrainReads
  <2>2. UNCHANGED <<cpc, child, plan, written, captured>> /\ drain[s].state = "open"
    BY <1>4 DEF DrainReads
  <2>3. n \in Nat \ {0} /\ Keeps[s] \in Nat /\ pipe[s] \in Nat /\ n <= pipe[s]
    OBVIOUS
  <2>4. PICK d : d = Retain(drain[s], s, n)
    OBVIOUS
  <2>5. /\ d \in [state : {"open", "eof", "error"}, kept : Nat, overflow : BOOLEAN]
        /\ d.state = "open" /\ d.kept <= Keeps[s]
        /\ ~d.overflow => ~drain[s].overflow /\ d.kept = drain[s].kept + n
    <3>1. PICK retain : retain = IF drain[s].kept + n <= Keeps[s] THEN n ELSE Keeps[s] - drain[s].kept
      OBVIOUS
    <3>2. retain \in Nat /\ drain[s].kept + retain <= Keeps[s] /\ retain <= n
      BY <2>3, <3>1
    <3>3. PICK over \in BOOLEAN : over = (drain[s].overflow \/ retain < n)
      OBVIOUS
    <3>4. d = [state |-> drain[s].state, kept |-> drain[s].kept + retain, overflow |-> over]
      BY <2>4, <3>1, <3>3, Zenon DEF Retain
    <3>5. ~over => ~drain[s].overflow /\ retain = n
      <4>1. ~over => ~drain[s].overflow /\ ~(retain < n)
        BY <3>3, Zenon
      <4> QED BY <2>3, <3>2, <4>1
    <3>6. drain[s] \in [state : {"open", "eof", "error"}, kept : Nat, overflow : BOOLEAN]
      OBVIOUS
    <3>7. d.kept = drain[s].kept + retain /\ d.overflow = over /\ d.state = drain[s].state
      BY <3>4
    <3>8. d \in [state : {"open", "eof", "error"}, kept : Nat, overflow : BOOLEAN]
      BY <3>2, <3>3, <3>4, <3>6
    <3> QED BY <2>2, <3>2, <3>5, <3>7, <3>8
  <2>6. drain' = [drain EXCEPT ![s] = d]
    BY <2>1, <2>4
  <2>7. CaptureTypes'
    BY <2>1, <2>2, <2>3, <2>5, <2>6
  <2>8. NothingDropped' /\ WithinCap'
    BY <2>1, <2>2, <2>3, <2>5, <2>6
  <2>9. ChildKnown' /\ AnswerKnown' /\ DrainedFirst'
    BY <2>1, <2>2, <2>3, <2>5, <2>6
  <2> QED BY <2>7, <2>8, <2>9
<1>5. ASSUME NEW s \in Streams, DrainEnds(s) \/ DrainFails(s) PROVE CaptureInv'
  <2>1. CASE DrainEnds(s)
    BY <1>5, <2>1 DEF DrainEnds, Draining
  <2>2. CASE DrainFails(s)
    BY <1>5, <2>2 DEF DrainFails, Draining
  <2> QED BY <1>5, <2>1, <2>2
<1>6. CASE Drained
  BY <1>6 DEF Drained
<1>7. CASE Kills
  BY <1>7 DEF Kills
<1>8. CASE Waits
  BY <1>8 DEF Waits
<1>9. CASE Joins
  BY <1>9 DEF Joins, Outcome, Streams
<1> QED BY <1>1, <1>2, <1>3, <1>4, <1>5, <1>6, <1>7, <1>8, <1>9
        DEF CaptureNext, Works, Threads, ChildEnds, ChildDies, ChildBreaks

LEMMA CaptureStarts == Init => CaptureInv
BY CaptureAssumption DEF Init, CaptureInit, CaptureInv, CaptureTypes, NothingDropped, WithinCap,
   ChildKnown, AnswerKnown, DrainedFirst, Streams

LEMMA CaptureSteps == CaptureInv /\ [Next]_vars => CaptureInv'
<1> SUFFICES ASSUME CaptureInv, [Next]_vars PROVE CaptureInv'
  OBVIOUS
<1>1. CASE UNCHANGED captureVars
  BY <1>1 DEF captureVars, CaptureInv, CaptureTypes, NothingDropped, WithinCap, ChildKnown, AnswerKnown, DrainedFirst
<1>2. CASE RunsDecoder
  BY <1>2, CaptureStep DEF RunsDecoder
<1> QED BY <1>1, <1>2 DEF Next, vars, ReadsText, ReadsDocument, EncodeDocument, ReadsMedia, RunsModel

\* What capture returns as a success is all that a child that succeeded wrote,
\* for pipes, caps and outputs of any size and any interleaving of the threads.
THEOREM DecoderOutputIsWhole == Spec => []CaptureIsWhole
<1>1. CaptureInv => CaptureIsWhole
  <2> SUFFICES ASSUME CaptureInv, cpc = "done"
               PROVE  /\ child.state = "reaped"
                      /\ captured = "ok" => child.success /\ \A s \in Streams : drain[s].kept = written[s] /\ written[s] = plan[s]
    BY DEF CaptureIsWhole
  <2> QED BY DEF CaptureInv, CaptureTypes, NothingDropped, ChildKnown, AnswerKnown
<1> QED BY <1>1, CaptureStarts, CaptureSteps, PTL DEF Spec
-----------------------------------------------------------------------------
(***************************************************************************)
(* Documents.  What docx_xml extracts is what the document's author wrote, *)
(* for every document: any elements, nested to any depth, any limits.  The *)
(* heart is MarkersFollow: three depths say of the stack all that is asked *)
(* of it.                                                                  *)
(***************************************************************************)

WT == Word("t")
Names == [word : BOOLEAN, name : STRING]

\* The parts of the state docx_xml works on, and the parser's stack.
DocumentTypes ==
    /\ stack \in Seq(Names)
    /\ depth = Len(stack)
    /\ body \in Seq(Pieces) /\ should = body
    /\ bodies \in 0..2

\* Inside a w:t there is no other element of the namespace.
TextIsLeaf == \A i, j \in DOMAIN stack : i < j /\ stack[i] = WT => ~stack[j].word

RootIsDocument ==
    /\ stack # <<>> => documentSeen /\ stack[1] = Word("document")
    /\ bodies > 0 => documentSeen

\* The first w:body below the root is open.
InBody == Len(stack) >= 2 /\ stack[2] = Word("body") /\ bodies = 1

BodyFollows ==
    /\ bodyDepth = (IF InBody THEN 2 ELSE Absent)
    /\ bodySeen \in BOOLEAN /\ (bodySeen <=> bodies > 0)

\* The marker is at the outermost deletion or text box.
SkipFollows ==
    IF Encloses(Skipped)
    THEN /\ skipDepth \in DOMAIN stack /\ stack[skipDepth] \in Skipped
         /\ \A i \in 1..skipDepth - 1 : stack[i] \notin Skipped
    ELSE skipDepth = Absent

\* The marker is at the w:t that is open in text that counts.
TextFollows ==
    IF Encloses({WT}) /\ InBody /\ ~Encloses(Skipped)
    THEN textDepth \in DOMAIN stack /\ stack[textDepth] = WT
    ELSE textDepth = Absent

MarkersFollow == DocumentTypes /\ TextIsLeaf /\ RootIsDocument /\ BodyFollows /\ SkipFollows /\ TextFollows

NotStarted ==
    /\ stack = <<>> /\ depth = 0
    /\ bodyDepth = Absent /\ skipDepth = Absent /\ textDepth = Absent
    /\ bodySeen = FALSE /\ documentSeen = FALSE
    /\ body = <<>> /\ bodies = 0 /\ should = <<>>

DocumentInv ==
    /\ dpc \in {"idle", "package"} => NotStarted
    /\ dpc = "xml" => MarkersFollow
    /\ dpc = "xml_done" => body \in Seq(Pieces) /\ body = should /\ stack = <<>> /\ bodies > 0

-----------------------------------------------------------------------------
(* The stack after an element is opened or closed.                         *)

\* The names that matter are told apart.
LEMMA NamesDiffer ==
    /\ WT.word /\ WT \notin Skipped /\ WT # Word("body") /\ WT # Word("document")
    /\ Word("body") \notin Skipped /\ Word("document") \notin Skipped
    /\ \A e \in Skipped : e.word
BY DEF WT, Word, Skipped

\* A deletion, a text box or a w:t is open after an element e is opened if it is
\* e or was open before.
LEMMA Pushed ==
    ASSUME NEW E, NEW e \in Elements, stack \in Seq(Names),
           stack' = Append(stack, e)
    PROVE  /\ Len(stack') = Len(stack) + 1
           /\ stack'[Len(stack) + 1] = e
           /\ \A i \in 1..Len(stack) : stack'[i] = stack[i]
           /\ stack' \in Seq(Names)
           /\ Encloses(E)' <=> Encloses(E) \/ e \in E
<1>1. e \in Names
  BY DocumentAssumption DEF Names
<1>2. /\ Len(stack') = Len(stack) + 1
      /\ stack'[Len(stack) + 1] = e
      /\ \A i \in 1..Len(stack) : stack'[i] = stack[i]
      /\ stack' \in Seq(Names)
      /\ DOMAIN stack = 1..Len(stack) /\ DOMAIN stack' = 1..Len(stack) + 1
      /\ Len(stack) \in Nat
  BY <1>1
<1>3. Encloses(E)' <=> \E i \in 1..Len(stack) + 1 : stack'[i] \in E
  BY <1>2 DEF Encloses
<1>4. Encloses(E) <=> \E i \in 1..Len(stack) : stack[i] \in E
  BY <1>2 DEF Encloses
<1> QED BY <1>2, <1>3, <1>4

\* After the top element is closed, what is still open was open, in its place.
LEMMA Popped ==
    ASSUME NEW E, stack \in Seq(Names), stack # <<>>,
           stack' = SubSeq(stack, 1, Len(stack) - 1)
    PROVE  /\ Len(stack') = Len(stack) - 1 /\ Len(stack) \in Nat \ {0}
           /\ \A i \in 1..Len(stack) - 1 : stack'[i] = stack[i]
           /\ stack' \in Seq(Names)
           /\ Encloses(E)' <=> \E i \in 1..Len(stack) - 1 : stack[i] \in E
<1>1. Len(stack) \in Nat \ {0} /\ \A i \in 1..Len(stack) - 1 : stack[i] \in Names
  BY EmptySeq
<1>2. 1 \in Int /\ Len(stack) - 1 \in Int
  BY <1>1
<1>3. stack' \in Seq(Names)
  BY <1>1, <1>2, SubSeqProperties
<1>4. \A i \in 1..Len(stack) - 1 : stack'[i] = stack[i]
  <2>1. \A i \in 1..Len(stack) - 1 - 1 + 1 : stack'[i] = stack[1 + i - 1]
    BY <1>1, <1>2, SubSeqProperties
  <2>2. \A i \in 1..Len(stack) - 1 : i \in 1..Len(stack) - 1 - 1 + 1 /\ 1 + i - 1 = i
    BY <1>1
  <2> QED BY <2>1, <2>2
<1>5. Len(stack') = Len(stack) - 1
  <2>1. Len(stack') = IF 1 <= Len(stack) - 1 THEN Len(stack) - 1 - 1 + 1 ELSE 0
    BY <1>1, <1>2, SubSeqProperties
  <2>2. \A n \in Nat \ {0} : (IF 1 <= n - 1 THEN n - 1 - 1 + 1 ELSE 0) = n - 1
    OBVIOUS
  <2> QED BY <1>1, <2>1, <2>2
<1>6. DOMAIN stack' = 1..Len(stack) - 1
  BY <1>3, <1>5
<1> QED BY <1>1, <1>3, <1>4, <1>5, <1>6 DEF Encloses

-----------------------------------------------------------------------------
(* What the markers say, and what is written accordingly.                  *)

\* docx_xml counts what is visible.
LEMMA CountedIsVisible ==
    ASSUME MarkersFollow
    PROVE  /\ Counted <=> Visible
           /\ Visible <=> InBody /\ ~Encloses(Skipped)
<1>1. Len(stack) \in Nat /\ DOMAIN stack = 1..Len(stack)
  BY DEF MarkersFollow, DocumentTypes
<1>2. bodyDepth # Absent <=> InBody
  BY DEF MarkersFollow, BodyFollows, Absent
<1>3. skipDepth = Absent <=> ~Encloses(Skipped)
  BY <1>1 DEF MarkersFollow, SkipFollows, Absent
<1> QED BY <1>2, <1>3 DEF Counted, Visible, InBody

\* It takes characters where they are visible in a w:t.
LEMMA TextIsVisible ==
    ASSUME MarkersFollow
    PROVE  textDepth # Absent <=> Encloses({WT}) /\ Visible
<1>1. Len(stack) \in Nat /\ DOMAIN stack = 1..Len(stack)
  BY DEF MarkersFollow, DocumentTypes
<1> QED BY <1>1, CountedIsVisible DEF MarkersFollow, TextFollows, Absent

\* If the author and the reader add the same, in the same case, they agree again.
LEMMA SameIsWritten ==
    ASSUME NEW s \in Seq(Pieces), NEW B \in BOOLEAN, B <=> Visible,
           body \in Seq(Pieces), should = body,
           Means(s), Extracts(IF B THEN s ELSE <<>>)
    PROVE  body' \in Seq(Pieces) /\ should' = body'
<1>1. CASE B
  BY <1>1 DEF Means, Extracts
<1>2. CASE ~B
  <2>1. body \o <<>> = body /\ body \o <<>> \in Seq(Pieces)
    BY ConcatEmptySeq
  <2> QED BY <1>2, <2>1 DEF Means, Extracts
<1> QED BY <1>1, <1>2

\* What an element's start, end, or lack of content stands for is text.
LEMMA PiecesType ==
    /\ <<T>> \in Seq(Pieces)
    /\ \A e : Started(e) \in Seq(Pieces) /\ Lone(e) \in Seq(Pieces) /\ Ended(e) \in Seq(Pieces)
<1>1. T \in Pieces /\ TAB \in Pieces /\ NL \in Pieces
  BY DEF Pieces
<1>2. <<T>> \in Seq(Pieces) /\ <<TAB>> \in Seq(Pieces) /\ <<NL>> \in Seq(Pieces) /\ <<>> \in Seq(Pieces)
  BY <1>1
<1> QED BY <1>2 DEF Started, Lone, Ended

-----------------------------------------------------------------------------
(* Each event of the parser keeps the markers at their elements.           *)

\* An element is opened, and the reader goes on.
LEMMA StartFollows ==
    ASSUME MarkersFollow, NEW e \in Elements, Start(e), dpc' = "xml"
    PROVE  MarkersFollow'
<1>1. /\ stack \in Seq(Names) /\ Len(stack) \in Nat /\ depth = Len(stack)
      /\ DOMAIN stack = 1..Len(stack) /\ e \in Names
  BY DocumentAssumption DEF MarkersFollow, DocumentTypes, Names
<1>2. /\ Encloses({WT}) => ~e.word
      /\ stack' = Append(stack, e) /\ depth' = Len(stack) + 1
      /\ bodies' = IF e = Word("body") /\ Len(stack) = 1 THEN (IF bodies = 0 THEN 1 ELSE 2) ELSE bodies
      /\ Means(Started(e))
  BY <1>1 DEF Start, WT
<1>3. /\ Len(stack) = 0 => e = Word("document") /\ ~documentSeen
      /\ documentSeen' = TRUE
      /\ bodyDepth' = IF e = Word("body") /\ Len(stack) = 1 /\ ~bodySeen THEN 2 ELSE bodyDepth
      /\ skipDepth' = SkipFrom(e, Len(stack) + 1)
      /\ textDepth' = IF e = WT /\ Counted THEN Len(stack) + 1 ELSE textDepth
      /\ Extracts(IF Counted THEN Started(e) ELSE <<>>)
  BY <1>1 DEF Start, WT
<1>4. /\ Len(stack') = Len(stack) + 1 /\ stack'[Len(stack) + 1] = e
      /\ \A i \in 1..Len(stack) : stack'[i] = stack[i]
      /\ stack' \in Seq(Names) /\ DOMAIN stack' = 1..Len(stack) + 1
      /\ Encloses(Skipped)' <=> Encloses(Skipped) \/ e \in Skipped
      /\ Encloses({WT})' <=> Encloses({WT}) \/ e = WT
  BY <1>1, <1>2, Pushed
<1>5. DocumentTypes'
  <2>1. body' \in Seq(Pieces) /\ should' = body'
    <3>1. Counted \in BOOLEAN /\ body \in Seq(Pieces) /\ should = body
      BY DEF Counted, MarkersFollow, DocumentTypes
    <3> QED BY <1>2, <1>3, <3>1, PiecesType, CountedIsVisible, SameIsWritten
  <2>2. bodies' \in 0..2
    BY <1>2 DEF MarkersFollow, DocumentTypes
  <2> QED BY <1>2, <1>4, <2>1, <2>2 DEF DocumentTypes
<1>6. TextIsLeaf'
  <2> SUFFICES ASSUME NEW i \in 1..Len(stack) + 1, NEW j \in 1..Len(stack) + 1, i < j, stack'[i] = WT
               PROVE  ~stack'[j].word
    BY <1>4 DEF TextIsLeaf
  <2>1. i \in 1..Len(stack) /\ stack[i] = WT
    BY <1>1, <1>4
  <2>2. CASE j = Len(stack) + 1
    BY <1>1, <1>2, <1>4, <2>1, <2>2 DEF Encloses
  <2>3. CASE j \in 1..Len(stack)
    BY <1>1, <1>4, <2>1, <2>3 DEF MarkersFollow, TextIsLeaf
  <2> QED BY <1>1, <2>2, <2>3
<1>7. RootIsDocument'
  <2>1. stack'[1] = Word("document")
    <3>1. CASE Len(stack) = 0
      BY <1>3, <1>4, <3>1
    <3>2. CASE Len(stack) > 0
      BY <1>1, <1>4, <3>2 DEF MarkersFollow, RootIsDocument
    <3> QED BY <1>1, <3>1, <3>2
  <2> QED BY <1>3, <2>1 DEF RootIsDocument
<1>8. BodyFollows'
  <2>1. InBody' <=> InBody \/ (e = Word("body") /\ Len(stack) = 1 /\ bodies = 0)
    <3>1. CASE Len(stack) = 0
      BY <1>1, <1>2, <1>4, <3>1 DEF InBody
    <3>2. CASE Len(stack) = 1
      BY <1>1, <1>2, <1>4, <3>2 DEF InBody, MarkersFollow, BodyFollows, DocumentTypes
    <3>3. CASE Len(stack) >= 2
      BY <1>1, <1>2, <1>4, <3>3 DEF InBody
    <3> QED BY <1>1, <3>1, <3>2, <3>3
  <2>2. InBody => Len(stack) >= 2
    BY DEF InBody
  <2>3. bodies \in 0..2 /\ bodyDepth = (IF InBody THEN 2 ELSE Absent) /\ bodySeen \in BOOLEAN /\ (bodySeen <=> bodies > 0)
    BY DEF MarkersFollow, BodyFollows, DocumentTypes
  <2>4. bodySeen' = (bodySeen \/ (e = Word("body") /\ depth + 1 = 2 /\ ~bodySeen))
    BY DEF Start
  <2>5. /\ bodySeen' \in BOOLEAN
        /\ bodySeen' <=> bodySeen \/ (e = Word("body") /\ depth + 1 = 2 /\ ~bodySeen)
    BY <2>4, Zenon
  <2>6. CASE e = Word("body") /\ Len(stack) = 1 /\ bodies = 0
    <3>1. ~bodySeen /\ bodies' = 1 /\ InBody'
      BY <1>2, <2>1, <2>3, <2>6
    <3>2. bodySeen' /\ bodyDepth' = 2
      BY <1>1, <1>3, <2>5, <2>6, <3>1
    <3> QED BY <2>5, <3>1, <3>2 DEF BodyFollows
  <2>7. CASE ~(e = Word("body") /\ Len(stack) = 1 /\ bodies = 0)
    <3>1. (InBody' <=> InBody) /\ (bodies' > 0 <=> bodies > 0)
      BY <1>2, <2>1, <2>3, <2>7
    <3>2. e = Word("body") /\ Len(stack) = 1 => bodySeen
      BY <2>3, <2>7
    <3>3. bodySeen' <=> bodySeen
      BY <1>1, <2>5, <3>2
    <3>4. bodyDepth' = bodyDepth
      BY <1>3, <3>2
    <3> QED BY <2>3, <2>5, <3>1, <3>3, <3>4 DEF BodyFollows
  <2> QED BY <2>6, <2>7
<1>9. SkipFollows'
  <2>1. CASE skipDepth = Absent
    <3>1. ~Encloses(Skipped)
      BY <1>1, <2>1 DEF MarkersFollow, SkipFollows, Absent
    <3>2. \A i \in 1..Len(stack) : stack'[i] \notin Skipped
      BY <1>1, <1>4, <3>1 DEF Encloses
    <3> QED BY <1>1, <1>3, <1>4, <2>1, <3>1, <3>2 DEF SkipFrom, SkipFollows
  <2>2. CASE skipDepth # Absent
    <3>1. Encloses(Skipped) /\ skipDepth' = skipDepth
      BY <1>3, <2>2 DEF MarkersFollow, SkipFollows, SkipFrom
    <3> QED BY <1>1, <1>4, <3>1 DEF MarkersFollow, SkipFollows
  <2> QED BY <2>1, <2>2
<1>10. TextFollows'
  <2>1. CASE e = WT
    <3>1. InBody' <=> InBody
      BY <1>1, <1>2, <1>4, <2>1, NamesDiffer DEF InBody
    <3>2. ~Encloses({WT})
      BY <1>2, <2>1, NamesDiffer
    <3>3. textDepth = Absent
      BY <3>2 DEF MarkersFollow, TextFollows
    <3>4. e \notin Skipped
      BY <2>1, NamesDiffer
    <3> QED BY <1>1, <1>3, <1>4, <2>1, <3>1, <3>3, <3>4, CountedIsVisible DEF TextFollows
  <2>2. CASE e # WT /\ Encloses({WT})
    <3>1. e \notin Skipped /\ e # Word("body")
      BY <1>2, <2>2, NamesDiffer DEF Word
    <3>2. Len(stack) >= 2 /\ InBody' <=> Len(stack) >= 2 /\ InBody
      BY <1>1, <1>2, <1>4, <3>1 DEF InBody
    <3>3. Len(stack) >= 2
      <4>1. PICK i \in 1..Len(stack) : stack[i] = WT
        BY <1>1, <2>2 DEF Encloses
      <4>2. stack[1] # WT
        BY <1>1, <4>1, NamesDiffer DEF MarkersFollow, RootIsDocument
      <4> QED BY <1>1, <4>1, <4>2
    <3> QED BY <1>1, <1>3, <1>4, <2>2, <3>1, <3>2, <3>3 DEF MarkersFollow, TextFollows
  <2>3. CASE e # WT /\ ~Encloses({WT})
    BY <1>3, <1>4, <2>3 DEF MarkersFollow, TextFollows
  <2> QED BY <2>1, <2>2, <2>3
<1> QED BY <1>5, <1>6, <1>7, <1>8, <1>9, <1>10 DEF MarkersFollow

\* Nothing is opened or closed.
LEMMA StackStays ==
    ASSUME MarkersFollow, UNCHANGED <<stack, bodies, markers>>,
           body' \in Seq(Pieces), should' = body'
    PROVE  MarkersFollow'
BY DEF MarkersFollow, DocumentTypes, TextIsLeaf, RootIsDocument, BodyFollows, SkipFollows, TextFollows,
       InBody, Encloses, markers

\* An element without content, in its own step.
LEMMA EmptyFollows ==
    ASSUME MarkersFollow, NEW e \in Elements, Empty(e)
    PROVE  MarkersFollow'
<1>1. Counted \in BOOLEAN /\ body \in Seq(Pieces) /\ should = body
  BY DEF Counted, MarkersFollow, DocumentTypes
<1>2. body' \in Seq(Pieces) /\ should' = body'
  BY <1>1, PiecesType, CountedIsVisible, SameIsWritten DEF Empty
<1> QED BY <1>2, StackStays DEF Empty

\* Characters.
LEMMA TextFollowsOn ==
    ASSUME MarkersFollow, Text
    PROVE  MarkersFollow'
<1>1. body \in Seq(Pieces) /\ should = body
  BY DEF MarkersFollow, DocumentTypes
<1>2. body' \in Seq(Pieces) /\ should' = body'
  <2>1. CASE Encloses({WT})
    <3>1. Means(<<T>>)
      BY <2>1 DEF Text, WT
    <3>2. (textDepth # Absent) \in BOOLEAN /\ ((textDepth # Absent) <=> Visible)
      BY <2>1, TextIsVisible
    <3>3. Extracts(IF textDepth # Absent THEN <<T>> ELSE <<>>)
      BY DEF Text
    <3> QED BY <1>1, <3>1, <3>2, <3>3, PiecesType, SameIsWritten
  <2>2. CASE ~Encloses({WT})
    <3>1. Means(<<>>) /\ Extracts(<<>>)
      BY <2>2, TextIsVisible DEF Text, WT
    <3>2. body \o <<>> = body
      BY <1>1, ConcatEmptySeq
    <3> QED BY <1>1, <3>1, <3>2 DEF Means, Extracts
  <2> QED BY <2>1, <2>2
<1> QED BY <1>2, StackStays DEF Text

\* The innermost element is closed.
LEMMA EndFollows ==
    ASSUME MarkersFollow, End
    PROVE  MarkersFollow'
<1> DEFINE n == Len(stack)
<1>1. /\ stack \in Seq(Names) /\ n \in Nat \ {0} /\ depth = n
      /\ DOMAIN stack = 1..n /\ stack # <<>>
  BY EmptySeq DEF MarkersFollow, DocumentTypes, End, Names
<1>2. /\ stack' = SubSeq(stack, 1, n - 1) /\ depth' = n - 1
      /\ Means(Ended(stack[n])) /\ Extracts(IF Counted THEN Ended(stack[n]) ELSE <<>>)
      /\ textDepth' = (IF textDepth = n THEN Absent ELSE textDepth)
      /\ skipDepth' = (IF skipDepth = n THEN Absent ELSE skipDepth)
      /\ bodyDepth' = (IF bodyDepth = n THEN Absent ELSE bodyDepth)
      /\ UNCHANGED <<bodies, bodySeen, documentSeen>>
  BY <1>1 DEF End, Close
<1>3. /\ Len(stack') = n - 1 /\ \A i \in 1..n - 1 : stack'[i] = stack[i]
      /\ stack' \in Seq(Names) /\ DOMAIN stack' = 1..n - 1
      /\ Encloses(Skipped)' <=> \E i \in 1..n - 1 : stack[i] \in Skipped
      /\ Encloses({WT})' <=> \E i \in 1..n - 1 : stack[i] \in {WT}
  BY <1>1, <1>2, Popped
<1> HIDE DEF n
<1>4. DocumentTypes'
  <2>1. body' \in Seq(Pieces) /\ should' = body'
    <3>1. Counted \in BOOLEAN /\ body \in Seq(Pieces) /\ should = body
      BY DEF Counted, MarkersFollow, DocumentTypes
    <3> QED BY <1>2, <3>1, PiecesType, CountedIsVisible, SameIsWritten
  <2> QED BY <1>2, <1>3, <2>1 DEF MarkersFollow, DocumentTypes, Names
<1>5. TextIsLeaf'
  BY <1>1, <1>3 DEF MarkersFollow, TextIsLeaf
<1>6. RootIsDocument'
  <2>1. stack' # <<>> => n - 1 >= 1
    BY <1>1, <1>3, EmptySeq
  <2> QED BY <1>1, <1>2, <1>3, <2>1 DEF MarkersFollow, RootIsDocument
<1>7. BodyFollows'
  <2>1. InBody' <=> InBody /\ n # 2
    BY <1>1, <1>2, <1>3 DEF InBody, n
  <2>2. bodySeen' \in BOOLEAN /\ (bodySeen' <=> bodies' > 0)
    BY <1>2 DEF MarkersFollow, BodyFollows
  <2>3. bodyDepth' = (IF InBody' THEN 2 ELSE Absent)
    BY <1>1, <1>2, <2>1 DEF MarkersFollow, BodyFollows, Absent
  <2> QED BY <2>2, <2>3 DEF BodyFollows
<1>8. SkipFollows'
  <2>1. CASE skipDepth = Absent
    <3>1. ~Encloses(Skipped)
      BY <1>1, <2>1 DEF MarkersFollow, SkipFollows, Absent
    <3> QED BY <1>1, <1>2, <1>3, <2>1, <3>1 DEF SkipFollows, Encloses
  <2>2. CASE skipDepth # Absent
    <3>1. /\ skipDepth \in 1..n /\ stack[skipDepth] \in Skipped
          /\ \A i \in 1..skipDepth - 1 : stack[i] \notin Skipped
      BY <1>1, <2>2 DEF MarkersFollow, SkipFollows
    <3>2. CASE skipDepth = n
      BY <1>1, <1>2, <1>3, <3>1, <3>2 DEF SkipFollows
    <3>3. CASE skipDepth # n
      BY <1>1, <1>2, <1>3, <3>1, <3>3 DEF SkipFollows
    <3> QED BY <3>2, <3>3
  <2> QED BY <2>1, <2>2
<1>9. TextFollows'
  <2>1. CASE textDepth # Absent
    <3>1. /\ textDepth \in 1..n /\ stack[textDepth] = WT
          /\ InBody /\ ~Encloses(Skipped)
      BY <1>1, <2>1 DEF MarkersFollow, TextFollows
    <3>2. CASE textDepth = n
      <4>1. \A i \in 1..n - 1 : stack[i] # WT
        BY <1>1, <3>1, <3>2, NamesDiffer DEF MarkersFollow, TextIsLeaf
      <4> QED BY <1>2, <1>3, <3>2, <4>1 DEF TextFollows
    <3>3. CASE textDepth # n
      <4>1. ~Encloses(Skipped)'
        BY <1>1, <1>3, <3>1 DEF Encloses
      <4>2. textDepth # 1 /\ textDepth # 2
        BY <1>1, <3>1, NamesDiffer DEF InBody, MarkersFollow, RootIsDocument
      <4>3. InBody'
        BY <1>1, <1>2, <1>3, <3>1, <3>3, <4>2 DEF InBody
      <4> QED BY <1>1, <1>2, <1>3, <3>1, <3>3, <4>1, <4>3 DEF TextFollows
    <3> QED BY <3>2, <3>3
  <2>2. CASE textDepth = Absent
    <3> SUFFICES ASSUME Encloses({WT})', InBody', ~Encloses(Skipped)'
                 PROVE  FALSE
      BY <1>2, <2>2 DEF TextFollows, Absent
    <3>1. PICK i \in 1..n - 1 : stack[i] = WT
      BY <1>3
    <3>2. stack[n] \notin Skipped
      BY <1>1, <3>1, NamesDiffer DEF MarkersFollow, TextIsLeaf
    <3>3. ~Encloses(Skipped)
      BY <1>1, <1>3, <3>2 DEF Encloses
    <3>4. Encloses({WT})
      BY <1>1, <3>1 DEF Encloses
    <3>5. InBody
      BY <1>1, <1>2, <1>3 DEF InBody, n
    <3> QED BY <1>1, <2>2, <3>3, <3>4, <3>5 DEF MarkersFollow, TextFollows, Absent
  <2> QED BY <2>1, <2>2
<1> QED BY <1>4, <1>5, <1>6, <1>7, <1>8, <1>9 DEF MarkersFollow

-----------------------------------------------------------------------------
(* The whole.                                                              *)

\* A document that is not begun is a document followed so far.
LEMMA NothingFollowed == NotStarted => MarkersFollow
<1> SUFFICES ASSUME NotStarted PROVE MarkersFollow
  OBVIOUS
<1>1. <<>> \in Seq([word : BOOLEAN, name : STRING]) /\ <<>> \in Seq(Pieces) /\ Len(<<>>) = 0
  OBVIOUS
<1>2. \A E : ~Encloses(E)
  BY DEF NotStarted, Encloses
<1>3. DocumentTypes
  BY <1>1 DEF NotStarted, DocumentTypes
<1>4. TextIsLeaf /\ RootIsDocument
  BY <1>1 DEF NotStarted, TextIsLeaf, RootIsDocument
<1>5. BodyFollows
  <2>1. bodySeen \in BOOLEAN /\ ~bodySeen
    BY Zenon DEF NotStarted
  <2>2. bodies = 0 /\ bodyDepth = Absent /\ ~InBody
    BY <1>1 DEF NotStarted, InBody
  <2> QED BY <2>1, <2>2 DEF BodyFollows
<1>6. SkipFollows /\ TextFollows
  BY <1>2 DEF NotStarted, SkipFollows, TextFollows
<1> QED BY <1>3, <1>4, <1>5, <1>6 DEF MarkersFollow

\* One step of the document reader.
LEMMA DocumentStep ==
    ASSUME DocumentInv, DocumentNext
    PROVE  DocumentInv'
<1>1. CASE DocxBegin
  BY <1>1 DEF DocxBegin, DocumentInv, NotStarted, author, markers
<1>2. CASE Unpack
  <2>1. CASE DocumentFails
    BY <2>1 DEF DocumentFails, DocumentInv
  <2>2. CASE dpc' = "xml" /\ UNCHANGED <<author, markers, body, pdf>>
    <3>1. NotStarted
      BY <1>2 DEF Unpack, DocumentInv
    <3>2. MarkersFollow'
      BY <2>2, <3>1, NothingFollowed, StackStays DEF author, MarkersFollow, DocumentTypes
    <3> QED BY <2>2, <3>2 DEF DocumentInv
  <2> QED BY <1>2, <2>1, <2>2 DEF Unpack
<1>3. ASSUME NEW e \in Elements, Start(e) PROVE DocumentInv'
  <2>1. MarkersFollow /\ dpc' \in {"xml", "failed"}
    BY <1>3 DEF Start, Extracts, DocumentInv
  <2>2. dpc' = "xml" => MarkersFollow'
    BY <1>3, <2>1, StartFollows
  <2> QED BY <2>1, <2>2 DEF DocumentInv
<1>4. ASSUME NEW e \in Elements, Empty(e) PROVE DocumentInv'
  <2>1. MarkersFollow /\ dpc' \in {"xml", "failed"}
    BY <1>4 DEF Empty, Extracts, DocumentInv
  <2>2. MarkersFollow'
    BY <1>4, <2>1, EmptyFollows
  <2> QED BY <2>1, <2>2 DEF DocumentInv
<1>5. CASE End
  <2>1. MarkersFollow /\ dpc' \in {"xml", "failed"}
    BY <1>5 DEF End, Extracts, DocumentInv
  <2>2. MarkersFollow'
    BY <1>5, <2>1, EndFollows
  <2> QED BY <2>1, <2>2 DEF DocumentInv
<1>6. CASE Text
  <2>1. MarkersFollow /\ dpc' \in {"xml", "failed"}
    BY <1>6 DEF Text, Extracts, DocumentInv
  <2>2. MarkersFollow'
    BY <1>6, <2>1, TextFollowsOn
  <2> QED BY <2>1, <2>2 DEF DocumentInv
<1>7. CASE Refuse
  BY <1>7 DEF Refuse, DocumentFails, DocumentInv
<1>8. CASE Eof
  <2>1. MarkersFollow /\ UNCHANGED <<body, should, stack, bodies>>
    BY <1>8 DEF Eof, DocumentInv, author
  <2>2. dpc' \in {"xml_done", "failed"} /\ (dpc' = "xml_done" => bodySeen /\ depth = 0)
    BY <1>8 DEF Eof
  <2>3. bodySeen /\ depth = 0 => body \in Seq(Pieces) /\ body = should /\ stack = <<>> /\ bodies > 0
    BY <2>1, EmptySeq DEF MarkersFollow, DocumentTypes, BodyFollows
  <2> QED BY <2>1, <2>2, <2>3 DEF DocumentInv
<1>9. ASSUME NEW b \in Books, PdfBegin(b) PROVE DocumentInv'
  BY <1>9 DEF PdfBegin, DocumentInv
<1>10. CASE ReadPage \/ PageFails \/ PagesEnd
  BY <1>10 DEF ReadPage, PageFails, PagesEnd, DocumentFails, DocumentInv
<1> QED BY <1>1, <1>2, <1>3, <1>4, <1>5, <1>6, <1>7, <1>8, <1>9, <1>10 DEF DocumentNext

LEMMA DocumentSteps == DocumentInv /\ [Next]_vars => DocumentInv'
<1> SUFFICES ASSUME DocumentInv, [Next]_vars PROVE DocumentInv'
  OBVIOUS
<1>1. CASE UNCHANGED docVars
  BY <1>1 DEF docVars, author, markers, DocumentInv, NotStarted, MarkersFollow, DocumentTypes, TextIsLeaf,
         RootIsDocument, BodyFollows, SkipFollows, TextFollows, InBody, Encloses
<1>2. CASE ReadsDocument
  BY <1>2, DocumentStep DEF ReadsDocument
<1>3. CASE EncodeDocument
  BY <1>1, <1>3 DEF EncodeDocument, DocumentFails, DocumentInv
<1> QED BY <1>1, <1>2, <1>3 DEF Next, vars, ReadsText, ReadsMedia, RunsDecoder, RunsModel

\* The text of a DOCX is what its author wrote in the body, and only a closed
\* document with a body has one, however elements are nested and whatever the
\* limits (docx_xml, documents.rs:149).
THEOREM BodyIsWritten == Spec => []BodyAsWritten
<1>1. Init => DocumentInv
  BY DEF Init, DocumentInit, DocumentInv, NotStarted
<1>2. DocumentInv /\ [Next]_vars => DocumentInv'
  BY DocumentSteps
<1>3. DocumentInv => BodyAsWritten
  BY DEF DocumentInv, BodyAsWritten, MarkersFollow, DocumentTypes
<1> QED BY <1>1, <1>2, <1>3, PTL DEF Spec

-----------------------------------------------------------------------------
(* What recursive functions of a sequence give for one more element.       *)

LEMMA AppendElements ==
    ASSUME NEW V, NEW s \in Seq(V), NEW x \in V
    PROVE  /\ Append(s, x) \in Seq(V) /\ Len(Append(s, x)) = Len(s) + 1 /\ Len(s) \in Nat
           /\ \A k \in 1..Len(s) : Append(s, x)[k] = s[k]
           /\ Append(s, x)[Len(s) + 1] = x /\ Append(s, x) # <<>>
OBVIOUS

\* FlattenSeq.
FlattenStep(ss, V) == [k \in 1..Len(ss) |-> [v \in Seq(V) |-> v \o ss[k]]]

LEMMA FlattenRecurs ==
    ASSUME NEW V, NEW ss \in Seq(Seq(V))
    PROVE  \E f : Recurs(f, Len(ss), Seq(V), <<>>, FlattenStep(ss, V)) /\ FlattenSeq(ss) = f[Len(ss)]
<1> DEFINE n == Len(ss)
           Rec(g) == g = [i \in 1..Len(ss) |-> IF i = 1 THEN ss[i] ELSE g[i - 1] \o ss[i]]
           g == CHOOSE h : Rec(h)
           step == FlattenStep(ss, V)
<1>1. n \in Nat /\ <<>> \in Seq(V) /\ \A k \in 1..n : ss[k] \in Seq(V)
  BY EmptySeq
<1>2. StepsIn(step, n, Seq(V))
  <2>1. ASSUME NEW k \in 1..n, NEW v \in Seq(V) PROVE v \o ss[k] \in Seq(V)
    BY <1>1
  <2> QED BY <2>1 DEF StepsIn, FlattenStep
<1>3. PICK f : Recurs(f, n, Seq(V), <<>>, step)
  <2> HIDE DEF n, step
  <2> QED BY <1>1, <1>2, Recursion
<1>4. ASSUME NEW k \in 1..n PROVE f[k] = f[k - 1] \o ss[k] /\ f[k - 1] \in Seq(V)
  <2>1. k - 1 \in 0..n
    BY <1>1
  <2> QED BY <1>3, <2>1 DEF Recurs, FlattenStep
<1>5. CASE n = 0
  <2>1. ss = <<>> /\ FlattenSeq(ss) = <<>>
    BY <1>5 DEF FlattenSeq
  <2> QED BY <1>3, <1>5, <2>1 DEF Recurs
<1>6. CASE n # 0
  <2>1. Rec([i \in 1..n |-> f[i]])
    <3>1. f[0] = <<>>
      BY <1>3 DEF Recurs
    <3>2. ASSUME NEW i \in 1..n
          PROVE  f[i] = IF i = 1 THEN ss[i] ELSE [j \in 1..n |-> f[j]][i - 1] \o ss[i]
      <4>1. CASE i = 1
        <5>0. 1 - 1 = 0 /\ 1 \in 1..n
          BY <4>1
        <5>1. f[1] = <<>> \o ss[1] /\ ss[1] \in Seq(V)
          BY <1>1, <1>4, <3>1, <5>0
        <5> QED BY <4>1, <5>1, ConcatEmptySeq
      <4>2. CASE i # 1
        <5>1. i - 1 \in 1..n
          BY <1>1, <4>2
        <5> QED BY <1>4, <4>2, <5>1
      <4> QED BY <4>1, <4>2
    <3> QED BY <3>2
  <2>2. Rec(g)
    <3> HIDE DEF Rec
    <3> QED BY <2>1
  <2>3. FlattenSeq(ss) = g[n]
    BY <1>6 DEF FlattenSeq
  <2> HIDE DEF g
  <2> DEFINE h == [k \in 0..n |-> IF k = 0 THEN <<>> ELSE g[k]]
  <2>4. ASSUME NEW k \in 1..n, h[k - 1] \in Seq(V) PROVE h[k] = step[k][h[k - 1]]
    <3>1. k \in 0..n /\ k # 0 /\ k - 1 \in 0..n
      BY <1>1
    <3>2. g[k] = IF k = 1 THEN ss[k] ELSE g[k - 1] \o ss[k]
      BY <2>2
    <3>3. h[k] = g[k]
      BY <3>1
    <3>4. step[k][h[k - 1]] = h[k - 1] \o ss[k]
      BY <2>4 DEF FlattenStep
    <3>5. CASE k = 1
      <4>1. h[k - 1] = <<>> /\ ss[k] \in Seq(V)
        BY <1>1, <3>1, <3>5
      <4> QED BY <3>2, <3>3, <3>4, <3>5, <4>1, ConcatEmptySeq
    <3>6. CASE k # 1
      <4>1. h[k - 1] = g[k - 1]
        BY <3>1, <3>6
      <4> QED BY <3>2, <3>3, <3>4, <3>6, <4>1
    <3> QED BY <3>5, <3>6
  <2>5. h = [k \in 0..n |-> h[k]] /\ h[0] = <<>> /\ h[n] = g[n]
    BY <1>1, <1>6
  <2>6. Recurs(h, n, Seq(V), <<>>, step)
    <3> HIDE DEF h, n, step
    <3> QED BY <1>1, <1>2, <2>4, <2>5, Recursive
  <2> HIDE DEF h
  <2> QED BY <2>3, <2>5, <2>6
<1> QED BY <1>5, <1>6

LEMMA FlattenAppend ==
    ASSUME NEW V, NEW ss \in Seq(Seq(V)), NEW x \in Seq(V)
    PROVE  /\ FlattenSeq(Append(ss, x)) = FlattenSeq(ss) \o x
           /\ FlattenSeq(ss) \in Seq(V)
<1> DEFINE n == Len(ss)
           r == Append(ss, x)
<1>1. r \in Seq(Seq(V)) /\ Len(r) = n + 1 /\ n \in Nat /\ (\A k \in 1..n : r[k] = ss[k]) /\ r[n + 1] = x
  BY AppendElements
<1> HIDE DEF r
<1>2. PICK f : Recurs(f, n, Seq(V), <<>>, FlattenStep(ss, V)) /\ FlattenSeq(ss) = f[n]
  BY FlattenRecurs
<1>3. PICK g : Recurs(g, n + 1, Seq(V), <<>>, FlattenStep(r, V)) /\ FlattenSeq(r) = g[n + 1]
  BY <1>1, FlattenRecurs
<1>4. \A k \in 1..n : FlattenStep(ss, V)[k] = FlattenStep(r, V)[k]
  <2> SUFFICES ASSUME NEW k \in 1..n PROVE FlattenStep(ss, V)[k] = FlattenStep(r, V)[k]
    OBVIOUS
  <2>1. k \in 1..Len(ss) /\ k \in 1..Len(r) /\ r[k] = ss[k]
    BY <1>1
  <2>2. FlattenStep(ss, V)[k] = [v \in Seq(V) |-> v \o ss[k]] /\ FlattenStep(r, V)[k] = [v \in Seq(V) |-> v \o r[k]]
    BY <2>1 DEF FlattenStep
  <2> QED BY <2>1, <2>2
<1>5. n + 1 \in Nat /\ n <= n + 1
  BY <1>1
<1>6. \A k \in 0..n : f[k] = g[k]
  <2> HIDE DEF n
  <2> QED BY <1>1, <1>2, <1>3, <1>4, <1>5, RecursAlike
<1>7. f[n] = g[n] /\ f[n] \in Seq(V)
  <2>1. n \in 0..n
    BY <1>1
  <2> QED BY <1>2, <1>6, <2>1 DEF Recurs
<1>8. g[n + 1] = FlattenStep(r, V)[n + 1][g[n]]
  <2>1. n + 1 \in 1..n + 1 /\ (n + 1) - 1 = n
    BY <1>1
  <2> QED BY <1>3, <2>1 DEF Recurs
<1>9. FlattenStep(r, V)[n + 1][g[n]] = g[n] \o x
  <2>1. n + 1 \in 1..Len(r)
    BY <1>1
  <2>2. FlattenStep(r, V)[n + 1] = [v \in Seq(V) |-> v \o r[n + 1]]
    BY <2>1 DEF FlattenStep
  <2> QED BY <1>1, <1>7, <2>2
<1> QED BY <1>2, <1>3, <1>7, <1>8, <1>9 DEF r

LEMMA FlattenEmpty == FlattenSeq(<<>>) = <<>>
BY DEF FlattenSeq

\* Stretches.
StretchStep(s) ==
    [k \in 1..Len(s) |-> [v \in Seq(Nat) |->
        IF s[k] # T THEN v ELSE IF k > 1 /\ s[k - 1] = T THEN Longer(v) ELSE Append(v, 1)]]

\* The last run grows by one.
LEMMA LongerType == ASSUME NEW v \in Seq(Nat) PROVE Longer(v) \in Seq(Nat) /\ Len(Longer(v)) = Len(v)
<1>1. DOMAIN v = 1..Len(v) /\ Len(v) \in Nat /\ \A i \in 1..Len(v) : v[i] \in Nat
  OBVIOUS
<1>2. Longer(v) = [i \in 1..Len(v) |-> IF i = Len(v) THEN v[i] + 1 ELSE v[i]]
  BY <1>1 DEF Longer
<1>3. Longer(v) \in [1..Len(v) -> Nat]
  <2>1. ASSUME NEW i \in 1..Len(v) PROVE (IF i = Len(v) THEN v[i] + 1 ELSE v[i]) \in Nat
    <3>1. v[i] \in Nat
      BY <1>1
    <3>2. v[i] + 1 \in Nat
      BY <3>1
    <3> QED BY <3>1, <3>2
  <2> QED BY <1>2, <2>1
<1>4. Longer(v) \in Seq(Nat)
  BY <1>1, <1>3
<1>5. DOMAIN Longer(v) = 1..Len(v)
  BY <1>3
<1> QED BY <1>1, <1>4, <1>5

LEMMA LongerOfJoined ==
    ASSUME NEW v \in Seq(Nat), NEW w \in Seq(Nat), w # <<>>
    PROVE  Longer(v \o w) = v \o Longer(w)
<1> DEFINE n == Len(v)
           m == Len(w)
<1>1. n \in Nat /\ m \in Nat \ {0}
  BY EmptySeq
<1>2. v \o w \in Seq(Nat) /\ Len(v \o w) = n + m
      /\ \A i \in 1..n + m : (v \o w)[i] = IF i <= n THEN v[i] ELSE w[i - n]
  BY ConcatProperties
<1>3. Longer(w) \in Seq(Nat) /\ Len(Longer(w)) = m /\ Longer(v \o w) \in Seq(Nat) /\ Len(Longer(v \o w)) = n + m
  BY <1>2, LongerType
<1>4. v \o Longer(w) \in Seq(Nat) /\ Len(v \o Longer(w)) = n + m
      /\ \A i \in 1..n + m : (v \o Longer(w))[i] = IF i <= n THEN v[i] ELSE Longer(w)[i - n]
  <2>1. /\ v \o Longer(w) \in Seq(Nat)
        /\ Len(v \o Longer(w)) = Len(v) + Len(Longer(w))
        /\ \A i \in 1..Len(v) + Len(Longer(w)) : (v \o Longer(w))[i] = IF i <= Len(v) THEN v[i] ELSE Longer(w)[i - Len(v)]
    <3> DEFINE u == Longer(w)
    <3>1. u \in Seq(Nat)
      BY <1>3
    <3> HIDE DEF u
    <3>2. /\ v \o u \in Seq(Nat)
          /\ Len(v \o u) = Len(v) + Len(u)
          /\ \A i \in 1..Len(v) + Len(u) : (v \o u)[i] = IF i <= Len(v) THEN v[i] ELSE u[i - Len(v)]
      BY <3>1, ConcatProperties
    <3> QED BY <3>2 DEF u
  <2>2. Len(Longer(w)) = m /\ Len(v) = n
    BY <1>3
  <2> HIDE DEF n, m
  <2> QED BY <2>1, <2>2
<1>5. \A i \in 1..m : Longer(w)[i] = IF i = m THEN w[m] + 1 ELSE w[i]
  BY <1>1 DEF Longer
<1>6. \A i \in 1..n + m : Longer(v \o w)[i] = IF i = n + m THEN (v \o w)[n + m] + 1 ELSE (v \o w)[i]
  <2> DEFINE u == v \o w
  <2>1. u \in Seq(Nat) /\ Len(u) = n + m /\ DOMAIN u = 1..n + m
    BY <1>2
  <2> HIDE DEF u
  <2>2. \A i \in 1..n + m : Longer(u)[i] = IF i = n + m THEN u[n + m] + 1 ELSE u[i]
    BY <2>1 DEF Longer
  <2> QED BY <2>2 DEF u
<1> HIDE DEF n, m
<1>7. ASSUME NEW i \in 1..n + m PROVE Longer(v \o w)[i] = (v \o Longer(w))[i]
  <2>1. CASE i <= n
    BY <1>1, <1>2, <1>4, <1>6, <2>1
  <2>2. CASE ~(i <= n)
    <3>1. i - n \in 1..m /\ (i = n + m <=> i - n = m)
      BY <1>1, <2>2
    <3>2. (v \o Longer(w))[i] = IF i - n = m THEN w[m] + 1 ELSE w[i - n]
      BY <1>4, <1>5, <2>2, <3>1
    <3>3. (v \o w)[i] = w[i - n]
      BY <1>2, <2>2
    <3> QED BY <1>6, <3>1, <3>2, <3>3
  <2> QED BY <2>1, <2>2
<1> QED BY <1>3, <1>4, <1>7, SeqEqual

LEMMA StretchesRecurs ==
    ASSUME NEW V, NEW s \in Seq(V)
    PROVE  \E f : Recurs(f, Len(s), Seq(Nat), <<>>, StretchStep(s)) /\ Stretches(s) = f[Len(s)]
<1> DEFINE n == Len(s)
           Rec(g) == g = [k \in 0..Len(s) |->
                            IF k = 0 THEN <<>>
                            ELSE IF s[k] # T THEN g[k - 1]
                            ELSE IF k > 1 /\ s[k - 1] = T THEN Longer(g[k - 1])
                            ELSE Append(g[k - 1], 1)]
           g == CHOOSE h : Rec(h)
           step == StretchStep(s)
<1>1. n \in Nat /\ <<>> \in Seq(Nat)
  BY EmptySeq
<1>2. StepsIn(step, n, Seq(Nat))
  <2>1. ASSUME NEW k \in 1..n, NEW v \in Seq(Nat)
        PROVE  (IF s[k] # T THEN v ELSE IF k > 1 /\ s[k - 1] = T THEN Longer(v) ELSE Append(v, 1)) \in Seq(Nat)
    BY LongerType
  <2> QED BY <2>1 DEF StepsIn, StretchStep
<1>3. PICK f : Recurs(f, n, Seq(Nat), <<>>, step)
  <2> HIDE DEF n, step
  <2> QED BY <1>1, <1>2, Recursion
<1>4. Rec(f)
  <2>1. f = [k \in 0..n |-> f[k]] /\ f[0] = <<>>
    BY <1>3 DEF Recurs
  <2>2. ASSUME NEW k \in 1..n
        PROVE  f[k] = IF s[k] # T THEN f[k - 1]
                      ELSE IF k > 1 /\ s[k - 1] = T THEN Longer(f[k - 1])
                      ELSE Append(f[k - 1], 1)
    <3>1. k - 1 \in 0..n
      BY <1>1
    <3>2. f[k] = step[k][f[k - 1]] /\ f[k - 1] \in Seq(Nat)
      BY <1>3, <3>1 DEF Recurs
    <3> QED BY <3>2 DEF StretchStep
  <2> QED BY <2>1, <2>2
<1>5. Rec(g)
  <2> HIDE DEF Rec
  <2> QED BY <1>4
<1>6. Stretches(s) = g[n]
  BY DEF Stretches
<1> HIDE DEF g
<1>7. ASSUME NEW k \in 1..n, g[k - 1] \in Seq(Nat) PROVE g[k] = step[k][g[k - 1]]
  <2>1. k \in 0..n /\ k # 0
    BY <1>1
  <2>2. g[k] = IF s[k] # T THEN g[k - 1]
               ELSE IF k > 1 /\ s[k - 1] = T THEN Longer(g[k - 1])
               ELSE Append(g[k - 1], 1)
    BY <1>5, <2>1
  <2> QED BY <1>7, <2>2 DEF StretchStep
<1>8. g = [k \in 0..n |-> g[k]] /\ g[0] = <<>>
  BY <1>1, <1>5
<1>9. Recurs(g, n, Seq(Nat), <<>>, step)
  <2> HIDE DEF n, step
  <2> QED BY <1>1, <1>2, <1>7, <1>8, Recursive
<1> QED BY <1>6, <1>9

LEMMA StretchesAppend ==
    ASSUME NEW V, NEW s \in Seq(V), NEW x \in V
    PROVE  /\ Stretches(s) \in Seq(Nat)
           /\ Stretches(Append(s, x)) =
                IF x # T THEN Stretches(s)
                ELSE IF s # <<>> /\ s[Len(s)] = T THEN Longer(Stretches(s))
                ELSE Append(Stretches(s), 1)
<1> DEFINE n == Len(s)
           r == Append(s, x)
<1>1. r \in Seq(V) /\ Len(r) = n + 1 /\ n \in Nat /\ (\A k \in 1..n : r[k] = s[k]) /\ r[n + 1] = x
  BY AppendElements
<1> HIDE DEF r
<1>2. PICK f : Recurs(f, n, Seq(Nat), <<>>, StretchStep(s)) /\ Stretches(s) = f[n]
  BY StretchesRecurs
<1>3. PICK g : Recurs(g, n + 1, Seq(Nat), <<>>, StretchStep(r)) /\ Stretches(r) = g[n + 1]
  BY <1>1, StretchesRecurs
<1>4. \A k \in 1..n : StretchStep(s)[k] = StretchStep(r)[k]
  <2>1. ASSUME NEW k \in 1..n PROVE r[k] = s[k] /\ (k > 1 => r[k - 1] = s[k - 1]) /\ k \in 1..n + 1
    BY <1>1
  <2> QED BY <1>1, <2>1 DEF StretchStep
<1>5. n + 1 \in Nat /\ n <= n + 1
  BY <1>1
<1>6. \A k \in 0..n : f[k] = g[k]
  <2> HIDE DEF n
  <2> QED BY <1>1, <1>2, <1>3, <1>4, <1>5, RecursAlike
<1>7. f[n] = g[n] /\ f[n] \in Seq(Nat)
  BY <1>1, <1>2, <1>6 DEF Recurs
<1>8. g[n + 1] = StretchStep(r)[n + 1][g[n]]
  <2>1. n + 1 \in 1..n + 1 /\ (n + 1) - 1 = n
    BY <1>1
  <2> QED BY <1>3, <2>1 DEF Recurs
<1>9. StretchStep(r)[n + 1][g[n]] =
          IF x # T THEN g[n] ELSE IF n + 1 > 1 /\ r[n] = T THEN Longer(g[n]) ELSE Append(g[n], 1)
  BY <1>1, <1>7 DEF StretchStep
<1>10. s # <<>> /\ s[n] = T <=> n + 1 > 1 /\ r[n] = T
  BY <1>1, EmptySeq
<1> QED BY <1>2, <1>3, <1>7, <1>8, <1>9, <1>10 DEF r

LEMMA StretchesEmpty == Stretches(<<>>) = <<>>
<1>1. <<>> \in Seq(Nat) /\ Len(<<>>) = 0
  BY EmptySeq
<1>2. PICK f : Recurs(f, 0, Seq(Nat), <<>>, StretchStep(<<>>)) /\ Stretches(<<>>) = f[0]
  BY <1>1, StretchesRecurs
<1> QED BY <1>2 DEF Recurs

-----------------------------------------------------------------------------
(* Runs of characters, of joined texts and of lines.                       *)

Raw == Pieces \cup {RET}
EndsIn(s, c) == s # <<>> /\ s[Len(s)] = c

LEMMA JoinAppend ==
    ASSUME NEW V, NEW b \in Seq(V), NEW u \in Seq(V), NEW x \in V
    PROVE  b \o Append(u, x) = Append(b \o u, x) /\ b \o u \in Seq(V)
<1>1. b \o u \in Seq(V)
  OBVIOUS
<1>2. Append(u, x) = u \o <<x>> /\ Append(b \o u, x) = (b \o u) \o <<x>> /\ <<x>> \in Seq(V)
  BY <1>1, AppendIsConcat
<1> QED BY <1>1, <1>2, ConcatAssociative

LEMMA JoinEnds ==
    ASSUME NEW V, NEW b \in Seq(V), NEW u \in Seq(V), ~EndsIn(b, T)
    PROVE  EndsIn(b \o u, T) <=> EndsIn(u, T)
<1>1. CASE u = <<>>
  <2>1. b \o u = b
    BY <1>1, ConcatEmptySeq
  <2> QED BY <1>1, <2>1 DEF EndsIn
<1>2. CASE u # <<>>
  <2>1. Len(u) \in Nat \ {0} /\ Len(b) \in Nat
    BY <1>2, EmptySeq
  <2>2. Len(b \o u) = Len(b) + Len(u) /\ (b \o u)[Len(b) + Len(u)] = u[Len(u)]
    BY <2>1
  <2>3. b \o u # <<>>
    BY <2>1, <2>2
  <2> QED BY <1>2, <2>2, <2>3 DEF EndsIn
<1> QED BY <1>1, <1>2

JoinsRuns(b, u) == Stretches(b \o u) = Stretches(b) \o Stretches(u)

\* Texts joined after no character have the runs of both.
LEMMA StretchesJoin ==
    ASSUME NEW V, NEW b \in Seq(V), ~EndsIn(b, T), NEW u \in Seq(V)
    PROVE  JoinsRuns(b, u)
<1> DEFINE S == {v \in Seq(V) : JoinsRuns(b, v) /\ (EndsIn(v, T) => Stretches(v) # <<>>)}
<1>1. <<>> \in S
  <2>1. b \o <<>> = b /\ Stretches(b) \o <<>> = Stretches(b) /\ <<>> \in Seq(V)
    <3>1. ASSUME V # {} PROVE Stretches(b) \in Seq(Nat)
      BY <3>1, StretchesAppend
    <3>2. ASSUME V = {} PROVE Stretches(b) \in Seq(Nat)
      <4>1. b = <<>>
        BY <3>2
      <4> QED BY <4>1, StretchesEmpty, EmptySeq
    <3> QED BY <3>1, <3>2, ConcatEmptySeq, EmptySeq
  <2> QED BY <2>1, StretchesEmpty DEF JoinsRuns, EndsIn
<1>2. ASSUME NEW v \in Seq(V), NEW x \in V, v \in S PROVE Append(v, x) \in S
  <2> DEFINE A == Stretches(b)
             B == Stretches(v)
             C == Stretches(Append(v, x))
             D == Stretches(b \o Append(v, x))
  <2>1. b \o Append(v, x) = Append(b \o v, x) /\ b \o v \in Seq(V) /\ Append(v, x) \in Seq(V)
    BY JoinAppend
  <2>2. EndsIn(b \o v, T) <=> EndsIn(v, T)
    BY JoinEnds
  <2>3. A \in Seq(Nat) /\ B \in Seq(Nat)
    BY StretchesAppend
  <2>4. C = IF x # T THEN B ELSE IF EndsIn(v, T) THEN Longer(B) ELSE Append(B, 1)
    BY StretchesAppend DEF EndsIn
  <2>5. D = IF x # T THEN A \o B ELSE IF EndsIn(v, T) THEN Longer(A \o B) ELSE Append(A \o B, 1)
    <3> DEFINE w == b \o v
    <3>1. w \in Seq(V) /\ Stretches(w) = A \o B
      BY <1>2, <2>1 DEF JoinsRuns
    <3>2. D = Stretches(Append(w, x))
      BY <2>1
    <3>3. EndsIn(w, T) <=> EndsIn(v, T)
      BY <2>2
    <3> HIDE DEF w
    <3>4. Stretches(Append(w, x)) =
            IF x # T THEN Stretches(w) ELSE IF EndsIn(w, T) THEN Longer(Stretches(w)) ELSE Append(Stretches(w), 1)
      BY <3>1, StretchesAppend DEF EndsIn
    <3> HIDE DEF A, B, D
    <3> QED BY <3>1, <3>2, <3>3, <3>4
  <2>6. EndsIn(v, T) => B # <<>>
    BY <1>2
  <2>7. EndsIn(Append(v, x), T) <=> x = T
    BY AppendElements DEF EndsIn
  <2> HIDE DEF A, B, C, D
  <2>8. D = A \o C
    <3>1. CASE x # T
      BY <2>4, <2>5, <3>1
    <3>2. CASE x = T /\ EndsIn(v, T)
      <4>1. Longer(A \o B) = A \o Longer(B)
        BY <2>3, <2>6, <3>2, LongerOfJoined
      <4> QED BY <2>4, <2>5, <3>2, <4>1
    <3>3. CASE x = T /\ ~EndsIn(v, T)
      <4>1. A \o Append(B, 1) = Append(A \o B, 1)
        BY <2>3, JoinAppend
      <4> QED BY <2>4, <2>5, <3>3, <4>1
    <3> QED BY <3>1, <3>2, <3>3
  <2>9. x = T => C # <<>>
    <3>1. CASE EndsIn(v, T) /\ x = T
      <4>1. Len(Longer(B)) = Len(B) /\ Len(B) # 0 /\ Len(<<>>) = 0
        BY <2>3, <2>6, <3>1, LongerType, EmptySeq
      <4> QED BY <2>4, <3>1, <4>1
    <3>2. CASE ~EndsIn(v, T) /\ x = T
      <4>1. Append(B, 1) # <<>>
        <5>1. 1 \in Nat
          OBVIOUS
        <5> QED BY <2>3, <5>1, AppendElements
      <4> QED BY <2>4, <3>2, <4>1
    <3> QED BY <3>1, <3>2
  <2>10. JoinsRuns(b, Append(v, x))
    BY <2>8 DEF A, C, D, JoinsRuns
  <2> QED BY <2>1, <2>7, <2>9, <2>10 DEF C
<1>3. \A v \in Seq(V) : \A x \in V : v \in S => Append(v, x) \in S
  BY <1>2
<1> HIDE DEF S
<1>4. u \in S
  BY <1>1, <1>3, SeqInduction
<1> QED BY <1>4 DEF S

\* Lines.
LineStep(s) ==
    [k \in 1..Len(s) |-> [v \in Seq(Pieces) |->
        IF s[k] = NL /\ k > 1 /\ s[k - 1] = RET THEN v ELSE Append(v, IF s[k] = RET THEN NL ELSE s[k])]]

LEMMA LinesRecurs ==
    ASSUME NEW s \in Seq(Raw)
    PROVE  \E f : Recurs(f, Len(s), Seq(Pieces), <<>>, LineStep(s)) /\ Lines(s) = f[Len(s)]
<1> DEFINE n == Len(s)
           Rec(g) == g = [k \in 0..Len(s) |->
                            IF k = 0 THEN <<>>
                            ELSE IF s[k] = NL /\ k > 1 /\ s[k - 1] = RET THEN g[k - 1]
                            ELSE Append(g[k - 1], IF s[k] = RET THEN NL ELSE s[k])]
           g == CHOOSE h : Rec(h)
           step == LineStep(s)
<1>1. n \in Nat /\ <<>> \in Seq(Pieces) /\ \A k \in 1..n : (IF s[k] = RET THEN NL ELSE s[k]) \in Pieces
  <2>1. ASSUME NEW k \in 1..n PROVE (IF s[k] = RET THEN NL ELSE s[k]) \in Pieces
    <3>1. s[k] \in Raw
      OBVIOUS
    <3> QED BY <3>1 DEF Raw, Pieces
  <2> QED BY <2>1, EmptySeq
<1>2. StepsIn(step, n, Seq(Pieces))
  <2>1. ASSUME NEW k \in 1..n, NEW v \in Seq(Pieces)
        PROVE  (IF s[k] = NL /\ k > 1 /\ s[k - 1] = RET THEN v
                ELSE Append(v, IF s[k] = RET THEN NL ELSE s[k])) \in Seq(Pieces)
    BY <1>1, AppendElements
  <2> QED BY <2>1 DEF StepsIn, LineStep
<1>3. PICK f : Recurs(f, n, Seq(Pieces), <<>>, step)
  <2> HIDE DEF n, step
  <2> QED BY <1>1, <1>2, Recursion
<1>4. Rec(f)
  <2>1. f = [k \in 0..n |-> f[k]] /\ f[0] = <<>>
    BY <1>3 DEF Recurs
  <2>2. ASSUME NEW k \in 1..n
        PROVE  f[k] = IF s[k] = NL /\ k > 1 /\ s[k - 1] = RET THEN f[k - 1]
                      ELSE Append(f[k - 1], IF s[k] = RET THEN NL ELSE s[k])
    <3>1. k - 1 \in 0..n
      BY <1>1
    <3>2. f[k] = step[k][f[k - 1]] /\ f[k - 1] \in Seq(Pieces)
      BY <1>3, <3>1 DEF Recurs
    <3> QED BY <3>2 DEF LineStep
  <2> QED BY <2>1, <2>2
<1>5. Rec(g)
  <2> HIDE DEF Rec
  <2> QED BY <1>4
<1>6. Lines(s) = g[n]
  BY DEF Lines
<1> HIDE DEF g
<1>7. ASSUME NEW k \in 1..n, g[k - 1] \in Seq(Pieces) PROVE g[k] = step[k][g[k - 1]]
  <2>1. k \in 0..n /\ k # 0
    BY <1>1
  <2>2. g[k] = IF s[k] = NL /\ k > 1 /\ s[k - 1] = RET THEN g[k - 1]
               ELSE Append(g[k - 1], IF s[k] = RET THEN NL ELSE s[k])
    BY <1>5, <2>1
  <2> QED BY <1>7, <2>2 DEF LineStep
<1>8. g = [k \in 0..n |-> g[k]] /\ g[0] = <<>>
  BY <1>1, <1>5
<1>9. Recurs(g, n, Seq(Pieces), <<>>, step)
  <2> HIDE DEF n, step
  <2> QED BY <1>1, <1>2, <1>7, <1>8, Recursive
<1> QED BY <1>6, <1>9

LEMMA LinesAppend ==
    ASSUME NEW s \in Seq(Raw), NEW x \in Raw
    PROVE  /\ Lines(s) \in Seq(Pieces)
           /\ Lines(Append(s, x)) =
                IF x = NL /\ EndsIn(s, RET) THEN Lines(s) ELSE Append(Lines(s), IF x = RET THEN NL ELSE x)
<1> DEFINE n == Len(s)
           r == Append(s, x)
<1>1. r \in Seq(Raw) /\ Len(r) = n + 1 /\ n \in Nat /\ (\A k \in 1..n : r[k] = s[k]) /\ r[n + 1] = x
  BY AppendElements
<1> HIDE DEF r
<1>2. PICK f : Recurs(f, n, Seq(Pieces), <<>>, LineStep(s)) /\ Lines(s) = f[n]
  BY LinesRecurs
<1>3. PICK g : Recurs(g, n + 1, Seq(Pieces), <<>>, LineStep(r)) /\ Lines(r) = g[n + 1]
  BY <1>1, LinesRecurs
<1>4. \A k \in 1..n : LineStep(s)[k] = LineStep(r)[k]
  <2>1. ASSUME NEW k \in 1..n PROVE r[k] = s[k] /\ (k > 1 => r[k - 1] = s[k - 1]) /\ k \in 1..n + 1
    BY <1>1
  <2> QED BY <1>1, <2>1 DEF LineStep
<1>5. n + 1 \in Nat /\ n <= n + 1
  BY <1>1
<1>6. \A k \in 0..n : f[k] = g[k]
  <2> HIDE DEF n
  <2> QED BY <1>1, <1>2, <1>3, <1>4, <1>5, RecursAlike
<1>7. f[n] = g[n] /\ f[n] \in Seq(Pieces)
  BY <1>1, <1>2, <1>6 DEF Recurs
<1>8. g[n + 1] = LineStep(r)[n + 1][g[n]]
  <2>1. n + 1 \in 1..n + 1 /\ (n + 1) - 1 = n
    BY <1>1
  <2> QED BY <1>3, <2>1 DEF Recurs
<1>9. LineStep(r)[n + 1][g[n]] =
          IF x = NL /\ n + 1 > 1 /\ r[n] = RET THEN g[n] ELSE Append(g[n], IF x = RET THEN NL ELSE x)
  BY <1>1, <1>7 DEF LineStep
<1>10. EndsIn(s, RET) <=> n + 1 > 1 /\ r[n] = RET
  BY <1>1, EmptySeq DEF EndsIn
<1> QED BY <1>2, <1>3, <1>7, <1>8, <1>9, <1>10 DEF r

LEMMA LinesEmpty == Lines(<<>>) = <<>>
<1>1. <<>> \in Seq(Raw) /\ Len(<<>>) = 0
  BY EmptySeq
<1>2. PICK f : Recurs(f, 0, Seq(Pieces), <<>>, LineStep(<<>>)) /\ Lines(<<>>) = f[0]
  BY <1>1, LinesRecurs
<1> QED BY <1>2 DEF Recurs

\* What the lines of a page keep of it.
KeepsRuns(s) ==
    /\ Lines(s) \in Seq(Pieces) /\ Stretches(Lines(s)) = Stretches(s)
    /\ EndsIn(Lines(s), T) <=> EndsIn(s, T)
    /\ HasText(Lines(s)) => HasText(s)

LEMMA HasTextAppend ==
    ASSUME NEW V, NEW s \in Seq(V), NEW x \in V
    PROVE  HasText(Append(s, x)) <=> HasText(s) \/ x = T
<1> DEFINE r == Append(s, x)
<1>1. Len(r) = Len(s) + 1 /\ Len(s) \in Nat /\ (\A k \in 1..Len(s) : r[k] = s[k]) /\ r[Len(s) + 1] = x
  BY AppendElements
<1>2. DOMAIN r = 1..Len(s) + 1 /\ DOMAIN s = 1..Len(s)
  OBVIOUS
<1> HIDE DEF r
<1>3. HasText(r) <=> HasText(s) \/ x = T
  BY <1>1, <1>2 DEF HasText
<1> QED BY <1>3 DEF r

LEMMA LinesKeep == ASSUME NEW u \in Seq(Raw) PROVE KeepsRuns(u)
<1> DEFINE S == {s \in Seq(Raw) : KeepsRuns(s)}
<1>1. <<>> \in S
  BY LinesEmpty, EmptySeq DEF KeepsRuns, EndsIn, HasText
<1>2. ASSUME NEW s \in Seq(Raw), NEW x \in Raw, s \in S PROVE Append(s, x) \in S
  <2> DEFINE l == Lines(s)
             y == IF x = RET THEN NL ELSE x
             r == Append(s, x)
  <2>1. T # NL /\ T # RET /\ NL # RET /\ y \in Pieces
    BY DEF T, NL, RET, Raw, Pieces
  <2>2. KeepsRuns(s) /\ r \in Seq(Raw) /\ l \in Seq(Pieces) /\ l \in Seq(Raw) /\ y \in Raw
    BY <1>2, <2>1 DEF KeepsRuns, Raw
  <2>3. Lines(r) = IF x = NL /\ EndsIn(s, RET) THEN l ELSE Append(l, y)
    BY LinesAppend
  <2>4. Stretches(r) = IF x # T THEN Stretches(s)
                       ELSE IF EndsIn(s, T) THEN Longer(Stretches(s)) ELSE Append(Stretches(s), 1)
    BY StretchesAppend DEF EndsIn
  <2>5. (EndsIn(r, T) <=> x = T) /\ (HasText(r) <=> HasText(s) \/ x = T)
    BY AppendElements, HasTextAppend DEF EndsIn
  <2>6. y = T <=> x = T
    BY <2>1
  <2>7. CASE x = NL /\ EndsIn(s, RET)
    <3>1. ~EndsIn(s, T) /\ x # T
      BY <2>1, <2>7 DEF EndsIn
    <3>2. Lines(r) = l
      BY <2>3, <2>7
    <3> HIDE DEF r
    <3> QED BY <2>2, <2>4, <2>5, <3>1, <3>2 DEF KeepsRuns, r
  <2>8. CASE ~(x = NL /\ EndsIn(s, RET))
    <3> DEFINE m == Append(l, y)
    <3>1. Lines(r) = m
      BY <2>3, <2>8
    <3> HIDE DEF l, y
    <3>2. Stretches(m) = IF y # T THEN Stretches(l)
                         ELSE IF EndsIn(l, T) THEN Longer(Stretches(l)) ELSE Append(Stretches(l), 1)
      BY <2>2, StretchesAppend DEF EndsIn
    <3>3. (EndsIn(m, T) <=> y = T) /\ (HasText(m) <=> HasText(l) \/ y = T) /\ m \in Seq(Pieces)
      BY <2>1, <2>2, AppendElements, HasTextAppend DEF EndsIn
    <3>4. Stretches(l) = Stretches(s) /\ (EndsIn(l, T) <=> EndsIn(s, T)) /\ (HasText(l) => HasText(s))
      BY <2>2 DEF KeepsRuns, l
    <3> HIDE DEF m, r
    <3>5. Stretches(m) = Stretches(r)
      BY <2>4, <2>6, <3>2, <3>4
    <3>6. KeepsRuns(r)
      BY <2>5, <2>6, <3>1, <3>3, <3>4, <3>5 DEF KeepsRuns
    <3> QED BY <2>2, <3>6 DEF r
  <2> QED BY <2>7, <2>8
<1>3. \A s \in Seq(Raw) : \A x \in Raw : s \in S => Append(s, x) \in S
  BY <1>2
<1> HIDE DEF S
<1>4. u \in S
  BY <1>1, <1>3, SeqInduction
<1> QED BY <1>4 DEF S

LEMMA SeparatedIs ==
    ASSUME NEW b \in Seq(Pieces)
    PROVE  Separated(b) \in Seq(Pieces) /\ ~EndsIn(Separated(b), T) /\ Stretches(Separated(b)) = Stretches(b)
<1>0. T # NL /\ NL \in Pieces
  BY DEF T, NL, Pieces
<1>1. CASE b # <<>> /\ b[Len(b)] # NL
  <2>1. Separated(b) = Append(b, NL)
    BY <1>1 DEF Separated
  <2>2. Append(b, NL) \in Seq(Pieces) /\ ~EndsIn(Append(b, NL), T)
    BY <1>0, AppendElements DEF EndsIn
  <2>3. Stretches(Append(b, NL)) = Stretches(b)
    BY <1>0, StretchesAppend
  <2> QED BY <2>1, <2>2, <2>3
<1>2. CASE ~(b # <<>> /\ b[Len(b)] # NL)
  <2>1. Separated(b) = b
    BY <1>2 DEF Separated
  <2> QED BY <1>0, <1>2, <2>1 DEF EndsIn
<1> QED BY <1>1, <1>2

-----------------------------------------------------------------------------
(* The pages of a PDF.                                                     *)

PageRuns(b, n) == [i \in 1..n |-> Stretches(b[i])]

PagesRead ==
    /\ book \in Seq(Seq(Raw)) /\ page \in 0..Len(book) /\ textPages \in 0..page
    /\ body \in Seq(Pieces) /\ Len(body) <= MaxText
    /\ Stretches(body) = FlattenSeq(PageRuns(book, page))
    /\ textPages = page => \A i \in 1..page : HasText(book[i])

PagesInv ==
    /\ dpc = "idle" => body = <<>> /\ page = 0 /\ textPages = 0
    /\ dpc = "pages" => PagesRead
    /\ dpc = "pages_done" => body \in Seq(Pieces)
    /\ PagesAreComplete

LEMMA RunsAre ==
    ASSUME NEW b \in Seq(Seq(Raw)), NEW n \in Nat, n < Len(b)
    PROVE  /\ PageRuns(b, n + 1) = Append(PageRuns(b, n), Stretches(b[n + 1]))
           /\ PageRuns(b, n) \in Seq(Seq(Nat)) /\ Stretches(b[n + 1]) \in Seq(Nat)
<1>1. ASSUME NEW i \in 1..n + 1 PROVE Stretches(b[i]) \in Seq(Nat)
  <2>1. b[i] \in Seq(Raw) /\ NL \in Raw
    BY DEF Raw, Pieces
  <2> QED BY <2>1, StretchesAppend
<1> DEFINE r == PageRuns(b, n)
           x == Stretches(b[n + 1])
<1>2. r \in [1..n -> Seq(Nat)] /\ x \in Seq(Nat) /\ \A i \in 1..n : r[i] = Stretches(b[i])
  BY <1>1 DEF PageRuns
<1>3. r \in Seq(Seq(Nat)) /\ Len(r) = n
  BY <1>2
<1>4. Append(r, x) \in Seq(Seq(Nat)) /\ Len(Append(r, x)) = n + 1
      /\ (\A i \in 1..n : Append(r, x)[i] = r[i]) /\ Append(r, x)[n + 1] = x
  <2> HIDE DEF r, x
  <2> QED BY <1>2, <1>3, AppendElements
<1>5. DOMAIN Append(r, x) = 1..n + 1 /\ Append(r, x) = [i \in 1..n + 1 |-> Append(r, x)[i]]
  BY <1>4
<1>6. \A i \in 1..n + 1 : Append(r, x)[i] = Stretches(b[i])
  <2>1. ASSUME NEW i \in 1..n + 1, i # n + 1 PROVE i \in 1..n
    BY <2>1
  <2> HIDE DEF r
  <2> QED BY <1>2, <1>4, <2>1
<1>7. Append(r, x) = [i \in 1..n + 1 |-> Stretches(b[i])]
  <2> DEFINE a == Append(r, x)
  <2> HIDE DEF a
  <2>1. a = [i \in 1..n + 1 |-> a[i]] /\ \A i \in 1..n + 1 : a[i] = Stretches(b[i])
    BY <1>5, <1>6 DEF a
  <2>2. a = [i \in 1..n + 1 |-> Stretches(b[i])]
    BY <2>1
  <2> QED BY <2>2 DEF a
<1> QED BY <1>2, <1>3, <1>7 DEF PageRuns

LEMMA PageIsRead ==
    ASSUME PagesInv, dpc = "pages", ReadPage, dpc' = "pages"
    PROVE  PagesRead'
<1> DEFINE text == book[page + 1]
           sep == Separated(body)
           lines == Lines(text)
<1>1. PagesRead /\ page < Len(book) /\ page \in Nat /\ Len(book) \in Nat
  BY DEF PagesInv, PagesRead, ReadPage
<1>2. page' = page + 1 /\ body' = sep \o lines /\ book' = book
      /\ textPages' = textPages + (IF HasText(lines) THEN 1 ELSE 0) /\ ~(Len(sep \o lines) > MaxText)
  BY DEF ReadPage, DocumentFails
<1>3. text \in Seq(Raw)
  BY <1>1 DEF PagesRead
<1>4. KeepsRuns(text)
  <2> HIDE DEF text
  <2> QED BY <1>3, LinesKeep
<1>5. sep \in Seq(Pieces) /\ ~EndsIn(sep, T) /\ Stretches(sep) = Stretches(body)
  BY <1>1, SeparatedIs DEF PagesRead
<1>6. lines \in Seq(Pieces) /\ Stretches(lines) = Stretches(text) /\ (HasText(lines) => HasText(text))
  BY <1>4 DEF KeepsRuns
<1>7. JoinsRuns(sep, lines)
  <2> HIDE DEF sep, lines
  <2> QED BY <1>5, <1>6, StretchesJoin
<1>8. Stretches(body') = FlattenSeq(PageRuns(book, page + 1))
  <2> DEFINE r == PageRuns(book, page)
             x == Stretches(text)
  <2>1. PageRuns(book, page + 1) = Append(r, x) /\ r \in Seq(Seq(Nat)) /\ x \in Seq(Nat)
    BY <1>1, RunsAre DEF PagesRead
  <2>2. FlattenSeq(Append(r, x)) = FlattenSeq(r) \o x
    <3> HIDE DEF r, x
    <3> QED BY <2>1, FlattenAppend
  <2>3. Stretches(sep \o lines) = FlattenSeq(r) \o x
    BY <1>1, <1>5, <1>6, <1>7 DEF PagesRead, JoinsRuns
  <2> QED BY <1>2, <2>1, <2>2, <2>3
<1>9. body' \in Seq(Pieces) /\ Len(body') <= MaxText
  <2>1. sep \o lines \in Seq(Pieces)
    <3> HIDE DEF sep, lines
    <3> QED BY <1>5, <1>6
  <2>2. Len(sep \o lines) \in Nat /\ MaxText \in Nat
    <3> DEFINE j == sep \o lines
    <3> HIDE DEF j
    <3> QED BY <2>1, DocumentAssumption DEF j
  <2> QED BY <1>2, <2>1, <2>2
<1>10. textPages' \in 0..page' /\ (textPages' = page' => textPages = page /\ HasText(text))
  BY <1>1, <1>2, <1>6 DEF PagesRead
<1>11. textPages' = page' => \A i \in 1..page' : HasText(book'[i])
  BY <1>1, <1>2, <1>10 DEF PagesRead
<1>12. page' \in 0..Len(book')
  BY <1>1, <1>2
<1> QED BY <1>1, <1>2, <1>8, <1>9, <1>10, <1>11, <1>12 DEF PagesRead

LEMMA PagesStep == ASSUME PagesInv, [Next]_vars PROVE PagesInv'
<1>1. CASE UNCHANGED docVars
  <2>1. UNCHANGED <<dpc, body, book, page, textPages>>
    BY <1>1 DEF docVars, pdf
  <2> QED BY <2>1 DEF PagesInv, PagesRead, PagesAreComplete, PageRuns
<1>2. CASE DocumentFails
  BY <1>2 DEF DocumentFails, PagesInv, PagesAreComplete
<1>3. CASE DocxBegin \/ Unpack \/ Refuse \/ Eof \/ End \/ Text \/ \E e \in Elements : Start(e) \/ Empty(e)
  <2>1. dpc' \notin {"idle", "pages", "pages_done"}
    BY <1>3 DEF DocxBegin, Unpack, Refuse, Eof, End, Text, Start, Empty, DocumentFails, Extracts
  <2> QED BY <2>1 DEF PagesInv, PagesAreComplete
<1>4. CASE \E b \in Books : PdfBegin(b)
  <2>1. PICK b \in Books : PdfBegin(b)
    BY <1>4
  <2>2. dpc = "idle" /\ book' = b /\ dpc' \in {"failed", "pages"} /\ UNCHANGED <<body, page, textPages>>
    BY <2>1 DEF PdfBegin
  <2>3. body' = <<>> /\ page' = 0 /\ textPages' = 0 /\ book' \in Seq(Seq(Raw))
    BY <2>2, DocumentAssumption DEF PagesInv, Raw
  <2>4. PageRuns(book', 0) = <<>> /\ Len(book') \in Nat
    BY <2>3 DEF PageRuns
  <2>5. Stretches(body') = FlattenSeq(PageRuns(book', page'))
    BY <2>3, <2>4, StretchesEmpty, FlattenEmpty
  <2>6. body' \in Seq(Pieces) /\ Len(body') <= MaxText
    BY <2>3, EmptySeq, DocumentAssumption
  <2>7. PagesRead'
    BY <2>3, <2>4, <2>5, <2>6 DEF PagesRead
  <2> QED BY <2>2, <2>7 DEF PagesInv, PagesAreComplete
<1>5. CASE ReadPage
  <2>1. dpc = "pages" /\ (dpc' = "pages" \/ dpc' = "failed")
    BY <1>5 DEF ReadPage, DocumentFails
  <2>2. CASE dpc' = "pages"
    <3>1. PagesRead'
      BY <1>5, <2>1, <2>2, PageIsRead
    <3> QED BY <2>2, <3>1 DEF PagesInv, PagesAreComplete
  <2>3. CASE dpc' = "failed"
    BY <2>3 DEF PagesInv, PagesAreComplete
  <2> QED BY <2>1, <2>2, <2>3
<1>6. CASE PagesEnd
  <2>1. dpc = "pages" /\ page = Len(book) /\ UNCHANGED <<body, book, page, textPages>>
        /\ dpc' = IF textPages = Len(book) THEN "pages_done" ELSE "failed"
    BY <1>6 DEF PagesEnd, pdf
  <2>2. PagesRead
    BY <2>1 DEF PagesInv
  <2>3. DOMAIN book = 1..page /\ PageRuns(book, page) = [i \in DOMAIN book |-> Stretches(book[i])]
    BY <2>1, <2>2 DEF PagesRead, PageRuns
  <2>4. PagesAreComplete'
    <3> SUFFICES ASSUME textPages = page
        PROVE  /\ \A i \in DOMAIN book : HasText(book[i])
               /\ Stretches(body) = FlattenSeq([i \in DOMAIN book |-> Stretches(book[i])])
               /\ Len(body) <= MaxText
      BY <2>1 DEF PagesAreComplete
    <3> QED BY <2>2, <2>3 DEF PagesRead
  <2>5. body' \in Seq(Pieces)
    BY <2>1, <2>2 DEF PagesRead
  <2> QED BY <2>1, <2>4, <2>5 DEF PagesInv
<1>7. CASE PageFails
  BY <1>2, <1>7 DEF PageFails
<1>8. DocumentNext => PagesInv'
  BY <1>3, <1>4, <1>5, <1>6, <1>7 DEF DocumentNext
<1>9. CASE Next
  BY <1>1, <1>2, <1>8, <1>9 DEF Next, ReadsText, ReadsDocument, EncodeDocument, ReadsMedia, RunsDecoder, RunsModel
<1>10. CASE UNCHANGED vars
  BY <1>1, <1>10 DEF vars
<1> QED BY <1>9, <1>10

\* The pages' text is whole in every reachable state: no run of characters is
\* lost, split or joined to the next page's (documents.rs:pdf).
THEOREM PagesAreWhole == Spec => []PagesAreComplete
<1>1. Init => PagesInv
  BY DEF Init, DocumentInit, PagesInv, PagesAreComplete
<1>2. PagesInv /\ [Next]_vars => PagesInv'
  BY PagesStep
<1>3. PagesInv => PagesAreComplete
  BY DEF PagesInv
<1> QED BY <1>1, <1>2, <1>3, PTL DEF Spec

-----------------------------------------------------------------------------
(* Beginnings of sequences.                                                *)

Upto(s, n) == SubSeq(s, 1, n)

LEMMA UptoIs ==
    ASSUME NEW V, NEW s \in Seq(V), NEW n \in 0..Len(s)
    PROVE  Upto(s, n) \in Seq(V) /\ Len(Upto(s, n)) = n /\ \A i \in 1..n : Upto(s, n)[i] = s[i]
<1>1. n \in Int /\ Len(s) \in Nat /\ \A i \in 1..n : s[i] \in V
  OBVIOUS
<1>2. /\ SubSeq(s, 1, n) \in Seq(V)
      /\ Len(SubSeq(s, 1, n)) = IF 1 <= n THEN n - 1 + 1 ELSE 0
      /\ \A i \in 1..n - 1 + 1 : SubSeq(s, 1, n)[i] = s[1 + i - 1]
  BY <1>1, SubSeqProperties
<1>3. n - 1 + 1 = n /\ (~(1 <= n) => n = 0) /\ \A i \in 1..n : 1 + i - 1 = i
  BY <1>1
<1> QED BY <1>2, <1>3 DEF Upto

LEMMA UptoNext ==
    ASSUME NEW V, NEW s \in Seq(V), NEW n \in 0..Len(s), n < Len(s)
    PROVE  n + 1 \in 0..Len(s) /\ s[n + 1] \in V /\ Upto(s, n + 1) = Append(Upto(s, n), s[n + 1])
<1> DEFINE a == Upto(s, n + 1)
           b == Upto(s, n)
           c == Append(b, s[n + 1])
<1>1. n + 1 \in 0..Len(s) /\ s[n + 1] \in V /\ n \in Nat
  OBVIOUS
<1>2. a \in Seq(V) /\ Len(a) = n + 1 /\ \A i \in 1..n + 1 : a[i] = s[i]
  BY <1>1, UptoIs
<1>3. b \in Seq(V) /\ Len(b) = n /\ \A i \in 1..n : b[i] = s[i]
  BY UptoIs
<1> HIDE DEF a, b
<1>4. c \in Seq(V) /\ Len(c) = n + 1 /\ (\A i \in 1..n : c[i] = b[i]) /\ c[n + 1] = s[n + 1]
  BY <1>1, <1>3, AppendElements
<1> HIDE DEF c
<1>5. \A i \in 1..Len(a) : a[i] = c[i]
  <2>1. ASSUME NEW i \in 1..n + 1 PROVE a[i] = c[i]
    <3>1. i \in 1..n \/ i = n + 1
      BY <1>1
    <3> QED BY <1>1, <1>2, <1>3, <1>4, <3>1
  <2> QED BY <1>2, <2>1
<1>6. a = c
  BY <1>2, <1>4, <1>5, SeqEqual
<1> QED BY <1>1, <1>6 DEF a, b, c

LEMMA UptoAll ==
    ASSUME NEW V, NEW s \in Seq(V)
    PROVE  Upto(s, Len(s)) = s /\ Upto(s, 0) = <<>> /\ Len(s) \in 0..Len(s) /\ 0 \in 0..Len(s)
BY SubSeqFull, SubSeqEmpty DEF Upto

LEMMA UptoOfAppend ==
    ASSUME NEW V, NEW s \in Seq(V), NEW x \in V, NEW n \in 0..Len(s)
    PROVE  Upto(Append(s, x), n) = Upto(s, n)
<1> DEFINE r == Append(s, x)
           a == Upto(r, n)
           b == Upto(s, n)
<1>1. r \in Seq(V) /\ Len(r) = Len(s) + 1 /\ Len(s) \in Nat /\ \A i \in 1..Len(s) : r[i] = s[i]
  BY AppendElements
<1> HIDE DEF r
<1>2. n \in 0..Len(r) /\ \A i \in 1..n : i \in 1..Len(s)
  BY <1>1
<1>3. a \in Seq(V) /\ Len(a) = n /\ \A i \in 1..n : a[i] = r[i]
  BY <1>1, <1>2, UptoIs
<1>4. b \in Seq(V) /\ Len(b) = n /\ \A i \in 1..n : b[i] = s[i]
  BY UptoIs
<1> HIDE DEF a, b
<1>5. a = b
  BY <1>1, <1>2, <1>3, <1>4, SeqEqual
<1> QED BY <1>5 DEF a, b, r

\* What is joined of the first sequences is how all of them joined begins.
Begins(f, ss, n, V) == \E t \in Seq(V) : f = FlattenSeq(Upto(ss, n)) \o t

LEMMA FlattenBegins ==
    ASSUME NEW V, NEW ss \in Seq(Seq(V)), NEW n \in 0..Len(ss)
    PROVE  Begins(FlattenSeq(ss), ss, n, V)
<1> DEFINE S == {s \in Seq(Seq(V)) : \A m \in 0..Len(s) : Begins(FlattenSeq(s), s, m, V)}
<1>1. \A s \in Seq(Seq(V)) : FlattenSeq(s) \in Seq(V)
  <2>1. <<>> \in Seq(V)
    BY EmptySeq
  <2> QED BY <2>1, FlattenAppend
<1>2. <<>> \in S
  <2>1. <<>> \in Seq(Seq(V)) /\ Len(<<>>) = 0 /\ <<>> \in Seq(V)
    BY EmptySeq
  <2>2. Upto(<<>>, 0) = <<>>
    BY <2>1, UptoAll
  <2>3. FlattenSeq(<<>>) = FlattenSeq(<<>>) \o <<>>
    BY <2>1, <1>1, ConcatEmptySeq
  <2>4. Begins(FlattenSeq(<<>>), <<>>, 0, V)
    BY <2>1, <2>2, <2>3 DEF Begins
  <2> QED BY <2>1, <2>4
<1>3. ASSUME NEW s \in Seq(Seq(V)), NEW x \in Seq(V), s \in S PROVE Append(s, x) \in S
  <2> DEFINE r == Append(s, x)
             F == FlattenSeq(s)
             G == FlattenSeq(r)
  <2>1. r \in Seq(Seq(V)) /\ Len(r) = Len(s) + 1 /\ Len(s) \in Nat
    BY AppendElements
  <2>2. G = F \o x /\ F \in Seq(V) /\ G \in Seq(V)
    BY <1>1, <2>1, FlattenAppend
  <2>3. ASSUME NEW m \in 0..Len(r) PROVE Begins(G, r, m, V)
    <3>1. CASE m \in 0..Len(s)
      <4>1. Begins(F, s, m, V)
        BY <1>3, <3>1
      <4>2. PICK t \in Seq(V) : F = FlattenSeq(Upto(s, m)) \o t
        BY <4>1 DEF Begins
      <4> DEFINE p == FlattenSeq(Upto(s, m))
      <4>3. Upto(s, m) \in Seq(Seq(V)) /\ Upto(r, m) = Upto(s, m)
        BY <3>1, UptoIs, UptoOfAppend
      <4>4. p \in Seq(V)
        BY <1>1, <4>3
      <4>5. F = p \o t
        BY <4>2
      <4> HIDE DEF p, F, G, r
      <4>6. G = p \o (t \o x) /\ t \o x \in Seq(V)
        BY <2>2, <4>4, <4>5, ConcatAssociative
      <4> QED BY <4>3, <4>6 DEF Begins, p
    <3>2. CASE m = Len(r)
      <4>1. Upto(r, m) = r
        BY <2>1, <3>2, UptoAll
      <4>2. G = G \o <<>> /\ <<>> \in Seq(V)
        <5> HIDE DEF G
        <5> QED BY <2>2, ConcatEmptySeq, EmptySeq
      <4> QED BY <4>1, <4>2 DEF Begins
    <3>3. m \in 0..Len(s) \/ m = Len(r)
      BY <2>1
    <3> QED BY <3>1, <3>2, <3>3
  <2> QED BY <2>1, <2>3
<1>4. \A s \in Seq(Seq(V)) : \A x \in Seq(V) : s \in S => Append(s, x) \in S
  BY <1>3
<1> HIDE DEF S
<1>5. ss \in S
  BY <1>2, <1>4, SeqInduction
<1> QED BY <1>5 DEF S

\* Where the next of the sequences is.
UnitPlace(ss, n) == Len(FlattenSeq(Upto(ss, n)))

LEMMA NextAt ==
    ASSUME NEW V, NEW ss \in Seq(Seq(V)), NEW n \in 0..Len(ss), n < Len(ss)
    PROVE  /\ UnitPlace(ss, n) \in Nat /\ Len(ss[n + 1]) \in Nat /\ Len(FlattenSeq(ss)) \in Nat
           /\ UnitPlace(ss, n + 1) = UnitPlace(ss, n) + Len(ss[n + 1])
           /\ UnitPlace(ss, n + 1) <= Len(FlattenSeq(ss))
           /\ \A j \in 1..Len(ss[n + 1]) : FlattenSeq(ss)[UnitPlace(ss, n) + j] = ss[n + 1][j]
<1> DEFINE x == ss[n + 1]
           p == FlattenSeq(Upto(ss, n))
           q == FlattenSeq(Upto(ss, n + 1))
           F == FlattenSeq(ss)
<1>1. n + 1 \in 0..Len(ss) /\ x \in Seq(V) /\ Upto(ss, n + 1) = Append(Upto(ss, n), x)
  BY UptoNext
<1>2. Upto(ss, n) \in Seq(Seq(V))
  BY UptoIs
<1>3. q = p \o x /\ p \in Seq(V)
  BY <1>1, <1>2, FlattenAppend
<1>4. PICK t \in Seq(V) : F = q \o t
  BY <1>1, FlattenBegins DEF Begins
<1> HIDE DEF x, p, q, F
<1>5. q \in Seq(V) /\ Len(q) = Len(p) + Len(x) /\ Len(p) \in Nat /\ Len(x) \in Nat
      /\ \A i \in 1..Len(p) + Len(x) : q[i] = IF i <= Len(p) THEN p[i] ELSE x[i - Len(p)]
  BY <1>1, <1>3, ConcatProperties
<1>6. Len(F) = Len(q) + Len(t) /\ Len(t) \in Nat /\ \A i \in 1..Len(q) : F[i] = q[i]
  <2>1. Len(F) = Len(q) + Len(t) /\ Len(t) \in Nat /\ Len(q) \in Nat
        /\ \A i \in 1..Len(q) + Len(t) : F[i] = IF i <= Len(q) THEN q[i] ELSE t[i - Len(q)]
    <3>1. q \in Seq(V) /\ t \in Seq(V) /\ F = q \o t /\ Len(t) \in Nat /\ Len(q) \in Nat
      BY <1>4, <1>5
    <3>2. /\ Len(q \o t) = Len(q) + Len(t)
          /\ \A i \in 1..Len(q) + Len(t) : (q \o t)[i] = IF i <= Len(q) THEN q[i] ELSE t[i - Len(q)]
      BY <3>1, ConcatProperties
    <3> QED BY <3>1, <3>2
  <2>2. ASSUME NEW i \in 1..Len(q) PROVE F[i] = q[i]
    <3>1. i \in 1..Len(q) + Len(t) /\ i <= Len(q)
      BY <2>1
    <3> QED BY <2>1, <3>1
  <2> QED BY <2>1, <2>2
<1>7. ASSUME NEW j \in 1..Len(x) PROVE F[Len(p) + j] = x[j]
  <2>1. Len(p) + j \in 1..Len(q) /\ ~(Len(p) + j <= Len(p)) /\ (Len(p) + j) - Len(p) = j
    BY <1>5
  <2> QED BY <1>5, <1>6, <2>1
<1>8. UnitPlace(ss, n) = Len(p) /\ UnitPlace(ss, n + 1) = Len(q)
  BY DEF UnitPlace, p, q
<1> QED BY <1>5, <1>6, <1>7, <1>8 DEF x, F

LEMMA OffsetEnds ==
    ASSUME NEW V, NEW ss \in Seq(Seq(V))
    PROVE  UnitPlace(ss, 0) = 0 /\ UnitPlace(ss, Len(ss)) = Len(FlattenSeq(ss))
<1>1. Upto(ss, 0) = <<>> /\ Upto(ss, Len(ss)) = ss
  BY UptoAll
<1> QED BY <1>1, FlattenEmpty DEF UnitPlace

-----------------------------------------------------------------------------
(* One more element to filter.                                             *)

LEMMA FilterNext ==
    ASSUME NEW V, NEW s \in Seq(V), NEW x \in V, NEW ps, NEW qs, \A n \in 1..Len(s) : n \in ps <=> n \in qs
    PROVE  /\ Filter(s, qs) \in Seq(V)
           /\ Filter(Append(s, x), ps) =
                IF Len(s) + 1 \in ps THEN Append(Filter(s, qs), x) ELSE Filter(s, qs)
<1> DEFINE r == Append(s, x)
           m == Len(s)
<1>1. r \in Seq(V) /\ Len(r) = m + 1 /\ m \in Nat /\ (\A i \in 1..m : r[i] = s[i]) /\ r[m + 1] = x
  BY AppendElements
<1> HIDE DEF r
<1>2. PICK f : FilterSteps(s, qs, f) /\ Filter(s, qs) = f[m] /\ \A n \in 0..m : f[n] \in Seq(V)
  BY FilterRecurs
<1>3. PICK g : FilterSteps(r, ps, g) /\ Filter(r, ps) = g[Len(r)]
  BY <1>1, FilterRecurs
<1>4. \A n \in 0..m : f[n] = IF n = 0 THEN <<>> ELSE IF n \in qs THEN Append(f[n - 1], s[n]) ELSE f[n - 1]
  BY <1>2 DEF FilterSteps
<1>5. \A n \in 0..m + 1 : g[n] = IF n = 0 THEN <<>> ELSE IF n \in ps THEN Append(g[n - 1], r[n]) ELSE g[n - 1]
  BY <1>1, <1>3 DEF FilterSteps
<1> DEFINE S == {n \in Nat : n <= m => f[n] = g[n]}
<1>6. 0 \in S
  BY <1>1, <1>4, <1>5
<1>7. ASSUME NEW n \in Nat, n \in S PROVE n + 1 \in S
  <2>1. CASE n + 1 <= m
    <3>1. n + 1 \in 0..m /\ n + 1 \in 0..m + 1 /\ n + 1 \in 1..m /\ n + 1 # 0 /\ (n + 1) - 1 = n /\ f[n] = g[n]
      BY <1>1, <1>7, <2>1
    <3>2. f[n + 1] = IF n + 1 \in qs THEN Append(f[n], s[n + 1]) ELSE f[n]
      BY <1>4, <3>1
    <3>3. g[n + 1] = IF n + 1 \in ps THEN Append(g[n], r[n + 1]) ELSE g[n]
      BY <1>5, <3>1
    <3>4. r[n + 1] = s[n + 1] /\ (n + 1 \in ps <=> n + 1 \in qs)
      BY <1>1, <3>1
    <3> QED BY <3>1, <3>2, <3>3, <3>4
  <2>2. CASE ~(n + 1 <= m)
    BY <2>2
  <2> QED BY <2>1, <2>2
<1>8. m \in S
  <2> HIDE DEF S
  <2> QED BY <1>1, <1>6, <1>7, SetInduction
<1>9. f[m] = g[m]
  BY <1>1, <1>8
<1>10. g[m + 1] = IF m + 1 \in ps THEN Append(g[m], r[m + 1]) ELSE g[m]
  <2>1. m + 1 \in 0..m + 1 /\ m + 1 # 0 /\ (m + 1) - 1 = m
    BY <1>1
  <2> QED BY <1>5, <2>1
<1>11. f[m] \in Seq(V)
  BY <1>1, <1>2
<1> QED BY <1>1, <1>2, <1>3, <1>9, <1>10, <1>11 DEF r

-----------------------------------------------------------------------------
(* The text of an input, one unit after the other.                         *)

\* The units are told apart by their bytes.
LEMMA UnitsDiffer ==
    /\ CR \in TextUnits /\ LF \in TextUnits /\ BOM \in TextUnits /\ MARK \in TextUnits
    /\ CR # LF /\ CR # BOM /\ LF # BOM /\ CR # MARK /\ LF # MARK /\ BOM # MARK
BY DEF CR, LF, BOM, MARK, WholeUnits, TextUnits

\* Plain, in its two parts.
Unmarked(u) == IF u # <<>> /\ u[1] = BOM THEN Tail(u) ELSE u
AsLine(c) == IF c = CR THEN LF ELSE c
Kept(w) == {i \in DOMAIN w : ~(i > 1 /\ w[i] = LF /\ w[i - 1] = CR)}
Lined(w) == Filter([i \in DOMAIN w |-> AsLine(w[i])], Kept(w))

LEMMA PlainIs == ASSUME NEW u PROVE Plain(u) = Lined(Unmarked(u))
BY DEF Plain, Lined, Unmarked, AsLine, Kept

LEMMA LinedNext ==
    ASSUME NEW w \in Seq(TextUnits), NEW c \in TextUnits
    PROVE  /\ Lined(w) \in Seq(TextUnits) /\ AsLine(c) \in TextUnits
           /\ Lined(Append(w, c)) = IF EndsIn(w, CR) /\ c = LF THEN Lined(w) ELSE Append(Lined(w), AsLine(c))
<1> DEFINE n == Len(w)
           r == Append(w, c)
           s == [i \in DOMAIN w |-> AsLine(w[i])]
           q == [i \in DOMAIN r |-> AsLine(r[i])]
<1>1. r \in Seq(TextUnits) /\ Len(r) = n + 1 /\ n \in Nat /\ (\A i \in 1..n : r[i] = w[i]) /\ r[n + 1] = c
  BY AppendElements
<1>2. \A x \in TextUnits : AsLine(x) \in TextUnits
  BY UnitsDiffer DEF AsLine
<1>3. DOMAIN w = 1..n /\ \A i \in 1..n : w[i] \in TextUnits
  OBVIOUS
<1>4. s \in Seq(TextUnits) /\ Len(s) = n
  <2>1. s \in [1..n -> TextUnits]
    BY <1>2, <1>3
  <2> QED BY <1>1, <2>1
<1> HIDE DEF r
<1>5. DOMAIN r = 1..n + 1
  BY <1>1
<1>6. q = Append(s, AsLine(c))
  <2> DEFINE a == Append(s, AsLine(c))
  <2>1. a \in Seq(TextUnits) /\ Len(a) = n + 1 /\ (\A i \in 1..n : a[i] = s[i]) /\ a[n + 1] = AsLine(c)
    <3> HIDE DEF s
    <3> QED BY <1>2, <1>4, AppendElements
  <2>2. DOMAIN a = 1..n + 1 /\ a = [i \in 1..n + 1 |-> a[i]]
    <3> HIDE DEF a
    <3> QED BY <2>1
  <2>3. \A i \in 1..n : s[i] = AsLine(r[i])
    BY <1>1, <1>3
  <2> HIDE DEF a, s
  <2>4. ASSUME NEW i \in 1..n + 1 PROVE a[i] = AsLine(r[i])
    <3>1. i \in 1..n \/ i = n + 1
      BY <1>1
    <3> QED BY <1>1, <2>1, <2>3, <3>1
  <2>5. q = [i \in 1..n + 1 |-> a[i]]
    BY <1>5, <2>4
  <2> QED BY <2>2, <2>5 DEF a
<1>7. \A i \in 1..n : i \in Kept(r) <=> i \in Kept(w)
  <2>1. ASSUME NEW i \in 1..n PROVE r[i] = w[i] /\ (i > 1 => r[i - 1] = w[i - 1]) /\ i \in 1..n + 1
    BY <1>1
  <2> QED BY <1>3, <1>5, <2>1 DEF Kept
<1>8. n + 1 \in Kept(r) <=> ~(EndsIn(w, CR) /\ c = LF)
  <2>1. n + 1 \in 1..n + 1 /\ (n + 1) - 1 = n
    BY <1>1
  <2>2. n + 1 > 1 /\ r[n] = CR <=> EndsIn(w, CR)
    <3>1. CASE n = 0
      <4>1. w = <<>>
        BY <3>1
      <4> QED BY <3>1, <4>1 DEF EndsIn
    <3>2. CASE n # 0
      <4>1. w # <<>> /\ n \in 1..n /\ n + 1 > 1
        BY <1>1, <3>2, EmptySeq
      <4> QED BY <1>1, <4>1 DEF EndsIn
    <3> QED BY <3>1, <3>2
  <2> QED BY <1>1, <1>5, <2>1, <2>2 DEF Kept
<1>9. Filter(q, Kept(r)) = IF n + 1 \in Kept(r) THEN Append(Filter(s, Kept(w)), AsLine(c)) ELSE Filter(s, Kept(w))
  <2> HIDE DEF s, q, n
  <2> QED BY <1>2, <1>4, <1>6, <1>7, FilterNext
<1>10. Filter(s, Kept(w)) \in Seq(TextUnits)
  <2> HIDE DEF s
  <2> QED BY <1>4, UnitsDiffer, FilterNext
<1> QED BY <1>2, <1>8, <1>9, <1>10 DEF Lined, r

LEMMA UnmarkedNext ==
    ASSUME NEW u \in Seq(TextUnits), NEW c \in TextUnits
    PROVE  /\ Unmarked(u) \in Seq(TextUnits)
           /\ Unmarked(Append(u, c)) = IF u = <<>> /\ c = BOM THEN <<>> ELSE Append(Unmarked(u), c)
           /\ EndsIn(Unmarked(u), CR) <=> EndsIn(u, CR)
<1> DEFINE r == Append(u, c)
           n == Len(u)
<1>1. r \in Seq(TextUnits) /\ Len(r) = n + 1 /\ n \in Nat /\ (\A i \in 1..n : r[i] = u[i]) /\ r[n + 1] = c /\ r # <<>>
  BY AppendElements
<1>2. Tail(r) = IF u = <<>> THEN <<>> ELSE Append(Tail(u), c)
  BY HeadTailAppend
<1>3. CASE u = <<>>
  <2>1. r[1] = c /\ Unmarked(u) = u /\ Append(u, c) = r
    BY <1>1, <1>3 DEF Unmarked
  <2> HIDE DEF r
  <2> QED BY <1>1, <1>2, <1>3, <2>1 DEF Unmarked
<1>4. CASE u # <<>>
  <2>1. n # 0 /\ n \in 1..n /\ 1 \in 1..n /\ r[1] = u[1]
    BY <1>1, <1>4, EmptySeq
  <2>2. CASE u[1] = BOM
    <3> DEFINE t == Tail(u)
    <3>1. t \in Seq(TextUnits) /\ Len(t) = n - 1 /\ \A i \in 1..n - 1 : t[i] = u[i + 1]
      BY <1>4, HeadTailProperties
    <3>2. Unmarked(u) = t /\ Unmarked(r) = Append(t, c)
      <4> HIDE DEF r, t
      <4> QED BY <1>1, <1>2, <1>4, <2>1, <2>2 DEF Unmarked, t
    <3>3. EndsIn(t, CR) <=> EndsIn(u, CR)
      <4> HIDE DEF t
      <4>1. CASE n = 1
        <5>1. t = <<>> /\ u[n] # CR
          BY <2>2, <3>1, <4>1, UnitsDiffer
        <5> QED BY <5>1 DEF EndsIn
      <4>2. CASE n # 1
        <5>1. n - 1 \in 1..n - 1 /\ (n - 1) + 1 = n /\ n - 1 # 0
          <6>1. n \in Nat /\ n # 0 /\ n # 1
            BY <1>1, <2>1, <4>2
          <6> HIDE DEF n
          <6> QED BY <6>1
        <5>2. t # <<>> /\ t[Len(t)] = u[n]
          BY <3>1, <5>1, EmptySeq
        <5> QED BY <1>4, <5>2 DEF EndsIn
      <4> QED BY <4>1, <4>2
    <3> HIDE DEF t, r
    <3> QED BY <1>4, <3>1, <3>2, <3>3 DEF r
  <2>3. CASE u[1] # BOM
    <3>1. Unmarked(u) = u /\ Unmarked(r) = r
      <4> HIDE DEF r
      <4> QED BY <1>1, <1>4, <2>1, <2>3 DEF Unmarked
    <3> QED BY <1>4, <3>1
  <2> QED BY <2>2, <2>3
<1> QED BY <1>3, <1>4

\* The text of one more unit.
LEMMA PlainNext ==
    ASSUME NEW u \in Seq(TextUnits), NEW c \in TextUnits
    PROVE  /\ Plain(u) \in Seq(TextUnits) /\ AsLine(c) \in TextUnits
           /\ Plain(Append(u, c)) =
                IF u = <<>> /\ c = BOM THEN Plain(u)
                ELSE IF EndsIn(u, CR) /\ c = LF THEN Plain(u)
                ELSE Append(Plain(u), AsLine(c))
<1> DEFINE w == Unmarked(u)
           x == Unmarked(Append(u, c))
<1>1. w \in Seq(TextUnits) /\ x = (IF u = <<>> /\ c = BOM THEN <<>> ELSE Append(w, c))
      /\ (EndsIn(w, CR) <=> EndsIn(u, CR)) /\ (u = <<>> => w = <<>>)
  BY UnmarkedNext DEF Unmarked
<1>2. Plain(u) = Lined(w) /\ Plain(Append(u, c)) = Lined(x)
  BY PlainIs
<1> HIDE DEF w, x
<1>3. Lined(w) \in Seq(TextUnits) /\ AsLine(c) \in TextUnits
      /\ Lined(Append(w, c)) = IF EndsIn(w, CR) /\ c = LF THEN Lined(w) ELSE Append(Lined(w), AsLine(c))
  BY <1>1, LinedNext
<1> QED BY <1>1, <1>2, <1>3

LEMMA PlainEmpty == Plain(<<>>) = <<>>
<1>1. Plain(<<>>) = Filter([i \in DOMAIN <<>> |-> AsLine(<<>>[i])], Kept(<<>>))
  BY PlainIs DEF Unmarked, Lined
<1>2. [i \in DOMAIN <<>> |-> AsLine(<<>>[i])] = <<>>
  OBVIOUS
<1>3. \A ps : Filter(<<>>, ps) = <<>>
  <2> SUFFICES ASSUME NEW ps PROVE Filter(<<>>, ps) = <<>>
    OBVIOUS
  <2>1. <<>> \in Seq(Nat) /\ Len(<<>>) = 0
    BY EmptySeq
  <2>2. PICK f : FilterSteps(<<>>, ps, f) /\ Filter(<<>>, ps) = f[0]
    BY <2>1, FilterRecurs
  <2> QED BY <2>1, <2>2 DEF FilterSteps
<1> QED BY <1>1, <1>2, <1>3

-----------------------------------------------------------------------------
(* Combining marks in a row.                                               *)

\* Exactly the last m of s are marks.
MarksAtEnd(s, m) ==
    /\ m \in 0..Len(s) /\ \A j \in 1..Len(s) : j > Len(s) - m => s[j] = MARK
    /\ m < Len(s) => s[Len(s) - m] # MARK

LEMMA OneMoreMark ==
    ASSUME NEW s \in Seq(TextUnits), NEW m, MarksAtEnd(s, m), m <= MaxMarks, ~TooManyMarks(s)
    PROVE  /\ MarksAtEnd(Append(s, MARK), m + 1)
           /\ TooManyMarks(Append(s, MARK)) <=> m + 1 > MaxMarks
<1> DEFINE n == Len(s)
           r == Append(s, MARK)
<1>1. r \in Seq(TextUnits) /\ Len(r) = n + 1 /\ n \in Nat /\ (\A i \in 1..n : r[i] = s[i]) /\ r[n + 1] = MARK
  BY UnitsDiffer, AppendElements
<1>2. MaxMarks \in Nat /\ m \in 0..n
  BY TextAssumption DEF MarksAtEnd
<1> HIDE DEF r
<1>3. MarksAtEnd(r, m + 1)
  <2>1. m + 1 \in 0..n + 1
    BY <1>1, <1>2
  <2>2. ASSUME NEW j \in 1..n + 1, j > (n + 1) - (m + 1) PROVE r[j] = MARK
    <3>1. CASE j = n + 1
      BY <1>1, <3>1
    <3>2. CASE j # n + 1
      <4>1. j \in 1..n /\ j > n - m
        BY <1>1, <1>2, <2>2, <3>2
      <4> QED BY <1>1, <4>1 DEF MarksAtEnd
    <3> QED BY <3>1, <3>2
  <2>3. ASSUME m + 1 < n + 1 PROVE r[(n + 1) - (m + 1)] # MARK
    <3>1. (n + 1) - (m + 1) = n - m /\ n - m \in 1..n /\ m < n
      BY <1>1, <1>2, <2>3
    <3> QED BY <1>1, <3>1 DEF MarksAtEnd
  <2> QED BY <1>1, <2>1, <2>2, <2>3 DEF MarksAtEnd
<1>4. ASSUME m + 1 > MaxMarks PROVE TooManyMarks(r)
  <2>1. m = MaxMarks
    BY <1>2, <1>4
  <2>2. n + 1 - MaxMarks \in 1..Len(r) - MaxMarks
    BY <1>1, <1>2, <2>1
  <2>3. \A j \in (n + 1 - MaxMarks)..(n + 1 - MaxMarks) + MaxMarks : r[j] = MARK
    <3>1. ASSUME NEW j \in (n + 1 - MaxMarks)..(n + 1 - MaxMarks) + MaxMarks PROVE j \in 1..n + 1 /\ j > (n + 1) - (m + 1)
      BY <1>1, <1>2, <2>1
    <3> QED BY <1>1, <1>3, <3>1 DEF MarksAtEnd
  <2> QED BY <2>2, <2>3 DEF TooManyMarks
<1>5. ASSUME m + 1 <= MaxMarks, TooManyMarks(r) PROVE FALSE
  <2>1. PICK i \in 1..(n + 1) - MaxMarks : \A j \in i..i + MaxMarks : r[j] = MARK
    BY <1>1, <1>5 DEF TooManyMarks
  <2>2. CASE i <= n - MaxMarks
    <3>1. i \in 1..n - MaxMarks
      BY <1>1, <1>2, <2>2
    <3>2. \A j \in i..i + MaxMarks : s[j] = MARK
      <4>1. ASSUME NEW j \in i..i + MaxMarks PROVE j \in 1..n
        BY <1>1, <1>2, <3>1
      <4> QED BY <1>1, <2>1, <4>1
    <3> QED BY <3>1, <3>2 DEF TooManyMarks
  <2>3. CASE ~(i <= n - MaxMarks)
    <3>1. i = (n + 1) - MaxMarks /\ m < n /\ n - m \in i..i + MaxMarks /\ n - m \in 1..n
      BY <1>1, <1>2, <1>5, <2>3
    <3> QED BY <1>1, <2>1, <3>1 DEF MarksAtEnd
  <2> QED BY <2>2, <2>3
<1>6. m + 1 > MaxMarks \/ m + 1 <= MaxMarks
  BY <1>2
<1> QED BY <1>3, <1>4, <1>5, <1>6 DEF r

LEMMA NoMoreMark ==
    ASSUME NEW s \in Seq(TextUnits), NEW x \in TextUnits, x # MARK
    PROVE  MarksAtEnd(Append(s, x), 0) /\ (TooManyMarks(Append(s, x)) <=> TooManyMarks(s))
<1> DEFINE n == Len(s)
           r == Append(s, x)
<1>1. r \in Seq(TextUnits) /\ Len(r) = n + 1 /\ n \in Nat /\ (\A i \in 1..n : r[i] = s[i]) /\ r[n + 1] = x
  BY AppendElements
<1>2. MaxMarks \in Nat
  BY TextAssumption
<1> HIDE DEF r
<1>3. MarksAtEnd(r, 0)
  <2>1. 0 \in 0..n + 1 /\ (\A j \in 1..n + 1 : ~(j > (n + 1) - 0)) /\ (n + 1) - 0 = n + 1
    BY <1>1
  <2> QED BY <1>1, <2>1 DEF MarksAtEnd
<1>4. ASSUME NEW i \in 1..n - MaxMarks
      PROVE  i \in 1..(n + 1) - MaxMarks /\ \A j \in i..i + MaxMarks : r[j] = s[j]
  <2>1. ASSUME NEW j \in i..i + MaxMarks PROVE j \in 1..n
    BY <1>1, <1>2
  <2> QED BY <1>1, <1>2, <2>1
<1>5. ASSUME NEW i \in 1..(n + 1) - MaxMarks, \A j \in i..i + MaxMarks : r[j] = MARK PROVE i \in 1..n - MaxMarks
  <2>1. CASE i = (n + 1) - MaxMarks
    <3>1. n + 1 \in i..i + MaxMarks
      BY <1>1, <1>2, <2>1
    <3> QED BY <1>1, <1>5, <3>1
  <2>2. CASE i # (n + 1) - MaxMarks
    BY <1>1, <1>2, <2>2
  <2> QED BY <2>1, <2>2
<1>6. TooManyMarks(r) <=> TooManyMarks(s)
  BY <1>1, <1>4, <1>5 DEF TooManyMarks
<1> QED BY <1>3, <1>6 DEF r

\* Too many marks remain too many.
LEMMA MarksRemain ==
    ASSUME NEW s \in Seq(TextUnits), NEW x \in TextUnits, TooManyMarks(s)
    PROVE  TooManyMarks(Append(s, x))
<1> DEFINE n == Len(s)
           r == Append(s, x)
<1>1. Len(r) = n + 1 /\ n \in Nat /\ \A i \in 1..n : r[i] = s[i]
  BY AppendElements
<1>2. MaxMarks \in Nat
  BY TextAssumption
<1> HIDE DEF r
<1>3. PICK i \in 1..n - MaxMarks : \A j \in i..i + MaxMarks : s[j] = MARK
  BY DEF TooManyMarks
<1>4. i \in 1..(n + 1) - MaxMarks /\ \A j \in i..i + MaxMarks : j \in 1..n
  BY <1>1, <1>2
<1> QED BY <1>1, <1>3, <1>4 DEF TooManyMarks, r

LEMMA MarksOfBeginning ==
    ASSUME NEW u \in Seq(TextUnits), NEW n \in 0..Len(u), TooManyMarks(Plain(Upto(u, n)))
    PROVE  TooManyMarks(Plain(u))
<1> DEFINE S == {k \in Nat : n <= k /\ k <= Len(u) => TooManyMarks(Plain(Upto(u, k)))}
<1>1. 0 \in S
  <2>1. n <= 0 => n = 0
    OBVIOUS
  <2> QED BY <2>1
<1>2. ASSUME NEW k \in Nat, k \in S PROVE k + 1 \in S
  <2>1. CASE n <= k /\ k + 1 <= Len(u)
    <3>1. k \in 0..Len(u) /\ k < Len(u) /\ TooManyMarks(Plain(Upto(u, k)))
      BY <1>2, <2>1
    <3> DEFINE w == Upto(u, k)
               c == u[k + 1]
    <3>2. Upto(u, k + 1) = Append(w, c) /\ w \in Seq(TextUnits) /\ c \in TextUnits
      BY <3>1, UptoIs, UptoNext
    <3>3. TooManyMarks(Plain(w))
      BY <3>1
    <3> HIDE DEF w, c
    <3>4. Plain(w) \in Seq(TextUnits) /\ AsLine(c) \in TextUnits
          /\ (Plain(Append(w, c)) = Plain(w) \/ Plain(Append(w, c)) = Append(Plain(w), AsLine(c)))
      BY <3>2, PlainNext
    <3>5. TooManyMarks(Plain(Append(w, c)))
      BY <3>3, <3>4, MarksRemain
    <3>6. TooManyMarks(Plain(Upto(u, k + 1)))
      BY <3>2, <3>5
    <3> QED BY <3>6
  <2>2. CASE ~(n <= k) /\ n <= k + 1
    <3>1. n = k + 1
      BY <1>2, <2>2
    <3> QED BY <3>1
  <2>3. CASE ~(k + 1 <= Len(u)) \/ ~(n <= k + 1)
    BY <2>3
  <2> QED BY <2>1, <2>2, <2>3
<1>3. Len(u) \in S
  <2>1. \A k \in Nat : k \in S => k + 1 \in S
    BY <1>2
  <2>2. Len(u) \in Nat
    OBVIOUS
  <2> HIDE DEF S
  <2> QED BY <1>1, <2>1, <2>2, SetInduction
<1>4. Upto(u, Len(u)) = u /\ Len(u) \in Nat
  BY UptoAll
<1> QED BY <1>3, <1>4

-----------------------------------------------------------------------------
(* What has been decoded of an input.                                      *)

\* The scalars passed on, and the filter's fields, after the units u.
Follows(u, passed, fields) ==
    /\ passed = Plain(u)
    /\ fields \in [first : BOOLEAN, previousCr : BOOLEAN, nonstarters : Nat]
    /\ fields.first <=> u = <<>>
    /\ fields.previousCr <=> EndsIn(u, CR)
    /\ MarksAtEnd(passed, fields.nonstarters) /\ fields.nonstarters <= MaxMarks /\ ~TooManyMarks(passed)

LEMMA NothingFollows ==
    Follows(<<>>, <<>>, [first |-> TRUE, previousCr |-> FALSE, nonstarters |-> 0])
<1>1. Len(<<>>) = 0 /\ MaxMarks \in Nat
  BY EmptySeq, TextAssumption
<1>2. MarksAtEnd(<<>>, 0) /\ ~TooManyMarks(<<>>)
  BY <1>1 DEF MarksAtEnd, TooManyMarks
<1> QED BY <1>1, <1>2, PlainEmpty DEF Follows, EndsIn

\* What the bytes of a unit say.
Octets == {"a", "sp", "cr", "lf", "nul", "ff", "EF", "BB", "BF", "CC", "81"}
UnitIs(x) ==
    \/ Len(x) = 1 /\ x[1] \in {"a", "sp", "cr", "lf", "nul", "ff", "CC"}
    \/ Len(x) = 2 /\ x[1] = "CC" /\ x[2] = "81"
    \/ Len(x) = 2 /\ x[1] = "EF" /\ x[2] = "BB"
    \/ Len(x) = 3 /\ x[1] = "EF" /\ x[2] = "BB" /\ x[3] = "BF"

LEMMA UnitsAre ==
    ASSUME NEW x \in TextUnits
    PROVE  x \in Seq(Octets) /\ UnitIs(x)
<1>1. ASSUME NEW b \in {"a", "sp", "cr", "lf", "nul", "ff", "CC"}, x = <<b>> PROVE x \in Seq(Octets) /\ UnitIs(x)
  <2>1. b \in Octets
    BY DEF Octets
  <2>2. Len(x) = 1 /\ x[1] = b
    BY <1>1
  <2> QED BY <1>1, <2>1, <2>2 DEF UnitIs
<1>2. CASE x = BOM
  <2>1. Len(x) = 3 /\ x[1] = "EF" /\ x[2] = "BB" /\ x[3] = "BF"
    BY <1>2 DEF BOM
  <2>2. "EF" \in Octets /\ "BB" \in Octets /\ "BF" \in Octets
    BY DEF Octets
  <2> QED BY <1>2, <2>1, <2>2 DEF UnitIs, BOM
<1>3. CASE x = MARK
  <2>1. Len(x) = 2 /\ x[1] = "CC" /\ x[2] = "81"
    BY <1>3 DEF MARK
  <2>2. "CC" \in Octets /\ "81" \in Octets
    BY DEF Octets
  <2> QED BY <1>3, <2>1, <2>2 DEF UnitIs, MARK
<1>4. CASE x = <<"EF", "BB">>
  <2>1. Len(x) = 2 /\ x[1] = "EF" /\ x[2] = "BB"
    BY <1>4
  <2>2. "EF" \in Octets /\ "BB" \in Octets
    BY DEF Octets
  <2> QED BY <1>4, <2>1, <2>2 DEF UnitIs
<1>5. CASE \E b \in {"a", "sp", "cr", "lf", "nul", "ff", "CC"} : x = <<b>>
  BY <1>1, <1>5
<1> QED BY <1>2, <1>3, <1>4, <1>5 DEF TextUnits, WholeUnits, CR, LF, NUL

LEMMA WholeUnit ==
    ASSUME NEW x \in WholeUnits
    PROVE  /\ x \in Seq(Octets) /\ Len(x) \in Nat \ {0} /\ Width(x[1]) = Len(x)
           /\ Utf8(x) /\ x # NUL /\ (Nonstarter(x) <=> x = MARK) /\ x \in TextUnits
<1>1. x \in TextUnits
  BY DEF TextUnits
<1>2. x \in Seq(Octets)
  BY <1>1, UnitsAre
<1>3. Len(MARK) = 2 /\ MARK[1] = "CC" /\ Len(NUL) = 1 /\ NUL[1] = "nul"
  BY DEF MARK, NUL
<1>4. ASSUME NEW b \in {"a", "sp", "cr", "lf"}, x = <<b>>
      PROVE  Len(x) = 1 /\ x[1] = b /\ Width(x[1]) = 1 /\ Utf8(x)
  <2>1. Len(x) = 1 /\ x[1] = b
    BY <1>4
  <2>2. Width(b) = 1
    BY DEF Width, Continuation
  <2> QED BY <2>1, <2>2 DEF Utf8
<1>5. CASE x = BOM
  <2>1. Len(x) = 3 /\ x[1] = "EF" /\ x[2] = "BB" /\ x[3] = "BF"
    BY <1>5 DEF BOM
  <2>2. Width(x[1]) = 3
    BY <2>1 DEF Width, Continuation
  <2>3. \A i \in 2..3 : i = 2 \/ i = 3
    OBVIOUS
  <2>4. Utf8(x)
    BY <2>1, <2>3 DEF Utf8, Continuation
  <2> QED BY <1>1, <1>2, <1>3, <2>1, <2>2, <2>4 DEF Nonstarter
<1>6. CASE x = MARK
  <2>1. Len(x) = 2 /\ x[1] = "CC" /\ x[2] = "81"
    BY <1>6 DEF MARK
  <2>2. Width(x[1]) = 2
    BY <2>1 DEF Width, Continuation
  <2>3. Utf8(x)
    BY <2>1 DEF Utf8, Continuation
  <2>4. x # NUL /\ Len(x) \in Nat \ {0} /\ Nonstarter(x)
    BY <1>3, <2>1 DEF Nonstarter
  <2> QED BY <1>1, <1>2, <1>6, <2>1, <2>2, <2>3, <2>4
<1>7. CASE \E b \in {"a", "sp", "cr", "lf"} : x = <<b>>
  <2>1. Len(x) = 1 /\ x[1] \in {"a", "sp", "cr", "lf"} /\ Width(x[1]) = 1 /\ Utf8(x)
    BY <1>4, <1>7
  <2>2. x # NUL /\ x # MARK /\ x[1] # "CC"
    BY <1>3, <2>1
  <2> QED BY <1>1, <1>2, <2>1, <2>2 DEF Nonstarter
<1> QED BY <1>5, <1>6, <1>7 DEF WholeUnits, CR, LF

LEMMA UnitStarts ==
    ASSUME NEW x \in TextUnits
    PROVE  x \in Seq(Octets) /\ Len(x) \in Nat \ {0} /\ x[1] \notin Continuation
BY UnitsAre DEF UnitIs, Continuation

\* Bytes that begin as a unit does that is no scalar, as many as they ask for, are none.
LEMMA BrokenUnit ==
    ASSUME NEW x \in TextUnits \ WholeUnits, NEW bytes \in Seq(Octets), Len(bytes) # 0,
           \A i \in 1..Len(bytes) : i <= Len(x) => bytes[i] = x[i],
           Len(bytes) = Len(x) + 1 => bytes[Len(x) + 1] \notin Continuation,
           Len(bytes) - 1 = 0 \/ Len(bytes) - 1 < Width(bytes[1]),
           ~(Len(bytes) < Width(bytes[1]))
    PROVE  Width(bytes[1]) = 0 \/ ~Utf8(bytes) \/ bytes = NUL
<1>0. Len(bytes) \in Nat /\ 1 \in 1..Len(bytes)
  OBVIOUS
<1>1. CASE x = NUL
  <2>1. Len(x) = 1 /\ x[1] = "nul" /\ bytes[1] = "nul"
    BY <1>0, <1>1 DEF NUL
  <2>2. Width(bytes[1]) = 1
    BY <2>1 DEF Width, Continuation
  <2>3. Len(bytes) = 1
    <3> DEFINE n == Len(bytes)
    <3>1. n \in Nat /\ (n - 1 = 0 \/ n - 1 < 1) /\ ~(n < 1)
      BY <1>0, <2>2
    <3> HIDE DEF n
    <3>2. n = 1
      BY <3>1
    <3> QED BY <3>2 DEF n
  <2>4. bytes = NUL
    BY <2>1, <2>3 DEF NUL
  <2> QED BY <2>4
<1>2. CASE x = <<"ff">>
  <2>1. bytes[1] = "ff"
    BY <1>0, <1>2
  <2> QED BY <2>1 DEF Width
<1>3. CASE x = <<"CC">>
  <2>1. Len(x) = 1 /\ bytes[1] = "CC"
    BY <1>0, <1>3
  <2>2. Width(bytes[1]) = 2
    BY <2>1 DEF Width, Continuation
  <2>3. Len(bytes) = 2
    <3> DEFINE n == Len(bytes)
    <3>1. n \in Nat /\ (n - 1 = 0 \/ n - 1 < 2) /\ ~(n < 2)
      BY <1>0, <2>2
    <3> HIDE DEF n
    <3>2. n = 2
      BY <3>1
    <3> QED BY <3>2 DEF n
  <2>4. bytes[2] \notin Continuation
    BY <2>1, <2>3
  <2> QED BY <2>3, <2>4 DEF Utf8
<1>4. CASE x = <<"EF", "BB">>
  <2>1. Len(x) = 2 /\ bytes[1] = "EF"
    BY <1>0, <1>4
  <2>2. Width(bytes[1]) = 3
    BY <2>1 DEF Width, Continuation
  <2>3. Len(bytes) = 3
    <3> DEFINE n == Len(bytes)
    <3>1. n \in Nat /\ (n - 1 = 0 \/ n - 1 < 3) /\ ~(n < 3)
      BY <1>0, <2>2
    <3> HIDE DEF n
    <3>2. n = 3
      BY <3>1
    <3> QED BY <3>2 DEF n
  <2>4. bytes[3] \notin Continuation
    BY <2>1, <2>3
  <2> QED BY <2>3, <2>4 DEF Utf8
<1> QED BY <1>1, <1>2, <1>3, <1>4 DEF TextUnits

\* A whole scalar more.
LEMMA ScalarFollows ==
    ASSUME NEW u \in Seq(TextUnits), NEW c \in WholeUnits, Follows(u, chars, filter), Filtered(c)
    PROVE  \/ /\ tpc' = "done" /\ TooManyMarks(Plain(Append(u, c)))
              /\ encoded' = [error |-> "InvalidText", grams |-> <<>>, bytes |-> bytesRead]
           \/ tpc' = tpc /\ encoded' = encoded /\ Follows(Append(u, c), chars', filter')
<1> DEFINE f == [filter EXCEPT !.first = FALSE]
           r == Append(u, c)
<1>1. c \in TextUnits /\ (Nonstarter(c) <=> c = MARK)
  BY WholeUnit
<1>2. r # <<>> /\ (EndsIn(r, CR) <=> c = CR)
  BY <1>1, AppendElements DEF EndsIn
<1>3. Plain(u) \in Seq(TextUnits) /\ AsLine(c) \in TextUnits
      /\ Plain(r) = IF u = <<>> /\ c = BOM THEN Plain(u)
                    ELSE IF EndsIn(u, CR) /\ c = LF THEN Plain(u)
                    ELSE Append(Plain(u), AsLine(c))
  BY <1>1, PlainNext
<1>4. f = [first |-> FALSE, previousCr |-> filter.previousCr, nonstarters |-> filter.nonstarters]
  <2>1. filter \in [first : BOOLEAN, previousCr : BOOLEAN, nonstarters : Nat]
    BY DEF Follows
  <2>2. f \in [first : BOOLEAN, previousCr : BOOLEAN, nonstarters : Nat]
        /\ f.first = FALSE /\ f.previousCr = filter.previousCr /\ f.nonstarters = filter.nonstarters
    BY <2>1
  <2> HIDE DEF f
  <2> QED BY <2>2
<1>5. ~EndsIn(<<>>, CR) /\ CR # BOM /\ CR # LF /\ LF # MARK /\ CR # MARK
  BY UnitsDiffer DEF EndsIn
<1> HIDE DEF f, r
<1>6. CASE filter.first /\ c = BOM
  <2>1. filter' = f /\ UNCHANGED <<tpc, chars, encoded>>
    BY <1>6 DEF Filtered, f
  <2>2. u = <<>> /\ Plain(r) = Plain(u)
    BY <1>3, <1>6 DEF Follows
  <2>3. ~filter.previousCr /\ filter.previousCr \in BOOLEAN /\ filter.nonstarters \in Nat
    BY <1>5, <2>2 DEF Follows
  <2>4. Follows(r, chars', filter')
    BY <1>2, <1>4, <1>5, <1>6, <2>1, <2>2, <2>3 DEF Follows
  <2> QED BY <2>1, <2>4 DEF r
<1>7. CASE ~(filter.first /\ c = BOM) /\ FollowsCr(c)
  <2>1. filter' = [f EXCEPT !.previousCr = FALSE] /\ UNCHANGED <<tpc, chars, encoded>>
    BY <1>7 DEF Filtered, f
  <2>2. filter' = [first |-> FALSE, previousCr |-> FALSE, nonstarters |-> filter.nonstarters]
    BY <1>4, <2>1
  <2>3. c = LF /\ EndsIn(u, CR) /\ Plain(r) = Plain(u)
    BY <1>3, <1>5, <1>7 DEF Follows, FollowsCr
  <2>4. ~EndsIn(r, CR) /\ chars' = Plain(r)
    BY <1>2, <1>5, <2>1, <2>3 DEF Follows
  <2>5. filter'.first = FALSE /\ filter'.previousCr = FALSE /\ filter'.nonstarters = filter.nonstarters
        /\ filter' \in [first : BOOLEAN, previousCr : BOOLEAN, nonstarters : Nat]
    BY <2>2 DEF Follows
  <2>6. Follows(r, chars', filter')
    BY <1>2, <2>1, <2>4, <2>5 DEF Follows
  <2> QED BY <2>1, <2>6 DEF r
<1>8. CASE ~(filter.first /\ c = BOM) /\ ~FollowsCr(c)
  <2> DEFINE marks == IF Nonstarter(c) THEN f.nonstarters + 1 ELSE 0
  <2>1. /\ filter' = [f EXCEPT !.previousCr = (c = CR), !.nonstarters = marks]
        /\ IF marks > MaxMarks
           THEN /\ tpc' = "done" /\ UNCHANGED chars
                /\ encoded' = [error |-> "InvalidText", grams |-> <<>>, bytes |-> bytesRead]
           ELSE /\ chars' = Append(chars, IF c = CR THEN LF ELSE c)
                /\ UNCHANGED <<tpc, encoded>>
    BY <1>8 DEF Filtered, f
  <2>2. marks = IF c = MARK THEN filter.nonstarters + 1 ELSE 0
    BY <1>1, <1>4
  <2> HIDE DEF marks
  <2>3. filter' = [first |-> FALSE, previousCr |-> (c = CR), nonstarters |-> marks]
    BY <1>4, <2>1
  <2>4. Plain(r) = Append(chars, AsLine(c)) /\ chars \in Seq(TextUnits)
    BY <1>3, <1>8 DEF Follows, FollowsCr
  <2>5. MarksAtEnd(Plain(r), marks) /\ (TooManyMarks(Plain(r)) <=> marks > MaxMarks) /\ marks \in Nat
    <3>1. CASE c = MARK
      <4>1. AsLine(c) = MARK
        BY <1>5, <3>1 DEF AsLine
      <4> QED BY <2>2, <2>4, <3>1, <4>1, OneMoreMark DEF Follows
    <3>2. CASE c # MARK
      <4>1. AsLine(c) # MARK
        BY <1>5, <3>2 DEF AsLine
      <4>2. MarksAtEnd(Plain(r), 0) /\ ~TooManyMarks(Plain(r))
        BY <1>3, <2>4, <4>1, NoMoreMark DEF Follows
      <4>3. marks = 0 /\ ~(0 > MaxMarks)
        BY <2>2, <3>2, TextAssumption
      <4> QED BY <4>2, <4>3
    <3> QED BY <3>1, <3>2
  <2>6. CASE marks > MaxMarks
    BY <2>1, <2>5, <2>6 DEF r
  <2>7. CASE ~(marks > MaxMarks)
    <3>1. chars' = Plain(r) /\ tpc' = tpc /\ encoded' = encoded
      BY <2>1, <2>4, <2>7 DEF AsLine
    <3>2. marks <= MaxMarks
      BY <2>5, <2>7, TextAssumption
    <3>3. filter' \in [first : BOOLEAN, previousCr : BOOLEAN, nonstarters : Nat]
      BY <2>3, <2>5
    <3>4. (filter'.first <=> r = <<>>) /\ (filter'.previousCr <=> EndsIn(r, CR)) /\ filter'.nonstarters = marks
      BY <1>2, <2>3
    <3>5. Follows(r, chars', filter')
      BY <2>5, <2>7, <3>1, <3>2, <3>3, <3>4 DEF Follows
    <3> QED BY <3>1, <3>5 DEF r
  <2> QED BY <2>6, <2>7
<1> QED BY <1>6, <1>7, <1>8

-----------------------------------------------------------------------------
(* The n-grams that are counted.                                           *)

\* Where an n-gram may end, and how long it may be, in n scalars.
Places(n) == {q \in (1..n) \X (1..Grams) : q[2] <= q[1]}
GramAt(s, q) == SubSeq(s, q[1] - q[2] + 1, q[1])

\* w is the last of the first n scalars, as many as an n-gram may have.
Widest(n) == IF n < Grams THEN n ELSE Grams
LastOf(w, s, n, V) ==
    /\ w \in Seq(V) /\ Len(w) = Widest(n) /\ \A i \in 1..Widest(n) : w[i] = s[n - Widest(n) + i]

\* g lists the n-grams of the first n scalars, the i-th of them at b[i].
PlacedBy(b, g, s, n) ==
    /\ b \in [1..Len(g) -> Places(n)]
    /\ \A i, j \in 1..Len(g) : b[i] = b[j] => i = j
    /\ \A q \in Places(n) : \E i \in 1..Len(g) : b[i] = q
    /\ \A i \in 1..Len(g) : g[i] = GramAt(s, b[i])
Lists(g, s, n, V) == g \in Seq(Seq(V)) /\ \E b : PlacedBy(b, g, s, n)

LEMMA WidestIs == \A n \in Nat : Widest(n) \in Nat /\ Widest(n) <= n /\ Widest(n) <= Grams
                                 /\ \A k \in Nat : k <= Widest(n) <=> k <= n /\ k <= Grams
BY TextAssumption DEF Widest

LEMMA SlideIs ==
    ASSUME NEW V, NEW s \in Seq(V), NEW n \in 0..Len(s), n < Len(s), NEW w, LastOf(w, s, n, V)
    PROVE  LastOf(Slide(w, s[n + 1]), s, n + 1, V)
<1> DEFINE x == s[n + 1]
           m == Widest(n)
           t == IF Len(w) = Grams THEN Tail(w) ELSE w
           l == Len(t)
<1>1. Grams \in Nat \ {0} /\ n \in Nat /\ x \in V /\ m \in Nat /\ m <= n
  BY TextAssumption, WidestIs
<1>2. w \in Seq(V) /\ Len(w) = m /\ \A i \in 1..m : w[i] = s[n - m + i]
  BY DEF LastOf
<1> HIDE DEF x
<1>3. t \in Seq(V) /\ l \in Nat /\ l + 1 = Widest(n + 1) /\ \A i \in 1..l : t[i] = s[n - l + i]
  <2>1. CASE m = Grams
    <3>1. w # <<>> /\ t = Tail(w)
      BY <1>1, <1>2, <2>1, EmptySeq
    <3>2. t \in Seq(V) /\ l = m - 1 /\ \A i \in 1..m - 1 : t[i] = w[i + 1]
      BY <1>2, <3>1, HeadTailProperties
    <3>3. Widest(n + 1) = m
      BY <1>1, <2>1 DEF Widest
    <3>4. ASSUME NEW i \in 1..m - 1 PROVE i + 1 \in 1..m /\ n - m + (i + 1) = n - (m - 1) + i
      BY <1>1
    <3>5. \A i \in 1..m - 1 : t[i] = s[n - (m - 1) + i]
      BY <1>2, <3>2, <3>4
    <3>6. m - 1 \in Nat /\ (m - 1) + 1 = m
      BY <1>1, <2>1
    <3> HIDE DEF t, m
    <3> QED BY <3>2, <3>3, <3>5, <3>6
  <2>2. CASE m # Grams
    <3>1. t = w
      BY <1>2, <2>2
    <3>2. m = n /\ Widest(n + 1) = n + 1
      BY <1>1, <2>2 DEF Widest
    <3> HIDE DEF t, m
    <3> QED BY <1>1, <1>2, <3>1, <3>2
  <2> QED BY <2>1, <2>2
<1> HIDE DEF t
<1>4. Append(t, x) \in Seq(V) /\ Len(Append(t, x)) = l + 1
      /\ (\A i \in 1..l : Append(t, x)[i] = t[i]) /\ Append(t, x)[l + 1] = x
  BY <1>1, <1>3, AppendElements
<1>5. Slide(w, x) = Append(t, x)
  BY DEF Slide, t
<1> DEFINE r == Append(t, x)
<1> HIDE DEF r, l
<1>6. ASSUME NEW i \in 1..l + 1 PROVE r[i] = s[(n + 1) - (l + 1) + i]
  <2>1. CASE i = l + 1
    <3>1. (n + 1) - (l + 1) + i = n + 1
      BY <1>1, <1>3, <2>1
    <3>2. r[i] = x
      BY <1>4, <2>1 DEF r
    <3> QED BY <3>1, <3>2 DEF x
  <2>2. CASE i # l + 1
    <3>1. i \in 1..l /\ (n + 1) - (l + 1) + i = n - l + i
      BY <1>1, <1>3, <2>2
    <3>2. r[i] = t[i]
      BY <1>4, <3>1 DEF r
    <3> QED BY <1>3, <3>1, <3>2
  <2> QED BY <2>1, <2>2
<1>7. LastOf(r, s, n + 1, V)
  <2>1. r \in Seq(V) /\ Len(r) = Widest(n + 1)
    BY <1>3, <1>4 DEF r
  <2>2. \A i \in 1..Widest(n + 1) : r[i] = s[(n + 1) - Widest(n + 1) + i]
    BY <1>3, <1>6
  <2> QED BY <2>1, <2>2 DEF LastOf
<1> QED BY <1>5, <1>7 DEF r, x

\* The n-grams that end with the n-th scalar.
Ending(w) == [k \in 1..Len(w) |-> SubSeq(w, Len(w) - k + 1, Len(w))]

LEMMA EndingIs ==
    ASSUME NEW V, NEW s \in Seq(V), NEW n \in 0..Len(s), NEW w, LastOf(w, s, n, V)
    PROVE  /\ Ending(w) \in Seq(Seq(V)) /\ Len(Ending(w)) = Widest(n)
           /\ \A k \in 1..Widest(n) : Ending(w)[k] = GramAt(s, <<n, k>>)
<1> DEFINE m == Widest(n)
<1>1. n \in Nat /\ m \in Nat /\ m <= n /\ n <= Len(s) /\ Len(s) \in Nat
  BY WidestIs
<1>2. w \in Seq(V) /\ Len(w) = m /\ \A i \in 1..m : w[i] = s[n - m + i]
  BY DEF LastOf
<1>3. \A i \in 1..Len(s) : s[i] \in V
  OBVIOUS
<1> HIDE DEF m
<1>4. ASSUME NEW k \in 1..m
      PROVE  SubSeq(w, m - k + 1, m) \in Seq(V) /\ SubSeq(w, m - k + 1, m) = GramAt(s, <<n, k>>)
  <2> DEFINE a == SubSeq(w, m - k + 1, m)
             b == SubSeq(s, n - k + 1, n)
  <2>1. m - k + 1 \in Int /\ m \in Int /\ n - k + 1 \in Int /\ n \in Int /\ m - k + 1 <= m /\ n - k + 1 <= n
        /\ m - (m - k + 1) + 1 = k /\ n - (n - k + 1) + 1 = k
    BY <1>1
  <2>2. \A i \in m - k + 1..m : w[i] \in V
    <3>1. \A i \in m - k + 1..m : i \in 1..m
      BY <1>1
    <3>2. \A i \in 1..m : w[i] \in V
      BY <1>2
    <3> QED BY <3>1, <3>2
  <2>3. \A i \in n - k + 1..n : s[i] \in V
    <3>1. \A i \in n - k + 1..n : i \in 1..Len(s)
      BY <1>1
    <3> QED BY <1>3, <3>1
  <2>4. a \in Seq(V) /\ Len(a) = k /\ \A i \in 1..k : a[i] = w[(m - k + 1) + i - 1]
    <3>1. /\ a \in Seq(V)
          /\ Len(a) = IF m - k + 1 <= m THEN m - (m - k + 1) + 1 ELSE 0
          /\ \A i \in 1..m - (m - k + 1) + 1 : a[i] = w[(m - k + 1) + i - 1]
      BY <2>1, <2>2, SubSeqProperties
    <3> HIDE DEF a
    <3> QED BY <2>1, <3>1
  <2>5. b \in Seq(V) /\ Len(b) = k /\ \A i \in 1..k : b[i] = s[(n - k + 1) + i - 1]
    <3>1. /\ b \in Seq(V)
          /\ Len(b) = IF n - k + 1 <= n THEN n - (n - k + 1) + 1 ELSE 0
          /\ \A i \in 1..n - (n - k + 1) + 1 : b[i] = s[(n - k + 1) + i - 1]
      BY <2>1, <2>3, SubSeqProperties
    <3> HIDE DEF b
    <3> QED BY <2>1, <3>1
  <2>6. GramAt(s, <<n, k>>) = b
    BY DEF GramAt
  <2> HIDE DEF a, b
  <2>7. ASSUME NEW i \in 1..k PROVE a[i] = b[i]
    <3>1. (m - k + 1) + i - 1 \in 1..m /\ n - m + ((m - k + 1) + i - 1) = (n - k + 1) + i - 1
      BY <1>1
    <3> QED BY <1>2, <2>4, <2>5, <3>1
  <2>8. a = b
    BY <2>4, <2>5, <2>7, SeqEqual
  <2> QED BY <2>4, <2>6, <2>8 DEF a
<1>5. Ending(w) = [k \in 1..m |-> SubSeq(w, m - k + 1, m)]
  BY <1>2 DEF Ending
<1>6. Ending(w) \in [1..m -> Seq(V)]
  BY <1>4, <1>5
<1>7. Ending(w) \in Seq(Seq(V)) /\ Len(Ending(w)) = m
  <2> DEFINE e == Ending(w)
  <2>1. e \in [1..m -> Seq(V)]
    BY <1>6
  <2> HIDE DEF e
  <2>2. e \in Seq(Seq(V)) /\ Len(e) = m
    BY <1>1, <2>1
  <2> QED BY <2>2 DEF e
<1>8. \A k \in 1..m : Ending(w)[k] = GramAt(s, <<n, k>>)
  BY <1>4, <1>5
<1> QED BY <1>7, <1>8 DEF m

LEMMA GramsGrow ==
    ASSUME NEW V, NEW s, NEW n \in Nat, NEW g, Lists(g, s, n, V),
           NEW h \in Seq(Seq(V)), Len(h) = Widest(n + 1),
           \A k \in 1..Widest(n + 1) : h[k] = GramAt(s, <<n + 1, k>>)
    PROVE  Lists(g \o h, s, n + 1, V)
<1> DEFINE l == Len(g)
           m == Widest(n + 1)
           r == g \o h
<1>1. PICK b : PlacedBy(b, g, s, n)
  BY DEF Lists
<1>2. g \in Seq(Seq(V)) /\ l \in Nat /\ m \in Nat
  BY WidestIs DEF Lists
<1>3. r \in Seq(Seq(V)) /\ Len(r) = l + m /\ \A i \in 1..l + m : r[i] = IF i <= l THEN g[i] ELSE h[i - l]
  BY <1>2, ConcatProperties
<1>4. \A q : q \in Places(n + 1) <=> q \in Places(n) \/ \E k \in 1..m : q = <<n + 1, k>>
  <2> SUFFICES ASSUME NEW q PROVE q \in Places(n + 1) <=> q \in Places(n) \/ \E k \in 1..m : q = <<n + 1, k>>
    OBVIOUS
  <2>1. ASSUME q \in Places(n + 1) PROVE q \in Places(n) \/ \E k \in 1..m : q = <<n + 1, k>>
    <3>1. PICK e \in 1..n + 1, k \in 1..Grams : q = <<e, k>> /\ k <= e
      BY <2>1 DEF Places
    <3>2. CASE e = n + 1
      <4>1. k \in 1..m
        BY <3>1, <3>2, TextAssumption, WidestIs
      <4> QED BY <3>1, <3>2, <4>1
    <3>3. CASE e # n + 1
      <4>1. e \in 1..n
        BY <3>3
      <4> QED BY <3>1, <4>1 DEF Places
    <3> QED BY <3>2, <3>3
  <2>2. ASSUME q \in Places(n) PROVE q \in Places(n + 1)
    <3>1. PICK e \in 1..n, k \in 1..Grams : q = <<e, k>> /\ k <= e
      BY <2>2 DEF Places
    <3>2. e \in 1..n + 1
      OBVIOUS
    <3> QED BY <3>1, <3>2 DEF Places
  <2>3. ASSUME NEW k \in 1..m, q = <<n + 1, k>> PROVE q \in Places(n + 1)
    <3>1. k \in 1..Grams /\ k <= n + 1 /\ n + 1 \in 1..n + 1
      BY TextAssumption, WidestIs
    <3> QED BY <2>3, <3>1 DEF Places
  <2> QED BY <2>1, <2>2, <2>3
<1>5. \A q \in Places(n) : q[1] # n + 1
  <2> SUFFICES ASSUME NEW q \in Places(n) PROVE q[1] # n + 1
    OBVIOUS
  <2>1. q[1] \in 1..n
    BY DEF Places
  <2> QED BY <2>1
<1>6. /\ b \in [1..l -> Places(n)]
      /\ \A i, j \in 1..l : b[i] = b[j] => i = j
      /\ \A q \in Places(n) : \E i \in 1..l : b[i] = q
      /\ \A i \in 1..l : g[i] = GramAt(s, b[i])
  BY <1>1 DEF PlacedBy
<1> DEFINE c == [i \in 1..l + m |-> IF i <= l THEN b[i] ELSE <<n + 1, i - l>>]
<1> HIDE DEF l, m, r
<1>7. ASSUME NEW i \in 1..l + m PROVE IF i <= l THEN i \in 1..l /\ c[i] = b[i] /\ c[i] \in Places(n)
                                      ELSE i - l \in 1..m /\ c[i] = <<n + 1, i - l>>
  <2>1. CASE i <= l
    <3>1. i \in 1..l
      BY <1>2, <2>1
    <3> QED BY <1>6, <2>1, <3>1
  <2>2. CASE ~(i <= l)
    BY <1>2, <2>2
  <2> QED BY <2>1, <2>2
<1>8. c \in [1..l + m -> Places(n + 1)]
  <2>1. ASSUME NEW i \in 1..l + m PROVE c[i] \in Places(n + 1)
    BY <1>4, <1>7
  <2> QED BY <2>1
<1> HIDE DEF c
<1>9. ASSUME NEW i \in 1..l + m, NEW j \in 1..l + m, c[i] = c[j] PROVE i = j
  <2>1. CASE i <= l /\ j <= l
    BY <1>6, <1>7, <1>9, <2>1
  <2>2. CASE ~(i <= l) /\ ~(j <= l)
    <3>1. i - l = j - l
      BY <1>7, <1>9, <2>2
    <3> QED BY <1>2, <3>1
  <2>3. CASE i <= l /\ ~(j <= l)
    <3>1. c[j][1] = n + 1 /\ c[i] \in Places(n)
      BY <1>7, <2>3
    <3> QED BY <1>5, <1>9, <3>1
  <2>4. CASE ~(i <= l) /\ j <= l
    <3>1. c[i][1] = n + 1 /\ c[j] \in Places(n)
      BY <1>7, <2>4
    <3> QED BY <1>5, <1>9, <3>1
  <2> QED BY <2>1, <2>2, <2>3, <2>4
<1>10. ASSUME NEW q \in Places(n + 1) PROVE \E i \in 1..l + m : c[i] = q
  <2>1. CASE q \in Places(n)
    <3>1. PICK i \in 1..l : b[i] = q
      BY <1>6, <2>1
    <3>2. i \in 1..l + m /\ i <= l
      BY <1>2
    <3> QED BY <1>7, <3>1, <3>2
  <2>2. CASE \E k \in 1..m : q = <<n + 1, k>>
    <3>1. PICK k \in 1..m : q = <<n + 1, k>>
      BY <2>2
    <3>2. l + k \in 1..l + m /\ ~(l + k <= l) /\ (l + k) - l = k
      BY <1>2
    <3> QED BY <1>7, <3>1, <3>2
  <2> QED BY <1>4, <2>1, <2>2
<1>11. ASSUME NEW i \in 1..l + m PROVE r[i] = GramAt(s, c[i])
  <2>1. CASE i <= l
    BY <1>3, <1>6, <1>7, <2>1
  <2>2. CASE ~(i <= l)
    <3>1. h[i - l] = GramAt(s, <<n + 1, i - l>>)
      BY <1>7, <2>2 DEF m
    <3> QED BY <1>3, <1>7, <2>2, <3>1
  <2> QED BY <2>1, <2>2
<1>12. PlacedBy(c, r, s, n + 1)
  BY <1>3, <1>8, <1>9, <1>10, <1>11 DEF PlacedBy
<1>13. Lists(r, s, n + 1, V)
  BY <1>3, <1>12 DEF Lists
<1> QED BY <1>13 DEF r

\* Features.
States(V) == [window : Seq(V), grams : Seq(Seq(V))]
NextState(v, x) == [window |-> Slide(v.window, x), grams |-> v.grams \o Ending(Slide(v.window, x))]
FeatureStep(s, V) == [k \in 1..Len(s) |-> [v \in States(V) |-> NextState(v, s[k])]]
NoState == [window |-> <<>>, grams |-> <<>>]

LEMMA NextStateType ==
    ASSUME NEW V, NEW v \in States(V), NEW x \in V
    PROVE  NextState(v, x) \in States(V)
<1> DEFINE w == Slide(v.window, x)
           e == Ending(w)
<1>1. v.window \in Seq(V) /\ v.grams \in Seq(Seq(V)) /\ Grams \in Nat \ {0}
  BY TextAssumption DEF States
<1>2. w \in Seq(V)
  <2>1. CASE Len(v.window) = Grams
    <3>1. v.window # <<>>
      BY <1>1, <2>1, EmptySeq
    <3>2. Tail(v.window) \in Seq(V)
      BY <1>1, <3>1, HeadTailProperties
    <3> QED BY <2>1, <3>2, AppendElements DEF Slide
  <2>2. CASE Len(v.window) # Grams
    BY <1>1, <2>2, AppendElements DEF Slide
  <2> QED BY <2>1, <2>2
<1> HIDE DEF w
<1>3. Len(w) \in Nat /\ \A i \in 1..Len(w) : w[i] \in V
  BY <1>2
<1>4. e \in Seq(Seq(V))
  <2>1. ASSUME NEW k \in 1..Len(w) PROVE SubSeq(w, Len(w) - k + 1, Len(w)) \in Seq(V)
    <3>1. Len(w) - k + 1 \in Int /\ Len(w) \in Int /\ \A i \in Len(w) - k + 1..Len(w) : i \in 1..Len(w)
      BY <1>3
    <3>2. \A i \in Len(w) - k + 1..Len(w) : w[i] \in V
      BY <1>3, <3>1
    <3> QED BY <3>1, <3>2, SubSeqProperties
  <2>2. e \in [1..Len(w) -> Seq(V)]
    BY <2>1 DEF Ending
  <2> HIDE DEF e
  <2> QED BY <1>3, <2>2
<1> HIDE DEF e
<1>5. v.grams \o e \in Seq(Seq(V))
  BY <1>1, <1>4, ConcatProperties
<1>6. NextState(v, x) = [window |-> w, grams |-> v.grams \o e]
  BY DEF NextState, w, e
<1> QED BY <1>2, <1>5, <1>6 DEF States

LEMMA FeaturesRecurs ==
    ASSUME NEW V, NEW s \in Seq(V)
    PROVE  \E f : Recurs(f, Len(s), States(V), NoState, FeatureStep(s, V)) /\ Features(s) = f[Len(s)].grams
<1> DEFINE n == Len(s)
           Rec(g) == g = [k \in 0..Len(s) |->
                            IF k = 0 THEN [window |-> <<>>, grams |-> <<>>]
                            ELSE LET w == Slide(g[k - 1].window, s[k]) IN
                                 [window |-> w,
                                  grams  |-> g[k - 1].grams \o [j \in 1..Len(w) |-> SubSeq(w, Len(w) - j + 1, Len(w))]]]
           g == CHOOSE h : Rec(h)
           step == FeatureStep(s, V)
<1>1. n \in Nat /\ NoState \in States(V) /\ \A k \in 1..n : s[k] \in V
  <2>1. <<>> \in Seq(V) /\ <<>> \in Seq(Seq(V))
    BY EmptySeq
  <2> QED BY <2>1 DEF NoState, States
<1>2. StepsIn(step, n, States(V))
  <2>1. ASSUME NEW k \in 1..n, NEW v \in States(V) PROVE NextState(v, s[k]) \in States(V)
    BY <1>1, NextStateType
  <2> QED BY <2>1 DEF StepsIn, FeatureStep
<1>3. PICK f : Recurs(f, n, States(V), NoState, step)
  <2> HIDE DEF n, step
  <2> QED BY <1>1, <1>2, Recursion
<1>4. Rec(f)
  <2>1. f = [k \in 0..n |-> f[k]] /\ f[0] = NoState
    BY <1>3 DEF Recurs
  <2>2. ASSUME NEW k \in 1..n PROVE f[k] = NextState(f[k - 1], s[k])
    <3>1. k - 1 \in 0..n
      BY <1>1
    <3>2. f[k] = step[k][f[k - 1]] /\ f[k - 1] \in States(V)
      BY <1>3, <3>1 DEF Recurs
    <3> QED BY <3>2 DEF FeatureStep
  <2>3. f = [k \in 0..n |-> IF k = 0 THEN NoState ELSE NextState(f[k - 1], s[k])]
    <3>1. ASSUME NEW k \in 0..n PROVE f[k] = IF k = 0 THEN NoState ELSE NextState(f[k - 1], s[k])
      <4>1. k = 0 \/ k \in 1..n
        BY <1>1
      <4> HIDE DEF n
      <4> QED BY <2>1, <2>2, <4>1
    <3> HIDE DEF n
    <3>2. f = [k \in 0..n |-> f[k]]
      BY <2>1
    <3> QED BY <3>1, <3>2, Zenon
  <2> QED BY <2>3 DEF NoState, NextState, Ending
<1>5. Rec(g)
  <2> HIDE DEF Rec
  <2> QED BY <1>4
<1>6. Features(s) = g[n].grams
  BY DEF Features
<1> HIDE DEF g
<1>7. g = [k \in 0..n |-> IF k = 0 THEN NoState ELSE NextState(g[k - 1], s[k])]
  BY <1>5 DEF NoState, NextState, Ending
<1>8. ASSUME NEW k \in 1..n, g[k - 1] \in States(V) PROVE g[k] = step[k][g[k - 1]]
  <2>1. k \in 0..n /\ k # 0
    BY <1>1
  <2>2. g[k] = NextState(g[k - 1], s[k])
    BY <1>7, <2>1
  <2> QED BY <1>8, <2>2 DEF FeatureStep
<1>9. g = [k \in 0..n |-> g[k]] /\ g[0] = NoState
  BY <1>1, <1>7
<1>10. Recurs(g, n, States(V), NoState, step)
  <2> HIDE DEF n, step
  <2> QED BY <1>1, <1>2, <1>8, <1>9, Recursive
<1> QED BY <1>6, <1>10

\* The n-grams are those of the text, each listed once.
LEMMA FeaturesList ==
    ASSUME NEW V, NEW s \in Seq(V)
    PROVE  Lists(Features(s), s, Len(s), V)
<1> DEFINE n == Len(s)
<1>1. n \in Nat /\ \A k \in 1..n : s[k] \in V
  OBVIOUS
<1>2. PICK f : Recurs(f, n, States(V), NoState, FeatureStep(s, V)) /\ Features(s) = f[n].grams
  BY FeaturesRecurs
<1> DEFINE S == {k \in Nat : k <= n => LastOf(f[k].window, s, k, V) /\ Lists(f[k].grams, s, k, V)}
<1>3. 0 \in S
  <2>1. f[0].window = <<>> /\ f[0].grams = <<>>
    BY <1>2 DEF Recurs, NoState
  <2>2. Widest(0) = 0 /\ <<>> \in Seq(V) /\ <<>> \in Seq(Seq(V)) /\ Len(<<>>) = 0
    BY TextAssumption, EmptySeq DEF Widest
  <2>3. LastOf(<<>>, s, 0, V)
    BY <2>2 DEF LastOf
  <2>4. Places(0) = {}
    BY DEF Places
  <2>5. PlacedBy(<<>>, <<>>, s, 0)
    BY <2>2, <2>4 DEF PlacedBy
  <2>6. Lists(<<>>, s, 0, V)
    BY <2>2, <2>5 DEF Lists
  <2> QED BY <2>1, <2>3, <2>6
<1>4. ASSUME NEW k \in Nat, k \in S PROVE k + 1 \in S
  <2>1. CASE k + 1 <= n
    <3>1. k \in 0..n /\ k < n /\ k + 1 \in 0..n /\ k + 1 \in 1..n /\ (k + 1) - 1 = k
      BY <1>1, <2>1
    <3>2. LastOf(f[k].window, s, k, V) /\ Lists(f[k].grams, s, k, V)
      BY <1>4, <3>1
    <3>3. f[k + 1] = FeatureStep(s, V)[k + 1][f[k]] /\ f[k] \in States(V)
      BY <1>2, <3>1 DEF Recurs
    <3>4. f[k + 1] = NextState(f[k], s[k + 1])
      BY <3>1, <3>3 DEF FeatureStep
    <3> DEFINE w == Slide(f[k].window, s[k + 1])
    <3>6. LastOf(w, s, k + 1, V)
      BY <3>1, <3>2, SlideIs
    <3>10. f[k + 1] = [window |-> w, grams |-> f[k].grams \o Ending(w)]
      BY <3>4, Zenon DEF NextState
    <3> HIDE DEF w
    <3>5. f[k + 1].window = w /\ f[k + 1].grams = f[k].grams \o Ending(w)
      BY <3>10
    <3>7. Ending(w) \in Seq(Seq(V)) /\ Len(Ending(w)) = Widest(k + 1)
          /\ \A j \in 1..Widest(k + 1) : Ending(w)[j] = GramAt(s, <<k + 1, j>>)
      BY <3>1, <3>6, EndingIs
    <3>8. Lists(f[k].grams \o Ending(w), s, k + 1, V)
      BY <3>2, <3>7, GramsGrow
    <3>9. LastOf(f[k + 1].window, s, k + 1, V) /\ Lists(f[k + 1].grams, s, k + 1, V)
      BY <3>5, <3>6, <3>8
    <3> QED BY <3>9
  <2>2. CASE ~(k + 1 <= n)
    BY <2>2
  <2> QED BY <2>1, <2>2
<1>5. n \in S
  <2> HIDE DEF S, n
  <2> QED BY <1>1, <1>3, <1>4, SetInduction
<1>6. LastOf(f[n].window, s, n, V) /\ Lists(f[n].grams, s, n, V)
  BY <1>1, <1>5
<1> QED BY <1>2, <1>6

\* So each is listed as often as it occurs.
LEMMA GramsCounted ==
    ASSUME NEW V, NEW s \in Seq(V)
    PROVE  /\ Len(Features(s)) = Cardinality(DOMAIN Substrings(s))
           /\ \A x : Occurrences(Features(s), x) = Occurrences(Substrings(s), x)
<1> DEFINE g == Features(s)
           n == Len(s)
           l == Len(g)
           f == Substrings(s)
<1>1. Lists(g, s, n, V)
  BY FeaturesList
<1>2. PICK b : PlacedBy(b, g, s, n)
  BY <1>1 DEF Lists
<1>3. g \in Seq(Seq(V)) /\ l \in Nat /\ DOMAIN g = 1..l
  <2>1. g \in Seq(Seq(V))
    BY <1>1 DEF Lists
  <2> HIDE DEF g
  <2> QED BY <2>1
<1>4. DOMAIN f = Places(n) /\ \A q \in Places(n) : f[q] = GramAt(s, q)
  BY DEF Substrings, Places, GramAt
<1>5. /\ b \in [1..l -> Places(n)]
      /\ \A i, j \in 1..l : b[i] = b[j] => i = j
      /\ \A q \in Places(n) : \E i \in 1..l : b[i] = q
      /\ \A i \in 1..l : g[i] = GramAt(s, b[i])
  BY <1>2 DEF PlacedBy
<1> HIDE DEF g, l, f
<1>6. IsFiniteSet(1..l) /\ Cardinality(1..l) = l
  <2>1. IsFiniteSet(1..l) /\ Cardinality(1..l) = IF 1 > l THEN 0 ELSE l - 1 + 1
    BY <1>3, FS_Interval
  <2> QED BY <1>3, <2>1
<1>7. b \in Bijection(1..l, Places(n))
  BY <1>5 DEF Bijection, Injection, Surjection, IsInjective
<1>8. Cardinality(Places(n)) = l
  <2>1. ExistsBijection(1..l, Places(n))
    BY <1>7 DEF ExistsBijection
  <2> QED BY <1>6, <2>1, FS_Bijection
<1>9. ASSUME NEW x PROVE Occurrences(g, x) = Occurrences(f, x)
  <2> DEFINE A == {i \in 1..l : g[i] = x}
             B == {q \in Places(n) : f[q] = x}
             c == [i \in A |-> b[i]]
  <2>1. Occurrences(g, x) = Cardinality(A) /\ Occurrences(f, x) = Cardinality(B)
    BY <1>3, <1>4 DEF Occurrences
  <2>2. IsFiniteSet(A)
    <3>1. A \in SUBSET (1..l)
      OBVIOUS
    <3> QED BY <1>6, <3>1, FS_Subset
  <2>3. \A i \in A : b[i] \in B
    BY <1>4, <1>5
  <2>4. c \in [A -> B]
    BY <2>3
  <2>5. \A i, j \in A : c[i] = c[j] => i = j
    BY <1>5
  <2>6. ASSUME NEW q \in B PROVE \E i \in A : c[i] = q
    <3>1. PICK i \in 1..l : b[i] = q
      BY <1>5
    <3>2. i \in A
      BY <1>4, <1>5, <3>1
    <3> QED BY <3>1, <3>2
  <2> HIDE DEF A, B, c
  <2>7. c \in Bijection(A, B)
    BY <2>4, <2>5, <2>6 DEF Bijection, Injection, Surjection, IsInjective
  <2>8. ExistsBijection(A, B)
    BY <2>7 DEF ExistsBijection
  <2>9. Cardinality(B) = Cardinality(A)
    BY <2>2, <2>8, FS_Bijection
  <2> QED BY <2>1, <2>9
<1>10. l = Cardinality(DOMAIN f)
  BY <1>4, <1>8
<1> QED BY <1>9, <1>10 DEF g, l, f

\* Composing a text gives a text.
Composable == TextUnits \cup {Composed}
NfcStep(s) ==
    [k \in 1..Len(s) |-> [v \in Seq(Composable) |->
        IF s[k] = MARK /\ v # <<>> /\ Last(v) = <<"a">> THEN Append(Front(v), Composed) ELSE Append(v, s[k])]]

LEMMA NfcType == ASSUME NEW s \in Seq(TextUnits) PROVE Nfc(s) \in Seq(Composable)
<1> DEFINE n == Len(s)
           W == Seq(Composable)
           Rec(g) == g = [k \in 0..Len(s) |->
                            IF k = 0 THEN <<>>
                            ELSE IF s[k] = MARK /\ g[k - 1] # <<>> /\ Last(g[k - 1]) = <<"a">>
                            THEN Append(Front(g[k - 1]), Composed) ELSE Append(g[k - 1], s[k])]
           g == CHOOSE h : Rec(h)
           step == NfcStep(s)
<1>1. n \in Nat /\ <<>> \in W /\ Composed \in Composable /\ \A k \in 1..n : s[k] \in Composable
  <2>1. \A k \in 1..n : s[k] \in TextUnits
    OBVIOUS
  <2> QED BY <2>1, EmptySeq DEF Composable
<1>2. StepsIn(step, n, W)
  <2>1. ASSUME NEW k \in 1..n, NEW v \in W
        PROVE  (IF s[k] = MARK /\ v # <<>> /\ Last(v) = <<"a">> THEN Append(Front(v), Composed) ELSE Append(v, s[k])) \in W
    <3>1. Append(v, s[k]) \in W
      BY <1>1, AppendElements
    <3>2. ASSUME v # <<>> PROVE Append(Front(v), Composed) \in W
      <4>1. Len(v) \in Nat /\ Len(v) # 0 /\ \A i \in 1..Len(v) : v[i] \in Composable
        BY <3>2, EmptySeq
      <4>2. 1 \in Int /\ Len(v) - 1 \in Int /\ \A i \in 1..Len(v) - 1 : i \in 1..Len(v)
        BY <4>1
      <4>3. SubSeq(v, 1, Len(v) - 1) \in W
        BY <4>1, <4>2, SubSeqProperties
      <4> QED BY <1>1, <4>3, AppendElements DEF Front
    <3> QED BY <3>1, <3>2
  <2> QED BY <2>1 DEF StepsIn, NfcStep
<1>3. PICK f : Recurs(f, n, W, <<>>, step)
  <2> HIDE DEF n, step, W
  <2> QED BY <1>1, <1>2, Recursion
<1>4. Rec(f)
  <2>1. f = [k \in 0..n |-> f[k]] /\ f[0] = <<>>
    BY <1>3 DEF Recurs
  <2>2. ASSUME NEW k \in 1..n
        PROVE  f[k] = IF s[k] = MARK /\ f[k - 1] # <<>> /\ Last(f[k - 1]) = <<"a">>
                      THEN Append(Front(f[k - 1]), Composed) ELSE Append(f[k - 1], s[k])
    <3>1. k - 1 \in 0..n
      BY <1>1
    <3>2. f[k] = step[k][f[k - 1]] /\ f[k - 1] \in W
      BY <1>3, <3>1 DEF Recurs
    <3>3. step[k] = [v \in W |-> IF s[k] = MARK /\ v # <<>> /\ Last(v) = <<"a">>
                                 THEN Append(Front(v), Composed) ELSE Append(v, s[k])]
      BY DEF NfcStep
    <3> HIDE DEF W, step
    <3> QED BY <3>2, <3>3
  <2> DEFINE e(k) == IF k = 0 THEN <<>>
                     ELSE IF s[k] = MARK /\ f[k - 1] # <<>> /\ Last(f[k - 1]) = <<"a">>
                     THEN Append(Front(f[k - 1]), Composed) ELSE Append(f[k - 1], s[k])
  <2>3. ASSUME NEW k \in 0..n PROVE f[k] = e(k)
    <3>1. k = 0 \/ k \in 1..n
      BY <1>1
    <3> HIDE DEF n
    <3> QED BY <2>1, <2>2, <3>1
  <2>4. f = [k \in 0..n |-> e(k)]
    <3> HIDE DEF e, n
    <3>1. f = [k \in 0..n |-> f[k]]
      BY <2>1
    <3> QED BY <2>3, <3>1, Zenon
  <2> QED BY <2>4, Zenon
<1>5. Rec(g)
  <2> HIDE DEF Rec
  <2> QED BY <1>4
<1>6. Nfc(s) = g[n]
  BY DEF Nfc
<1> HIDE DEF g
<1>7. ASSUME NEW k \in 1..n, g[k - 1] \in W PROVE g[k] = step[k][g[k - 1]]
  <2>1. k \in 0..n /\ k # 0
    BY <1>1
  <2>2. g[k] = IF s[k] = MARK /\ g[k - 1] # <<>> /\ Last(g[k - 1]) = <<"a">>
               THEN Append(Front(g[k - 1]), Composed) ELSE Append(g[k - 1], s[k])
    BY <1>5, <2>1
  <2> QED BY <1>7, <2>2 DEF NfcStep
<1>8. g = [k \in 0..n |-> g[k]] /\ g[0] = <<>>
  BY <1>1, <1>5
<1>9. Recurs(g, n, W, <<>>, step)
  <2> HIDE DEF n, step, W
  <2> QED BY <1>1, <1>2, <1>7, <1>8, Recursive
<1>10. g[n] \in W
  <2>1. n \in 0..n
    BY <1>1
  <2> HIDE DEF W
  <2> QED BY <1>9, <2>1 DEF Recurs
<1> QED BY <1>6, <1>10

-----------------------------------------------------------------------------
(* The encoder's place in its input.                                       *)

\* Bytes decoded, or in hand: neither in the buffer nor still to be read.
Consumed(us, lf, bf) == Len(FlattenSeq(us)) - Len(bf) - Len(lf)

\* The buffer and what is left are the end of the input.
Ahead(us, lf, bf, count) ==
    /\ us \in Seq(TextUnits) /\ lf \in Seq(Octets) /\ bf \in Seq(Octets)
    /\ Len(bf) + Len(lf) <= Len(FlattenSeq(us)) /\ count = Len(FlattenSeq(us)) - Len(lf)
    /\ \A i \in 1..Len(bf) : bf[i] = FlattenSeq(us)[Consumed(us, lf, bf) + i]
    /\ \A i \in 1..Len(lf) : lf[i] = FlattenSeq(us)[Len(FlattenSeq(us)) - Len(lf) + i]

\* After n units, all of them whole, and the bytes in hand, c bytes are decoded.
AtUnit(n, c, us, pt, passed, fields) ==
    /\ n \in 0..Len(us) /\ \A i \in 1..n : us[i] \in WholeUnits
    /\ pt \in Seq(Octets) /\ UnitPlace(us, n) + Len(pt) = c
    /\ \A i \in 1..Len(pt) : pt[i] = FlattenSeq(us)[UnitPlace(us, n) + i]
    /\ pt # <<>> => Len(pt) < Width(pt[1])
    /\ Follows(Upto(us, n), passed, fields)

InText == \E n \in 0..Len(units) : AtUnit(n, Consumed(units, left, buffer), units, part, chars, filter)

TextInv ==
    /\ tpc = "idle" => /\ buffer = <<>> /\ part = <<>> /\ chars = <<>> /\ bytesRead = 0
                       /\ filter = [first |-> TRUE, previousCr |-> FALSE, nonstarters |-> 0]
    /\ tpc \in {"read", "decode"} => Ahead(units, left, buffer, bytesRead) /\ InText
    /\ tpc = "read" => buffer = <<>>
    /\ TextAsSpecified

LEMMA UnitsAreBytes ==
    ASSUME NEW us \in Seq(TextUnits)
    PROVE  us \in Seq(Seq(Octets)) /\ FlattenSeq(us) \in Seq(Octets) /\ Len(FlattenSeq(us)) \in Nat
<1>1. us \in Seq(Seq(Octets))
  <2>1. \A i \in 1..Len(us) : us[i] \in TextUnits
    OBVIOUS
  <2>2. us \in [1..Len(us) -> Seq(Octets)] /\ Len(us) \in Nat
    BY <2>1, UnitsAre
  <2> QED BY <2>2
<1>2. FlattenSeq(us) \in Seq(Octets)
  <2>1. <<>> \in Seq(Octets)
    BY EmptySeq
  <2> QED BY <1>1, <2>1, FlattenAppend
<1> QED BY <1>1, <1>2

LEMMA TextBegins ==
    ASSUME TextInv, NEW input \in Seq(TextUnits), TextBegin(input)
    PROVE  TextInv'
<1> DEFINE F == FlattenSeq(input)
<1>1. /\ tpc' = "read" /\ units' = input /\ left' = F
      /\ buffer' = <<>> /\ part' = <<>> /\ chars' = <<>> /\ bytesRead' = 0
      /\ filter' = [first |-> TRUE, previousCr |-> FALSE, nonstarters |-> 0]
  BY DEF TextBegin, TextInv
<1>2. input \in Seq(Seq(Octets)) /\ F \in Seq(Octets) /\ Len(F) \in Nat
  BY UnitsAreBytes
<1>3. UnitPlace(input, 0) = 0 /\ Upto(input, 0) = <<>> /\ 0 \in 0..Len(input)
  BY <1>2, OffsetEnds, UptoAll
<1>4. <<>> \in Seq(Octets) /\ Len(<<>>) = 0
  BY EmptySeq
<1>5. Consumed(input, F, <<>>) = 0
  <2> HIDE DEF F
  <2>1. Len(F) - Len(<<>>) - Len(F) = 0
    BY <1>2, <1>4
  <2> QED BY <2>1 DEF Consumed, F
<1>6. Ahead(input, F, <<>>, 0)
  <2> HIDE DEF F
  <2>1. Len(<<>>) + Len(F) <= Len(F) /\ 0 = Len(F) - Len(F) /\ \A i \in 1..Len(F) : Len(F) - Len(F) + i = i
    BY <1>2, <1>4
  <2>2. \A i \in 1..Len(F) : F[i] = F[Len(F) - Len(F) + i]
    BY <2>1
  <2>3. \A i \in 1..Len(<<>>) : FALSE
    BY <1>4
  <2> QED BY <1>2, <1>4, <2>1, <2>2, <2>3 DEF Ahead, F
<1>7. AtUnit(0, 0, input, <<>>, <<>>, filter')
  BY <1>1, <1>3, <1>4, NothingFollows DEF AtUnit
<1>8. Ahead(units', left', buffer', bytesRead')
  BY <1>1, <1>6
<1>9. InText'
  BY <1>1, <1>3, <1>5, <1>7 DEF InText
<1> QED BY <1>1, <1>8, <1>9 DEF TextInv, TextAsSpecified

LEMMA RefillKeeps ==
    ASSUME TextInv, Refill
    PROVE  TextInv'
<1> DEFINE F == FlattenSeq(units)
           N == Len(F)
           l == Len(left)
<1>1. PICK n \in 1..Buffer :
        /\ n <= l /\ buffer' = SubSeq(left, 1, n) /\ left' = SubSeq(left, n + 1, l)
        /\ bytesRead' = bytesRead + n
  BY DEF Refill
<1>2. tpc = "read" /\ tpc' = "decode" /\ UNCHANGED <<units, part, filter, chars, encoded>>
  BY DEF Refill
<1>3. Ahead(units, left, buffer, bytesRead) /\ InText /\ buffer = <<>>
  BY <1>2 DEF TextInv
<1>4. /\ units \in Seq(TextUnits) /\ left \in Seq(Octets) /\ l <= N /\ bytesRead = N - l
      /\ \A i \in 1..l : left[i] = F[N - l + i]
  BY <1>3, EmptySeq DEF Ahead
<1>5. N \in Nat /\ l \in Nat /\ n \in Nat /\ n >= 1
  BY <1>4, UnitsAreBytes, TextAssumption
<1> HIDE DEF N, l
<1>6. \A i \in 1..l : left[i] \in Octets
  BY <1>4 DEF l
<1>7. buffer' \in Seq(Octets) /\ Len(buffer') = n /\ \A i \in 1..n : buffer'[i] = left[i]
  <2>1. 1 \in Int /\ n \in Int /\ \A i \in 1..n : left[i] \in Octets
    BY <1>1, <1>5, <1>6
  <2> DEFINE a == SubSeq(left, 1, n)
  <2>2. a \in Seq(Octets) /\ Len(a) = (IF 1 <= n THEN n - 1 + 1 ELSE 0) /\ \A i \in 1..n - 1 + 1 : a[i] = left[1 + i - 1]
    BY <2>1, SubSeqProperties
  <2> HIDE DEF a
  <2>3. n - 1 + 1 = n /\ \A i \in 1..n : 1 + i - 1 = i
    BY <1>5
  <2>4. a = buffer'
    BY <1>1 DEF a
  <2> QED BY <1>5, <2>2, <2>3, <2>4
<1>8. left' \in Seq(Octets) /\ Len(left') = l - n /\ \A i \in 1..l - n : left'[i] = left[n + i]
  <2>1. n + 1 \in Int /\ l \in Int /\ \A i \in n + 1..l : left[i] \in Octets
    BY <1>1, <1>5, <1>6
  <2> DEFINE a == SubSeq(left, n + 1, l)
  <2>2. a \in Seq(Octets) /\ Len(a) = (IF n + 1 <= l THEN l - (n + 1) + 1 ELSE 0)
        /\ \A i \in 1..l - (n + 1) + 1 : a[i] = left[(n + 1) + i - 1]
    BY <2>1, SubSeqProperties
  <2> HIDE DEF a
  <2>3. l - (n + 1) + 1 = l - n /\ (~(n + 1 <= l) => l - n = 0) /\ \A i \in 1..l - n : (n + 1) + i - 1 = n + i
    BY <1>1, <1>5
  <2>4. a = left'
    BY <1>1 DEF a
  <2>5. Len(a) = l - n
    BY <2>2, <2>3
  <2>6. \A i \in 1..l - n : a[i] = left[n + i]
    <3> SUFFICES ASSUME NEW i \in 1..l - n PROVE a[i] = left[n + i]
      OBVIOUS
    <3>1. i \in 1..l - (n + 1) + 1
      BY <2>3
    <3> QED BY <2>2, <2>3, <3>1
  <2> QED BY <2>2, <2>4, <2>5, <2>6
<1>9. Consumed(units, left', buffer') = N - l /\ Consumed(units, left, buffer) = N - l
  <2>1. N - n - (l - n) = N - l /\ N - 0 - l = N - l /\ Len(<<>>) = 0
    BY <1>5, EmptySeq
  <2> QED BY <1>3, <1>7, <1>8, <2>1 DEF Consumed, N, l
<1>10. Ahead(units, left', buffer', bytesRead')
  <2>1. n + (l - n) <= N /\ bytesRead' = N - (l - n)
    BY <1>1, <1>4, <1>5
  <2>2. \A i \in 1..n : buffer'[i] = F[N - l + i]
    <3>1. \A i \in 1..n : i \in 1..l
      BY <1>1, <1>5
    <3> QED BY <1>4, <1>7, <3>1
  <2>3. ASSUME NEW i \in 1..l - n PROVE left'[i] = F[N - (l - n) + i]
    <3>1. n + i \in 1..l /\ N - l + (n + i) = N - (l - n) + i
      BY <1>1, <1>5
    <3> QED BY <1>4, <1>8, <3>1
  <2> QED BY <1>4, <1>7, <1>8, <1>9, <2>1, <2>2, <2>3 DEF Ahead, N
<1>11. InText'
  <2>1. PICK k \in 0..Len(units) : AtUnit(k, N - l, units, part, chars, filter)
    BY <1>3, <1>9 DEF InText
  <2>2. AtUnit(k, Consumed(units', left', buffer'), units', part', chars', filter')
    BY <1>2, <1>9, <2>1
  <2>3. k \in 0..Len(units')
    BY <1>2
  <2> QED BY <2>2, <2>3 DEF InText
<1>12. Ahead(units', left', buffer', bytesRead')
  BY <1>2, <1>10
<1> QED BY <1>2, <1>11, <1>12 DEF TextInv, TextAsSpecified

LEMMA FailureIsSpecified ==
    ASSUME TextInv, RefillFails
    PROVE  TextInv'
<1>1. PICK e \in {"Cancelled", "IoError"} : TextFails(e)
  BY DEF RefillFails
<1>2. tpc' = "done" /\ encoded'.error = e
  BY <1>1 DEF TextFails
<1>3. e # "InvalidText" /\ e # "InsufficientContent" /\ e # None
  BY TextAssumption
<1> QED BY <1>2, <1>3 DEF TextInv, TextAsSpecified

LEMMA PauseKeeps ==
    ASSUME TextInv, DecodePauses
    PROVE  TextInv'
BY DEF TextInv, DecodePauses, TextAsSpecified, InText

\* A text that is refused is one that is not accepted.
LEMMA InvalidIsRefused ==
    ASSUME tpc' = "done", encoded'.error = "InvalidText", ~Accepts(units')
    PROVE  TextInv'
<1>1. None # "InvalidText"
  BY TextAssumption
<1> QED BY <1>1 DEF TextInv, TextAsSpecified

\* The unit that follows where bytes remain, and the byte after it.
LEMMA UnitAt ==
    ASSUME NEW us \in Seq(TextUnits), NEW n \in 0..Len(us), NEW k \in Nat \ {0},
           UnitPlace(us, n) + k <= Len(FlattenSeq(us))
    PROVE  /\ n < Len(us) /\ us[n + 1] \in TextUnits /\ UnitPlace(us, n) \in Nat
           /\ UnitPlace(us, n + 1) = UnitPlace(us, n) + Len(us[n + 1])
           /\ UnitPlace(us, n + 1) <= Len(FlattenSeq(us))
           /\ \A j \in 1..Len(us[n + 1]) : FlattenSeq(us)[UnitPlace(us, n) + j] = us[n + 1][j]
           /\ k = Len(us[n + 1]) + 1 => FlattenSeq(us)[UnitPlace(us, n) + k] \notin Continuation
<1> DEFINE F == FlattenSeq(us)
           p == UnitPlace(us, n)
<1>1. us \in Seq(Seq(Octets)) /\ F \in Seq(Octets) /\ Len(F) \in Nat /\ n \in Nat /\ Len(us) \in Nat
      /\ \A i \in 1..Len(us) : us[i] \in TextUnits
  BY UnitsAreBytes
<1>2. UnitPlace(us, Len(us)) = Len(F)
  BY <1>1, OffsetEnds
<1>3. n < Len(us)
  <2>1. CASE n = Len(us)
    BY <1>1, <1>2, <2>1
  <2> QED BY <1>1, <2>1
<1>4. /\ p \in Nat /\ Len(us[n + 1]) \in Nat
      /\ UnitPlace(us, n + 1) = p + Len(us[n + 1])
      /\ UnitPlace(us, n + 1) <= Len(F)
      /\ \A j \in 1..Len(us[n + 1]) : F[p + j] = us[n + 1][j]
  BY <1>1, <1>3, NextAt
<1>5. us[n + 1] \in TextUnits /\ n + 1 \in 0..Len(us)
  BY <1>1, <1>3
<1>6. ASSUME k = Len(us[n + 1]) + 1 PROVE F[p + k] \notin Continuation
  <2> DEFINE q == UnitPlace(us, n + 1)
             m == n + 1
  <2>1. q + 1 <= Len(F) /\ q \in Nat /\ p + k = q + 1
    BY <1>1, <1>4, <1>6
  <2>2. m < Len(us)
    <3>1. CASE m = Len(us)
      BY <1>2, <2>1, <3>1
    <3> QED BY <1>1, <1>5, <3>1
  <2>3. \A j \in 1..Len(us[m + 1]) : F[UnitPlace(us, m) + j] = us[m + 1][j]
    BY <1>1, <1>5, <2>2, NextAt
  <2>4. us[m + 1] \in TextUnits
    BY <1>1, <2>2
  <2>5. Len(us[m + 1]) \in Nat \ {0} /\ us[m + 1][1] \notin Continuation
    BY <2>4, UnitStarts
  <2>6. 1 \in 1..Len(us[m + 1])
    BY <2>5
  <2>7. F[q + 1] = us[m + 1][1]
    BY <2>3, <2>6
  <2> QED BY <2>1, <2>5, <2>7
<1> QED BY <1>3, <1>4, <1>5, <1>6

LEMMA ByteKeeps ==
    ASSUME TextInv, DecodeByte
    PROVE  TextInv'
<1> DEFINE F == FlattenSeq(units)
           N == Len(F)
           c == Consumed(units, left, buffer)
           lb == Len(buffer)
           ll == Len(left)
           bytes == Append(part, Head(buffer))
           width == Width(bytes[1])
           k == Len(bytes)
<1>1. /\ tpc = "decode" /\ buffer # <<>> /\ buffer' = Tail(buffer)
      /\ UNCHANGED <<units, left, bytesRead>>
      /\ IF k < width
         THEN part' = bytes /\ UNCHANGED <<tpc, filter, chars, encoded>>
         ELSE /\ part' = <<>>
              /\ IF width = 0 \/ ~Utf8(bytes) \/ bytes = NUL
                 THEN /\ tpc' = "done" /\ UNCHANGED <<filter, chars>>
                      /\ encoded' = [error |-> "InvalidText", grams |-> <<>>, bytes |-> bytesRead]
                 ELSE Filtered(bytes)
  BY DEF DecodeByte
<1>2. Ahead(units, left, buffer, bytesRead) /\ InText
  BY <1>1 DEF TextInv
<1>3. PICK n \in 0..Len(units) : AtUnit(n, c, units, part, chars, filter)
  BY <1>2 DEF InText
<1> DEFINE p == UnitPlace(units, n)
           x == units[n + 1]
<1>4. /\ units \in Seq(TextUnits) /\ left \in Seq(Octets) /\ buffer \in Seq(Octets)
      /\ lb + ll <= N /\ bytesRead = N - ll
      /\ \A i \in 1..lb : buffer[i] = F[c + i]
      /\ \A i \in 1..ll : left[i] = F[N - ll + i]
  BY <1>2 DEF Ahead
<1>5. /\ \A i \in 1..n : units[i] \in WholeUnits
      /\ part \in Seq(Octets) /\ p + Len(part) = c
      /\ \A i \in 1..Len(part) : part[i] = F[p + i]
      /\ part # <<>> => Len(part) < Width(part[1])
      /\ Follows(Upto(units, n), chars, filter)
  BY <1>3 DEF AtUnit
<1>6. N \in Nat /\ lb \in Nat \ {0} /\ ll \in Nat /\ c = N - lb - ll /\ Len(part) \in Nat
  BY <1>1, <1>4, <1>5, UnitsAreBytes, EmptySeq DEF Consumed
<1>7. buffer' \in Seq(Octets) /\ Len(buffer') = lb - 1 /\ (\A i \in 1..lb - 1 : buffer'[i] = buffer[i + 1])
      /\ Head(buffer) = buffer[1] /\ buffer[1] \in Octets
  BY <1>1, <1>4, HeadTailProperties
<1>8. bytes \in Seq(Octets) /\ k = Len(part) + 1 /\ (\A i \in 1..Len(part) : bytes[i] = part[i])
      /\ bytes[Len(part) + 1] = buffer[1]
  BY <1>5, <1>7, AppendElements
<1> HIDE DEF bytes, width, k, p, N, lb, ll, F, c
<1>9. p + k = c + 1 /\ c + 1 <= N /\ k \in Nat \ {0} /\ 1 \in 1..k /\ Consumed(units, left', buffer') = c + 1
  <2>1. p \in Nat
    <3>1. units \in Seq(Seq(Octets))
      BY <1>4, UnitsAreBytes
    <3>2. Upto(units, n) \in Seq(TextUnits)
      BY <1>4, UptoIs
    <3>3. Len(FlattenSeq(Upto(units, n))) \in Nat
      BY <3>2, UnitsAreBytes
    <3> QED BY <3>3 DEF p, UnitPlace
  <2>2. Consumed(units, left', buffer') = N - (lb - 1) - ll
    BY <1>1, <1>7 DEF Consumed, N, F, ll
  <2>3. N - (lb - 1) - ll = c + 1
    BY <1>6
  <2>4. k \in Nat \ {0} /\ 1 \in 1..k /\ p + k = c + 1
    <3> DEFINE lp == Len(part)
    <3>1. lp \in Nat /\ k = lp + 1 /\ p + lp = c
      BY <1>5, <1>6, <1>8
    <3> HIDE DEF lp
    <3> QED BY <2>1, <3>1
  <2>5. c + 1 <= N
    BY <1>6
  <2> QED BY <2>2, <2>3, <2>4, <2>5
<1>10. \A i \in 1..k : bytes[i] = F[p + i]
  <2> SUFFICES ASSUME NEW i \in 1..k PROVE bytes[i] = F[p + i]
    OBVIOUS
  <2>1. CASE i = k
    <3>1. buffer[1] = F[c + 1]
      <4>1. 1 \in 1..lb
        BY <1>6
      <4> QED BY <1>4, <4>1
    <3>2. p + i = c + 1
      BY <1>9, <2>1
    <3> QED BY <1>8, <2>1, <3>1, <3>2
  <2>2. CASE i # k
    <3>1. i \in 1..Len(part)
      BY <1>6, <1>8, <2>2
    <3> QED BY <1>5, <1>8, <3>1
  <2> QED BY <2>1, <2>2
<1>11. /\ n < Len(units) /\ x \in TextUnits /\ p \in Nat
       /\ UnitPlace(units, n + 1) = p + Len(x) /\ p + Len(x) <= N
       /\ \A j \in 1..Len(x) : F[p + j] = x[j]
       /\ k = Len(x) + 1 => F[p + k] \notin Continuation
  <2>1. p + k <= N
    BY <1>9
  <2> QED BY <1>4, <1>9, <2>1, UnitAt DEF p, N, F
<1>12. x \in Seq(Octets) /\ Len(x) \in Nat \ {0}
  BY <1>11, UnitStarts
<1> HIDE DEF x
<1>13. \A i \in 1..k : i <= Len(x) => bytes[i] = x[i]
  <2> SUFFICES ASSUME NEW i \in 1..k, i <= Len(x) PROVE bytes[i] = x[i]
    OBVIOUS
  <2>1. i \in 1..Len(x)
    BY <1>12
  <2> QED BY <1>10, <1>11, <2>1
<1>14. k - 1 = 0 \/ k - 1 < Width(bytes[1])
  <2>1. CASE part = <<>>
    BY <1>8, <2>1
  <2>2. CASE part # <<>>
    <3>1. 1 \in 1..Len(part)
      BY <1>5, <1>6, <2>2, EmptySeq
    <3>2. bytes[1] = part[1] /\ k - 1 = Len(part)
      BY <1>6, <1>8, <3>1
    <3> QED BY <1>5, <2>2, <3>2
  <2> QED BY <2>1, <2>2
<1>15. Ahead(units, left', buffer', bytesRead)
  <2>1. (lb - 1) + ll <= N
    BY <1>4, <1>6
  <2>2. ASSUME NEW i \in 1..lb - 1 PROVE buffer'[i] = F[(c + 1) + i]
    <3>1. i + 1 \in 1..lb /\ c + (i + 1) = (c + 1) + i
      BY <1>6
    <3> QED BY <1>4, <1>7, <3>1
  <2>3. \A i \in 1..ll : left'[i] = F[N - ll + i]
    BY <1>1, <1>4
  <2>4. left' \in Seq(Octets) /\ Len(left') = ll
    BY <1>1, <1>4 DEF ll
  <2> QED BY <1>4, <1>7, <1>9, <2>1, <2>2, <2>3, <2>4 DEF Ahead, N, F
<1>16. ASSUME NEW m \in 0..Len(units), AtUnit(m, c + 1, units, part', chars', filter'), tpc' = "decode" PROVE TextInv'
  <2>1. AtUnit(m, Consumed(units', left', buffer'), units', part', chars', filter') /\ m \in 0..Len(units')
    BY <1>1, <1>9, <1>16
  <2>2. InText'
    BY <2>1 DEF InText
  <2>3. Ahead(units', left', buffer', bytesRead')
    BY <1>1, <1>15
  <2> QED BY <1>16, <2>2, <2>3 DEF TextInv, TextAsSpecified
<1>17. CASE k < width
  <2>1. part' = bytes /\ UNCHANGED <<tpc, filter, chars, encoded>>
    BY <1>1, <1>17
  <2>2. \A i \in 1..Len(bytes) : bytes[i] = FlattenSeq(units)[UnitPlace(units, n) + i]
    BY <1>10 DEF k, p, F
  <2>3. UnitPlace(units, n) + Len(bytes) = c + 1 /\ Len(bytes) < Width(bytes[1])
    BY <1>9, <1>17 DEF k, p, width
  <2>4. AtUnit(n, c + 1, units, bytes, chars, filter)
    BY <1>5, <1>8, <2>2, <2>3 DEF AtUnit
  <2>5. AtUnit(n, c + 1, units, part', chars', filter') /\ tpc' = "decode"
    BY <1>1, <2>1, <2>4
  <2> QED BY <1>16, <2>5
<1>18. CASE ~(k < width) /\ x \in WholeUnits
  <2>1. Width(x[1]) = Len(x) /\ Utf8(x) /\ x # NUL
    BY <1>18, WholeUnit
  <2>2. bytes[1] = x[1]
    <3>1. 1 <= Len(x)
      BY <1>12
    <3> QED BY <1>9, <1>13, <3>1
  <2>3. k = Len(x)
    <3> DEFINE w == Len(x)
    <3>1. w \in Nat \ {0} /\ ~(k < w) /\ (k - 1 = 0 \/ k - 1 < w)
      BY <1>12, <1>14, <1>18, <2>1, <2>2 DEF width
    <3> HIDE DEF w
    <3>2. k = w
      BY <1>9, <3>1
    <3> QED BY <3>2 DEF w
  <2>4. bytes = x
    <3>1. \A i \in 1..Len(bytes) : bytes[i] = x[i]
      BY <1>9, <1>13, <2>3 DEF k
    <3>2. Len(bytes) = Len(x)
      BY <2>3 DEF k
    <3> QED BY <1>8, <1>12, <3>1, <3>2, SeqEqual
  <2>5. part' = <<>> /\ Filtered(x)
    <3>1. width # 0
      BY <1>12, <2>1, <2>2 DEF width
    <3> QED BY <1>1, <1>18, <2>1, <2>4, <3>1
  <2> DEFINE u == Upto(units, n)
             v == Upto(units, n + 1)
  <2>6. u \in Seq(TextUnits) /\ v = Append(u, x) /\ n + 1 \in 0..Len(units)
    BY <1>4, <1>11, UptoIs, UptoNext DEF x
  <2>7. \/ /\ tpc' = "done" /\ TooManyMarks(Plain(Append(u, x)))
           /\ encoded' = [error |-> "InvalidText", grams |-> <<>>, bytes |-> bytesRead]
        \/ tpc' = tpc /\ encoded' = encoded /\ Follows(Append(u, x), chars', filter')
    <3> HIDE DEF u, v
    <3>1. Follows(u, chars, filter)
      BY <1>5 DEF u
    <3> QED BY <1>18, <2>5, <2>6, <3>1, ScalarFollows
  <2>8. CASE tpc' = "done" /\ TooManyMarks(Plain(Append(u, x)))
             /\ encoded' = [error |-> "InvalidText", grams |-> <<>>, bytes |-> bytesRead]
    <3>1. TooManyMarks(Plain(Upto(units, n + 1)))
      BY <2>6, <2>8
    <3>2. TooManyMarks(Plain(units))
      BY <1>4, <2>6, <3>1, MarksOfBeginning
    <3>3. ~Accepts(units')
      BY <1>1, <3>2 DEF Accepts
    <3>4. encoded'.error = "InvalidText"
      BY <2>8
    <3> QED BY <2>8, <3>3, <3>4, InvalidIsRefused
  <2>9. CASE tpc' = tpc /\ encoded' = encoded /\ Follows(Append(u, x), chars', filter')
    <3>1. Follows(Upto(units, n + 1), chars', filter')
      BY <2>6, <2>9
    <3>2. \A i \in 1..n + 1 : units[i] \in WholeUnits
      <4>1. ASSUME NEW i \in 1..n + 1 PROVE i \in 1..n \/ i = n + 1
        OBVIOUS
      <4> QED BY <1>5, <1>18, <4>1 DEF x
    <3>3. <<>> \in Seq(Octets) /\ Len(<<>>) = 0
      BY EmptySeq
    <3>4. UnitPlace(units, n + 1) + Len(<<>>) = c + 1
      <4>1. UnitPlace(units, n + 1) = c + 1 /\ c + 1 \in Nat
        BY <1>9, <1>11, <2>3
      <4> QED BY <3>3, <4>1
    <3>5. \A i \in 1..Len(<<>>) : FALSE
      BY <3>3
    <3>6. AtUnit(n + 1, c + 1, units, <<>>, chars', filter')
      BY <2>6, <3>1, <3>2, <3>3, <3>4, <3>5 DEF AtUnit
    <3>7. AtUnit(n + 1, c + 1, units, part', chars', filter') /\ tpc' = "decode"
      BY <1>1, <2>5, <2>9, <3>6
    <3> QED BY <1>16, <2>6, <3>7
  <2> QED BY <2>7, <2>8, <2>9
<1>19. CASE ~(k < width) /\ x \notin WholeUnits
  <2>1. Len(bytes) # 0 /\ Len(bytes) = k
    BY <1>9 DEF k
  <2>2. k = Len(x) + 1 => bytes[Len(x) + 1] \notin Continuation
    <3>1. k \in 1..k
      BY <1>9
    <3> QED BY <1>10, <1>11, <3>1
  <2>3. Width(bytes[1]) = 0 \/ ~Utf8(bytes) \/ bytes = NUL
    <3>1. x \in TextUnits \ WholeUnits /\ bytes \in Seq(Octets)
      BY <1>8, <1>11, <1>19
    <3>2. \A i \in 1..Len(bytes) : i <= Len(x) => bytes[i] = x[i]
      BY <1>13, <2>1
    <3>3. Len(bytes) = Len(x) + 1 => bytes[Len(x) + 1] \notin Continuation
      BY <2>1, <2>2
    <3>4. (Len(bytes) - 1 = 0 \/ Len(bytes) - 1 < Width(bytes[1])) /\ ~(Len(bytes) < Width(bytes[1]))
      BY <1>14, <1>19, <2>1 DEF width
    <3> QED BY <2>1, <3>1, <3>2, <3>3, <3>4, BrokenUnit
  <2>4. tpc' = "done" /\ encoded' = [error |-> "InvalidText", grams |-> <<>>, bytes |-> bytesRead]
    BY <1>1, <1>19, <2>3 DEF width
  <2>5. ~Accepts(units')
    <3>1. n + 1 \in DOMAIN units /\ units[n + 1] \notin WholeUnits
      BY <1>4, <1>11, <1>19 DEF x
    <3> QED BY <1>1, <3>1 DEF Accepts
  <2>6. encoded'.error = "InvalidText"
    BY <2>4
  <2> QED BY <2>4, <2>5, <2>6, InvalidIsRefused
<1> QED BY <1>17, <1>18, <1>19

LEMMA EndIsSpecified ==
    ASSUME TextInv, TextEnds
    PROVE  TextInv'
<1> DEFINE F == FlattenSeq(units)
           N == Len(F)
<1>1. /\ tpc = "read" /\ left = <<>> /\ tpc' = "done" /\ UNCHANGED <<units, left, buffer, part, filter, chars, bytesRead>>
      /\ encoded' =
          IF part # <<>> THEN [error |-> "InvalidText", grams |-> <<>>, bytes |-> bytesRead]
          ELSE IF \A i \in DOMAIN chars : chars[i] \in White
          THEN [error |-> "InsufficientContent", grams |-> <<>>, bytes |-> bytesRead]
          ELSE [error |-> None, grams |-> Features(Nfc(chars)), bytes |-> bytesRead]
  BY DEF TextEnds
<1>2. Ahead(units, left, buffer, bytesRead) /\ InText /\ buffer = <<>>
  BY <1>1 DEF TextInv
<1>3. units \in Seq(TextUnits) /\ N \in Nat /\ bytesRead = N /\ Consumed(units, left, buffer) = N
  <2>1. units \in Seq(TextUnits) /\ bytesRead = Len(FlattenSeq(units)) - Len(left)
    BY <1>2 DEF Ahead
  <2>2. N \in Nat /\ Len(<<>>) = 0
    BY <2>1, UnitsAreBytes, EmptySeq
  <2> HIDE DEF N
  <2>3. N - 0 - 0 = N /\ N - 0 = N
    BY <2>2
  <2> QED BY <1>1, <1>2, <2>1, <2>2, <2>3 DEF Consumed, N
<1>4. PICK n \in 0..Len(units) : AtUnit(n, N, units, part, chars, filter)
  BY <1>2, <1>3 DEF InText
<1> DEFINE p == UnitPlace(units, n)
           x == units[n + 1]
<1>5. /\ \A i \in 1..n : units[i] \in WholeUnits
      /\ part \in Seq(Octets) /\ p + Len(part) = N
      /\ \A i \in 1..Len(part) : part[i] = F[p + i]
      /\ part # <<>> => Len(part) < Width(part[1])
      /\ Follows(Upto(units, n), chars, filter)
  BY <1>4 DEF AtUnit
<1>6. p \in Nat
  <2>1. Upto(units, n) \in Seq(TextUnits)
    BY <1>3, UptoIs
  <2>2. Len(FlattenSeq(Upto(units, n))) \in Nat
    BY <2>1, UnitsAreBytes
  <2> QED BY <2>2 DEF UnitPlace
<1>7. CASE part # <<>>
  <2>1. Len(part) \in Nat \ {0} /\ 1 \in 1..Len(part)
    BY <1>5, <1>7, EmptySeq
  <2>2. /\ n < Len(units) /\ x \in TextUnits
        /\ UnitPlace(units, n + 1) = p + Len(x) /\ p + Len(x) <= N
        /\ \A j \in 1..Len(x) : F[p + j] = x[j]
    <3>1. p + Len(part) <= N
      BY <1>3, <1>5
    <3> QED BY <1>3, <2>1, <3>1, UnitAt
  <2>3. x \notin WholeUnits
    <3> SUFFICES ASSUME x \in WholeUnits PROVE FALSE
      OBVIOUS
    <3>1. Len(x) \in Nat \ {0} /\ Width(x[1]) = Len(x)
      BY WholeUnit
    <3>2. part[1] = x[1]
      <4>1. 1 \in 1..Len(x)
        BY <3>1
      <4> HIDE DEF F, p, x
      <4> QED BY <1>5, <2>1, <2>2, <4>1
    <3>3. Len(part) < Len(x)
      BY <1>5, <1>7, <3>1, <3>2
    <3> HIDE DEF F, N, p, x
    <3> QED BY <1>5, <1>6, <2>1, <2>2, <3>1, <3>3
  <2>4. n + 1 \in DOMAIN units /\ units[n + 1] \notin WholeUnits
    BY <1>3, <2>2, <2>3
  <2>5. ~Accepts(units')
    BY <1>1, <2>4 DEF Accepts
  <2>6. encoded' = [error |-> "InvalidText", grams |-> <<>>, bytes |-> bytesRead]
    BY <1>1, <1>7
  <2>7. encoded'.error = "InvalidText"
    BY <2>6
  <2> QED BY <1>1, <2>5, <2>7, InvalidIsRefused
<1>8. CASE part = <<>>
  <2>1. n = Len(units)
    <3> SUFFICES ASSUME n # Len(units) PROVE FALSE
      OBVIOUS
    <3>1. n < Len(units) /\ x \in TextUnits /\ units \in Seq(Seq(Octets))
      BY <1>3, UnitsAreBytes
    <3>2. Len(x) \in Nat \ {0}
      BY <3>1, UnitStarts
    <3>3. UnitPlace(units, n + 1) = p + Len(x) /\ UnitPlace(units, n + 1) <= N
      BY <3>1, NextAt
    <3>4. p + 0 = N
      BY <1>5, <1>8, EmptySeq
    <3> HIDE DEF N, p, x
    <3> QED BY <1>3, <1>6, <3>2, <3>3, <3>4
  <2>2. Upto(units, n) = units
    BY <1>3, <2>1, UptoAll
  <2>3. chars = Plain(units) /\ ~TooManyMarks(chars)
    BY <1>5, <2>2 DEF Follows
  <2>4. Accepts(units)
    <3>1. \A i \in DOMAIN units : i \in 1..n
      BY <1>3, <2>1
    <3> QED BY <1>5, <2>3, <3>1 DEF Accepts
  <2>5. units' = units /\ TextAsSpecified'
    <3>0. units' = units
      BY <1>1
    <3>1. CASE Blank(chars)
      <4>1. encoded' = [error |-> "InsufficientContent", grams |-> <<>>, bytes |-> bytesRead]
        BY <1>1, <1>8, <3>1 DEF Blank
      <4>2. encoded'.error = "InsufficientContent" /\ None # "InsufficientContent"
        BY <4>1, TextAssumption
      <4>3. Accepts(units') /\ Blank(Plain(units'))
        BY <2>3, <2>4, <3>0, <3>1
      <4> QED BY <3>0, <4>2, <4>3 DEF TextAsSpecified
    <3>2. CASE ~Blank(chars)
      <4>1. encoded' = [error |-> None, grams |-> Features(Nfc(chars)), bytes |-> bytesRead]
        BY <1>1, <1>8, <3>2 DEF Blank
      <4>2. encoded'.error = None /\ encoded'.grams = Features(Nfc(chars)) /\ encoded'.bytes = N
            /\ None # "InvalidText" /\ None # "InsufficientContent"
        BY <1>3, <4>1, TextAssumption
      <4>3. Nfc(chars) \in Seq(Composable)
        <5>1. Plain(units) \in Seq(TextUnits)
          BY <1>3, UnitsDiffer, PlainNext
        <5> QED BY <2>3, <5>1, NfcType
      <4> DEFINE all == Substrings(Nfc(chars))
                 grams == encoded'.grams
      <4>4. Len(grams) = Cardinality(DOMAIN all) /\ \A y : Occurrences(grams, y) = Occurrences(all, y)
        BY <4>2, <4>3, GramsCounted
      <4>5. Accepts(units') /\ ~Blank(Plain(units')) /\ encoded'.bytes = Len(FlattenSeq(units'))
            /\ Len(encoded'.grams) = Cardinality(DOMAIN Substrings(Nfc(Plain(units'))))
            /\ \A y : Occurrences(encoded'.grams, y) = Occurrences(Substrings(Nfc(Plain(units'))), y)
        BY <2>3, <2>4, <3>0, <3>2, <4>2, <4>4
      <4> HIDE DEF all, grams
      <4> QED BY <3>0, <4>2, <4>5 DEF TextAsSpecified
    <3> QED BY <3>0, <3>1, <3>2
  <2> QED BY <1>1, <2>5 DEF TextInv
<1> QED BY <1>7, <1>8

\* A document's text is made of whole scalars.
LEMMA BytesAreUnits == ASSUME NEW s \in Seq(Pieces) PROVE Bytes(s) \in Seq(TextUnits)
<1>1. DOMAIN s = 1..Len(s) /\ Len(s) \in Nat
  OBVIOUS
<1>2. <<"a">> \in TextUnits /\ <<"sp">> \in TextUnits /\ LF \in TextUnits
  BY DEF TextUnits, WholeUnits
<1>3. Bytes(s) \in [1..Len(s) -> TextUnits]
  BY <1>1, <1>2 DEF Bytes
<1> QED BY <1>1, <1>3

LEMMA TextStep ==
    ASSUME DocumentInv, PagesInv, TextInv, [Next]_vars
    PROVE  TextInv'
<1>1. CASE UNCHANGED textVars
  BY <1>1 DEF textVars, TextInv, InText, TextAsSpecified
<1>2. CASE TextNext
  <2>1. ASSUME NEW input \in TextInputs, TextBegin(input) PROVE TextInv'
    <3>1. input \in Seq(TextUnits)
      BY TextAssumption
    <3> QED BY <2>1, <3>1, TextBegins
  <2> QED BY <1>2, <2>1, RefillKeeps, FailureIsSpecified, PauseKeeps, ByteKeeps, EndIsSpecified DEF TextNext
<1>3. CASE EncodeDocument
  <2>1. CASE HasText(body)
    <3>1. TextBegin(Bytes(body)) /\ dpc \in {"xml_done", "pages_done"}
      BY <1>3, <2>1 DEF EncodeDocument
    <3>2. body \in Seq(Pieces)
      BY <3>1 DEF DocumentInv, PagesInv
    <3>3. Bytes(body) \in Seq(TextUnits)
      BY <3>2, BytesAreUnits
    <3> QED BY <3>1, <3>3, TextBegins
  <2>2. CASE ~HasText(body)
    BY <1>1, <1>3, <2>2 DEF EncodeDocument
  <2> QED BY <2>1, <2>2
<1>4. CASE ReadsText
  BY <1>2, <1>4 DEF ReadsText
<1> QED BY <1>1, <1>3, <1>4 DEF Next, vars, ReadsDocument, ReadsMedia, RunsDecoder, RunsModel

\* However its bytes are cut into reads, a text is refused as invalid only if it
\* is, and otherwise every substring of its composed text is counted as often as
\* it occurs: for texts of any length, buffers and n-grams of any size
\* (Scalars::next and encode, text.rs:30-197).
THEOREM EncodingIsOfTheText == Spec => []TextAsSpecified
<1> DEFINE Inv == DocumentInv /\ PagesInv /\ TextInv
<1>1. Init => Inv
  BY DEF Init, DocumentInit, TextInit, DocumentInv, NotStarted, PagesInv, PagesAreComplete, TextInv, TextAsSpecified
<1>2. Inv /\ [Next]_vars => Inv'
  BY DocumentSteps, PagesStep, TextStep
<1>3. Inv => TextAsSpecified
  BY DEF TextInv
<1> QED BY <1>1, <1>2, <1>3, PTL DEF Spec
===============================================================================
