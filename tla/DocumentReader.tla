---------------------------- MODULE DocumentReader ----------------------------
(***************************************************************************)
(* The document reader of a worker (crates/filetwin-worker/src/            *)
(* documents.rs).  For DOCX, docx_xml follows the events of the main       *)
(* document with a depth counter and three markers and keeps no stack of   *)
(* open elements; here that stack is the parser's, which checks that       *)
(* elements nest.  For PDF, the texts of the pages are joined.             *)
(*                                                                         *)
(* Text is a sequence of pieces: T for characters that are not blank, TAB, *)
(* and the ends of lines.  Sizes and limits are counted in pieces.         *)
(***************************************************************************)
EXTENDS Integers, Sequences

CONSTANTS
    Elements,       \* [word, name]: in a WordprocessingML namespace, local name
    Books,          \* the PDFs: sequences of pages, which are sequences of pieces
    MaxDepth,       \* 256
    MaxText,        \* MAX_TEXT_BYTES
    MaxPages,       \* 10000
    WidestChar      \* 4: pieces a character may take

T == "T"  TAB == "tab"  NL == "nl"  RET == "cr"
Pieces == {T, TAB, NL}

Word(name) == [word |-> TRUE, name |-> name]
Skipped == {Word("del"), Word("txbxContent")}
Breaks  == {Word("br"), Word("cr")}

ASSUME DocumentAssumption ==
    /\ MaxDepth \in Nat /\ MaxText \in Nat /\ MaxPages \in Nat /\ WidestChar \in Nat \ {0}
    /\ Elements \subseteq [word : BOOLEAN, name : STRING]
    /\ Books \subseteq Seq(Seq(Pieces \cup {RET}))

Absent == 0         \* None, for the markers: depths start at 1

VARIABLES
    dpc,            \* "idle", "package", "xml", "xml_done", "pages", "pages_done", "failed"
    stack,          \* elements open, outermost first: the parser's
    depth, bodyDepth, skipDepth, textDepth, bodySeen, documentSeen,
    body,           \* the text extracted so far: result, or body
    book, page, textPages,
    \* For the properties:
    bodies,         \* w:body elements opened below the root: none, one, or more
    should          \* the text the document's author wrote

markers == <<depth, bodyDepth, skipDepth, textDepth, bodySeen, documentSeen>>
author  == <<stack, bodies, should>>
pdf     == <<book, page, textPages>>
docVars == <<dpc, author, markers, body, pdf>>

DocumentInit ==
    /\ dpc = "idle" /\ stack = <<>> /\ depth = 0
    /\ bodyDepth = Absent /\ skipDepth = Absent /\ textDepth = Absent
    /\ bodySeen = FALSE /\ documentSeen = FALSE
    /\ body = <<>> /\ bodies = 0 /\ should = <<>>
    /\ book = <<>> /\ page = 0 /\ textPages = 0

DocumentFails == dpc' = "failed" /\ UNCHANGED <<author, markers, body, pdf>>

\* The loop goes on with s added to the text, within its limit.
Extracts(s) ==
    /\ body' = body \o s
    /\ dpc' = IF Len(body \o s) > MaxText THEN "failed" ELSE dpc

-----------------------------------------------------------------------------
(* docx: zip_preflight and the other checks of the package pass, or a      *)
(* limit, a duplicate or missing member or the archive's reader refuses it.*)

DocxBegin ==
    /\ dpc = "idle" /\ dpc' = "package"
    /\ UNCHANGED <<author, markers, body, pdf>>

Unpack ==
    /\ dpc = "package"
    /\ DocumentFails \/ (dpc' = "xml" /\ UNCHANGED <<author, markers, body, pdf>>)

-----------------------------------------------------------------------------
(* The author writes by the open elements alone: text belongs to the       *)
(* document if it stands in a w:t, in the first w:body below the root,     *)
(* outside deletions and text boxes.                                       *)

Encloses(E) == \E i \in DOMAIN stack : stack[i] \in E
Visible ==
    /\ Len(stack) >= 2 /\ stack[2] = Word("body") /\ bodies = 1
    /\ ~Encloses(Skipped)
Means(s) == should' = IF Visible THEN should \o s ELSE should

\* docx_xml's own idea of the same.
Counted == bodyDepth # Absent /\ skipDepth = Absent

-----------------------------------------------------------------------------
(* docx_xml, one event of the parser at a time.  A w:t holds text and      *)
(* elements of other namespaces only, as its schema says.                  *)

\* Seeded fault: a deletion inside a deletion moves the marker.
SkipFromInner(e, d) == IF e \in Skipped THEN d ELSE skipDepth

SkipFrom(e, d) == IF e \in Skipped /\ skipDepth = Absent THEN d ELSE skipDepth

Started(e) == CASE e = Word("tab") -> <<TAB>> [] e \in Breaks -> <<NL>> [] OTHER -> <<>>

Start(e) ==
    LET d == depth + 1
        isBody == e = Word("body") /\ d = 2 /\ ~bodySeen
        isText == e = Word("t") /\ Counted
        refused == d > MaxDepth \/ (d = 1 /\ (e # Word("document") \/ documentSeen))
    IN
    /\ dpc = "xml"
    /\ Encloses({Word("t")}) => ~e.word
    /\ stack' = Append(stack, e)
    /\ bodies' = IF e = Word("body") /\ Len(stack) = 1 THEN (IF bodies = 0 THEN 1 ELSE 2) ELSE bodies
    /\ Means(Started(e))
    /\ depth' = d
    /\ IF refused
       THEN /\ dpc' = "failed"
            /\ UNCHANGED <<bodyDepth, skipDepth, textDepth, bodySeen, documentSeen, body>>
       ELSE /\ documentSeen' = TRUE
            /\ bodyDepth' = IF isBody THEN d ELSE bodyDepth
            /\ bodySeen' = (bodySeen \/ isBody)
            /\ skipDepth' = SkipFrom(e, d)
            /\ textDepth' = IF isText THEN d ELSE textDepth
            /\ Extracts(IF Counted THEN Started(e) ELSE <<>>)
    /\ UNCHANGED pdf

\* An element without content.
Lone(e) == IF e = Word("p") THEN <<NL>> ELSE Started(e)

Empty(e) ==
    /\ dpc = "xml"
    /\ Encloses({Word("t")}) => ~e.word
    /\ Means(Lone(e)) /\ Extracts(IF Counted THEN Lone(e) ELSE <<>>)
    /\ UNCHANGED <<stack, bodies, markers, pdf>>

Ended(e) == IF e = Word("p") THEN <<NL>> ELSE <<>>
Close(marker) == IF marker = depth THEN Absent ELSE marker

End ==
    /\ dpc = "xml" /\ stack # <<>>
    /\ LET e == stack[Len(stack)] IN
       Means(Ended(e)) /\ Extracts(IF Counted THEN Ended(e) ELSE <<>>)
    /\ stack' = SubSeq(stack, 1, Len(stack) - 1)
    /\ textDepth' = Close(textDepth) /\ skipDepth' = Close(skipDepth) /\ bodyDepth' = Close(bodyDepth)
    /\ depth' = depth - 1
    /\ UNCHANGED <<bodies, bodySeen, documentSeen, pdf>>

\* Characters, CDATA, or a reference to a character.
Text ==
    /\ dpc = "xml"
    /\ Means(IF Encloses({Word("t")}) THEN <<T>> ELSE <<>>)
    /\ Extracts(IF textDepth # Absent THEN <<T>> ELSE <<>>)
    /\ UNCHANGED <<stack, bodies, markers, pdf>>

\* A document type, an unknown entity, or what the parser refuses.
Refuse == dpc = "xml" /\ DocumentFails

Eof ==
    /\ dpc = "xml"
    /\ dpc' = IF documentSeen /\ bodySeen /\ depth = 0 THEN "xml_done" ELSE "failed"
    /\ UNCHANGED <<author, markers, body, pdf>>

-----------------------------------------------------------------------------
(* pdf.                                                                    *)

PdfBegin(b) ==
    /\ dpc = "idle" /\ book' = b
    /\ dpc' = IF Len(b) > MaxPages THEN "failed" ELSE "pages"
    /\ UNCHANGED <<author, markers, body, page, textPages>>

\* CRLF and CR become LF.
Lines(s) ==
    LET keep[n \in 0..Len(s)] ==
            IF n = 0 THEN <<>>
            ELSE IF s[n] = NL /\ n > 1 /\ s[n - 1] = RET THEN keep[n - 1]
            ELSE Append(keep[n - 1], IF s[n] = RET THEN NL ELSE s[n])
    IN keep[Len(s)]

\* Seeded fault: pages are joined as they are.
Unseparated(s) == s

\* The text with the end of its last line.
Separated(s) == IF s # <<>> /\ s[Len(s)] # NL THEN Append(s, NL) ELSE s

HasText(s) == \E i \in DOMAIN s : s[i] = T

ReadPage ==
    /\ dpc = "pages" /\ page < Len(book)
    /\ LET text == book[page + 1]  joined == Separated(body) \o Lines(text) IN
       IF Len(body) + WidestChar * Len(text) + 1 > MaxText
       THEN DocumentFails
       ELSE /\ page' = page + 1 /\ body' = joined
            /\ textPages' = textPages + (IF HasText(Lines(text)) THEN 1 ELSE 0)
            /\ dpc' = IF Len(joined) > MaxText THEN "failed" ELSE dpc
            /\ UNCHANGED <<author, markers, book>>

PageFails == dpc = "pages" /\ page < Len(book) /\ DocumentFails

PagesEnd ==
    /\ dpc = "pages" /\ page = Len(book)
    /\ dpc' = IF textPages = Len(book) THEN "pages_done" ELSE "failed"
    /\ UNCHANGED <<author, markers, body, pdf>>

DocumentNext ==
    \/ DocxBegin \/ Unpack
    \/ (\E e \in Elements : Start(e) \/ Empty(e)) \/ End \/ Text \/ Refuse \/ Eof
    \/ (\E b \in Books : PdfBegin(b)) \/ ReadPage \/ PageFails \/ PagesEnd
===============================================================================
