------------------------------ MODULE TextReader ------------------------------
(***************************************************************************)
(* The UTF-8 text encoder (crates/filetwin-core/src/text.rs): bytes arrive *)
(* in reads of any size, are decoded to scalars across the ends of the     *)
(* buffer, filtered (one leading byte order mark, CR and CRLF), composed   *)
(* and cut into n-grams.                                                   *)
(*                                                                         *)
(* A scalar is the sequence of its bytes.  The bytes stand for a letter, a *)
(* blank, CR, LF, NUL, the three of the byte order mark (EF BB BF), the    *)
(* two of a combining acute accent (CC 81), and one never found in UTF-8.  *)
(***************************************************************************)
EXTENDS Option, Integers, Sequences, SequencesExt

CONSTANTS
    TextInputs,     \* the inputs, each a sequence of units
    Buffer,         \* 8192: bytes read at most at once
    MaxMarks,       \* 1024: consecutive combining marks allowed
    Grams           \* 5: length of the longest n-gram

CR == <<"cr">>   LF == <<"lf">>   NUL == <<"nul">>
BOM == <<"EF", "BB", "BF">>   MARK == <<"CC", "81">>
Composed == <<"C3", "A1">>        \* letter and accent, under NFC
Continuation == {"BB", "BF", "81"}

\* A unit is one scalar's bytes, whole, cut short or invalid.
WholeUnits == {<<"a">>, <<"sp">>, CR, LF, BOM, MARK}
TextUnits == WholeUnits \cup {NUL, <<"ff">>, <<"EF", "BB">>, <<"CC">>}

ASSUME TextAssumption ==
    /\ Buffer \in Nat \ {0} /\ MaxMarks \in Nat /\ Grams \in Nat \ {0}
    /\ TextInputs \subseteq Seq(TextUnits)
    /\ None \notin {"InvalidText", "InsufficientContent", "Cancelled", "IoError"}

VARIABLES
    tpc,        \* "idle", "read", "decode", "done"
    units,      \* the input, for the properties: its units
    left,       \* bytes the source has not given yet
    buffer,     \* bytes read and not decoded yet
    part,       \* bytes of the scalar in hand: raw_char's locals
    filter,     \* [first, previousCr, nonstarters]: fields of Scalars
    chars,      \* scalars passed on to nfc()
    bytesRead,
    encoded     \* what encode returns: [error, grams, bytes]

textVars == <<tpc, units, left, buffer, part, filter, chars, bytesRead, encoded>>

TextInit ==
    /\ tpc = "idle" /\ units = <<>> /\ left = <<>> /\ buffer = <<>> /\ part = <<>>
    /\ filter = [first |-> TRUE, previousCr |-> FALSE, nonstarters |-> 0]
    /\ chars = <<>> /\ bytesRead = 0 /\ encoded = None

TextBegin(input) ==
    /\ tpc = "idle" /\ tpc' = "read"
    /\ units' = input /\ left' = FlattenSeq(input)
    /\ UNCHANGED <<buffer, part, filter, chars, bytesRead, encoded>>

TextFails(e) ==
    /\ tpc' = "done" /\ encoded' = [error |-> e, grams |-> <<>>, bytes |-> bytesRead]
    /\ UNCHANGED <<units, left, buffer, part, filter, chars, bytesRead>>

-----------------------------------------------------------------------------
(* Scalars::byte: the buffer is refilled when it is used up.  A read gives *)
(* as many bytes as it likes; one that is interrupted is tried again.      *)

Refill ==
    /\ tpc = "read" /\ left # <<>>
    /\ \E n \in 1..Buffer :
          /\ n <= Len(left)
          /\ buffer' = SubSeq(left, 1, n) /\ left' = SubSeq(left, n + 1, Len(left))
          /\ bytesRead' = bytesRead + n
    /\ tpc' = "decode"
    /\ UNCHANGED <<units, part, filter, chars, encoded>>

\* Cancelled before a read, or the read fails.
RefillFails == tpc = "read" /\ \E e \in {"Cancelled", "IoError"} : TextFails(e)

-----------------------------------------------------------------------------
(* Scalars::raw_char and next.                                             *)

Width(b) == CASE b \in Continuation \cup {"ff"} -> 0
              [] b = "CC" -> 2 [] b = "EF" -> 3 [] OTHER -> 1

\* from_utf8 of a sequence of the width its first byte asks for.
Utf8(bytes) == \A i \in 2..Len(bytes) : bytes[i] \in Continuation

\* canonical_combining_class is not 0.
Nonstarter(c) == c[1] = "CC"

\* Seeded fault: LF after CR is dropped only if both were in one buffer.
FollowsCrInBuffer(c) == c = LF /\ filter.previousCr /\ Len(buffer) + 1 < Buffer

\* A CR is passed on as LF at once, so the LF after it is dropped.
FollowsCr(c) == c = LF /\ filter.previousCr

\* What next() does with a whole scalar.
Filtered(c) ==
    LET f == [filter EXCEPT !.first = FALSE] IN
    IF filter.first /\ c = BOM THEN filter' = f /\ UNCHANGED <<tpc, chars, encoded>>
    ELSE IF FollowsCr(c) THEN filter' = [f EXCEPT !.previousCr = FALSE] /\ UNCHANGED <<tpc, chars, encoded>>
    ELSE LET marks == IF Nonstarter(c) THEN f.nonstarters + 1 ELSE 0 IN
         /\ filter' = [f EXCEPT !.previousCr = (c = CR), !.nonstarters = marks]
         /\ IF marks > MaxMarks
            THEN /\ tpc' = "done" /\ UNCHANGED chars
                 /\ encoded' = [error |-> "InvalidText", grams |-> <<>>, bytes |-> bytesRead]
            ELSE /\ chars' = Append(chars, IF c = CR THEN LF ELSE c)
                 /\ UNCHANGED <<tpc, encoded>>

DecodePauses ==
    /\ tpc = "decode" /\ buffer = <<>> /\ tpc' = "read"
    /\ UNCHANGED <<units, left, buffer, part, filter, chars, bytesRead, encoded>>

DecodeByte ==
    /\ tpc = "decode" /\ buffer # <<>>
    /\ buffer' = Tail(buffer)
    /\ LET bytes == Append(part, Head(buffer))  width == Width(bytes[1]) IN
       IF Len(bytes) < width
       THEN part' = bytes /\ UNCHANGED <<tpc, filter, chars, encoded>>
       ELSE /\ part' = <<>>
            /\ IF width = 0 \/ ~Utf8(bytes) \/ bytes = NUL
               THEN /\ tpc' = "done" /\ UNCHANGED <<filter, chars>>
                    /\ encoded' = [error |-> "InvalidText", grams |-> <<>>, bytes |-> bytesRead]
               ELSE Filtered(bytes)
    /\ UNCHANGED <<units, left, bytesRead>>

-----------------------------------------------------------------------------
(* encode, when the source is at its end.                                  *)

\* nfc(), for these scalars: a letter takes the accent that follows it.
Nfc(s) ==
    LET f[n \in 0..Len(s)] ==
            IF n = 0 THEN <<>>
            ELSE IF s[n] = MARK /\ f[n - 1] # <<>> /\ Last(f[n - 1]) = <<"a">>
            THEN Append(Front(f[n - 1]), Composed) ELSE Append(f[n - 1], s[n])
    IN f[Len(s)]

\* The window of the last scalars takes one more.
Slide(w, c) == Append(IF Len(w) = Grams THEN Tail(w) ELSE w, c)

\* The n-grams counted, in order: for each scalar those that end with it.
Features(s) ==
    LET f[n \in 0..Len(s)] ==
            IF n = 0 THEN [window |-> <<>>, grams |-> <<>>]
            ELSE LET w == Slide(f[n - 1].window, s[n]) IN
                 [window |-> w,
                  grams  |-> f[n - 1].grams \o [k \in 1..Len(w) |-> SubSeq(w, Len(w) - k + 1, Len(w))]]
    IN f[Len(s)].grams

White == {<<"sp">>, LF}

TextEnds ==
    /\ tpc = "read" /\ left = <<>>
    /\ tpc' = "done"
    /\ encoded' =
          IF part # <<>> THEN [error |-> "InvalidText", grams |-> <<>>, bytes |-> bytesRead]
          ELSE IF \A i \in DOMAIN chars : chars[i] \in White
          THEN [error |-> "InsufficientContent", grams |-> <<>>, bytes |-> bytesRead]
          ELSE [error |-> None, grams |-> Features(Nfc(chars)), bytes |-> bytesRead]
    /\ UNCHANGED <<units, left, buffer, part, filter, chars, bytesRead>>

TextNext ==
    \/ \E input \in TextInputs : TextBegin(input)
    \/ Refill \/ RefillFails \/ DecodePauses \/ DecodeByte \/ TextEnds
===============================================================================
