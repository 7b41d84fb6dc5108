------------------------------- MODULE Readers -------------------------------
(***************************************************************************)
(* What a worker process does with one request (crates/filetwin-worker/    *)
(* src/main.rs: encode): one of its readers reads the copy.  A document's  *)
(* text goes on to the text encoder.  Plain text comes to the text encoder *)
(* from the coordinator's process instead.                                 *)
(***************************************************************************)
EXTENDS TextReader, DocumentReader, MediaReader, Capture, ModelSession

vars == <<textVars, docVars, mediaVars, captureVars, sessionVars>>

Init == TextInit /\ DocumentInit /\ MediaInit /\ CaptureInit /\ SessionInit

\* The bytes of a document's text.
Bytes(s) == [i \in DOMAIN s |-> CASE s[i] = T -> <<"a">> [] s[i] = TAB -> <<"sp">> [] OTHER -> LF]

\* A document's text is blank, or is encoded.
EncodeDocument ==
    /\ dpc \in {"xml_done", "pages_done"}
    /\ IF HasText(body) THEN TextBegin(Bytes(body)) /\ UNCHANGED docVars
       ELSE DocumentFails /\ UNCHANGED textVars
    /\ UNCHANGED <<mediaVars, captureVars, sessionVars>>

\* Which readers have been asked for nothing.
Quiet == [text |-> tpc = "idle", document |-> dpc = "idle", media |-> mpc = "idle",
          decoder |-> cpc = "idle", model |-> requests = 0 /\ modelEdits = 0]
Alone(reader) == \A r \in DOMAIN Quiet \ {reader} : Quiet[r]

ReadsText ==
    /\ Alone("text") \/ tpc # "idle"
    /\ TextNext /\ UNCHANGED <<docVars, mediaVars, captureVars, sessionVars>>

ReadsDocument ==
    /\ Alone("document")
    /\ DocumentNext /\ UNCHANGED <<textVars, mediaVars, captureVars, sessionVars>>

ReadsMedia ==
    /\ Alone("media")
    /\ MediaNext /\ UNCHANGED <<textVars, docVars, captureVars, sessionVars>>

RunsDecoder ==
    /\ Alone("decoder")
    /\ CaptureNext /\ UNCHANGED <<textVars, docVars, mediaVars, sessionVars>>

RunsModel ==
    /\ Alone("model")
    /\ SessionNext /\ UNCHANGED <<textVars, docVars, mediaVars, captureVars>>

Next == ReadsText \/ ReadsDocument \/ EncodeDocument \/ ReadsMedia \/ RunsDecoder \/ RunsModel

Spec == Init /\ [][Next]_vars /\ CaptureFairness /\ SessionFairness
===============================================================================
