----------------------------- MODULE LspReader -----------------------------
(***************************************************************************)
(* LSPReader.Read (internal/io/io.go), called again and again on a stream  *)
(* that holds well-formed and malformed messages.                          *)
(*                                                                         *)
(* The stream is a sequence of tokens: header lines with their newline and *)
(* units of a JSON body, which has no newline and is not followed by one.  *)
(* So a reader that starts in a body takes the rest of it and the next     *)
(* header line for one line.  A token names the message it belongs to.     *)
(***************************************************************************)
EXTENDS Integers, Sequences, FiniteSets

CONSTANTS
  Shapes,  \* how a message may be written
  Count,   \* number of messages in the stream
  Other,   \* a header line of another name
  Junk,    \* a line without a colon
  None     \* a Content-Length that is not a number; nothing

\* lines: its header lines in order, those of Content-Length given by their value;
\* body: units of the body; json: the body is valid JSON.
ASSUME ShapeAssumption ==
  \A s \in Shapes : /\ s.lines \in Seq(Int \cup {Other, Junk, None})
                    /\ s.body \in Nat /\ s.json \in BOOLEAN
ASSUME CountAssumption == Count \in Nat
ASSUME LinesAssumption == /\ \A v \in {Other, Junk, None} : v \notin Int
                          /\ Other # Junk /\ Other # None /\ Junk # None

VARIABLES
  msgs,     \* the messages in the stream, a sequence of shapes
  pos,      \* tokens read
  start,    \* tokens read when this call of Read began
  lengths,  \* Content-Length headers of this call, in order
  results   \* history: [ok, msg, from, to] for each call that has returned

vars == <<msgs, pos, start, lengths, results>>

Token(i, kind, value) == [msg |-> i, kind |-> kind, value |-> value]
Tokens(i) ==
  LET s == msgs[i]
      Line(v) == IF v = Other THEN Token(i, "header", None)
                 ELSE IF v = Junk THEN Token(i, "junk", None) ELSE Token(i, "length", v)
  IN [l \in DOMAIN s.lines |-> Line(s.lines[l])]
       \o <<Token(i, "blank", None)>>
       \o [b \in 1..s.body |-> Token(i, "body", None)]

\* Where the tokens of message i begin and end.
Upto[i \in 0..Count] == IF i = 0 THEN 0 ELSE Upto[i - 1] + Len(Tokens(i))
Stream == LET Flat[i \in 0..Count] == IF i = 0 THEN <<>> ELSE Flat[i - 1] \o Tokens(i)
          IN Flat[Count]

Init ==
  /\ msgs \in [1..Count -> Shapes]
  /\ pos = 0 /\ start = 0 /\ lengths = <<>> /\ results = <<>>

\* Mutant: the headers outlive the call.
Return_KeepsHeaders(ok, msg, to) ==
  /\ results' = Append(results, [ok |-> ok, msg |-> msg, from |-> start, to |-> to])
  /\ pos' = to /\ start' = to
  /\ UNCHANGED <<msgs, lengths>>

\* Read returns, with or without an error, having read up to token `to'; nothing
\* of the stream is read over again by the next call.
Return(ok, msg, to) ==
  /\ results' = Append(results, [ok |-> ok, msg |-> msg, from |-> start, to |-> to])
  /\ pos' = to /\ start' = to
  /\ lengths' = <<>>
  /\ UNCHANGED msgs

\* One turn of the loop over header lines; `end' is the token that ends the line.
LineEnds == {i \in DOMAIN Stream : i > pos /\ Stream[i].kind # "body"}
LineEnd  == CHOOSE i \in LineEnds : \A j \in LineEnds : i <= j

\* A body before the line makes it a header of another name.  A rest of a body
\* need not have a colon.
Header(end) ==
  /\ end = pos + 1 => Stream[end].kind = "header"
  /\ pos' = end
  /\ UNCHANGED <<msgs, start, lengths, results>>

ContentLength(end) ==
  /\ end = pos + 1 /\ Stream[end].kind = "length"
  /\ lengths' = Append(lengths, Stream[end].value)
  /\ pos' = end
  /\ UNCHANGED <<msgs, start, results>>

InvalidLine(end) ==
  /\ IF end = pos + 1 THEN Stream[end].kind = "junk" ELSE Stream[end].kind \in {"junk", "blank"}
  /\ Return(FALSE, None, end)

\* Mutant: the JSON is not decoded.
Decodes_Anything(from, to) == TRUE

\* The units read are one body, whole and valid.
Decodes(from, to) ==
  LET units == {Stream[i] : i \in from..to}
  IN \E i \in 1..Count : /\ units = {Token(i, "body", None)}
                         /\ to = Upto[i] /\ to - from + 1 = msgs[i].body /\ msgs[i].json

\* The empty line: the headers are looked at and the body is read.  The first of
\* several Content-Length headers counts.
EndOfHeaders(end) ==
  /\ end = pos + 1 /\ Stream[end].kind = "blank"
  /\ IF lengths = <<>> \/ Head(lengths) \notin Nat \ {0}
     THEN Return(FALSE, None, end)
     ELSE LET to == end + Head(lengths) IN
          IF to > Len(Stream) THEN Return(FALSE, None, Len(Stream))
          ELSE IF Decodes(end + 1, to) THEN Return(TRUE, Stream[to].msg, to)
          ELSE Return(FALSE, None, to)

\* The stream ends in a line; at the end of the stream Read returns io.EOF.
UnexpectedEof ==
  /\ pos < Len(Stream) \/ start < pos
  /\ LineEnds = {}
  /\ Return(FALSE, None, Len(Stream))

Read ==
  \/ UnexpectedEof
  \/ /\ LineEnds # {}
     /\ LET end == LineEnd IN
          \/ Header(end) \/ ContentLength(end)
          \/ InvalidLine(end) \/ EndOfHeaders(end)

Next == Read

Spec == Init /\ [][Next]_vars

-----------------------------------------------------------------------------
(* Properties                                                              *)

Delivered == {r \in DOMAIN results : results[r].ok}

\* Whatever the stream holds, a message read without an error is a message of the
\* stream, whole, and they come each at most once and in their order: pieces of
\* malformed ones are never put together to a new one.
ReadsOnlyMessages ==
  /\ \A r \in Delivered :
       LET i == results[r].msg
       IN i \in 1..Count /\ results[r].to = Upto[i] /\ msgs[i].json
  /\ \A r, s \in Delivered : r < s => results[r].msg < results[s].msg

\* Up to the first message whose headers do not give the length of its body, Read
\* returns once for each message, with its bytes from the first header on, and
\* without an error if the JSON is valid: an invalid body costs no other message.
WellFramed(s) ==
  \E l \in DOMAIN s.lines :
    /\ s.lines[l] = s.body /\ s.body > 0
    /\ \A k \in DOMAIN s.lines : s.lines[k] # Junk /\ (k < l => s.lines[k] = Other)
InStep(i) == \A k \in 1..i : WellFramed(msgs[k])
FramingKept ==
  \A i \in 1..Count :
    InStep(i) /\ Len(results) >= i =>
      /\ results[i].from = Upto[i - 1] /\ results[i].to = Upto[i]
      /\ results[i].ok = msgs[i].json

=============================================================================
