----------------------------- MODULE RdsStream ------------------------------
(***************************************************************************)
(* What the output of a request promises its client: the bytes taken are   *)
(* always the beginning of one stream of the RDS format, none lost, doubled *)
(* or out of order, and a stream that ends where the format says it ends    *)
(* carries the whole answer of the database.                               *)
(*                                                                         *)
(* A byte here is one part of the format: the fixed part of an atom is one *)
(* byte, of a type t and with the number n that a reader needs, and so is  *)
(* each byte of text.                                                      *)
(***************************************************************************)
EXTENDS Integers, SequencesExt

VARIABLES
  sent,      \* the bytes encoded for the client, without those given up
  taken,     \* the bytes the client has
  answered,  \* the database's answer has been read to its end
  status     \* "open"; then "whole", "cut" or "page" (an error page instead)

vars == <<sent, taken, answered, status>>

Byte(t, n) == [t |-> t, n |-> n]
Text == Byte("text", 0)

\* The length that stands for NULL, (uint32_t) -1.
NullLength == -1

-----------------------------------------------------------------------------
(* A reader of the format: what it expects next, how many columns there     *)
(* are, how many columns or fields of this row and how many bytes of text   *)
(* are still to come, and where it goes after the text.                     *)

Start == [expect |-> "head", cols |-> 0, left |-> 0, text |-> 0]
Failed == [Start EXCEPT !.expect = "error"]

\* After a whole column, or a whole field: another one, or the next row.
NextAtom(s, expect) ==
  IF s.left > 1 THEN [s EXCEPT !.expect = expect, !.left = @ - 1, !.text = 0]
  ELSE [s EXCEPT !.expect = "row", !.left = 0, !.text = 0]

\* The text of a header or column is one byte, that of a field as long as the
\* length before it says.
ReadByte(s, b) ==
  CASE s.expect = "head" /\ b.t = "head" ->
         [Start EXCEPT !.expect = "info", !.cols = b.n, !.left = b.n]
    [] s.expect = "info" /\ b = Text ->
         [s EXCEPT !.expect = IF s.cols = 0 THEN "end" ELSE "col"]
    [] s.expect = "col" /\ b.t = "col" -> [s EXCEPT !.expect = "name"]
    [] s.expect = "name" /\ b = Text -> NextAtom(s, "col")
    [] s.expect = "row" /\ b = Byte("row", 0) -> [s EXCEPT !.expect = "end"]
    [] s.expect = "row" /\ b = Byte("row", 1) ->
         [s EXCEPT !.expect = "length", !.left = s.cols]
    [] s.expect = "length" /\ b.t = "length" /\ b.n > 0 ->
         [s EXCEPT !.expect = "text", !.text = b.n]
    [] s.expect = "length" /\ b.t = "length" /\ b.n <= 0 -> NextAtom(s, "length")
    [] s.expect = "text" /\ b = Text /\ s.text > 1 -> [s EXCEPT !.text = @ - 1]
    [] s.expect = "text" /\ b = Text /\ s.text = 1 -> NextAtom(s, "length")
    [] OTHER -> Failed

Parse(bytes) ==
  LET after[i \in 0..Len(bytes)] ==
        IF i = 0 THEN Start ELSE ReadByte(after[i - 1], bytes[i])
  IN  after[Len(bytes)]

Legal(bytes) == Parse(bytes).expect # "error"
Accepts(bytes) == Parse(bytes).expect = "end"

-----------------------------------------------------------------------------
Init ==
  /\ sent = <<>>
  /\ taken = <<>>
  /\ answered = FALSE
  /\ status = "open"

\* The client has what it had, and perhaps more of the stream.
Delivers == IsPrefix(taken, taken') /\ IsPrefix(taken', sent')

\* The stream grows, within the format; its end only after the answer's end.
Write ==
  /\ status = "open" /\ status' = "open"
  /\ IsPrefix(sent, sent')
  /\ Legal(sent')
  /\ answered => answered'
  /\ Accepts(sent') => answered'
  /\ Delivers

\* The whole stream is left to nginx,
EndWhole ==
  /\ status = "open" /\ status' = "whole"
  /\ Accepts(sent)
  /\ sent' = sent
  /\ UNCHANGED answered
  /\ Delivers

\* or, after a failure, a part of it or an error page.
EndCut ==
  /\ status = "open" /\ status' \in {"cut", "page"}
  /\ IsPrefix(sent', sent)
  /\ status' = "page" => sent' = <<>>
  /\ answered => answered'
  /\ Delivers

Take == status # "open" /\ Delivers /\ UNCHANGED <<sent, answered, status>>

Next == Write \/ EndWhole \/ EndCut \/ Take

Spec == Init /\ [][Next]_vars
=============================================================================
