------------------------------ MODULE RespScan ------------------------------
(***************************************************************************)
(* What parse_one has to come to: a parser that reads its input once.  The *)
(* server calls parse on its whole buffer again whenever bytes have        *)
(* arrived; scan keeps its place and looks at each byte as it comes.       *)
(***************************************************************************)
EXTENDS RespParser

\* Where scan is, the bytes since the last mark, the bulk strings still to come,
\* the length of the present one, and those it has found.
Start == [at |-> "type", text |-> <<>>, left |-> 0, want |-> 0, parts |-> <<>>]

Fail == [Start EXCEPT !.at = "bad"]

\* text, followed by what has just ended it.
LineOver(text) == Len(text) > 1 /\ SubSeq(text, Len(text) - 1, Len(text)) = CRLF
Line(text) == SubSeq(text, 1, Len(text) - 2)

\* The bulk string in text, with its line end, is complete.
BulkOver(s, text) ==
    LET body == SubSeq(text, 1, s.want)
    IN  IF SubSeq(text, s.want + 1, s.want + 2) # CRLF \/ "ff" \in ToSet(body) THEN Fail
        ELSE [s EXCEPT !.at = IF s.left = 1 THEN "done" ELSE "dollar", !.text = <<>>,
                       !.left = @ - 1, !.parts = Append(@, body)]

Scan(s, b) ==
    LET text == Append(s.text, b)
    IN  CASE s.at = "type" -> IF b = "*" THEN [s EXCEPT !.at = "count"] ELSE Fail
          [] s.at = "count" ->
                IF ~LineOver(text) THEN [s EXCEPT !.text = text]
                ELSE IF ~IsNumber(Line(text)) THEN Fail
                ELSE IF Number(Line(text)) <= 0 THEN Fail
                ELSE [s EXCEPT !.at = "dollar", !.text = <<>>, !.left = Number(Line(text))]
          [] s.at = "dollar" -> IF b = "$" THEN [s EXCEPT !.at = "length"] ELSE Fail
          [] s.at = "length" ->
                IF ~LineOver(text) THEN [s EXCEPT !.text = text]
                ELSE IF ~IsNumber(Line(text)) THEN Fail
                ELSE IF Number(Line(text)) < 0 THEN Fail
                ELSE [s EXCEPT !.at = "body", !.text = <<>>, !.want = Number(Line(text))]
          [] s.at = "body" ->
                IF Len(text) < s.want + 2 THEN [s EXCEPT !.text = text]
                ELSE BulkOver(s, text)
          [] s.at \in {"done", "bad"} -> s

Scanned(bytes) ==
    LET after[i \in 0 .. Len(bytes)] ==
            IF i = 0 THEN Start ELSE Scan(after[i - 1], bytes[i])
    IN  after[Len(bytes)]

=============================================================================
