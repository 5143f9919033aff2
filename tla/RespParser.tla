----------------------------- MODULE RespParser -----------------------------
(***************************************************************************)
(* RespParser.parse_one as an operator on sequences of symbols, one symbol *)
(* to a byte, and the encoder of the clients' side.  "cr" and "lf" are the *)
(* two bytes of a line end, "ff" a byte that UTF-8 does not have, and any  *)
(* other byte stands for itself.                                           *)
(***************************************************************************)
EXTENDS Integers, Sequences, SequencesExt

CRLF == <<"cr", "lf">>

DigitSymbols == <<"0", "1", "2", "3", "4", "5", "6", "7", "8", "9">>

Digits == ToSet(DigitSymbols)

\* str(n).encode().
Decimal[n \in Nat] ==
    IF n < 10 THEN <<DigitSymbols[n + 1]>>
    ELSE Append(Decimal[n \div 10], DigitSymbols[(n % 10) + 1])

-----------------------------------------------------------------------------
(* int() *)

\* text without the line end symbols around it, which int() takes for blanks.
Stripped(text) ==
    LET ink == {i \in 1 .. Len(text) : text[i] \notin {"cr", "lf"}}
    IN  IF ink = {} THEN <<>> ELSE SubSeq(text, Min(ink), Max(ink))

Unsigned(text) ==
    IF text # <<>> /\ text[1] \in {"-", "+"} THEN Tail(text) ELSE text

IsNumber(text) ==
    LET digits == Unsigned(Stripped(text))
    IN  digits # <<>> /\ ToSet(digits) \subseteq Digits

DigitValue(d) == CHOOSE n \in 0 .. 9 : DigitSymbols[n + 1] = d

\* The number that digits spell.
Magnitude(digits) ==
    LET first[i \in 0 .. Len(digits)] ==
            IF i = 0 THEN 0 ELSE 10 * first[i - 1] + DigitValue(digits[i])
    IN  first[Len(digits)]

Number(text) ==
    LET s == Stripped(text)
    IN  IF s[1] = "-" THEN -Magnitude(Unsigned(s)) ELSE Magnitude(Unsigned(s))

-----------------------------------------------------------------------------
(* parse_one *)

LineEndsAt(raw, i) == raw[i] = "cr" /\ raw[i + 1] = "lf"

\* raw.find(CRLF, start), with 0 for none.
Find(raw, start) ==
    LET from == start .. Len(raw) - 1
    IN  IF ~\E i \in from : LineEndsAt(raw, i) THEN 0
        ELSE CHOOSE i \in from : LineEndsAt(raw, i) /\ \A j \in start .. i - 1 : ~LineEndsAt(raw, j)

\* What a parse has come to: whether it goes on ("ok"), where, and with which
\* bulk strings.  "short" is NeedMoreData, "bad" is ProtocolError.
At(status, idx, parts) == [status |-> status, idx |-> idx, parts |-> parts]

NoLine == [status |-> "short", n |-> 0, idx |-> 0]

\* _read_number_line.
NumberLine(raw, start) ==
    LET end  == Find(raw, start)
        text == SubSeq(raw, start, end - 1)
    IN  IF end = 0 THEN NoLine
        ELSE IF IsNumber(text) THEN [status |-> "ok", n |-> Number(text), idx |-> end + 2]
        ELSE [NoLine EXCEPT !.status = "bad"]

\* raw[start:end + 1], which stops where raw does.
Slice(raw, start, end) == SubSeq(raw, start, Min({end, Len(raw)}))

\* A slip: one byte short of the line end is enough.
ArrivedEarly(raw, end) == Len(raw) >= end

\* A bulk string whose line end begins at end is there, line end included.
Arrived(raw, end) == Len(raw) >= end + 1

\* A slip: the bulk string ends at the next line end.
BodyEndByLine(raw, line) ==
    IF Find(raw, line.idx) = 0 THEN line.idx + line.n ELSE Find(raw, line.idx)

\* Where the line end after a bulk string begins, its length line having been read.
BodyEnd(raw, line) == line.idx + line.n

Bulk(raw, p, line) ==
    LET end  == BodyEnd(raw, line)
        body == Slice(raw, line.idx, end - 1)
    IN  IF ~Arrived(raw, end) THEN At("short", p.idx, <<>>)
        ELSE IF Slice(raw, end, end + 1) # CRLF \/ "ff" \in ToSet(body)
        THEN At("bad", p.idx, <<>>)
        ELSE At("ok", end + 2, Append(p.parts, body))

\* One bulk string more.
Part(raw, p) ==
    IF p.status # "ok" THEN p
    ELSE IF p.idx > Len(raw) THEN At("short", p.idx, <<>>)
    ELSE IF raw[p.idx] # "$" THEN At("bad", p.idx, <<>>)
    ELSE LET line == NumberLine(raw, p.idx + 1)
         IN  IF line.status # "ok" THEN At(line.status, p.idx, <<>>)
             ELSE IF line.n < 0 THEN At("bad", p.idx, <<>>)
             ELSE Bulk(raw, p, line)

\* n bulk strings, the first of them at idx.
Parts(raw, idx, n) ==
    LET after[i \in 0 .. n] ==
            IF i = 0 THEN At("ok", idx, <<>>) ELSE Part(raw, after[i - 1])
    IN  after[n]

Short == At("short", 0, <<>>)
Bad   == At("bad", 0, <<>>)

Verdict(p) == IF p.status = "ok" THEN p ELSE At(p.status, 0, <<>>)

Parse(raw) ==
    IF raw = <<>> THEN Short
    ELSE IF raw[1] # "*" THEN Bad
    ELSE LET count == NumberLine(raw, 2)
         IN  IF count.status # "ok" THEN At(count.status, 0, <<>>)
             ELSE IF count.n <= 0 THEN Bad
             ELSE Verdict(Parts(raw, count.idx, count.n))

-----------------------------------------------------------------------------
(* encode_command of the clients *)

EncodeBulk(part) == <<"$">> \o Decimal[Len(part)] \o CRLF \o part \o CRLF

Encode(parts) ==
    LET first[i \in 0 .. Len(parts)] ==
            IF i = 0 THEN <<"*">> \o Decimal[Len(parts)] \o CRLF
            ELSE first[i - 1] \o EncodeBulk(parts[i])
    IN  first[Len(parts)]

=============================================================================
