---------------------------- MODULE RespReplies ----------------------------
(***************************************************************************)
(* The way back: Dispatcher.dispatch for the commands that read and write  *)
(* one value, RespEncoder.encode, and the reader of the clients.  Text the *)
(* properties do not look into is one symbol.                              *)
(***************************************************************************)
EXTENDS RespParser

-----------------------------------------------------------------------------
(* dispatch.  data is a map from the keys that are there to their values. *)

PING == <<"P">>
SET == <<"S">>
GET == <<"G">>
DEL == <<"D">>
EXISTS == <<"E">>

\* Command.normalized_name: strip takes line ends from around a name.  Letters have
\* one case.
NormalizedName(cmd) == Stripped(cmd[1])

Arity == [name \in {PING, SET, GET, DEL, EXISTS} |->
             CASE name = PING -> 0 [] name = SET -> 2 [] name \in {GET, DEL, EXISTS} -> 1]

Response(type, value) == [type |-> type, value |-> value]

BulkResponse(data, k) == IF k \in DOMAIN data THEN Response("bulk", data[k])
                                              ELSE Response("null", <<>>)

IntegerResponse(truth) == Response("integer", IF truth THEN <<"1">> ELSE <<"0">>)

\* Response.error of "unknown command '...'" and of "wrong number of arguments".
ErrorResponse(text) == Response("error", <<"ERR">> \o text)

\* The arity is one that the command's handler takes.
Accepted(cmd) ==
    NormalizedName(cmd) \in DOMAIN Arity /\ Len(cmd) = Arity[NormalizedName(cmd)] + 1

\* What dispatch returns, and the map it leaves.
Answer(data, cmd) ==
    LET name == NormalizedName(cmd)
    IN  IF name \notin DOMAIN Arity THEN ErrorResponse(cmd[1])
        ELSE IF ~Accepted(cmd) THEN ErrorResponse(<<"arity">>)
        ELSE CASE name = PING   -> Response("simple", <<"PONG">>)
               [] name = SET    -> Response("simple", <<"OK">>)
               [] name = GET    -> BulkResponse(data, cmd[2])
               [] name \in {DEL, EXISTS} -> IntegerResponse(cmd[2] \in DOMAIN data)

Stored(data, k, value) ==
    [key \in DOMAIN data \cup {k} |-> IF key = k THEN value ELSE data[key]]

After(data, cmd) ==
    IF ~Accepted(cmd) THEN data
    ELSE CASE NormalizedName(cmd) = SET -> Stored(data, cmd[2], cmd[3])
           [] NormalizedName(cmd) = DEL -> Restrict(data, DOMAIN data \ {cmd[2]})
           [] OTHER -> data

-----------------------------------------------------------------------------
(* encode *)

\* A slip: nothing is refused.
AnythingGoes(r) == TRUE

\* _validate_no_crlf; when it raises, nothing is written.
Encodable(r) ==
    r.type \in {"simple", "error"} => ToSet(r.value) \cap {"cr", "lf"} = {}

EncodeResponse(r) ==
    CASE r.type = "simple"  -> <<"+">> \o r.value \o CRLF
      [] r.type = "error"   -> <<"-">> \o r.value \o CRLF
      [] r.type = "integer" -> <<":">> \o r.value \o CRLF
      [] r.type = "bulk"    -> EncodeBulk(r.value)
      [] r.type = "null"    -> <<"$", "-", "1">> \o CRLF

-----------------------------------------------------------------------------
(* recv_resp of the clients *)

\* A slip: the length -1 has no return of its own.
BodyWantedAlways(length) == length + 2

\* The bytes of a bulk string after its length line.
BodyWanted(length) == IF length = -1 THEN 0 ELSE length + 2

\* The size of the next recv, with reading the bytes of the reply so far: a line
\* is read byte by byte.  0 when the reply is complete; -1 is the ValueError for a
\* reply that begins with none of the known bytes.
Wanted(reading) ==
    IF reading = <<>> THEN 1
    ELSE IF reading[1] \notin {"+", "-", ":", "$"} THEN -1
    ELSE LET end == Find(reading, 2)
         IN  IF end = 0 THEN 1
             ELSE IF reading[1] # "$" THEN 0
             ELSE end + 1 + BodyWanted(Number(SubSeq(reading, 2, end - 1))) - Len(reading)

=============================================================================
