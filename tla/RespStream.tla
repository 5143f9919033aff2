----------------------------- MODULE RespStream -----------------------------
(***************************************************************************)
(* A connection, byte by byte: a peer that sends, a network that cuts both *)
(* directions anywhere, handle_client with parser, dispatcher and encoder, *)
(* and the reader of the peer.  The peer is a client, which sends encoded  *)
(* commands, the next perhaps before it has read the last reply, and reads *)
(* replies with recv_resp; the console of demo_client, which sends one and *)
(* takes what one recv returns for its reply; or anybody, whose bytes are  *)
(* any and who takes replies at once.                                      *)
(***************************************************************************)
EXTENDS RespScan, RespReplies

CONSTANTS
    Bytes,       \* the bytes there are
    Before,      \* the map that earlier connections have left
    Commands,    \* the commands clients send, as sequences of byte strings
    MaxSent,     \* bound: commands a client sends
    Alphabet,    \* the bytes anybody sends
    MaxLen,      \* bound: how many of them
    MaxLine,     \* bound: bytes of a number with its line end
    MaxCount     \* bound: array length

\* A command has a name, and no string of a client has a byte that UTF-8 lacks.
ASSUME StreamAssumption ==
    /\ Digits \cup {"*", "$", "+", "-", ":", "cr", "lf"} \subseteq Bytes
    /\ {"PONG", "OK", "ERR", "arity", "protocol"} \subseteq Bytes
    /\ Alphabet \subseteq Bytes
    /\ Before \in [DOMAIN Before -> Seq(Bytes)]
    /\ Commands \subseteq Seq(Seq(Bytes \ {"ff"})) \ {<<>>}

VARIABLES
    peer,       \* "client", "console" or "anybody"
    conn,       \* "open"; "left" by its client; "closed" by the handler
    sent,       \* the commands a client has sent
    network,    \* the bytes on their way to the server
    buffer,     \* the handler's buffer
    parsed,     \* what the last parse made of it
    received,   \* the commands dispatched
    data,       \* the map they have made
    wire,       \* the bytes on their way back
    reading,    \* the bytes of a reply the client has read in part
    responses   \* the replies it has read

vars == <<peer, conn, sent, network, buffer, parsed, received, data, wire, reading, responses>>

handler == <<buffer, parsed, received, data>>
reader  == <<reading, responses>>

Init ==
    /\ peer \in {"client", "console", "anybody"} /\ conn = "open"
    /\ sent = <<>> /\ network = <<>> /\ buffer = <<>> /\ parsed = Parse(<<>>)
    /\ received = <<>> /\ data = Before
    /\ wire = <<>> /\ reading = <<>> /\ responses = <<>>

-----------------------------------------------------------------------------
(* The peer *)

SendCommand(cmd) ==
    /\ peer # "anybody" /\ conn = "open" /\ Len(sent) < MaxSent
    /\ peer = "console" => Len(responses) = Len(sent)
    /\ sent' = Append(sent, cmd)
    /\ network' = network \o Encode(cmd)
    /\ UNCHANGED <<peer, conn, handler, wire, reader>>

\* The size of the next recv, more than there can be for the console.
Size == IF peer = "client" THEN Wanted(reading) ELSE Len(wire)

\* The bytes are what the peer takes for a whole reply.
Whole(reply) == peer = "console" \/ Wanted(reply) = 0

\* A peer waits for as many replies as it has sent commands.
CanRecv ==
    /\ peer # "anybody" /\ conn # "left" /\ Len(responses) < Len(sent)
    /\ wire # <<>> /\ Size > 0

\* One recv; what was asked for may come in parts.
Recv ==
    /\ CanRecv
    /\ \E n \in 1 .. Min({Size, Len(wire)}) :
          LET reply == reading \o SubSeq(wire, 1, n)
          IN  /\ wire' = SubSeq(wire, n + 1, Len(wire))
              /\ reading' = IF Whole(reply) THEN <<>> ELSE reply
              /\ responses' = IF Whole(reply) THEN Append(responses, reply) ELSE responses
    /\ UNCHANGED <<peer, conn, sent, network, handler>>

\* recv waits for more than the timeout, or raises: the socket is closed.  What
\* was sent is still on its way.
GiveUp ==
    /\ peer # "anybody" /\ conn = "open"
    /\ conn' = "left" /\ wire' = <<>>
    /\ UNCHANGED <<peer, sent, network, handler, reader>>

-----------------------------------------------------------------------------
(* handle_client *)

\* The buffer changes only on the way to the next parse.
Buffered(bytes) == buffer' = bytes /\ parsed' = Parse(bytes)

\* read is called when the buffer holds no whole command.
Reads(bytes) ==
    /\ conn # "closed" /\ parsed.status = "short"
    /\ Buffered(buffer \o bytes)
    /\ UNCHANGED <<peer, conn, sent, received, data, wire, reader>>

\* Anybody's bytes are read one by one, so every prefix is parsed: a chunk of
\* several is parsed at its end only.  One command of theirs is enough.
ReadByte(b) ==
    /\ peer = "anybody" /\ received = <<>> /\ Len(buffer) < MaxLen
    /\ LET s == Scan(Scanned(buffer), b)
       IN  s.left <= MaxCount /\ (s.at \in {"count", "length"} => Len(s.text) < MaxLine)
    /\ Reads(<<b>>)
    /\ UNCHANGED network

Read ==
    \E n \in 1 .. Len(network) :
        /\ Reads(SubSeq(network, 1, n))
        /\ network' = SubSeq(network, n + 1, Len(network))

ReadEnd ==
    /\ conn = "left" /\ parsed.status = "short" /\ network = <<>>
    /\ conn' = "closed"
    /\ UNCHANGED <<peer, sent, network, handler, wire, reader>>

\* drain raises once the client has gone.
DrainFails ==
    /\ conn = "left" /\ received # <<>>
    /\ conn' = "closed"
    /\ UNCHANGED <<peer, sent, network, handler, wire, reader>>

Writes(bytes) == wire' = IF peer # "anybody" /\ conn = "open" THEN wire \o bytes ELSE wire

\* The command is taken out of the buffer and executed.
Executes ==
    /\ conn # "closed" /\ parsed.status = "ok"
    /\ Buffered(SubSeq(buffer, parsed.idx, Len(buffer)))
    /\ received' = Append(received, parsed.parts)
    /\ data' = After(data, parsed.parts)
    /\ UNCHANGED <<peer, sent, network, reader>>

Dispatch ==
    /\ Executes
    /\ LET response == Answer(data, parsed.parts)
       IN  Encodable(response) /\ Writes(EncodeResponse(response))
    /\ UNCHANGED conn

\* encode raises and the connection is closed.  Bytes that the handler has not
\* read make this a reset, which may take replies on their way with it.
EncodeFails ==
    /\ Executes
    /\ ~Encodable(Answer(data, parsed.parts))
    /\ conn' = "closed"
    /\ wire' \in {wire} \cup {SubSeq(wire, 1, n) : n \in {m \in 0 .. Len(wire) : network # <<>>}}

\* ProtocolError: an error reply, and the buffer is dropped.
Refuse ==
    /\ conn # "closed" /\ parsed.status = "bad"
    /\ Buffered(<<>>)
    /\ Writes(EncodeResponse(ErrorResponse(<<"protocol">>)))
    /\ UNCHANGED <<peer, conn, sent, network, received, data, reader>>

Handle == Read \/ ReadEnd \/ Dispatch \/ EncodeFails \/ Refuse

Next ==
    \/ \E cmd \in Commands : SendCommand(cmd)
    \/ Recv \/ GiveUp
    \/ \E b \in Alphabet : ReadByte(b)
    \/ Handle \/ DrainFails

\* When Handle is enabled: a command or an error is in the buffer, or there is
\* more to read.
CanHandle ==
    /\ conn # "closed"
    /\ parsed.status # "short" \/ network # <<>> \/ conn = "left"

\* Bytes that were sent arrive, the event loop serves the handler, and a client
\* that waits for a reply reads what there is of it.  This is weak fairness of
\* Handle and of Recv: each of their steps uses up bytes, so that neither goes on
\* for ever without running out of them.
Fairness == []<>~CanHandle /\ []<>~CanRecv

Spec == Init /\ [][Next]_vars /\ Fairness

-----------------------------------------------------------------------------
(* Properties *)

\* On whatever bytes, parse_one on the whole buffer comes to the verdict of the
\* parser that reads once: it waits as long as that one does, refuses when it
\* does, and finds the same command; bytes after the command change nothing.
ParsesLikeAScan ==
    LET s == Scanned(buffer)
    IN  /\ parsed.status = CASE s.at = "done" -> "ok" [] s.at = "bad" -> "bad" [] OTHER -> "short"
        /\ s.at = "done" => parsed.parts = s.parts

\* Wherever a client's bytes are cut, and whatever bytes its arguments have, the
\* commands dispatched are the commands sent, none is refused, and none is left
\* in the buffer once its bytes are there.
DecodesWhatWasSent ==
    peer # "anybody" =>
        /\ parsed.status # "bad"
        /\ IsPrefix(received, sent)
        /\ conn # "closed" /\ network = <<>> /\ parsed.status = "short" =>
               buffer = <<>> /\ received = sent

\* The map after the first n commands.
MapAfter(n) ==
    LET after[i \in 0 .. n] == IF i = 0 THEN Before ELSE After(after[i - 1], sent[i])
    IN  after[n]

\* The bytes of the reply to the i-th command: what a map answers that has had
\* the commands before it.
Expected(i) == EncodeResponse(Answer(MapAfter(i - 1), sent[i]))

\* The i-th reply a client reads is the answer of a map to its i-th command,
\* whatever bytes keys and values have, however both directions are cut, however
\* many commands it has sent ahead, and whether or not the connection ends on a
\* reply that cannot be encoded; what it has begun to read is no other reply.
\* The console, which may take a part of a reply for the whole, still shows the
\* bytes of the replies in order, and none before it has asked for it.
ClientSeesAMap ==
    peer # "anybody" =>
        LET n == Len(responses) + IF reading = <<>> THEN 0 ELSE 1
        IN  /\ n <= Len(sent)
            /\ IsPrefix(FlattenSeq(responses) \o reading, FlattenSeq([i \in 1 .. n |-> Expected(i)]))
            /\ peer = "client" => \A i \in 1 .. Len(responses) : responses[i] = Expected(i)

\* A client that waits gets the reply to every command it has sent, unless the
\* connection ends.
EveryCommandReturns ==
    \A n \in 1 .. MaxSent : Len(sent) >= n ~> Len(responses) >= n \/ conn # "open"

=============================================================================
