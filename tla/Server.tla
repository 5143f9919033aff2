------------------------------- MODULE Server -------------------------------
(***************************************************************************)
(* AsyncRedisServer: the handlers of the connections, the snapshot task    *)
(* and the shutdown, as they take turns on the event loop.                 *)
(*                                                                         *)
(* A handler gives up control only where it awaits: in read, in drain and  *)
(* in wait_closed.  Everything between two awaits is one step.  A client's *)
(* stream is a sequence of pieces, two to a request, because all that      *)
(* parsing depends on is whether the buffer begins with a whole request,   *)
(* with a part of one, with something that is no request (RespParser.tla   *)
(* shows which), or in the middle of a request, where it may find anything.*)
(*                                                                         *)
(* Memory and files are reduced to the sets of writes they contain: that   *)
(* these sets survive a restart is the subject of Persistence.tla.         *)
(***************************************************************************)
EXTENDS Integers, Sequences

CONSTANTS
    Conns,            \* the connections clients open
    Patient,          \* those whose clients go on reading their replies
    Kinds,            \* per connection, the kinds of requests its client sends, and
                      \* of the commands that the bytes of its arguments spell
    MaxRequests,      \* bound: requests on each connection
    OutLimit,         \* replies a transport holds before drain waits
    Faults,           \* whether an append, a save or a reset may fail
    ShutdownSnapshot, \* whether close takes a snapshot
    WaitsForClients   \* whether Server.wait_closed of this Python waits for them

\* write: changes memory.  plain: is answered and changes nothing.  save: SAVE.
\* raising: its error reply would contain a line break, or it is an EXPIRE by more
\* seconds than a float holds.  malformed: its first piece is no RESP.
AllKinds == {"write", "plain", "save", "raising", "malformed"}

ASSUME ServerAssumption ==
    /\ Patient \subseteq Conns
    /\ Kinds \in [Conns -> SUBSET AllKinds]
    /\ MaxRequests \in [Conns -> Nat]
    /\ OutLimit \in Nat
    /\ Faults \in BOOLEAN
    /\ ShutdownSnapshot \in BOOLEAN
    /\ WaitsForClients \in BOOLEAN

VARIABLES
    stream,    \* per connection, the pieces its client has sent
    eof,       \* per connection, whether its client sends no more
    got,       \* per connection, how many pieces the handler has read
    buffer,    \* per connection, the handler's buffer
    inside,    \* per connection, whether the buffer begins in the middle of a piece
    pc,        \* per connection, "new", at "read", "parse", "drain" or "closing", or "gone"
    answers,   \* per connection, the replies written
    taken,     \* per connection, how many replies have left the transport: its client
               \* has read them, or there was room for them on the way
    mem,       \* the writes memory contains
    log,       \* the writes appendonly.aof contains
    rdb,       \* the writes dump.rdb contains
    life       \* "starting", "up", "draining", "closed", "ending", "stopped"

vars == <<stream, eof, got, buffer, inside, pc, answers, taken, mem, log, rdb, life>>

client  == <<stream, eof, taken>>
input   == <<got, buffer, inside>>
handler == <<got, buffer, inside, pc, answers>>
data    == <<mem, log, rdb>>

Piece == [req : Nat, part : {1, 2}, kind : AllKinds]

\* A reply: the request whose bytes it was found in, what was found there, with
\* "malformed" for an error of the protocol, and whether parse began at the first
\* byte of that request.
Answer == [req : Nat, kind : AllKinds, whole : BOOLEAN]

\* A write, by the number of its reply on its connection.
Write == Conns \X Nat

Init ==
    /\ stream = [c \in Conns |-> <<>>] /\ eof = [c \in Conns |-> FALSE]
    /\ got = [c \in Conns |-> 0] /\ buffer = [c \in Conns |-> <<>>]
    /\ inside = [c \in Conns |-> FALSE]
    /\ pc = [c \in Conns |-> "new"]
    /\ answers = [c \in Conns |-> <<>>] /\ taken = [c \in Conns |-> 0]
    /\ mem = {} /\ log = {} /\ rdb = {}
    /\ life = "starting"

Becomes(c, label) == pc' = [pc EXCEPT ![c] = label]

-----------------------------------------------------------------------------
(* start *)

Start ==
    /\ life = "starting"
    /\ life' = "up"
    /\ UNCHANGED <<client, handler, data>>

\* The port is taken: run_server ends before the block that closes.
StartFails ==
    /\ life = "starting"
    /\ life' = "stopped"
    /\ UNCHANGED <<client, handler, data>>

-----------------------------------------------------------------------------
(* Clients *)

\* The loop of the handler runs.
Serving(c) == pc[c] \in {"read", "parse", "drain"}

Open(c) == Serving(c) \/ pc[c] = "closing"

Connect(c) ==
    /\ life = "up" /\ pc[c] = "new"
    /\ Becomes(c, "read")
    /\ UNCHANGED <<client, input, answers, data, life>>

\* The requests c's client has sent in full.
Sent(c) == Len(stream[c]) \div 2

HalfSent(c) == Len(stream[c]) % 2 = 1

\* What comes when the loop has been left is not looked at.
Send(c, kind) ==
    /\ Serving(c) /\ ~eof[c]
    /\ IF HalfSent(c) THEN kind = stream[c][Len(stream[c])].kind
                      ELSE Sent(c) < MaxRequests[c]
    /\ stream' = [stream EXCEPT ![c] =
           Append(@, [req  |-> Sent(c) + 1,
                      part |-> IF HalfSent(c) THEN 2 ELSE 1,
                      kind |-> kind])]
    /\ UNCHANGED <<eof, taken, handler, data, life>>

EndStream(c) ==
    /\ Serving(c) /\ ~eof[c]
    /\ eof' = [eof EXCEPT ![c] = TRUE]
    /\ UNCHANGED <<stream, taken, handler, data, life>>

\* The transport gives a reply to the network: the client reads, or there is room.
TakeReply(c) ==
    /\ Open(c) /\ taken[c] < Len(answers[c])
    /\ taken' = [taken EXCEPT ![c] = @ + 1]
    /\ UNCHANGED <<stream, eof, handler, data, life>>

\* A slip: only the read is left by an exception.
AwaitsInput == {"read"}

\* The awaits of the loop: an exception that comes out of one leads to finally.
Awaits == {"read", "drain"}

\* The connection is lost: whichever await the handler is at raises, and
\* wait_closed has nothing to wait for.
Reset(c) ==
    /\ pc[c] \in Awaits \cup {"closing"}
    /\ Becomes(c, "gone")
    /\ UNCHANGED <<client, input, answers, data, life>>

-----------------------------------------------------------------------------
(* PersistenceManager.snapshot *)

SnapshotDone == rdb' = mem /\ log' = {}

\* A slip: the log is emptied also when the snapshot was not written.
SnapshotSwallows == Faults /\ rdb' \in {rdb, mem} /\ log' = {}

\* The log cannot be removed, or the snapshot cannot be written.
SnapshotFails == Faults /\ rdb' \in {rdb, mem} /\ UNCHANGED log

-----------------------------------------------------------------------------
(* handle_client *)

\* A slip: what is left of the last chunk is replaced by the next.
ChunkAlone(c, n) == SubSeq(stream[c], got[c] + 1, n)

\* A slip: whatever has been read is parsed again.
ChunkAgain(c, n) == buffer[c] \o SubSeq(stream[c], 1, n)

\* The buffer when the pieces up to the n-th have been read.
Chunk(c, n) == buffer[c] \o SubSeq(stream[c], got[c] + 1, n)

\* A read returns some of what has arrived and not been read.
Read(c) ==
    /\ pc[c] = "read"
    /\ \E n \in got[c] + 1 .. Len(stream[c]) :
          /\ got' = [got EXCEPT ![c] = n]
          /\ buffer' = [buffer EXCEPT ![c] = Chunk(c, n)]
    /\ Becomes(c, "parse")
    /\ UNCHANGED <<client, inside, answers, data, life>>

\* A slip: the end of a stream is seen only between requests.
AtEndWhole(c) == eof[c] /\ got[c] = Len(stream[c]) /\ buffer[c] = <<>>

AtEnd(c) == eof[c] /\ got[c] = Len(stream[c])

ReadEnd(c) ==
    /\ pc[c] = "read" /\ AtEnd(c)
    /\ Becomes(c, "closing")
    /\ UNCHANGED <<client, input, answers, data, life>>

\* What parse makes of a buffer.  Where it begins amid a request, behind an error,
\* the bytes may be anything: no request, the beginning of one, or a whole one.
Stray(c) == buffer[c] # <<>> /\ (inside[c] \/ Head(buffer[c]).part = 2)

Broken(c) == buffer[c] # <<>> /\ Head(buffer[c]).kind = "malformed"

\* A slip: the end of a request is seen only when more follows it.
CompleteLate(c) == Len(buffer[c]) > 2 /\ ~Broken(c) /\ ~Stray(c)

Complete(c) == Len(buffer[c]) > 1 /\ ~Broken(c) /\ ~Stray(c)

Short(c) == ~Complete(c) /\ ~Broken(c)

\* NeedMoreData, or nothing left.
NeedMore(c) ==
    /\ pc[c] = "parse" /\ (Short(c) \/ Stray(c))
    /\ Becomes(c, "read")
    /\ UNCHANGED <<client, input, answers, data, life>>

Reply(c, kind) ==
    answers' = [answers EXCEPT ![c] =
        Append(@, [req |-> Head(buffer[c]).req, kind |-> kind, whole |-> ~Stray(c)])]

\* A slip: the bytes that are no request stay in the buffer.
RefuseAgain(c) ==
    /\ pc[c] = "parse" /\ (Broken(c) \/ Stray(c))
    /\ Reply(c, "malformed")
    /\ Becomes(c, "drain")
    /\ UNCHANGED <<client, input, data, life>>

\* ProtocolError: an error reply, and the buffer is dropped.
Refuse(c) ==
    /\ pc[c] = "parse" /\ (Broken(c) \/ Stray(c))
    /\ Reply(c, "malformed")
    /\ buffer' = [buffer EXCEPT ![c] = <<>>] /\ inside' = [inside EXCEPT ![c] = FALSE]
    /\ Becomes(c, "drain")
    /\ UNCHANGED <<client, got, data, life>>

\* A slip: a request is executed and stays in the buffer.
RestAll(b) == b

\* The buffer without its first request.
Rest(b) == SubSeq(b, 3, Len(b))

\* The buffer begins with a whole request of this kind.
Whole(c, kind) ==
    /\ Complete(c) /\ Head(buffer[c]).kind = kind
    /\ buffer' = [buffer EXCEPT ![c] = Rest(@)]
    /\ UNCHANGED inside

\* Bound: the replies up to which a command may be found amid a request.
MaxReplies(c) == MaxRequests[c]

\* Amid a request parse finds a command of this kind, whose bytes are n pieces of the
\* buffer, perhaps with a part of the next.
Amid(c, kind) ==
    /\ Stray(c) /\ kind \in Kinds[c] \ {"malformed"} /\ Len(answers[c]) < MaxReplies(c)
    /\ \E n \in 0 .. Len(buffer[c]), partly \in BOOLEAN :
          /\ IF partly THEN n < Len(buffer[c]) ELSE n > 0
          /\ buffer' = [buffer EXCEPT ![c] = SubSeq(@, n + 1, Len(@))]
          /\ inside' = [inside EXCEPT ![c] = partly]

\* The handler takes a command of this kind out of its buffer.
Consume(c, kind) ==
    /\ pc[c] = "parse"
    /\ Whole(c, kind) \/ Amid(c, kind)
    /\ UNCHANGED <<client, got, life>>

Answered(c, kind) == Reply(c, kind) /\ Becomes(c, "drain")

\* An exception leaves the loop: the connection is closed without a reply.
Closed(c) == Becomes(c, "closing") /\ UNCHANGED answers

Request(c) == <<c, Len(answers[c]) + 1>>

Execute(c) ==
    /\ Consume(c, "write")
    /\ mem' = mem \cup {Request(c)} /\ log' = log \cup {Request(c)}
    /\ UNCHANGED rdb
    /\ Answered(c, "write")

\* append raises OSError after memory has changed.
ExecuteFails(c) ==
    /\ Faults
    /\ Consume(c, "write")
    /\ mem' = mem \cup {Request(c)} /\ UNCHANGED <<log, rdb>>
    /\ Closed(c)

\* PING, the reads, and the error replies of dispatch.
ExecutePlain(c) ==
    /\ Consume(c, "plain")
    /\ Answered(c, "plain")
    /\ UNCHANGED data

\* SAVE; when a file fails, dispatch lets the OSError through.
ExecuteSave(c) ==
    /\ Consume(c, "save")
    /\ \/ SnapshotDone /\ Answered(c, "save")
       \/ SnapshotFails /\ Closed(c)
    /\ UNCHANGED mem

\* encode raises ValueError for an error text with a line break; expire raises
\* OverflowError.
ExecuteRaises(c) ==
    /\ Consume(c, "raising")
    /\ Closed(c)
    /\ UNCHANGED data

\* A slip: one limit for the replies of all connections.
AllHaveRoom(c) == \A d \in Conns : Len(answers[d]) - taken[d] <= OutLimit

HasRoom(c) == Len(answers[c]) - taken[c] <= OutLimit

\* The transport holds no reply.
Flushed(c) == taken[c] = Len(answers[c])

\* drain returns when the transport holds few enough replies.
Drained(c) ==
    /\ pc[c] = "drain" /\ HasRoom(c)
    /\ Becomes(c, "parse")
    /\ UNCHANGED <<client, input, answers, data, life>>

\* wait_closed returns when the transport has sent all it holds.
Finish(c) ==
    /\ pc[c] = "closing" /\ Flushed(c)
    /\ Becomes(c, "gone")
    /\ UNCHANGED <<client, input, answers, data, life>>

-----------------------------------------------------------------------------
(* Snapshots and shutdown *)

\* The periodic task, which close cancels.
TakeSnapshot ==
    /\ life = "up" \/ (life = "draining" /\ WaitsForClients)
    /\ SnapshotDone \/ SnapshotFails
    /\ UNCHANGED <<client, handler, mem, life>>

\* The main task is cancelled: serve_forever closes the listening socket.
Stop ==
    /\ life = "up"
    /\ life' = "draining"
    /\ UNCHANGED <<client, handler, data>>

\* close: the snapshot of the shutdown, if there is one, once serve_forever has been left.
Close ==
    /\ life = "draining"
    /\ WaitsForClients => \A c \in Conns : ~Open(c)
    /\ IF ShutdownSnapshot THEN SnapshotDone \/ SnapshotFails ELSE UNCHANGED <<log, rdb>>
    /\ life' = "closed"
    /\ UNCHANGED <<client, handler, mem>>

\* asyncio.run cancels the handlers that are left, once, each at its await: one in
\* the loop goes on to wait_closed, one in wait_closed ends.
CancelAll ==
    /\ life = "closed" /\ \A c \in Conns : pc[c] # "parse"
    /\ pc' = [c \in Conns |-> CASE pc[c] \in Awaits -> "closing"
                                [] pc[c] = "closing" -> "gone"
                                [] OTHER -> pc[c]]
    /\ life' = "ending"
    /\ UNCHANGED <<client, input, answers, data>>

\* It waits for all of them.
Exit ==
    /\ life = "ending" /\ \A c \in Conns : ~Open(c)
    /\ life' = "stopped"
    /\ UNCHANGED <<client, handler, data>>

Serve(c) ==
    \/ Read(c) \/ ReadEnd(c) \/ NeedMore(c) \/ Refuse(c)
    \/ Execute(c) \/ ExecuteFails(c) \/ ExecutePlain(c) \/ ExecuteSave(c)
    \/ ExecuteRaises(c) \/ Drained(c) \/ Finish(c)

Next ==
    \/ \E c \in Conns :
          \/ Connect(c) \/ EndStream(c) \/ TakeReply(c) \/ Reset(c)
          \/ \E kind \in Kinds[c] : Send(c, kind)
          \/ Serve(c)
    \/ Start \/ StartFails \/ TakeSnapshot \/ Stop \/ Close \/ CancelAll \/ Exit

Spec == Init /\ [][Next]_vars

\* The event loop gives every task that can go on its turn, patient clients
\* read their replies, and a shutdown goes on by itself.
FairSpec ==
    /\ Spec
    /\ \A c \in Conns : WF_vars(Serve(c))
    /\ \A c \in Patient : WF_vars(TakeReply(c))
    /\ WF_vars(Close) /\ WF_vars(CancelAll) /\ WF_vars(Exit)

-----------------------------------------------------------------------------
(* Properties *)

\* Streams, buffers, replies and files have the shapes handle_client and
\* snapshot give them, and no handler has read more than was sent.
TypeOK ==
    /\ stream \in [Conns -> Seq(Piece)] /\ eof \in [Conns -> BOOLEAN]
    /\ got \in [Conns -> Nat] /\ buffer \in [Conns -> Seq(Piece)]
    /\ inside \in [Conns -> BOOLEAN]
    /\ pc \in [Conns -> {"new", "read", "parse", "drain", "closing", "gone"}]
    /\ answers \in [Conns -> Seq(Answer)] /\ taken \in [Conns -> Nat]
    /\ mem \subseteq Write /\ log \subseteq Write /\ rdb \subseteq Write
    /\ life \in {"starting", "up", "draining", "closed", "ending", "stopped"}
    /\ \A c \in Conns : got[c] <= Len(stream[c]) /\ taken[c] <= Len(answers[c])
    /\ \A c \in Conns : Len(buffer[c]) <= got[c]

\* No reply to c has been an error reply of the protocol.
Clean(c) == \A i \in 1 .. Len(answers[c]) : answers[c][i].kind # "malformed"

\* However the stream is cut into chunks, what a handler has read is the
\* requests it has answered, in order and once each, and then its buffer.
NothingLostOrTwice ==
    \A c \in Conns : Serving(c) /\ Clean(c) =>
        /\ \A i \in 1 .. Len(answers[c]) : answers[c][i].req = i
        /\ buffer[c] = SubSeq(stream[c], 2 * Len(answers[c]) + 1, got[c])

\* After protocol errors as well, when parsing may go on amid a request and find
\* commands in its bytes, replies follow the order of the stream, and a request that
\* is parsed from its first byte comes after all replies to the bytes before it and
\* never a second time.
InOrder ==
    \A c \in Conns : \A j \in 1 .. Len(answers[c]) : \A i \in 1 .. j - 1 :
        /\ answers[c][i].req <= answers[c][j].req
        /\ answers[c][j].whole => answers[c][i].req < answers[c][j].req

\* Whatever snapshots and failures of the files come between, an acknowledged
\* write is in one of the files, and what memory has beyond them is a write
\* whose connection was closed without a reply.
AcknowledgedIsOnFile ==
    /\ \A c \in Conns : \A i \in 1 .. Len(answers[c]) :
          answers[c][i].kind = "write" => <<c, i>> \in log \cup rdb
    /\ \A w \in mem \ (log \cup rdb) : pc[w[1]] \in {"closing", "gone"}

\* A request that was sent in full is answered, unless an error reply or the
\* end of the connection comes first, as long as its client reads its replies,
\* and whatever other clients do.
Progress ==
    \A c \in Patient : \A i \in 1 .. MaxRequests[c] :
        Sent(c) >= i ~> Len(answers[c]) >= i \/ ~Clean(c) \/ ~Serving(c)

\* A shutdown that waits for no client ends, whatever its clients have in the middle
\* of being sent, unless a client neither reads what it is owed nor hangs up: then
\* wait_closed keeps the process alive.
ShutdownEnds ==
    (\A c \in Conns : []<>(Flushed(c) \/ ~Open(c))) => (life = "draining" ~> life = "stopped")

\* Each client has closed its side, and reads what it is owed.
AllHungUp == \A c \in Conns : (Serving(c) => eof[c]) /\ (Open(c) => c \in Patient)

\* A shutdown that waits for the clients ends once each has closed its side,
\* whatever it left in the middle of being sent, and reads what it is owed.
ShutdownEndsAfterClients == life = "draining" /\ AllHungUp ~> life = "stopped"

-----------------------------------------------------------------------------
(* What the documents say and the code does not do *)

\* An unknown command is answered with an error (code_review.txt:33).
UnknownCommandAnswered ==
    [][\A c \in Conns :
          buffer[c] # <<>> /\ buffer'[c] = SubSeq(buffer[c], 3, Len(buffer[c]))
              => Len(answers'[c]) > Len(answers[c])]_vars

=============================================================================
