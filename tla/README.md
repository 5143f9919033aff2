# Mini Redis in TLA+

This directory holds a model of the Mini Redis server in `src/`, the TLC runs
that check it on small instances, and proofs checked by TLAPS of the
properties that matter most. `PROJECT.json` lists, for every definition, the
lines of code it stands for, and for every property a plausible slip in the
code that the property catches.

## 1. The system

Mini Redis is one Python process. An asyncio event loop accepts connections,
each connection parses commands out of a byte buffer and hands them to one
dispatcher, the dispatcher calls the storage engine and, after a write, the
persistence manager. Two files survive the process: `dump.rdb`, a snapshot,
and `appendonly.aof`, a log of the writes since.

| component | source | state | operations |
|---|---|---|---|
| Expiration manager | `src/src/storage/expiration.py` | absolute deadlines per key | set, drop, test and read a deadline; filter all of them |
| In-memory store, engine | `src/src/storage/in_memory.py`, `engine.py` | hash table of values, the deadlines | set, get, delete, exists, expire, ttl, snapshot, load, get_expire_at; a key is evicted when a method meets it after its deadline |
| Append-only log | `src/src/persistence/aof.py` | lines of `appendonly.aof` | append, replay, reset |
| RDB snapshot | `src/src/persistence/rdb.py` | `dump.rdb` | save by temporary file and replace, load |
| Persistence manager | `src/src/persistence/manager.py` | none of its own | restore = load, replay, load_snapshot; snapshot = engine snapshot, save, reset; record_write |
| Dispatcher | `src/src/server/dispatcher.py` | none of its own | one handler per command: check, change memory, log, reply |
| TCP server | `src/src/server/tcp_server.py` | a buffer per connection, the snapshot task | read, parse, dispatch, drain; periodic snapshot; close |
| RESP parser, encoder | `src/src/protocol/` | none | bytes to command, response to bytes |
| Cluster router | `src/src/cluster/router.py` | a list of nodes per process | hash slot, owner, MOVED |
| Hash table | `src/asd.py` | buckets and a size | get, set, delete, pop, clear, resize |
| Assembly | `src/src/main.py` | none | restore, then build and run the server |
| Clients | `src/scripts/demo_client.py`, `benchmark.py` | a socket | encode a command, read its reply, give up after a time |
| Benchmark service, test pages | `src/flask_test/` | none of its own; MongoDB, Redis and Mini Redis | seed, measure, clean up; insert, delete all, set |

How they interact: everything is a synchronous call except reading, draining
and sleeping in the TCP server. A command therefore runs from the parse to the
reply without any other command in between. The points where something else
can happen are the operations on files, which may fail or be the last thing
the process does, and the reads of the clock, which goes on while a method
runs. The clients are other processes: they see the server through a socket,
and the benchmark service runs its requests in threads.

What is hard:

* A key's expiry is decided at each read of the clock. Several methods read it
  twice (`ttl`, `expire`, `get_expire_at`, `snapshot`, `load`), and what the
  first read allowed the second may contradict.
* A snapshot is two file operations (replace `dump.rdb`, unlink the log). After
  a crash between them the log is replayed on a snapshot that already has its
  effect.
* Evictions are never logged. Files and memory drift apart, and a log record
  may be replayed on a snapshot that lost its key.
* An append can fail or be torn; the next append continues the broken line.
* Handlers of connections alternate at `read`, `drain` and `wait_closed`, with
  snapshots and the shutdown between them; one exception closes a connection
  after memory has changed.
* After a protocol error parsing goes on amid a request, and takes its bytes for
  anything.
* TCP cuts a pipeline of requests anywhere, also inside a length or a line end.
* Replies carry no name of their request: a client takes the next one for its
  answer, so one reply too many, or one that is read in part, shifts all others.
* A client that gives up leaves its command on the way to the server.
* Every process decides by its own list of nodes who owns a key, and may come
  back with another one.
* `time.time` may be set back between two calls.
* The benchmark service runs without a lock, and each of its requests is a long
  sequence of calls any of which may fail.
* A write changes memory before the log. If the append fails, memory keeps a
  change the log lacks, until the key is written again or a snapshot is taken.

What makes each component correct:

* engine: nobody can tell lazy eviction from entries that disappear at their
  deadline; no value and no deadline is given up early; no deadline is left
  without a value (`HashTable.pop` would raise `KeyError`);
* persistence: whatever crashes, failures and restarts lie between, clients
  are served what the finished commands left;
* start: it ends, in a running server or a refused log;
* TCP server: the requests of a connection are answered once, in order,
  however the bytes are cut; an acknowledged write is in a file; a client that
  reads is served whatever others do; shutdown ends, unless a client neither
  reads nor hangs up;
* RESP parser: parsing the buffer again and again finds what reading each byte
  once finds;
* clients: the replies a client reads are those of a map to its commands, in
  order, and every command it waits for returns;
* cluster: while the node lists agree on a key, one owner for it, one map, and
  answers for all;
* benchmark service: what is measured was there; a cleanup that succeeds leaves
  nothing, whatever failed before it;
* hash table: it is a map, also through a resize that inserts through the
  method that called it.

## 2. The modules

| module | what it is |
|---|---|
| `StorageOps` | the methods of `InMemoryStore` and `ExpirationManager` as operators on a pair of tables, with every clock read a parameter |
| `ExpiringMap` | abstract specification: a map whose entries disappear at their deadline |
| `Storage` | the engine as a state machine: one action per method, a clock, the last reply |
| `Persistence` | one process with its two files: commands, log, snapshots, failures, crashes, restarts |
| `PersistenceInv` | the inductive invariant of `Persistence` |
| `StorageLemmas`, `StorageProofs` | what the operators do to one key; the theorems about `Storage` |
| `PersistenceProofs` | the theorems about `Persistence` |
| `Server` | the handlers of the connections, the snapshot task and the shutdown on one event loop |
| `ServerProofs` | the theorems about `Server` |
| `RespParser` | `parse_one` and the clients' `encode_command` as operators on bytes |
| `RespScan` | the reference: a parser that reads each byte once |
| `RespReplies` | `dispatch` for five commands, `encode`, and the clients' `recv_resp`, as operators |
| `RespStream` | a connection byte by byte: peer, network, `handle_client`, and the way back |
| `Dict`, `HashTable` | a plain map, and the hash table that implements it |
| `HashTableProofs` | the theorems about `HashTable`, the refinement of `Dict` among them |
| `Cluster` | servers with their own node lists and clients that follow MOVED |
| `ClusterProofs` | the theorems about `Cluster` |
| `Bench` | the benchmark service and the test pages on three stores |
| `RespProofs` | the theorems about `RespStream` |
| `BenchProofs` | the theorems about `Bench` |
| `MCStorage`, `MCPersistence`, `MCServer`, `MCRespStream`, `MCHashTable`, `MCCluster`, `MCBench` | values of the constants and symmetry for TLC |

`Storage` and `Persistence` both use the operators of `StorageOps`, so the
lemmas about them serve both sets of proofs.

### StorageOps and Storage

A store is `[data, expires]`: `_data` and `_expiration._expires_at` as total
functions, with `None` for a key that is not there. The same pair is what
`dump.rdb` holds and what a replay builds. The clock counts ticks and a second
of `EXPIRE` is `TicksPerSecond` of them, so that fractions of a second and
`int()`, which truncates towards zero, are visible.

Each method is one action. `ClockRuns = TRUE` lets the clock move to any later
instant at each read; a pass over all keys may then find expired any key that
falls due while it runs (`PassFinds`). `ClockRuns = FALSE` makes every method
take no time; then `RefinesIdeal` says that `Storage` implements `ExpiringMap`.
Under `ClockRuns = TRUE` it says so of every call that takes no time, whatever
slower calls came before it; the slower calls are left to the other properties.
A method that reads the clock at `t1` and at `t2` has both in
its definition: `ExpireKey(s, k, seconds, t1, t2)` tests at `t1` and sets the
deadline from `t2`.

`SetBack` moves the clock to any earlier instant between two calls. Within a
call it only goes forward. All properties hold through it: "early" is measured
by the clock the method reads.

### Persistence

| state | code |
|---|---|
| `store`, `now` | the engine and `time.time` |
| `rdb` | `dump.rdb`; no file and an empty one load alike |
| `aof`, `ragged` | the lines of the log, and whether the last one lacks its newline |
| `mode` | down, booting, up, or refused: replay raised `ValueError` |
| `recovered`, `pos` | the `ReplayState` and how far the replay is |
| `step`, `rec` | where the running command or snapshot is: `deadline` before `get_expire_at`, `log` before the append, `unlink` before the reset of the log |
| `expected`, `tainted` | history: what the finished commands left, and the keys of which a record may be missing |

| actions | code |
|---|---|
| `Boot`, `ReplayRecord`, `ReplayTorn`, `FinishBoot` | `PersistenceManager.restore` and `InMemoryStore.load` |
| `Set`, `Del`, `Expire` | the handlers up to the change of memory |
| `ReadDeadline`, `LogAppend`, `LogFails` | `record_write`, `AofPersistence.append` |
| `Read`, `Ttl` | GET, EXISTS, TTL: they evict and log nothing |
| `SaveRdb`, `SaveFails`, `ResetLog`, `ResetFails` | `PersistenceManager.snapshot`, called by SAVE, the periodic task and shutdown |
| `Crash`, `CrashInAppend` | the process dies between, or inside, the steps |

A write of a record may stop before its first byte, inside the record, or just
before its newline. Text after a line without a newline joins that line, so a
second record on it makes the line unreadable (`Written`).

`expected` is updated when a command ends, with the record it stands for. A
command whose append failed has changed memory as well, so `expected` follows,
but the key is `tainted`: after a restart it may be what the log says or what
memory said, and the property takes what the boot finds for what the command
left, at every boot again. A logged SET or DEL, or a snapshot that reset the log,
ends that.

### Server

A handler gives up control only at its three awaits: `read`, `drain` and, when
it has left its loop, `wait_closed`. What lies between two awaits is one action.
A client's stream is a sequence of pieces, two to a request, so a chunk may end
inside a request. That is all the loop depends on: `RespParser` shows that the
parser waits, answers or refuses accordingly.

| state | code |
|---|---|
| `stream`, `eof` | what the client has sent, whether it is done |
| `got`, `buffer`, `pc`, `answers` | `handle_client`: bytes read, buffer, place in the loop or at `wait_closed` (`"closing"`), replies written |
| `inside` | whether the buffer begins in the middle of a piece, which only happens behind a protocol error |
| `taken` | how many replies have left the transport, which `drain` and `wait_closed` look at |
| `mem`, `log`, `rdb` | which writes memory and the two files contain |
| `life` | starting, accepting, draining (cancelled), closed, ending (handlers cancelled), stopped |

| actions | code |
|---|---|
| `Start`, `StartFails` | `start`; the port is taken, and the process ends outside the block that would call `close` |
| `Read`, `ReadEnd`, `NeedMore`, `Refuse` | lines 85 to 99: chunk, end of stream, `NeedMoreData`, `ProtocolError` |
| `Execute`, `ExecuteFails`, `ExecutePlain`, `ExecuteSave`, `ExecuteRaises` | lines 101 to 103, with `append`, the snapshot of SAVE or `encode` raising |
| `Drained` | `drain` returns when the transport holds at most `OutLimit` replies |
| `Finish` | `wait_closed` returns when the transport holds none |
| `Reset` | the connection is lost: the await of the moment raises, and `wait_closed` does not wait |
| `TakeSnapshot`, `Stop`, `Close` | the periodic task, cancellation of `serve_forever`, `close` |
| `CancelAll`, `Exit` | the end of `asyncio.run`: it cancels every handler that is left, once, and waits for all of them |

A command in the buffer is `Whole`, two pieces of one request, or it is found
`Amid` a request. The second happens behind a protocol error only, which drops
the buffer and with it, perhaps, the beginning of a request: what comes then is
parsed from wherever it begins (`Stray`), and may be no request, the beginning of
one, which then waits for bytes of requests that follow, or a whole one, spelled
by the bytes of an argument. `Amid` takes any number of pieces out of the buffer,
or a part of one, and `Kinds` says which commands it may find. So nothing can be
promised of which requests are answered behind an error: `NothingLostOrTwice`
speaks of connections without one. `InOrder` speaks of all: replies follow the
order of the stream, and a request parsed from its first byte comes after
everything before it and never a second time. `MaxReplies` bounds how often `Amid`
happens, on top of `MaxRequests`.

A write is named by the number of its reply, because one request may give none,
or several. One kind of requests raises: when its error reply has a line break in
it (an unknown command whose name contains CR or LF), and when an EXPIRE is longer
than a float holds.

`WaitsForClients` is the version of Python: from 3.12 on `Server.wait_closed`
waits until the connections are gone, before that it returns at once. Leaving
the server block calls it before `close` takes the shutdown snapshot, which
`ShutdownSnapshot` turns off; the periodic task goes on until `close` cancels it.

`ShutdownEnds` is about a server that does not wait. A handler that is cancelled
at `read` or `drain` still runs its `finally`, and its `wait_closed` returns only
when the replies in the transport have gone or the connection is lost. A client
that neither reads nor hangs up therefore keeps the process alive, after the last
snapshot; the premise of `ShutdownEnds` excludes that client and nothing else. (A
handler that is already at `wait_closed` when it is cancelled ends.) Where the
server waits, nothing in the code ends a connection, so `ShutdownEndsAfterClients`
asks that clients hang up and read what they are owed.

### RespParser, RespScan, RespReplies, RespStream

Bytes are symbols; those with a meaning in RESP are themselves, `"cr"` and
`"lf"` are the bytes of a line end and `"ff"` is a byte that is not UTF-8.
`int()` takes a sign and ignores line ends around the digits; both are
modelled, underscores between digits are not. Letters have one case, and text
that no property looks into (`ERR arity`) is one symbol.

`RespScan` keeps a place and never looks back; the server parses the whole
buffer again whenever bytes come. In `RespStream` both must come to the same
verdict on every buffer.

`RespStream` has one peer:

* a *client* sends encoded commands, the next perhaps before it has read the
  last reply, and reads replies with `recv_resp`: `Wanted` is the size of the
  next `recv`, computed from the bytes of the reply so far;
* the *console* sends a command when it has a reply, and takes for that reply
  whatever one `recv` returns;
* *anybody* sends any bytes, one by one, and takes replies at once.

| actions | code |
|---|---|
| `SendCommand`, `Recv`, `GiveUp` | `sendall` of `encode_command`, one `recv`, a time-out or another exception that closes the socket |
| `Read`, `ReadByte`, `ReadEnd` | `reader.read`: any part of what is on the way |
| `Dispatch`, `EncodeFails`, `Refuse` | a command answered, one whose reply raises, a protocol error |
| `DrainFails` | `drain` raises because the client has gone |

Commands change a map, `data`, that starts with what earlier connections left.
`Expected(i)` is what such a map answers to the i-th command; `ClientSeesAMap`
compares the bytes the client has taken with it. The console is promised less,
because it may take a part of a reply for the whole: its bytes are those of the
replies, in order. `EncodeFails` closes the connection while bytes may be
unread; TCP then resets it, and replies that are on their way may be lost.

### HashTable and Dict

`buckets` and `size` are the fields. Methods are single actions except
`__setitem__` above the load factor: `_resize` calls `__setitem__` for each old
pair, and that call may call `_resize` again. `pending` is what all the calls
on the stack have still to insert, so `Reinsert` is one round of the innermost
loop, and the invariants speak of the table in the middle of it. Callers see
pairs that are pending as if they were in: `Abstract` is that map, and every
method must return or raise what `Dict` does. `MinCapacity` stands for 8.

### Cluster

Each process has its `list` and its own identity, `Self`: name and address. A
list may be any of `Lists`; nothing in the code makes two agree. A client sends
a request to any process and goes where MOVED sends it. `Restart` ends a process
and starts it with any list; its data come back from its files (`Persistence`),
and requests at it may be lost with their connections. Data do not follow a
list.

`owner` remembers per key which process all lists so far have named, or `None`.
`AgreedOn(k)` is the premise of the properties: it is about one key, so that a
restart with a list that gives other keys away leaves the promise about this
one. Lists that disagree are in the run too; there a client may be sent back
and forth for ever, and a node that the list names differently redirects to
itself.

### Bench

A request of the benchmark service is the sequence of calls that `run_benchmark`
or `run_cleanup` makes; `Benchmark(w, c)` and `Cleanup(w, c)` build it. Each
call is one step on one of three stores, so that the threads, the test pages
and late commands come between any two. Values are left out: the promise is
about which keys are where. `docs` counts documents, because `insert_one` of
the test page adds a second one for the same key and `update_one` changes one.

| actions | code |
|---|---|
| `BeginBenchmark`, `BeginCleanup` | the routes, `validate_common_params` |
| `Step`, `Fails`, `Finish` | a call, an exception that ends the request with a 500, the reply |
| `TimesOut`, `ExecuteLate` | `recv` times out; the server executes the command later |
| `InsertDoc`, `DeleteAllDocs`, `SetRedis` | the test pages |

`job[r].others` says whether somebody else has set or deleted while `r` ran:
the three properties promise nothing then, as the code has no lock. The service
does not look at what its lookups return; `GetsHit` is what makes their times
comparable. `recv_resp` takes an error reply for a reply like any other
(`db_benchmark.py:60`), and a refused SET would count as done; the model has no
such reply, because a server started by `main.py` has no list of nodes and
answers SET, GET and DEL with one key without an error. Only keys of one template
are modelled. `count` of 0 is answered
with 400; without that check `build_summary` would fail on no samples.

## 3. The runs

| run | constants | what it shows |
|---|---|---|
| `storage` | 2 keys, 2 values, durations -1, 0, 1, 2, 2 ticks a second, 5 ticks, the clock moves inside methods | no deadline without a value; no value and no deadline given up early; a call that takes no time does what `ExpiringMap` does, whatever came before |
| `persistence` | 2 keys, 1 value, 1 tick, durations 0 to 2, logs of 2, clock and faults on, fairness | types, no orphan deadline, the inductive invariant, `ServesExpected`; boots and commands end |
| `server_framing` | 1 connection, 3 requests that are plain, raise or are malformed, 1 reply in a transport, no faults, a shutdown that waits for clients, fairness | requests are answered once, in order and all of them, however they are cut; replies keep the order behind errors too; the shutdown ends after its client |
| `server_two` | 2 connections, one with 2 requests that write or raise, one with a write or a SAVE whose client never reads, faults, fairness | acknowledged writes are in a file and what only memory has was not acknowledged; the first client is served; shutdown ends unless a client neither reads nor hangs up |
| `resp` | 2 commands out of 6 with every cut of both directions; 12 bytes over `* $ 1 2 - ff cr lf`, lines of at most 4, arrays of at most 2 | `parse_one` agrees with the parser that reads once; what clients send is dispatched; what they read is what a map answers; every command returns |
| `hash_table` | 4 keys, two of them in one bucket at every capacity, 2 values, capacity 2 to 8, fairness | it implements a map; its invariants hold inside a resize; a resize ends |
| `cluster` | 2 processes with 5 possible lists and restarts, a client that writes a key and one that reads two, 2 values, fairness | one map, one owner, one redirect, an answer, for keys the lists agree on |
| `bench` | 2 threads, warm-ups of 0 and 1, counts of 0 and 1, 2 documents with one key, 1 late call | lookups hit, successful benchmarks compare equal stores, successful cleanups are complete |
| four violation runs | 1 key, 1 value, 1 or 2 ticks, logs of 2; 1 connection, 1 request | disagreements 1 to 4 below |

Why the bounds are enough. Keys only meet in passes over the table and in torn
lines, so two keys show every way one can disturb another; in `storage` two
values tell an old value from a new one. `persistence` has one value and a clock
that moves once: the run is there to find a wrong model quickly, with every
action and the faults and crashes between them, and the theorems hold for any
values, clocks and logs. Durations cover negative, zero, one that ends within
the bound of the clock and one that outlives it. Five ticks at two a second
give fractions of a second on both sides of a deadline.
Three requests are the fewest in which one is cut, one is whole behind it and
one follows in the next chunk; two connections show every way one can disturb
another. Twelve bytes hold a command with a bulk string of two bytes, and every
way one can go wrong in its two numbers. Two commands of a client are a write
and what reads it back, or a reply and the one that a misread reply would
shift; the six commands have line ends as a key, a value that begins like a
request, every kind of reply, and the one that cannot be encoded. Four keys
take a table of capacity 2 through two resizes, with a collision that no
capacity resolves. Two processes are enough for lists to disagree and for a
redirect to go back; a third node in a list is one where nobody listens. Two
threads and one late call give every pair of overlapping requests; one or two
keys give a first, a next and, for a lookup, a wrong key. `MaxTime` and
`MaxLog` only stop the clock and the log; a command with no record to write is
stopped by `MaxLog` as well. Symmetry of keys, values and threads is sound
because they are only stored and compared, and no run with symmetry checks
liveness.

The engine, the process of `Persistence`, the hash table, the clients of
`Cluster` and the service of `Bench` can always take a step, and their runs check for deadlock. A `Server`
that has stopped stops, and `RespStream` ends with its bounds: those runs turn deadlock checking off.

Fairness. `FairSpec` asks weak fairness of each step the process takes by
itself: a boot that began goes on, a command that began goes on to its append
or its unlink. The event loop does not interrupt them and they wait for
nobody. Restarting (`Boot`) is weakly fair because a supervisor or a user
starts the server again; no fairness is asked of clients, of the clock or of
faults. In `Server` the event loop gives every task that can go on
its turn (`Serve`), and a shutdown that can go on does (`Close`, `CancelAll`,
`Exit`). Only clients in `Patient` are assumed to read; none is assumed to send
or to hang up. In `HashTable` a call that has begun runs on, and in `Cluster`
servers answer and clients follow. `RespStream` states its fairness by when the
handler and a waiting client can go on (`CanHandle`, `CanRecv`): never to go on
although they can is excluded, and as each of their steps uses up bytes, this is
weak fairness of the two. Whether a client sends, or gives up, is open.
`EndsWhatItBegins` is about runs with finitely many crashes: nothing
can be promised to a process that is killed at every start.

## 4. Where documents and code disagree

Four runs show a sentence of the documents that the code does not keep:

1. `resurrected_at_load` (`docs/rdb.md:37`): a key that expired while the
   server was down is restored, and without a deadline. `InMemoryStore.load`
   filters the deadlines before it evicts by them.
2. `deadline_lost_in_dump` (`docs/rdb.md:14`): a key that falls due between
   the eviction pass and the filter of the deadlines in `snapshot` is saved
   without its deadline.
3. `cut_newline` (`docs/aof.md:42`): a record cut just before its newline, by a
   crash inside the append or a failed write, is taken for a whole one at the
   restart, and its command, which was never acknowledged, takes effect.
4. `unencodable_silent` (`code_review.txt:33`): an unknown command whose name
   contains CR or LF gets no error reply; the connection is closed.

The models show six more, which have no run of their own:

* `ttl` answers -2, drops the deadline and keeps the value for ever when a
  whole second passes between its two clock reads (`requirements.md:43`);
* the log is replayed on the snapshot, not instead of it
  (`completion_update.txt:10`); here the code is right;
* an EXPIRE answered 1 is not logged when its deadline passes before
  `record_write` reads it back (`completion_update.txt:13`);
* when the log cannot be written the client is not told: its connection is
  closed, and memory has changed (`docs/aof.md:41`);
* a client that neither reads its replies nor hangs up keeps the process alive
  after its last snapshot: `asyncio.run` waits for the handler, which waits in
  `wait_closed` (`tcp_server.py:108`);
* `pop(key, None)` raises `KeyError` where a dict returns `None` (`asd.py:11`).
  No caller meets it: `SoundTables` shows why.

Because of 1, 2 and the first of the six, `ServesExpected` promises of a key
whose deadline has come only that it has its last value or none, not that it is
gone.

## 5. What is proved

The theorems hold for every value of the constants that satisfies the named
assumption of the module: any sets of keys, values, connections, processes and
clients, any hash function, any bounds, with `ClockRuns` and `Faults` on or
off. What is assumed:

* `StorageAssumption`, `CallsAssumption`, `ProcessAssumption`: `None` is not a
  value and not an integer, a second has at least one tick, durations are
  integers, bounds are natural numbers;
* `ServerAssumption`: the types of the parameters, and the patient clients are
  some of the connections;
* `StreamAssumption`: the protocol's symbols are bytes, the map holds byte
  strings, and a command of a client has a name and only bytes that UTF-8 has;
* `TableAssumption`: a hash is an integer, and a table has at least one bucket
  at first (`MIN_CAPACITY` is 8);
* `ClusterAssumption`: two processes do not listen on one address, a node list
  is a sequence with at least one node (`ClusterRouter` raises otherwise), a
  slot is in range;
* `BenchAssumption`: every document number a request may prepare is an index,
  and the bounds are natural numbers.

| module | theorem | states |
|---|---|---|
| `StorageProofs` | `TypeCorrect`, `SoundTables` | `TypeOK`; `DeadlineHasData` |
| | `ValuesKept`, `DeadlinesKept` | the action properties `NoEarlyLoss`, `NoEarlyPersist` |
| | `LazyIsEager` | `RefinesIdeal`: `Storage` implements `ExpiringMap` |
| `PersistenceProofs` | `TypeCorrect`, `TypesKept` | `TypeOK`; `DeadlineHasData` |
| | `FilesAndMemoryAgree`, `Durability` | `IInv` is inductive; `ServesExpected` |
| `ServerProofs` | `TypeCorrect` | `TypeOK` |
| | `Framing`, `OrderKept` | `NothingLostOrTwice`, `InOrder` |
| | `AcknowledgedKept` | `AcknowledgedIsOnFile` |
| `RespProofs` | `SentIsDispatched` | `DecodesWhatWasSent` |
| `RespProofs` | `ParsedAsScanned` | `ParsesLikeAScan` |
| `RespProofs` | `AnswersOfAMap` | `ClientSeesAMap` |
| `HashTableProofs` | `TypeCorrect`, `KeysAtHome`, `LoadBounded` | `TypeOK`, `EveryKeyAtHome`, `LoadIsBounded` |
| | `TableIsADict` | `IsADict`: `HashTable` implements `Dict` |
| `ClusterProofs` | `TypeCorrect`, `OneOwnerAlways` | `TypeOK`, `OneOwner` |
| | `ReadsLatestAlways` | the action property `ReadsLatest` |
| `BenchProofs` | `LookupsHit`, `CleanupComplete`, `StoresAlike` | `GetsHit`, `CleanupIsComplete`, `StoresCompared` |

`StorageLemmas` states for each operator of `StorageOps` what it returns and
what it leaves alone.

### The engine

`DeadlineHasData` (a deadline without a value cannot be) is inductive with the
type invariant: `set` and `delete` touch both tables, and a key is evicted from
both. The two action properties follow from it: only a key whose deadline had
come when the call ended is lost without being deleted. For the refinement,
one lemma per method shows that what is visible before and after a call is
related by the abstract operation. A lazy eviction is invisible, because the
key it removes was invisible already; this needs `DeadlineHasData`, or a
deadline left by an earlier value would fall on a later one.

### Persistence

Why an invariant beyond `ServesExpected` is needed: what clients are served
after a restart depends on both files. What a boot recovers is the replay of
the whole log on the snapshot, a recursive function of the log that the provers
cannot reason about by induction. `IInv` avoids it. For one key only its last
records count, so the invariant says of a readable log, and of a key that is
not tainted:

* the last record that writes the key has the expected value
  (`LastWriteCounts`); without one the snapshot has it, unless the key had
  expired when the snapshot was taken (`SnapshotCounts`);
* a key that memory still has and the log does not write is in the snapshot
  (`MemoryIsBacked`): otherwise a new EXPIRE would be replayed on nothing;
* the last record that touches a standing key, or else the snapshot, has its
  deadline (`DeadlineCounts`);
* during a replay, what the rest of the log does not write or touch is already
  right (`ReplayedValue`, `ReplayedDeadline`), and what no record writes is
  still the snapshot's (`UnwrittenIsSnapshot`).

At the end of the replay the rest is empty and `ServesExpected` follows. A
crash between the two operations of a snapshot is covered by
`SnapshotIsMemory`: the snapshot has the effect of the records that remain, and
replaying the last of them again changes nothing. The proof has one lemma per
action; each treats the conjuncts the action can disturb, and the others
follow because their variables are unchanged.

### The server

`IInv` has one part per connection, `ConnInv`, and one about the files,
`FilesInv`. For a connection: the bytes it has sent are the two pieces of each
request in turn; the buffer is the end of what has been read; every reply is to
a request of which a piece has been begun (`Behind`, with `Begun` one more than
the pieces behind the handler while the buffer begins inside a piece); replies
are ordered (`Ordered`); and while no error has been answered the buffer begins
with a piece, the i-th reply is to the i-th request and nothing else has been
taken from the buffer (`OneEach`). The last is what the run's properties cannot
say of themselves: that a request is answered once follows from where the handler
stands in the stream. It also shows that without an error the handler never
stands amid a request: an even number of pieces is behind it.

A `ProtocolError` drops the buffer and may lose requests, and then anything may be
found in the buffer; `Behind` and `Ordered` are left, and they are what `InOrder`
needs. They survive because a request has two pieces (`Parity`): what the buffer
begins with belongs to the request of the last piece begun, or to a later one,
and when it is the first byte of a request, to a later one. `TakeKeeps` is the one
lemma for a refusal, a whole request and a command found amid one.

`FilesInv` says that what memory has and no file has belongs to a handler that has
left its loop: its append failed after the write and before the reply, so nothing
was confirmed. Each operation of a handler is one lemma about values, used for the
connection that moves; every other connection is left as it is.

### The connection

What is between a client and the handler is one stream: the bytes in the buffer
and those still on the network. `StreamInv` says that this stream is what the
encoder makes of the commands not dispatched yet (`Spells`), and that the
commands dispatched, followed by those, are the ones sent (`Carried`). Cutting
the stream anywhere leaves it the same, so a read keeps the invariant; what a
dispatch needs is `ParseEncoded`: on any bytes that agree with an encoded
command as far as they go, `parse_one` waits while they are shorter and else
returns exactly that command and its length, whatever follows.

That lemma is about every command of any length, and every step of it is about
what a recursive function computes: a decimal numeral is what `int` reads back
(`DecimalSpells`), the first line end after a number is its own (`FindLine`,
`NumberLineOf`), and the n-th bulk string is found where n - 1 others end
(`PartOf`). Each is proved by induction as a statement about a set of naturals,
which contains 0 and the successor of each member (`Induction`).

`ParsedAsScanned` is about any bytes, a client's or not. `Placed(b, s)` says of
each state `s` of the parser that reads once where in the buffer `b` it is: how
many arguments are whole and what they are, where the line or the body it is in
begins, which of its bytes are there, and that none of them ends it. From
`Placed` follows the verdict of `parse_one` on the buffer (`PlacedAgrees`), and
one byte more keeps it (`ScanStep`, a lemma per state). What makes it hold is
that `parse_one`, which starts over on a longer buffer, finds again what it has
found: a line end stays the first one (`FindGrown`), a number, a bulk string or
an array stays what it was and where it was (`NumberLineGrown`, `PartGrown`,
`PartsGrown`), and a verdict that is not "wait" is final (`ParseGrown`).

`AnswersOfAMap` is about the way back. Its invariant `ReplyInv` looks at one
stream again: the replies a client has read, the part of a reply it holds
(`reading`) and the bytes still on the `wire`. That stream is a prefix of what
the handler owes for the commands it has dispatched (`Owed`), and all of it
while the connection is open (`Handed`); a reset or a cut only makes it shorter
at its end. The handler's map is what the commands dispatched make of the first
one (`Made`), so a reply written is the one that is due next. The client's side
is `Collected`: its replies are whole, the first of those owed, and the part in
hand is less than a whole one. It stays so because the reader never asks for
more than is left of a reply, and for nothing once it is whole (`AsksForReply`,
for each type of reply): it cannot read into the next. The interactive console
takes what one `recv` returns for the reply; it asks for one at a time, so what
it has shown is never more than the replies it has asked for (`Shown`). Where a reply cannot be encoded nothing is written
and the connection closes, so nothing after it is ever owed.

### The hash table

`WellFormed` relates the buckets to the pairs that a resize has taken out and
still has to insert: a key is in its home bucket, once; no key is both in the
buckets and pending; `size` counts the buckets' pairs only; and the load bound
holds with the pending pairs counted in. From the last two it follows that
`set_item`, called by the resize, always adds and never resizes again while it
runs. `TableIsADict` maps the table to the pairs in the buckets and those still
pending; each round of the resize moves one pair from one to the other, which
is a stutter of `Dict`, and a call is one step of it. The least place of a key in its bucket,
which `_find_pair` returns, is found by well-foundedness of `<` on the naturals.

### The cluster

`Agreed(k)` says of a key on whose owner all lists have agreed since the start:
every list names the owner (`NamedByAll`), the owner alone stores the key, with
its latest value (`StoredByOwner`), and a client that has been redirected once
has been sent to it (`SentToOwner`). The third is what rules out a second
MOVED. A process restarted with a list that no longer agrees takes the key out
of the promise.

### The benchmark service

A job has done a prefix of its program, and what each call of the prefix has
done is still in effect unless another job has done the opposite meanwhile. A
job that has ended has done all of it, which gives `GetsHit` (each lookup comes
after the store of its key), `CleanupIsComplete` and `StoresCompared`. A
call that has timed out and takes effect later is in `late`, and counts as done
by another.

### What is only model-checked

* Liveness (`EndsWhatItBegins`, `Progress`, `ShutdownEnds`,
  `ShutdownEndsAfterClients`, `EveryCommandReturns`, `ResizeEnds`,
  `AnsweredIfAgreed`): out of the prover's reach, as is ENABLED.

## 6. What is not modelled

* An operating system crash. The code never calls `fsync`; with lost pages it
  promises nothing.
* A clock that is set back while a method runs, or between the steps of
  `Persistence`: it is set back between the calls of `Storage` only.
* Files the code cannot have written itself: a `dump.rdb` that is not JSON,
  log records with an unknown command or wrong arity.
* Temporary files that a failed save leaves behind; they are never read.
* Two processes in one data directory. Nothing in the code locks it.
* A second Ctrl-C, which ends a process that waits for its handlers.
* Buffers without bound: a request that announces a length and never sends it.
* `append_entries`, `snapshot_on_shutdown`, `require_arity`, `parse_command`:
  they have no caller, or call what is modelled.
* Command lines, logging, and the arithmetic and printing of measurements in
  `src/scripts` and `src/flask_test`. `compare.html` only calls the routes.

## 7. Plan

Done: the engine, persistence, the server, the connection byte by byte in both
directions, the hash table, the cluster and the benchmark service are modelled
and checked; every invariant and action property of the runs, and both
refinements, are theorems.

Next, in order of importance:

1. What is said in two modules at two levels of detail: `Server` and
   `Persistence` each model the log and the snapshot, and nothing states that
   the steps of one are steps of the other.
2. Shorter proofs where two lemmas of `RespProofs` say nearly the same of a
   request and of a reply (a line end found again, a length read back).

Liveness stays with TLC.
