--------------------------------- MODULE Bench ---------------------------------
(***************************************************************************)
(* The benchmark service of flask_test: requests run concurrently, each a  *)
(* fixed sequence of calls to three stores, MongoDB, Redis and Mini Redis, *)
(* any of which may fail.  The test pages write to the same collection and *)
(* the same Redis.  A key is the index it is built from: templates map     *)
(* indices to keys one to one, and requests with different templates do    *)
(* not meet.                                                               *)
(***************************************************************************)
EXTENDS Integers, FiniteSets, Sequences

CONSTANTS
    Requests,    \* the threads of the service
    Warmups,     \* the values of warmup and
    Counts,      \* of count that callers pass
    Indices,     \* the indices these come to
    MaxDocs,     \* bound: documents with the same key
    MaxLate      \* bound: calls on their way after their caller has given up

ASSUME BenchAssumption ==
    /\ "nobody" \notin Requests
    /\ Warmups \subseteq Int /\ Counts \subseteq Int
    /\ \A w \in Warmups, c \in Counts : 1 .. w + c \subseteq Indices
    /\ MaxDocs \in Nat \ {0} /\ MaxLate \in Nat

VARIABLES
    docs,     \* per key, how many documents of the collection have it
    redis,    \* the keys Redis holds
    mini,     \* the keys Mini Redis holds
    job,      \* per thread, the request it works on
    late      \* calls to Mini Redis that time out and are still to be executed

vars == <<docs, redis, mini, job, late>>

Idle == [kind |-> "none", total |-> 0, todo |-> <<>>, others |-> {}]

Running(r) == job[r].kind # "none"

Init ==
    /\ docs = [i \in Indices |-> 0] /\ redis = {} /\ mini = {}
    /\ job = [r \in Requests |-> Idle]
    /\ late = {}

-----------------------------------------------------------------------------
(* The calls of a request *)

Call(store, verb, keys) == [store |-> store, verb |-> verb, keys |-> keys]

\* A slip: the lookups count from the second key.
EachButFirst(n, store, verb) ==
    [i \in 1 .. n |-> Call(store, verb, {IF verb = "get" THEN i + 1 ELSE i})]

\* benchmark_set_mongo, benchmark_get_redis and so on; the loops of cleanup.
Each(n, store, verb) == [i \in 1 .. n |-> Call(store, verb, {i})]

Pass(n, verb) == Each(n, "mongo", verb) \o Each(n, "redis", verb) \o Each(n, "mini", verb)

\* A slip: Mini Redis is left to the passes.
PrepareTwo(n) ==
    [j \in 1 .. 2 * n |->
        Call(<<"redis", "mongo">>[((j - 1) % 2) + 1], "set", {((j - 1) \div 2) + 1})]

\* prepare_get_data: the three calls for a key, then those for the next.
Prepare(n) ==
    [j \in 1 .. 3 * n |->
        Call(<<"redis", "mongo", "mini">>[((j - 1) % 3) + 1], "set", {((j - 1) \div 3) + 1})]

\* run_benchmark.
Benchmark(w, c) ==
    Prepare(w + c) \o Pass(w, "set") \o Pass(w, "get") \o Pass(c, "set") \o Pass(c, "get")

\* run_cleanup.
Cleanup(w, c) ==
    LET n == w + c
    IN  <<Call("mongo", "del", 1 .. n)>> \o Each(n, "redis", "del") \o Each(n, "mini", "del")

-----------------------------------------------------------------------------
(* The stores *)

\* A slip: delete_one.
DeleteOne(i) == docs[i] - 1

\* delete_many.
DeleteMany(i) == 0

\* update_one with upsert changes the first document or inserts one.
Upsert(i) == IF docs[i] = 0 THEN 1 ELSE docs[i]

Execute(call) ==
    /\ docs' = [i \in Indices |->
           IF call.store # "mongo" \/ i \notin call.keys \/ call.verb = "get" THEN docs[i]
           ELSE IF call.verb = "set" THEN Upsert(i)
           ELSE IF docs[i] = 0 THEN 0 ELSE DeleteMany(i)]
    /\ redis' = IF call.store # "redis" THEN redis
                ELSE CASE call.verb = "set" -> redis \cup call.keys
                       [] call.verb = "del" -> redis \ call.keys
                       [] call.verb = "get" -> redis
    /\ mini' = IF call.store # "mini" THEN mini
               ELSE CASE call.verb = "set" -> mini \cup call.keys
                      [] call.verb = "del" -> mini \ call.keys
                      [] call.verb = "get" -> mini

Holds(store, i) ==
    CASE store = "mongo" -> docs[i] > 0
      [] store = "redis" -> i \in redis
      [] store = "mini"  -> i \in mini

-----------------------------------------------------------------------------
(* The service *)

Begin(r, kind, w, c, calls) ==
    /\ ~Running(r) /\ w >= 0 /\ c >= 1
    /\ job' = [job EXCEPT ![r] = [kind |-> kind, total |-> w + c, todo |-> calls, others |-> {}]]
    /\ UNCHANGED <<docs, redis, mini, late>>

\* db_benchmark and db_cleanup; other values are answered with 400.
BeginBenchmark(r, w, c) == Begin(r, "benchmark", w, c, Benchmark(w, c))
BeginCleanup(r, w, c) == Begin(r, "cleanup", w, c, Cleanup(w, c))

\* The jobs after r, or nobody in the service, has done verb.
Seen(r, verb) ==
    [q \in Requests |-> IF q = r \/ ~Running(q) THEN job[q]
                        ELSE [job[q] EXCEPT !.others = @ \cup ({verb} \ {"get"})]]

Step(r) ==
    /\ job[r].todo # <<>>
    /\ Execute(Head(job[r].todo))
    /\ job' = [Seen(r, Head(job[r].todo).verb) EXCEPT ![r].todo = Tail(@)]
    /\ UNCHANGED late

\* A call raises, done or not: the rest is not done, the reply is a 500.
Fails(r) ==
    /\ job[r].todo # <<>>
    /\ \/ Execute(Head(job[r].todo)) /\ job' = [Seen(r, Head(job[r].todo).verb) EXCEPT ![r] = Idle]
       \/ UNCHANGED <<docs, redis, mini>> /\ job' = [job EXCEPT ![r] = Idle]
    /\ UNCHANGED late

\* recv times out, and Mini Redis executes the command later.
TimesOut(r) ==
    /\ job[r].todo # <<>> /\ Head(job[r].todo).store = "mini"
    /\ Cardinality(late) < MaxLate
    /\ late' = late \cup {Head(job[r].todo)}
    /\ job' = [job EXCEPT ![r] = Idle]
    /\ UNCHANGED <<docs, redis, mini>>

ExecuteLate ==
    \E call \in late :
        /\ Execute(call)
        /\ late' = late \ {call}
        /\ job' = Seen("nobody", call.verb)

Finish(r) ==
    /\ Running(r) /\ job[r].todo = <<>>
    /\ job' = [job EXCEPT ![r] = Idle]
    /\ UNCHANGED <<docs, redis, mini, late>>

-----------------------------------------------------------------------------
(* The test pages *)

\* mongosettest: insert_one, also of a key that is there.
InsertDoc(i) ==
    /\ docs[i] < MaxDocs
    /\ docs' = [docs EXCEPT ![i] = @ + 1]
    /\ job' = Seen("nobody", "set")
    /\ UNCHANGED <<redis, mini, late>>

\* mongodeleteall.
DeleteAllDocs ==
    /\ docs' = [i \in Indices |-> 0]
    /\ job' = Seen("nobody", "del")
    /\ UNCHANGED <<redis, mini, late>>

\* redis_test with SET.
SetRedis(i) ==
    /\ redis' = redis \cup {i}
    /\ job' = Seen("nobody", "set")
    /\ UNCHANGED <<docs, mini, late>>

Next ==
    \/ \E r \in Requests :
          \/ \E w \in Warmups, c \in Counts : BeginBenchmark(r, w, c) \/ BeginCleanup(r, w, c)
          \/ Step(r) \/ Fails(r) \/ TimesOut(r) \/ Finish(r)
    \/ \E i \in Indices : InsertDoc(i) \/ SetRedis(i)
    \/ ExecuteLate \/ DeleteAllDocs

Spec == Init /\ [][Next]_vars

-----------------------------------------------------------------------------
(* Properties *)

\* A GET that is measured finds its key, whatever other benchmarks, failures and
\* pages come between, unless somebody deletes keys while the benchmark runs.
GetsHit ==
    \A r \in Requests :
        job[r].todo # <<>> /\ Head(job[r].todo).verb = "get" /\ "del" \notin job[r].others =>
            \A i \in Head(job[r].todo).keys : Holds(Head(job[r].todo).store, i)

\* A cleanup that succeeds leaves none of the keys of a benchmark with the same
\* parameters in any store, whatever failed benchmarks and cleanups before it
\* have left there, unless somebody writes while it runs.
CleanupIsComplete ==
    \A r \in Requests :
        job[r].kind = "cleanup" /\ job[r].todo = <<>> /\ "set" \notin job[r].others =>
            \A i \in 1 .. job[r].total : \A s \in {"mongo", "redis", "mini"} : ~Holds(s, i)

\* A benchmark that succeeds has measured three stores that hold the same: all of
\* its keys, unless somebody deletes keys while it runs.
StoresCompared ==
    \A r \in Requests :
        job[r].kind = "benchmark" /\ job[r].todo = <<>> /\ "del" \notin job[r].others =>
            \A i \in 1 .. job[r].total : \A s \in {"mongo", "redis", "mini"} : Holds(s, i)

=============================================================================
