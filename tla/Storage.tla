------------------------------- MODULE Storage -------------------------------
(***************************************************************************)
(* StorageEngine: one action per method, called one at a time, while the   *)
(* clock of ExpirationManager (time.time) goes on.  A method that reads    *)
(* the clock is given the instants it reads: without ClockRuns a method    *)
(* takes no time, with it the clock may move while a method runs, also     *)
(* between the two reads some methods make.                                *)
(*                                                                         *)
(* load_snapshot is called once, before the first client: it is part of    *)
(* Persistence.tla.                                                        *)
(***************************************************************************)
EXTENDS StorageOps

CONSTANTS
    Seconds,     \* the durations callers pass, zero and negative ones too
    MaxTime,     \* bound: the clock stops here
    ClockRuns    \* whether the clock may move while a method runs

ASSUME CallsAssumption ==
    /\ Seconds \subseteq Int
    /\ MaxTime \in Nat
    /\ ClockRuns \in BOOLEAN

VARIABLES
    store,   \* InMemoryStore: _data and _expiration._expires_at
    now,     \* time.time()
    reply    \* what the last method returned

vars == <<store, now, reply>>

Init ==
    /\ store = EmptyStore
    /\ now = 0
    /\ reply = [op |-> "none", key |-> None, ret |-> None]

-----------------------------------------------------------------------------
(* The methods *)

\* The instants at which a method that starts at t can read the clock.
From(t) == IF ClockRuns THEN t .. MaxTime ELSE {t}

Returns(op, k, ret) == reply' = [op |-> op, key |-> k, ret |-> ret]

Set(k, v) ==
    /\ store' = SetKey(store, k, v)
    /\ Returns("set", k, None)
    /\ UNCHANGED now

SetEx(k, v, seconds) ==
    /\ now' \in From(now)
    /\ store' = SetKeyFor(store, k, v, seconds, now')
    /\ Returns("set", k, None)

Get(k) ==
    /\ now' \in From(now)
    /\ store' = EvictIfExpired(store, k, now')
    /\ Returns("get", k, store'.data[k])

\* delete, and invalidate, which calls it.
Delete(k) ==
    /\ now' \in From(now)
    /\ store' = DeleteKey(store, k, now')
    /\ Returns("delete", k, IF Present(store, k, now') THEN 1 ELSE 0)

Exists(k) ==
    /\ now' \in From(now)
    /\ store' = EvictIfExpired(store, k, now')
    /\ Returns("exists", k, IF Present(store, k, now') THEN 1 ELSE 0)

Expire(k, seconds) ==
    \E t1 \in From(now) :
        /\ now' \in From(t1)
        /\ store' = ExpireKey(store, k, seconds, t1, now')
        /\ Returns("expire", k, IF Present(store, k, t1) /\ seconds > 0 THEN 1 ELSE 0)

Ttl(k) ==
    \E t1 \in From(now) :
        /\ now' \in From(t1)
        /\ store' = TtlKey(store, k, t1, now')
        /\ Returns("ttl", k, TtlReply(store, k, t1, now'))

ExpireAt(k) ==
    \E t1 \in From(now) :
        /\ now' \in From(t1)
        /\ store' = GetExpireAt(store, k, t1, now')
        /\ Returns("deadline", k, store'.expires[k])

\* The eviction pass runs from now to t1, the deadlines are filtered at now'.
Snapshot ==
    \E t1 \in From(now) : \E found \in PassFinds(store, now, t1) :
        /\ now' \in From(t1)
        /\ store' = DropAll(store, found)
        /\ reply' = [op |-> "snapshot", image |-> Dump(store', now')]

Tick ==
    /\ now < MaxTime
    /\ now' = now + 1
    /\ UNCHANGED <<store, reply>>

\* The clock of the system is set back.
SetBack ==
    /\ now' \in 0 .. now - 1
    /\ UNCHANGED <<store, reply>>

Next ==
    \/ \E k \in Keys : Get(k) \/ Delete(k) \/ Exists(k) \/ Ttl(k) \/ ExpireAt(k)
    \/ \E k \in Keys, v \in Values : Set(k, v)
    \/ \E k \in Keys, v \in Values, s \in Seconds : SetEx(k, v, s)
    \/ \E k \in Keys, s \in Seconds : Expire(k, s)
    \/ Snapshot
    \/ Tick \/ SetBack

Spec == Init /\ [][Next]_vars

-----------------------------------------------------------------------------
(* Properties *)

\* The two tables hold values and deadlines of the keys, and the clock is a
\* natural number (_data, _expires_at, time.time).
TypeOK == store \in Store /\ now \in Nat

\* No key keeps a deadline without a value.  HashTable.pop(key, None) raises
\* KeyError for a key that is not there, so _evict_if_expired on such a key
\* would fail, and with it a whole snapshot.
DeadlineHasData == NoOrphanDeadline(store)

\* A value leaves the table only because delete removed it, because a set with
\* a duration of zero or less replaced it, or because its deadline has come:
\* no eviction, pass or lookup takes a key before its time, whenever it reads
\* the clock, and whether or not the clock has been set back before.
NoEarlyLoss ==
    [][\A k \in Keys :
          store.data[k] # None /\ store'.data[k] = None
              => \/ reply'.op \in {"delete", "set"} /\ reply'.key = k
                 \/ store.expires[k] # None /\ store.expires[k] <= now']_vars

\* A deadline is given up only together with the value it belongs to, by a
\* plain set, or once it has come: no method makes a key immortal early.
NoEarlyPersist ==
    [][\A k \in Keys :
          store.expires[k] # None /\ store'.expires[k] = None
              => \/ reply'.op \in {"delete", "set"} /\ reply'.key = k
                 \/ store.expires[k] <= now']_vars

-----------------------------------------------------------------------------
(* Lazy expiration implements eager expiration *)

\* The entries that are alive at t.
Visible(s, t) ==
    [data    |-> [k \in Keys |-> IF IsExpired(s, k, t) THEN None ELSE s.data[k]],
     expires |-> FutureDeadlines(s, t)]

Ideal == INSTANCE ExpiringMap
             WITH live <- Visible(store, now), clock <- now, answer <- reply

\* No caller of the engine can tell lazy eviction from entries that disappear by
\* themselves at their deadline, as long as its calls take no time: whatever
\* slower calls came before, a quick one does and returns what it would on the
\* ideal map, and the passing of time does what it does there.  Only a clock set
\* back does what no such map does: entries come back that nobody has touched
\* since their deadline.
RefinesIdeal ==
    Ideal!Init /\ [][now' = now \/ Tick => [Ideal!Next]_(Ideal!vars)]_vars

=============================================================================
