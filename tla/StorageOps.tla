----------------------------- MODULE StorageOps -----------------------------
(***************************************************************************)
(* The methods of InMemoryStore and ExpirationManager as operators on one  *)
(* value: a store is the pair of tables the two classes keep, the hash     *)
(* table of values and the table of absolute deadlines.  A key that is not *)
(* in a table is mapped to None.  The same pair is what a Snapshot holds   *)
(* in dump.rdb and what a ReplayState holds while the log is replayed.     *)
(*                                                                         *)
(* Every call of now_fn in the code is a parameter here (t, or t1 and t2   *)
(* when a method reads the clock twice), so that the state machines decide *)
(* whether the clock moved between the two reads.                          *)
(***************************************************************************)
EXTENDS Integers

CONSTANTS
    Keys,            \* the keys clients use
    Values,          \* the strings they store
    None,            \* Python's None: no value, no deadline
    TicksPerSecond   \* ticks of the model's clock in one second of EXPIRE

ASSUME StorageAssumption ==
    /\ None \notin Values
    /\ None \notin Int
    /\ TicksPerSecond \in Nat \ {0}

Deadline == Nat \cup {None}

Store == [data : [Keys -> Values \cup {None}], expires : [Keys -> Deadline]]

EmptyStore == [data |-> [k \in Keys |-> None], expires |-> [k \in Keys |-> None]]

\* No key has a deadline without a value.
NoOrphanDeadline(s) == \A k \in Keys : s.expires[k] # None => s.data[k] # None

-----------------------------------------------------------------------------
(* Deadlines *)

\* Removes k from both tables.
Drop(s, k) ==
    [data    |-> [s.data EXCEPT ![k] = None],
     expires |-> [s.expires EXCEPT ![k] = None]]

\* Removes k's deadline and leaves its value.
Forget(s, k) ==
    [data |-> s.data, expires |-> [s.expires EXCEPT ![k] = None]]

SetDeadline(s, k, at) ==
    [data |-> s.data, expires |-> [s.expires EXCEPT ![k] = at]]

\* A slip: whoever has a deadline counts as expired.
IsExpiredAlways(s, k, t) == s.expires[k] # None /\ t \in Nat

IsExpired(s, k, t) == s.expires[k] # None /\ s.expires[k] <= t

\* A slip: the value is popped and the deadline left behind.
EvictValueOnly(s, k, t) ==
    IF IsExpired(s, k, t)
    THEN [data |-> [s.data EXCEPT ![k] = None], expires |-> s.expires]
    ELSE s

EvictIfExpired(s, k, t) == IF IsExpired(s, k, t) THEN Drop(s, k) ELSE s

-----------------------------------------------------------------------------
(* Writes and reads of one key *)

\* A slip: overwriting a key keeps the deadline of the old value.
SetKeepingDeadline(s, k, v) ==
    [data |-> [s.data EXCEPT ![k] = v], expires |-> s.expires]

SetKey(s, k, v) ==
    [data    |-> [s.data EXCEPT ![k] = v],
     expires |-> [s.expires EXCEPT ![k] = None]]

\* A slip: durations of zero and less are not told apart.
SetKeyForAny(s, k, v, seconds, t) ==
    SetDeadline(SetKey(s, k, v), k, t + seconds * TicksPerSecond)

SetKeyFor(s, k, v, seconds, t) ==
    IF seconds <= 0
    THEN Drop(SetKey(s, k, v), k)
    ELSE SetDeadline(SetKey(s, k, v), k, t + seconds * TicksPerSecond)

\* Whether a lookup of k at t finds a value, after evicting k if it is due.
Present(s, k, t) == EvictIfExpired(s, k, t).data[k] # None

\* Both branches of delete end with the deadline gone and no value.
DeleteKey(s, k, t) == Drop(EvictIfExpired(s, k, t), k)

\* expire: the eviction check reads the clock at t1, set_expire at t2.
ExpireKey(s, k, seconds, t1, t2) ==
    IF Present(s, k, t1) /\ seconds > 0
    THEN SetDeadline(EvictIfExpired(s, k, t1), k, t2 + seconds * TicksPerSecond)
    ELSE EvictIfExpired(s, k, t1)

\* Python's int(): truncation towards zero.
WholeSeconds(ticks) ==
    IF ticks >= 0 THEN ticks \div TicksPerSecond
                  ELSE -((-ticks) \div TicksPerSecond)

\* A slip: the last second counts as over when it begins.
TtlFindsItOver(s, k, t2) ==
    /\ s.data[k] # None
    /\ s.expires[k] # None
    /\ WholeSeconds(s.expires[k] - t2) <= 0

\* The deadline passed a whole second or more before ttl's second clock read.
TtlFindsItGone(s, k, t2) ==
    /\ s.data[k] # None
    /\ s.expires[k] # None
    /\ WholeSeconds(s.expires[k] - t2) < 0

\* ttl: the eviction check reads the clock at t1, the subtraction at t2.  The
\* late branch pops the deadline only.
TtlKey(s, k, t1, t2) ==
    LET e == EvictIfExpired(s, k, t1)
    IN  IF TtlFindsItGone(e, k, t2) THEN Forget(e, k) ELSE e

TtlReply(s, k, t1, t2) ==
    LET e == EvictIfExpired(s, k, t1)
    IN  IF e.data[k] = None \/ TtlFindsItGone(e, k, t2) THEN -2
        ELSE IF e.expires[k] = None THEN -1
        ELSE WholeSeconds(e.expires[k] - t2)

\* get_expire_at: the store's check reads the clock at t1 and evicts both
\* tables; the manager's check reads it at t2 and pops the deadline only.
GetExpireAt(s, k, t1, t2) ==
    LET e == EvictIfExpired(s, k, t1)
    IN  IF IsExpired(e, k, t2) THEN Forget(e, k) ELSE e

-----------------------------------------------------------------------------
(* Passes over the whole table *)

\* The keys that a pass of evictions running from t1 to t2 can find expired:
\* all that are due at t1, and any of those that fall due on the way.
PassFinds(s, t1, t2) ==
    {found \in SUBSET Keys :
        \A k \in Keys :
            /\ k \in found => s.data[k] # None /\ IsExpired(s, k, t2)
            /\ s.data[k] # None /\ IsExpired(s, k, t1) => k \in found}

DropAll(s, found) ==
    [data    |-> [k \in Keys |-> IF k \in found THEN None ELSE s.data[k]],
     expires |-> [k \in Keys |-> IF k \in found THEN None ELSE s.expires[k]]]

\* The deadlines of s that lie after t: what ExpirationManager.snapshot
\* returns and what ExpirationManager.load keeps.
FutureDeadlines(s, t) ==
    [k \in Keys |-> IF IsExpired(s, k, t) THEN None ELSE s.expires[k]]

\* The pair InMemoryStore.snapshot returns for a store whose eviction pass is
\* over and whose deadlines are filtered at t2.
Dump(s, t2) == [data |-> s.data, expires |-> FutureDeadlines(s, t2)]

\* InMemoryStore.load before its eviction pass: every value is taken over,
\* and only the deadlines that lie after t1.
LoadAll(image, t1) == [data |-> image.data, expires |-> FutureDeadlines(image, t1)]

=============================================================================
