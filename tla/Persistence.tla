----------------------------- MODULE Persistence -----------------------------
(***************************************************************************)
(* One Mini Redis process and its two files: the commands of Dispatcher on *)
(* StorageEngine, PersistenceManager, the append-only log and the          *)
(* snapshot, through crashes, failed writes and restarts.                  *)
(*                                                                         *)
(* The event loop runs one command at a time and a command has no await    *)
(* between its change of memory and its reply, so commands do not          *)
(* interleave.  What can come between the steps of a command is a crash, a *)
(* failing file operation, and the clock: a write command is split where   *)
(* one of these leaves memory and files apart.                             *)
(*                                                                         *)
(* A crash is the death of the process.  What was written to a file        *)
(* survives it (no operating system crash: the code never calls fsync).    *)
(***************************************************************************)
EXTENDS StorageOps, Sequences

CONSTANTS
    Seconds,     \* the durations clients pass to EXPIRE
    MaxTime,     \* bound: the clock stops here
    MaxLog,      \* bound: no write command starts on a log of this length
    ClockRuns,   \* whether the clock may move while a command runs
    Faults       \* whether file operations fail, or a crash tears a record

ASSUME ProcessAssumption ==
    /\ Seconds \subseteq Int
    /\ MaxTime \in Nat
    /\ MaxLog \in Nat
    /\ ClockRuns \in BOOLEAN
    /\ Faults \in BOOLEAN

VARIABLES
    now,         \* time.time()
    store,       \* InMemoryStore
    rdb,         \* dump.rdb; a file that is not there loads as an empty one
    aof,         \* the lines of appendonly.aof
    ragged,      \* the last line of appendonly.aof lacks its newline
    mode,        \* "down", "booting", "up", or "refused" by a log it cannot read
    recovered,   \* the ReplayState while booting
    pos,         \* how many lines of the log have been replayed
    step,        \* where the running command or snapshot is
    rec,         \* the log record of the running write command
    expected,    \* history: what the finished commands have left each key with
    tainted      \* history: keys a record of which may be missing from the log

vars == <<now, store, rdb, aof, ragged, mode, recovered, pos, step, rec,
          expected, tainted>>

files   == <<rdb, aof, ragged>>
booting == <<mode, recovered, pos>>
command == <<step, rec>>
history == <<expected, tainted>>

-----------------------------------------------------------------------------
(* The log *)

SetRecord(k, v)     == [op |-> "SET", key |-> k, val |-> v, at |-> None]
DelRecord(k)        == [op |-> "DEL", key |-> k, val |-> None, at |-> None]
ExpireRecord(k, at) == [op |-> "EXPIRE", key |-> k, val |-> None, at |-> at]

\* A line that is not a JSON record.
Torn == [op |-> "torn", key |-> None, val |-> None, at |-> None]

NoRecord == [op |-> "none", key |-> None, val |-> None, at |-> None]

Record == [op : {"SET"}, key : Keys, val : Values, at : {None}]
          \cup [op : {"DEL"}, key : Keys, val : {None}, at : {None}]
          \cup [op : {"EXPIRE"}, key : Keys, val : {None}, at : Nat]

\* A slip: SET replays like the engine's value update and keeps the deadline.
ApplyKeepingDeadline(s, r) ==
    CASE r.op = "SET"    -> SetKeepingDeadline(s, r.key, r.val)
      [] r.op = "DEL"    -> Drop(s, r.key)
      [] r.op = "EXPIRE" -> SetDeadline(s, r.key, r.at)

\* A slip: a deadline is recorded for a key that is not there.
ApplyToAnyKey(s, r) ==
    CASE r.op = "SET"    -> SetKey(s, r.key, r.val)
      [] r.op = "DEL"    -> Drop(s, r.key)
      [] r.op = "EXPIRE" -> SetDeadline(s, r.key, r.at)

Apply(s, r) ==
    CASE r.op = "SET"    -> SetKey(s, r.key, r.val)
      [] r.op = "DEL"    -> Drop(s, r.key)
      [] r.op = "EXPIRE" -> IF s.data[r.key] # None
                            THEN SetDeadline(s, r.key, r.at)
                            ELSE s

\* The log after r is written to its end: text that follows a line without a
\* newline becomes part of that line and spoils it.
Written(r) == IF ragged THEN [aof EXCEPT ![Len(aof)] = Torn] ELSE Append(aof, r)

\* The log after a write of r that stops early: before the first byte, inside
\* the record, or just before the newline.
CutShort(r) ==
    \/ UNCHANGED <<aof, ragged>>
    \/ aof' = Written(Torn) /\ ragged' = TRUE
    \/ aof' = Written(r) /\ ragged' = TRUE

-----------------------------------------------------------------------------
Init ==
    /\ now = 0
    /\ store = EmptyStore /\ recovered = EmptyStore
    /\ rdb = EmptyStore /\ aof = <<>> /\ ragged = FALSE
    /\ mode = "down" /\ pos = 0
    /\ step = "idle" /\ rec = NoRecord
    /\ expected = EmptyStore /\ tainted = {}

\* The instants at which a method that starts at t can read the clock.
From(t) == IF ClockRuns THEN t .. MaxTime ELSE {t}

-----------------------------------------------------------------------------
(* Start: PersistenceManager.restore *)

\* replay drops the deadlines of keys the snapshot has no value for.
Base == [data    |-> rdb.data,
         expires |-> [k \in Keys |-> IF rdb.data[k] = None THEN None
                                     ELSE rdb.expires[k]]]

Boot ==
    /\ mode \in {"down", "refused"}
    /\ mode' = "booting" /\ pos' = 0
    /\ recovered' = IF aof = <<>> THEN rdb ELSE Base
    /\ UNCHANGED <<now, store, files, command, history>>

\* A slip: a line that cannot be read is skipped.
ReplaySkippingTorn ==
    /\ mode = "booting" /\ pos < Len(aof)
    /\ recovered' = IF aof[pos + 1] = Torn THEN recovered
                    ELSE Apply(recovered, aof[pos + 1])
    /\ pos' = pos + 1
    /\ UNCHANGED <<now, store, files, mode, command, history>>

ReplayRecord ==
    /\ mode = "booting" /\ pos < Len(aof)
    /\ aof[pos + 1] # Torn
    /\ recovered' = Apply(recovered, aof[pos + 1])
    /\ pos' = pos + 1
    /\ UNCHANGED <<now, store, files, mode, command, history>>

\* A slip: a last line that cannot be read is waited for.
ReplayTornWaits ==
    /\ mode = "booting" /\ pos + 1 < Len(aof)
    /\ aof[pos + 1] = Torn
    /\ mode' = "refused" /\ recovered' = EmptyStore /\ pos' = 0
    /\ UNCHANGED <<now, store, files, command, history>>

\* replay raises ValueError and the process ends.
ReplayTorn ==
    /\ mode = "booting" /\ pos < Len(aof)
    /\ aof[pos + 1] = Torn
    /\ mode' = "refused" /\ recovered' = EmptyStore /\ pos' = 0
    /\ UNCHANGED <<now, store, files, command, history>>

\* load_snapshot: the deadlines are filtered at t1, and the eviction pass runs
\* from t1 to now'.  A key whose record may be missing is whatever it is now.
FinishBoot ==
    /\ mode = "booting" /\ pos = Len(aof)
    /\ \E t1 \in From(now) : \E t2 \in From(t1) :
       \E found \in PassFinds(LoadAll(recovered, t1), t1, t2) :
          /\ store' = DropAll(LoadAll(recovered, t1), found)
          /\ now' = t2
    /\ mode' = "up" /\ recovered' = EmptyStore /\ pos' = 0
    /\ expected' = [data    |-> [k \in Keys |-> IF k \in tainted THEN store'.data[k]
                                                ELSE expected.data[k]],
                    expires |-> [k \in Keys |-> IF k \in tainted THEN store'.expires[k]
                                                ELSE expected.expires[k]]]
    /\ UNCHANGED <<files, command, tainted>>

-----------------------------------------------------------------------------
(* Commands: change memory, then write the log, then reply *)

Idle == mode = "up" /\ step = "idle"

Set(k, v) ==
    /\ Idle /\ Len(aof) < MaxLog
    /\ store' = SetKey(store, k, v)
    /\ step' = "log" /\ rec' = SetRecord(k, v)
    /\ UNCHANGED <<now, files, booting, history>>

Del(k) ==
    /\ Idle /\ Len(aof) < MaxLog
    /\ now' \in From(now)
    /\ store' = DeleteKey(store, k, now')
    /\ IF Present(store, k, now')
       THEN step' = "log" /\ rec' = DelRecord(k)
       ELSE UNCHANGED command
    /\ UNCHANGED <<files, booting, history>>

\* Durations of zero and less get an error reply before the engine is called.
Expire(k, seconds) ==
    /\ Idle /\ Len(aof) < MaxLog
    /\ seconds > 0
    /\ \E t1 \in From(now) :
          /\ now' \in From(t1)
          /\ store' = ExpireKey(store, k, seconds, t1, now')
          /\ IF Present(store, k, t1)
             THEN step' = "deadline" /\ rec' = ExpireRecord(k, store'.expires[k])
             ELSE UNCHANGED command
    /\ UNCHANGED <<files, booting, history>>

\* A slip: record_write logs whatever get_expire_at returns.
ReadDeadlineUnchecked ==
    /\ step = "deadline"
    /\ \E t1 \in From(now) :
          /\ now' \in From(t1)
          /\ store' = GetExpireAt(store, rec.key, t1, now')
    /\ step' = "log" /\ rec' = ExpireRecord(rec.key, store'.expires[rec.key])
    /\ UNCHANGED <<files, booting, history>>

\* record_write asks the engine for the deadline EXPIRE has just set.  If it
\* has come meanwhile, nothing is logged and the client still gets its 1.
ReadDeadline ==
    /\ step = "deadline"
    /\ \E t1 \in From(now) :
          /\ now' \in From(t1)
          /\ store' = GetExpireAt(store, rec.key, t1, now')
    /\ IF store'.expires[rec.key] # None
       THEN /\ step' = "log" /\ rec' = ExpireRecord(rec.key, store'.expires[rec.key])
            /\ UNCHANGED history
       ELSE /\ step' = "idle" /\ rec' = NoRecord
            /\ expected' = Apply(expected, rec)
            /\ UNCHANGED tainted
    /\ UNCHANGED <<files, booting>>

\* The record is written and the client gets its reply.  A logged SET or DEL
\* settles what the log says of the key.
LogAppend ==
    /\ step = "log"
    /\ aof' = Written(rec) /\ ragged' = FALSE
    /\ expected' = Apply(expected, rec)
    /\ tainted' = IF rec.op = "EXPIRE" THEN tainted ELSE tainted \ {rec.key}
    /\ step' = "idle" /\ rec' = NoRecord
    /\ UNCHANGED <<now, store, rdb, booting>>

\* append raises OSError: the connection is closed without a reply, memory
\* keeps the change.
LogFails ==
    /\ Faults /\ step = "log"
    /\ CutShort(rec)
    /\ expected' = Apply(expected, rec)
    /\ tainted' = tainted \cup {rec.key}
    /\ step' = "idle" /\ rec' = NoRecord
    /\ UNCHANGED <<now, store, rdb, booting>>

\* GET and EXISTS.
Read(k) ==
    /\ Idle
    /\ now' \in From(now)
    /\ store' = EvictIfExpired(store, k, now')
    /\ UNCHANGED <<files, booting, command, history>>

Ttl(k) ==
    /\ Idle
    /\ \E t1 \in From(now) :
          /\ now' \in From(t1)
          /\ store' = TtlKey(store, k, t1, now')
    /\ UNCHANGED <<files, booting, command, history>>

-----------------------------------------------------------------------------
(* Snapshots: SAVE, the periodic task and the shutdown *)

\* InMemoryStore.snapshot: a pass of evictions from now to t1, and a filter of
\* the deadlines at now'.
Sweep ==
    \E t1 \in From(now) :
        /\ store' \in {DropAll(store, found) : found \in PassFinds(store, now, t1)}
        /\ now' \in From(t1)

\* os.replace puts the new file in place.
SaveRdb ==
    /\ Idle
    /\ Sweep
    /\ rdb' = Dump(store', now')
    /\ step' = "unlink"
    /\ UNCHANGED <<aof, ragged, booting, rec, history>>

SaveFails ==
    /\ Faults /\ Idle
    /\ Sweep
    /\ UNCHANGED <<files, booting, command, history>>

ResetLog ==
    /\ step = "unlink"
    /\ aof' = <<>> /\ ragged' = FALSE
    /\ tainted' = {}
    /\ step' = "idle"
    /\ UNCHANGED <<now, store, rdb, booting, rec, expected>>

ResetFails ==
    /\ Faults /\ step = "unlink"
    /\ step' = "idle"
    /\ UNCHANGED <<now, store, files, booting, rec, history>>

-----------------------------------------------------------------------------
(* The environment *)

Die ==
    /\ mode' = "down" /\ recovered' = EmptyStore /\ pos' = 0
    /\ store' = EmptyStore
    /\ step' = "idle" /\ rec' = NoRecord

Crash ==
    /\ mode \in {"up", "booting"}
    /\ Die
    /\ UNCHANGED <<now, files, history>>

CrashInAppend ==
    /\ Faults /\ step = "log"
    /\ CutShort(rec)
    /\ Die
    /\ tainted' = tainted \cup {rec.key}
    /\ UNCHANGED <<now, rdb, expected>>

Tick ==
    /\ now < MaxTime
    /\ step = "idle" \/ ClockRuns
    /\ now' = now + 1
    /\ UNCHANGED <<store, files, booting, command, history>>

Next ==
    \/ Boot \/ ReplayRecord \/ ReplayTorn \/ FinishBoot
    \/ \E k \in Keys : Del(k) \/ Read(k) \/ Ttl(k)
    \/ \E k \in Keys, v \in Values : Set(k, v)
    \/ \E k \in Keys, s \in Seconds : Expire(k, s)
    \/ ReadDeadline \/ LogAppend \/ LogFails
    \/ SaveRdb \/ SaveFails \/ ResetLog \/ ResetFails
    \/ Crash \/ CrashInAppend
    \/ Tick

Spec == Init /\ [][Next]_vars

\* The program goes on: whatever starts the process again starts it, and a
\* process that runs finishes what it has begun.
FairSpec ==
    /\ Spec
    /\ WF_vars(Boot) /\ WF_vars(ReplayRecord) /\ WF_vars(ReplayTorn) /\ WF_vars(FinishBoot)
    /\ WF_vars(ReadDeadline) /\ WF_vars(LogAppend) /\ WF_vars(ResetLog)

-----------------------------------------------------------------------------
(* Properties *)

\* The files, the tables and the running command have the values the code can
\* give them (RdbPersistence, AofPersistence, InMemoryStore, Dispatcher).
TypeOK ==
    /\ now \in Nat
    /\ store \in Store /\ rdb \in Store /\ recovered \in Store /\ expected \in Store
    /\ aof \in Seq(Record \cup {Torn}) /\ ragged \in BOOLEAN
    /\ mode \in {"down", "booting", "up", "refused"}
    /\ pos \in 0 .. Len(aof)
    /\ step \in {"idle", "deadline", "log", "unlink"}
    /\ rec \in Record \cup {NoRecord}
    /\ tainted \subseteq Keys

\* Neither the store nor what it is loaded from has a deadline without a value:
\* _evict_if_expired would raise KeyError for such a key, in a lookup, in a
\* snapshot and in load, where it would end the start of the process.
DeadlineHasData ==
    NoOrphanDeadline(store) /\ NoOrphanDeadline(rdb) /\ NoOrphanDeadline(recovered)

\* The key of the write command that is between memory and reply.
InFlight(k) == step \in {"deadline", "log"} /\ rec.key = k

\* The finished commands have left k with a value that has not expired.
Standing(k) == expected.data[k] # None /\ ~IsExpired(expected, k, now)

\* What clients are served is what the finished commands have left, however
\* many crashes, restarts, failed writes, torn records and snapshots lie
\* between: a standing key has its value and its deadline, a deleted key stays
\* deleted, and a key whose deadline has come has that value or none.
ServesExpected ==
    mode = "up" =>
        \A k \in Keys : ~InFlight(k) =>
            /\ store.data[k] \in {expected.data[k], None}
            /\ Standing(k) => /\ store.data[k] = expected.data[k]
                              /\ store.expires[k] = expected.expires[k]

\* As long as the process is not killed any more, a boot ends: the server is up
\* or has refused the log, and every command it begins comes to its end.
NoMoreCrashes == <>[][~(Crash \/ CrashInAppend)]_vars
EndsWhatItBegins ==
    NoMoreCrashes => []<>(mode \in {"up", "refused"} /\ step = "idle")

-----------------------------------------------------------------------------
(* What the documents say and the code does not do *)

\* Keys already expired at load are not restored (docs/rdb.md:37).
NothingExpiredRestored ==
    [][mode = "booting" /\ mode' = "up" =>
          \A k \in Keys : IsExpired(recovered, k, now) => store'.data[k] = None]_vars

\* The snapshot saves each key's absolute deadline (docs/rdb.md:14).
SnapshotKeepsDeadlines ==
    step = "unlink" =>
        \A k \in Keys : rdb.data[k] # None => rdb.expires[k] = store.expires[k]

\* A partly written record is detected at restart (docs/aof.md:42).
PartialRecordDetected ==
    [][mode = "booting" /\ mode' = "up" => ~ragged]_vars

=============================================================================
