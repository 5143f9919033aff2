--------------------------- MODULE PersistenceInv ---------------------------
(***************************************************************************)
(* Why Persistence serves what it promised: the relation between the two   *)
(* files, the replay and the finished commands that every step preserves.  *)
(*                                                                         *)
(* What a boot recovers is the result of replaying the whole log on the    *)
(* snapshot.  It is never computed here: for each key only its last record *)
(* counts, so the invariant speaks of last records.                        *)
(***************************************************************************)
EXTENDS Persistence

Writes(r, k)  == r.op \in {"SET", "DEL"} /\ r.key = k
Touches(r, k) == r.op # "torn" /\ r.key = k

\* No record after line i of the log writes, or touches, k.
NoWriteAfter(i, k) == \A j \in 1 .. Len(aof) : j > i => ~Writes(aof[j], k)
NoTouchAfter(i, k) == \A j \in 1 .. Len(aof) : j > i => ~Touches(aof[j], k)

Readable == \A i \in 1 .. Len(aof) : aof[i] # Torn

Elapsed(k) == IsExpired(expected, k, now)

\* What can be recovered of k for certain.
Settled(k) == Readable /\ k \notin tainted

-----------------------------------------------------------------------------
(* The process *)

\* What memory and the program counters hold outside their phases.
Phases ==
    /\ mode # "up" => store = EmptyStore /\ step = "idle"
    /\ mode # "booting" => recovered = EmptyStore /\ pos = 0
    /\ step \in {"idle", "unlink"} => rec = NoRecord
    /\ step \in {"log", "deadline"} => rec \in Record
    /\ step = "deadline" => rec.op = "EXPIRE"
    /\ ragged => aof # <<>>

\* Memory already shows the running write command.
InFlightShown ==
    LET k == rec.key
    IN  /\ step = "log" /\ rec.op \in {"SET", "DEL"} =>
               store.data[k] = rec.val /\ store.expires[k] = None
        /\ rec.op = "EXPIRE" =>
               /\ store.data[k] = expected.data[k] /\ store.data[k] # None
               /\ store.expires[k] = rec.at

\* The snapshot file is what memory holds while the log is about to be reset.
SnapshotIsMemory ==
    step = "unlink" =>
        \A k \in Keys :
            /\ rdb.data[k] = store.data[k]
            /\ ~IsExpired(store, k, now) => rdb.expires[k] = store.expires[k]

-----------------------------------------------------------------------------
(* What the files hold of a key k that is settled *)

\* The last record that writes k has the value that k was left with.
LastWriteCounts(k) ==
    \A i \in 1 .. Len(aof) :
        Writes(aof[i], k) /\ NoWriteAfter(i, k) => aof[i].val = expected.data[k]

\* Without one, the snapshot has that value, or dropped the key once expired.
SnapshotCounts(k) ==
    NoWriteAfter(0, k) =>
        rdb.data[k] = expected.data[k] \/ (Elapsed(k) /\ rdb.data[k] = None)

\* A key that memory still has can be given a new deadline, which is replayed
\* only if the snapshot has the key as well.
MemoryIsBacked(k) ==
    /\ NoWriteAfter(0, k)
    /\ store.data[k] # None
    /\ ~(step = "log" /\ Writes(rec, k))
    => rdb.data[k] = expected.data[k]

\* The last record that touches k, or else the snapshot, has its deadline.
DeadlineCounts(k) ==
    Standing(k) =>
        /\ \A i \in 1 .. Len(aof) :
               Touches(aof[i], k) /\ NoTouchAfter(i, k) => aof[i].at = expected.expires[k]
        /\ NoTouchAfter(0, k) => rdb.expires[k] = expected.expires[k]

FilesAgree(k) ==
    Settled(k) =>
        LastWriteCounts(k) /\ SnapshotCounts(k) /\ MemoryIsBacked(k) /\ DeadlineCounts(k)

-----------------------------------------------------------------------------
(* What the replay has made of a key k *)

\* What the log does not write is what the snapshot had.
UnwrittenIsSnapshot(k) == NoWriteAfter(0, k) => recovered.data[k] = rdb.data[k]

\* What the rest of the log does not write, or touch, is already right.
ReplayedValue(k) ==
    NoWriteAfter(pos, k) =>
        recovered.data[k] = expected.data[k] \/ (Elapsed(k) /\ recovered.data[k] = None)

ReplayedDeadline(k) ==
    Standing(k) /\ NoTouchAfter(pos, k) => recovered.expires[k] = expected.expires[k]

ReplayAgrees(k) ==
    mode = "booting" =>
        /\ UnwrittenIsSnapshot(k)
        /\ Settled(k) => ReplayedValue(k) /\ ReplayedDeadline(k)

\* No torn record has been replayed.
ReplayedReadable == mode = "booting" => \A i \in 1 .. pos : aof[i] # Torn

-----------------------------------------------------------------------------

\* The inductive invariant: what clients are served (Dispatcher), the phases of
\* the process, and what the two files and the replay hold for each key
\* (AofPersistence, RdbPersistence, PersistenceManager.restore).
IInv ==
    /\ TypeOK
    /\ DeadlineHasData
    /\ Phases
    /\ ServesExpected
    /\ InFlightShown
    /\ SnapshotIsMemory
    /\ ReplayedReadable
    /\ \A k \in Keys : FilesAgree(k) /\ ReplayAgrees(k)

=============================================================================
