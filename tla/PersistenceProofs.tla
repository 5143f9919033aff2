-------------------------- MODULE PersistenceProofs --------------------------
(***************************************************************************)
(* Theorems about Persistence: for every set of keys and values, every     *)
(* duration, every length of the log, with and without a clock that moves  *)
(* within a command, with and without faults.                              *)
(***************************************************************************)
EXTENDS PersistenceInv, StorageLemmas

Line == Record \cup {Torn}

-----------------------------------------------------------------------------
(* Records and the log *)

LEMMA RecordCases ==
  ASSUME NEW r \in Record
  PROVE  /\ r.key \in Keys
         /\ \/ r.op = "SET" /\ r.val \in Values /\ r.at = None
            \/ r.op = "DEL" /\ r.val = None /\ r.at = None
            \/ r.op = "EXPIRE" /\ r.val = None /\ r.at \in Nat
         /\ r # Torn /\ r.op # "torn"
  BY DEF Record, Torn

LEMMA RecordsMade ==
  /\ \A k \in Keys, v \in Values : SetRecord(k, v) \in Record
  /\ \A k \in Keys : DelRecord(k) \in Record
  /\ \A k \in Keys, at \in Nat : ExpireRecord(k, at) \in Record
  BY DEF Record, SetRecord, DelRecord, ExpireRecord

LEMMA ApplySound ==
  ASSUME NEW s, Sound(s), NEW r \in Record
  PROVE  Sound(Apply(s, r))
  <1>1. CASE r.op = "SET"
    BY <1>1, RecordCases, SetKeySound DEF Apply
  <1>2. CASE r.op = "DEL"
    BY <1>2, RecordCases, DropSound DEF Apply
  <1>3. CASE r.op = "EXPIRE"
    BY <1>3, RecordCases, SetDeadlineSound DEF Apply
  <1> QED BY <1>1, <1>2, <1>3, RecordCases

LEMMA ApplyStore ==
  ASSUME NEW s \in Store, NEW r \in Record
  PROVE  Apply(s, r) \in Store
  <1>1. CASE r.op = "SET"
    BY <1>1, RecordCases DEF Apply, SetKey, Store, Deadline
  <1>2. CASE r.op = "DEL"
    BY <1>2, RecordCases DEF Apply, Drop, Store, Deadline
  <1>3. CASE r.op = "EXPIRE"
    BY <1>3, RecordCases DEF Apply, SetDeadline, Store, Deadline
  <1> QED BY <1>1, <1>2, <1>3, RecordCases

\* A line written to a log that ends in a newline is its new last line; one
\* written to a ragged log spoils its last line.
LEMMA WrittenLines ==
  ASSUME aof \in Seq(Line), ragged \in BOOLEAN, ragged => aof # <<>>, NEW r \in Line
  PROVE  /\ Written(r) \in Seq(Line) /\ Written(r) # <<>>
         /\ Len(Written(r)) >= Len(aof)
         /\ ~ragged => /\ Len(Written(r)) = Len(aof) + 1
                       /\ \A i \in 1 .. Len(aof) : Written(r)[i] = aof[i]
                       /\ Written(r)[Len(aof) + 1] = r
         /\ ragged => Written(r)[Len(aof)] = Torn /\ Len(aof) \in 1 .. Len(Written(r))
  <1>1. CASE ragged
    <2>1. Len(aof) \in Nat /\ Len(aof) > 0
      BY <1>1
    <2>2. Written(r) = [aof EXCEPT ![Len(aof)] = Torn] /\ Torn \in Line
      BY <1>1 DEF Written, Line
    <2>3. Written(r) \in Seq(Line) /\ Len(Written(r)) = Len(aof)
      BY <2>1, <2>2
    <2>4. Written(r)[Len(aof)] = Torn
      BY <2>1, <2>2
    <2> QED BY <1>1, <2>1, <2>3, <2>4
  <1>2. CASE ~ragged
    <2>1. Written(r) = Append(aof, r)
      BY <1>2 DEF Written
    <2> QED BY <1>2, <2>1
  <1> QED BY <1>1, <1>2

LEMMA CutShortLines ==
  ASSUME aof \in Seq(Line), ragged \in BOOLEAN, ragged => aof # <<>>,
         NEW r \in Record, CutShort(r)
  PROVE  /\ aof' \in Seq(Line) /\ ragged' \in BOOLEAN /\ (ragged' => aof' # <<>>)
         /\ Len(aof') >= Len(aof)
  <1>1. r \in Line /\ Torn \in Line /\ Len(aof) \in Nat
    BY DEF Line
  <1>2. CASE UNCHANGED <<aof, ragged>>
    BY <1>1, <1>2
  <1>3. CASE aof' = Written(Torn) /\ ragged' = TRUE
    BY <1>1, <1>3, WrittenLines
  <1>4. CASE aof' = Written(r) /\ ragged' = TRUE
    BY <1>1, <1>4, WrittenLines
  <1> QED BY <1>2, <1>3, <1>4 DEF CutShort

-----------------------------------------------------------------------------
(* Types, phases, and deadlines that have values *)

LEMMA FromNat ==
  ASSUME NEW t \in Nat, NEW u \in From(t)
  PROVE  u \in Nat /\ t <= u
  BY ProcessAssumption DEF From

\* What the base of the induction and every step of it need to know of types.
Typed == TypeOK /\ DeadlineHasData /\ Phases

LEMMA InitTyped == Init => Typed
  <1> SUFFICES ASSUME Init PROVE Typed
    OBVIOUS
  <1>1. Sound(EmptyStore)
    BY EmptyStoreSound
  <1>2. <<>> \in Seq(Line) /\ Len(<<>>) = 0
    OBVIOUS
  <1>3. TypeOK
    <2>1. now \in Nat /\ pos \in 0 .. Len(aof) /\ aof \in Seq(Line)
      BY <1>2 DEF Init
    <2> QED BY <1>1, <2>1 DEF Init, TypeOK, Sound, Line
  <1>4. DeadlineHasData /\ Phases
    BY <1>1 DEF Init, DeadlineHasData, Phases, Sound
  <1> QED BY <1>3, <1>4 DEF Typed

LEMMA StepTyped ==
  ASSUME Typed, [Next]_vars
  PROVE  Typed'
  <1> USE DEF Typed, TypeOK, DeadlineHasData, Phases
  <1> USE DEF vars, files, booting, command, history
  <1>0. /\ Sound(store) /\ Sound(rdb) /\ Sound(recovered) /\ Sound(EmptyStore)
        /\ aof \in Seq(Line) /\ Len(aof) \in Nat
    BY EmptyStoreSound DEF Sound, Line
  <1>1. CASE UNCHANGED vars
    BY <1>1
  <1>2. CASE Boot
    BY <1>0, <1>2 DEF Boot, Base, Sound, Store, Deadline, NoOrphanDeadline
  <1>3. CASE ReplayRecord
    <2>1. aof[pos + 1] \in Record
      BY <1>0, <1>3 DEF ReplayRecord, Line
    <2>2. Sound(Apply(recovered, aof[pos + 1]))
      BY <1>0, <2>1, ApplySound
    <2> QED BY <1>0, <1>3, <2>2 DEF ReplayRecord, Sound
  <1>4. CASE ReplayTorn
    BY <1>0, <1>4 DEF ReplayTorn, Sound
  <1>5. CASE FinishBoot
    <2>1. PICK t1 \in From(now), t2 \in Nat : \E found \in PassFinds(LoadAll(recovered, t1), t1, t2) :
             t2 \in From(t1) /\ now' = t2 /\ store' = DropAll(LoadAll(recovered, t1), found)
      BY <1>5, FromNat DEF FinishBoot
    <2>2. Sound(LoadAll(recovered, t1))
      BY <1>0, FutureDeadlinesSound DEF LoadAll
    <2>3. Sound(store')
      BY <2>1, <2>2, DropAllSound
    <2>4. expected' \in Store
      BY <1>5, <2>3 DEF FinishBoot, Sound, Store
    <2> QED BY <1>0, <1>5, <2>1, <2>3, <2>4 DEF FinishBoot, Sound
  <1>6. ASSUME NEW k \in Keys, NEW v \in Values, Set(k, v)
        PROVE  Typed'
    BY <1>0, <1>6, SetKeySound, RecordsMade DEF Set, Idle, Sound, SetRecord
  <1>7. ASSUME NEW k \in Keys, Del(k)
        PROVE  Typed'
    BY <1>0, <1>7, FromNat, DeleteSound, RecordsMade DEF Del, Idle, Sound, DelRecord
  <1>8. ASSUME NEW k \in Keys, NEW s \in Seconds, Expire(k, s)
        PROVE  Typed'
    <2>1. PICK t1 \in From(now) :
             /\ now' \in From(t1)
             /\ store' = ExpireKey(store, k, s, t1, now')
             /\ IF Present(store, k, t1)
                THEN step' = "deadline" /\ rec' = ExpireRecord(k, store'.expires[k])
                ELSE UNCHANGED command
      BY <1>8 DEF Expire
    <2>2. t1 \in Nat /\ now' \in Nat /\ s \in Int
      BY <2>1, FromNat, ProcessAssumption
    <2>3. Sound(store')
      BY <1>0, <2>1, <2>2, ExpireSound
    <2>4. CASE Present(store, k, t1)
      <3>1. EvictIfExpired(store, k, t1) \in Store
        BY <1>0, EvictSound DEF Sound
      <3>2. store'.expires[k] = now' + s * TicksPerSecond
        BY <1>8, <2>1, <2>4, <3>1 DEF Expire, ExpireKey, SetDeadline, Store
      <3>3. store'.expires[k] \in Nat
        BY <1>8, <2>2, <3>2, LaterIsNat DEF Expire
      <3> QED BY <1>8, <2>1, <2>2, <2>3, <2>4, <3>3, RecordsMade
              DEF Expire, Idle, Sound, ExpireRecord
    <2>5. CASE ~Present(store, k, t1)
      BY <1>8, <2>1, <2>2, <2>3, <2>5 DEF Expire, Idle, Sound
    <2> QED BY <2>4, <2>5
  <1>9. CASE ReadDeadline
    <2>1. PICK t1 \in From(now) :
             now' \in From(t1) /\ store' = GetExpireAt(store, rec.key, t1, now')
      BY <1>9 DEF ReadDeadline
    <2>2. rec \in Record /\ rec.key \in Keys /\ now' \in Nat
      BY <1>9, <2>1, FromNat, RecordCases DEF ReadDeadline
    <2>3. Sound(store')
      BY <1>0, <2>1, <2>2, GetExpireAtSound
    <2>4. expected' \in Store
      BY <1>9, <2>2, ApplyStore DEF ReadDeadline
    <2>5. store'.expires[rec.key] # None => store'.expires[rec.key] \in Nat
      BY <2>2, <2>3 DEF Sound, Store, Deadline
    <2>6. rec' \in Record \cup {NoRecord} /\ (step' = "log" => rec' \in Record)
      BY <1>9, <2>2, <2>5, RecordsMade DEF ReadDeadline
    <2> QED BY <1>9, <2>2, <2>3, <2>4, <2>6 DEF ReadDeadline, Sound
  <1>10. CASE LogAppend
    <2>1. rec \in Record /\ rec \in Line
      BY <1>10 DEF LogAppend, Line
    <2>2. aof' \in Seq(Line) /\ Len(aof') >= Len(aof)
      BY <1>0, <1>10, <2>1, WrittenLines DEF LogAppend
    <2>3. expected' \in Store
      BY <1>10, <2>1, ApplyStore DEF LogAppend
    <2>4. pos' \in 0 .. Len(aof')
      BY <1>0, <1>10, <2>2 DEF LogAppend
    <2> QED BY <1>10, <2>2, <2>3, <2>4 DEF LogAppend, Line
  <1>11. CASE LogFails
    <2>1. rec \in Record /\ rec.key \in Keys
      BY <1>11, RecordCases DEF LogFails
    <2>2. /\ aof' \in Seq(Line) /\ ragged' \in BOOLEAN /\ (ragged' => aof' # <<>>)
          /\ Len(aof') >= Len(aof)
      BY <1>0, <1>11, <2>1, CutShortLines DEF LogFails
    <2>3. expected' \in Store
      BY <1>11, <2>1, ApplyStore DEF LogFails
    <2>4. pos' \in 0 .. Len(aof')
      BY <1>0, <1>11, <2>2 DEF LogFails
    <2> QED BY <1>11, <2>1, <2>2, <2>3, <2>4 DEF LogFails, Line
  <1>12. ASSUME NEW k \in Keys, Read(k)
        PROVE  Typed'
    BY <1>0, <1>12, FromNat, EvictSound DEF Read, Idle, Sound
  <1>13. ASSUME NEW k \in Keys, Ttl(k)
        PROVE  Typed'
    BY <1>0, <1>13, FromNat, TtlSound DEF Ttl, Idle, Sound
  <1>14. ASSUME Sweep
         PROVE  Sound(store') /\ Sound(Dump(store', now')) /\ now' \in Nat
    <2>1. Sound(store') /\ now' \in Nat
      BY <1>0, <1>14, FromNat, DropAllSound DEF Sweep
    <2>2. Sound(Dump(store', now'))
      BY <2>1, FutureDeadlinesSound DEF Dump
    <2> QED BY <2>1, <2>2
  <1>15. CASE SaveRdb
    BY <1>14, <1>15 DEF SaveRdb, Idle, Sound
  <1>16. CASE SaveFails
    <2>1. Sound(store') /\ now' \in Nat
      BY <1>14, <1>16 DEF SaveFails
    <2> QED BY <1>16, <2>1 DEF SaveFails, Idle, Sound
  <1>17. CASE ResetLog
    <2>1. aof' \in Seq(Line) /\ Len(aof') = 0 /\ pos' = 0
      BY <1>17 DEF ResetLog
    <2>2. pos' \in 0 .. Len(aof')
      BY <2>1
    <2> QED BY <1>17, <2>1, <2>2 DEF ResetLog, Line
  <1>18. CASE ResetFails
    BY <1>18 DEF ResetFails
  <1>19. CASE Crash
    BY <1>0, <1>19 DEF Crash, Die, Sound
  <1>20. CASE CrashInAppend
    <2>1. rec \in Record /\ rec.key \in Keys
      BY <1>20, RecordCases DEF CrashInAppend
    <2>2. aof' \in Seq(Line) /\ ragged' \in BOOLEAN /\ (ragged' => aof' # <<>>)
      BY <1>0, <1>20, <2>1, CutShortLines DEF CrashInAppend
    <2>3. pos' \in 0 .. Len(aof')
      BY <1>20, <2>2 DEF CrashInAppend, Die
    <2> QED BY <1>0, <1>20, <2>1, <2>2, <2>3 DEF CrashInAppend, Die, Line, Sound
  <1>21. CASE Tick
    BY <1>21 DEF Tick
  <1> QED BY <1>1, <1>2, <1>3, <1>4, <1>5, <1>6, <1>7, <1>8, <1>9, <1>10, <1>11, <1>12,
             <1>13, <1>15, <1>16, <1>17, <1>18, <1>19, <1>20, <1>21 DEF Next

\* The files and the tables have their type, and no deadline outlives its value
\* (AofPersistence, RdbPersistence, InMemoryStore).
THEOREM TypesKept == Spec => [](TypeOK /\ DeadlineHasData)
  <1>1. Typed /\ [Next]_vars => Typed'
    BY StepTyped
  <1>2. Typed => TypeOK /\ DeadlineHasData
    BY DEF Typed
  <1> QED BY InitTyped, <1>1, <1>2, PTL DEF Spec

-----------------------------------------------------------------------------
(* The running command and the snapshot *)

\* The clock does not go back.
LEMMA StepClock ==
  ASSUME Typed, [Next]_vars
  PROVE  now \in Nat /\ now' \in Nat /\ now <= now'
  <1> USE DEF Typed, TypeOK, vars, files, booting, command, history
  <1>0. now \in Nat
    OBVIOUS
  <1>1. ASSUME NEW t1 \in From(now), now' \in From(t1)
        PROVE  now' \in Nat /\ now <= now'
    BY <1>0, <1>1, FromNat
  <1>2. CASE \E k \in Keys : Del(k) \/ Read(k)
    BY <1>0, <1>2, FromNat DEF Del, Read
  <1>3. CASE FinishBoot \/ SaveRdb \/ SaveFails
    BY <1>1, <1>3 DEF FinishBoot, SaveRdb, SaveFails, Sweep
  <1>4. CASE ReadDeadline \/ (\E k \in Keys : Ttl(k) \/ (\E s \in Seconds : Expire(k, s)))
    BY <1>1, <1>4 DEF ReadDeadline, Ttl, Expire
  <1>5. CASE Tick
    BY <1>0, <1>5 DEF Tick
  <1>6. CASE now' = now
    BY <1>0, <1>6
  <1> QED BY <1>2, <1>3, <1>4, <1>5, <1>6 DEF Next, Boot, ReplayRecord, ReplayTorn, Set,
             LogAppend, LogFails, ResetLog, ResetFails, Crash, CrashInAppend

Serves(k) ==
    /\ store.data[k] \in {expected.data[k], None}
    /\ Standing(k) => /\ store.data[k] = expected.data[k]
                      /\ store.expires[k] = expected.expires[k]

\* A key that stands now has stood before, if nothing else was said of it.
LEMMA StandingEarlier ==
  ASSUME Typed, NEW k \in Keys, now' \in Nat, now <= now',
         expected'.data[k] = expected.data[k], expected'.expires[k] = expected.expires[k]
  PROVE  (Standing(k)' => Standing(k)) /\ (Elapsed(k) => Elapsed(k)')
  BY DEF Standing, Elapsed, IsExpired, Typed, TypeOK, Store, Deadline

\* Lookups, passes and the clock do not change what a key is served as.
LEMMA TakenServes ==
  ASSUME Typed, NEW k \in Keys, Serves(k), now' \in Nat, now <= now',
         OnlyDueTaken(store, store', now'),
         expected'.data[k] = expected.data[k], expected'.expires[k] = expected.expires[k]
  PROVE  Serves(k)'
  <1>1. store'.data[k] \in {expected'.data[k], None}
    BY DEF Serves, OnlyDueTaken
  <1>2. ASSUME Standing(k)'
        PROVE  /\ store'.data[k] = expected'.data[k]
               /\ store'.expires[k] = expected'.expires[k]
    <2>1. store.data[k] = expected.data[k] /\ store.expires[k] = expected.expires[k]
      BY <1>2, StandingEarlier DEF Serves
    <2>2. ~(store.expires[k] # None /\ store.expires[k] <= now')
      BY <1>2, <2>1 DEF Standing, IsExpired
    <2> QED BY <2>1, <2>2 DEF OnlyDueTaken
  <1> QED BY <1>1, <1>2 DEF Serves

LEMMA StepInFlightShown ==
  ASSUME Typed, ServesExpected, InFlightShown, [Next]_vars
  PROVE  InFlightShown'
  <1> USE DEF Typed, TypeOK, Phases, vars, files, booting, command, history
  <1>1. ASSUME NEW k \in Keys, NEW v \in Values, Set(k, v)
        PROVE  InFlightShown'
    BY <1>1 DEF Set, SetKey, SetRecord, InFlightShown, Store
  <1>2. ASSUME NEW k \in Keys, Del(k)
        PROVE  InFlightShown'
    <2>1. store'.data[k] = None /\ store'.expires[k] = None
      <3>1. EvictIfExpired(store, k, now') \in Store
        BY EvictStore
      <3> QED BY <1>2, <3>1 DEF Del, DeleteKey, Drop, Store
    <2>2. CASE Present(store, k, now')
      BY <1>2, <2>1, <2>2 DEF Del, DelRecord, InFlightShown
    <2>3. CASE ~Present(store, k, now')
      BY <1>2, <2>3 DEF Del, Idle, InFlightShown, NoRecord
    <2> QED BY <2>2, <2>3
  <1>3. ASSUME NEW k \in Keys, NEW s \in Seconds, Expire(k, s)
        PROVE  InFlightShown'
    <2>1. PICK t1 \in From(now) :
             /\ store' = ExpireKey(store, k, s, t1, now')
             /\ IF Present(store, k, t1)
                THEN step' = "deadline" /\ rec' = ExpireRecord(k, store'.expires[k])
                ELSE UNCHANGED command
      BY <1>3 DEF Expire
    <2>2. CASE Present(store, k, t1)
      <3>1. EvictIfExpired(store, k, t1) = store /\ store.data[k] # None
        BY <2>2 DEF Present, EvictIfExpired, Drop, Store
      <3>2. store'.data[k] = store.data[k]
        BY <1>3, <2>1, <2>2, <3>1 DEF Expire, ExpireKey, SetDeadline
      <3>3. store.data[k] = expected.data[k]
        BY <1>3, <3>1 DEF Expire, Idle, ServesExpected, InFlight
      <3> QED BY <1>3, <2>1, <2>2, <3>1, <3>2, <3>3
              DEF Expire, ExpireRecord, InFlightShown
    <2>3. CASE ~Present(store, k, t1)
      BY <1>3, <2>1, <2>3 DEF Expire, Idle, InFlightShown, NoRecord
    <2> QED BY <2>2, <2>3
  <1>4. CASE ReadDeadline
    <2>1. PICK t1 \in From(now) :
             now' \in From(t1) /\ store' = GetExpireAt(store, rec.key, t1, now')
      BY <1>4 DEF ReadDeadline
    <2>2. rec.key \in Keys
      BY <1>4, RecordCases DEF ReadDeadline
    <2>3. CASE store'.expires[rec.key] # None
      <3>1. store'.data[rec.key] = store.data[rec.key]
        BY <2>1, <2>2, <2>3 DEF GetExpireAt, EvictIfExpired, Forget, Drop, Store
      <3> QED BY <1>4, <2>3, <3>1 DEF ReadDeadline, ExpireRecord, InFlightShown
    <2>4. CASE store'.expires[rec.key] = None
      BY <1>4, <2>4 DEF ReadDeadline, NoRecord, InFlightShown
    <2> QED BY <2>3, <2>4
  <1>5. CASE rec' = NoRecord
    BY <1>5 DEF InFlightShown, NoRecord
  <1>6. CASE UNCHANGED vars \/ Tick
    BY <1>6 DEF Tick, InFlightShown
  <1> QED
    BY <1>1, <1>2, <1>3, <1>4, <1>5, <1>6
    DEF Next, Boot, ReplayRecord, ReplayTorn, FinishBoot, Read, Ttl, LogAppend, LogFails,
        SaveRdb, SaveFails, ResetLog, ResetFails, Crash, CrashInAppend, Die, Idle

LEMMA StepSnapshotIsMemory ==
  ASSUME Typed, Typed', SnapshotIsMemory, [Next]_vars
  PROVE  SnapshotIsMemory'
  <1> USE DEF vars, files, booting, command, history
  <1>1. CASE SaveRdb
    BY <1>1 DEF SaveRdb, Dump, FutureDeadlines, SnapshotIsMemory
  <1>2. CASE Tick
    <2>1. \A k \in Keys : IsExpired(store, k, now) => IsExpired(store, k, now')
      BY <1>2 DEF Tick, IsExpired, Typed, TypeOK, Store, Deadline
    <2> QED BY <1>2, <2>1 DEF Tick, SnapshotIsMemory
  <1>3. CASE step' # "unlink" \/ UNCHANGED vars
    BY <1>3 DEF SnapshotIsMemory, IsExpired
  <1> QED
    BY <1>1, <1>2, <1>3
    DEF Next, Typed, Phases, Boot, ReplayRecord, ReplayTorn, FinishBoot, Set, Del, Expire,
        ReadDeadline, Read, Ttl, LogAppend, LogFails, SaveFails, ResetLog, ResetFails,
        Crash, CrashInAppend, Die, Idle

LEMMA StepReplayedReadable ==
  ASSUME Typed, ReplayedReadable, [Next]_vars
  PROVE  ReplayedReadable'
  <1> USE DEF vars, files, booting, command, history
  <1>1. CASE Boot
    BY <1>1 DEF Boot, ReplayedReadable
  <1>2. CASE ReplayRecord
    BY <1>2 DEF ReplayRecord, ReplayedReadable, Typed, TypeOK
  <1>3. CASE UNCHANGED <<aof, booting>> \/ mode' # "booting"
    BY <1>3 DEF ReplayedReadable
  <1> QED
    BY <1>1, <1>2, <1>3
    DEF Next, Typed, Phases, ReplayTorn, FinishBoot, Set, Del, Expire, ReadDeadline, Read,
        Ttl, LogAppend, LogFails, SaveRdb, SaveFails, ResetLog, ResetFails, Crash,
        CrashInAppend, Die, Idle, Tick

-----------------------------------------------------------------------------
(* What clients are served *)

\* A replay that has come to the end of the log has recovered every settled key.
LEMMA RecoveredAtEnd ==
  ASSUME Typed, ReplayedReadable, NEW k \in Keys, ReplayAgrees(k), k \notin tainted,
         mode = "booting", pos = Len(aof)
  PROVE  /\ \/ recovered.data[k] = expected.data[k]
            \/ Elapsed(k) /\ recovered.data[k] = None
         /\ Standing(k) => recovered.expires[k] = expected.expires[k]
  <1>1. Len(aof) \in Nat /\ NoWriteAfter(pos, k) /\ NoTouchAfter(pos, k)
    BY DEF Typed, TypeOK, NoWriteAfter, NoTouchAfter
  <1>2. Settled(k)
    BY DEF Settled, Readable, ReplayedReadable
  <1> QED BY <1>1, <1>2 DEF ReplayAgrees, ReplayedValue, ReplayedDeadline

\* load keeps every value, and loses a deadline or a key only once it is due.
LEMMA BootServes ==
  ASSUME Typed, ReplayedReadable, NEW k \in Keys, ReplayAgrees(k), FinishBoot
  PROVE  Serves(k)'
  <1> USE DEF Typed, TypeOK
  <1>1. PICK t1 \in From(now), t2 \in Nat : \E f \in PassFinds(LoadAll(recovered, t1), t1, t2) :
           t2 \in From(t1) /\ now' = t2 /\ store' = DropAll(LoadAll(recovered, t1), f)
    BY FromNat DEF FinishBoot
  <1>2. PICK found \in PassFinds(LoadAll(recovered, t1), t1, t2) :
           t2 \in From(t1) /\ now' = t2 /\ store' = DropAll(LoadAll(recovered, t1), found)
    BY <1>1
  <1>3. t1 \in Nat /\ now' \in Nat /\ t1 <= now' /\ now <= now'
    BY <1>2, FromNat
  <1>4. mode = "booting" /\ pos = Len(aof)
    BY DEF FinishBoot
  <1>5. CASE k \in tainted
    BY <1>5 DEF FinishBoot, Serves
  <1>6. CASE k \notin tainted
    <2>1. expected'.data[k] = expected.data[k] /\ expected'.expires[k] = expected.expires[k]
      BY <1>6 DEF FinishBoot
    <2>2. store'.data[k] \in {recovered.data[k], None}
      BY <1>2 DEF DropAll, LoadAll
    <2>3. ASSUME Standing(k)'
          PROVE  store'.data[k] = expected'.data[k] /\ store'.expires[k] = expected'.expires[k]
      <3>1. Standing(k) /\ ~Elapsed(k)
        BY <1>3, <2>1, <2>3, StandingEarlier DEF Standing, Elapsed
      <3>2. recovered.data[k] = expected.data[k] /\ recovered.expires[k] = expected.expires[k]
        BY <1>4, <1>6, <3>1, RecoveredAtEnd
      <3>3. ~IsExpired(recovered, k, now')
        BY <2>1, <2>3, <3>2 DEF Standing, IsExpired
      <3>4. ~IsExpired(recovered, k, t1)
        BY <1>3, <3>3 DEF IsExpired, Store, Deadline
      <3>5. LoadAll(recovered, t1).expires[k] = recovered.expires[k]
        BY <3>4 DEF LoadAll, FutureDeadlines
      <3>6. k \notin found
        BY <1>2, <3>3, <3>5 DEF PassFinds, IsExpired
      <3> QED BY <1>2, <2>1, <3>2, <3>5, <3>6 DEF DropAll, LoadAll
    <2> QED BY <1>4, <1>6, <2>1, <2>2, <2>3, RecoveredAtEnd DEF Serves
  <1> QED BY <1>5, <1>6

\* A record that is settled, written or not, leaves its key as memory has it.
LEMMA DoneServes ==
  ASSUME Typed, InFlightShown, step = "log", store' = store, now' = now,
         expected' = Apply(expected, rec), NEW k \in Keys
  PROVE  /\ k = rec.key => Serves(k)'
         /\ k # rec.key => /\ expected'.data[k] = expected.data[k]
                           /\ expected'.expires[k] = expected.expires[k]
  <1> USE DEF Typed, TypeOK, Phases
  <1>0. rec \in Record /\ rec.key \in Keys
    BY RecordCases
  <1>1. CASE rec.op = "SET"
    BY <1>0, <1>1 DEF Apply, SetKey, InFlightShown, Serves, Standing, Store
  <1>2. CASE rec.op = "DEL"
    BY <1>0, <1>2, RecordCases DEF Apply, Drop, InFlightShown, Serves, Standing, Store
  <1>3. CASE rec.op = "EXPIRE"
    BY <1>0, <1>3 DEF Apply, SetDeadline, InFlightShown, Serves, Standing, Store
  <1> QED BY <1>0, <1>1, <1>2, <1>3, RecordCases

LEMMA StepServes ==
  ASSUME IInv, [Next]_vars
  PROVE  ServesExpected'
  <1> USE DEF vars, files, booting, command, history
  <1>0. /\ Typed /\ store \in Store /\ ServesExpected /\ InFlightShown /\ ReplayedReadable
        /\ now \in Nat /\ now' \in Nat /\ now <= now'
    BY StepClock DEF IInv, Typed, TypeOK
  <1> SUFFICES ASSUME mode' = "up", NEW k \in Keys, ~InFlight(k)'
               PROVE  Serves(k)'
    BY DEF ServesExpected, Serves
  <1>1. ASSUME mode = "up" /\ ~InFlight(k)
        PROVE  Serves(k)
    BY <1>0, <1>1 DEF ServesExpected, Serves
  <1>2. ASSUME mode = "up", ~InFlight(k), OnlyDueTaken(store, store', now'),
               expected' = expected
        PROVE  Serves(k)'
    BY <1>0, <1>1, <1>2, TakenServes
  <1>3. CASE FinishBoot
    BY <1>0, <1>3, BootServes DEF IInv
  <1>4. ASSUME NEW j \in Keys, NEW v \in Values, Set(j, v)
        PROVE  Serves(k)'
    <2>1. k # j /\ ~InFlight(k) /\ mode = "up"
      BY <1>4 DEF Set, SetRecord, InFlight, Idle
    <2>2. store'.data[k] = store.data[k] /\ store'.expires[k] = store.expires[k]
      BY <1>4, <2>1 DEF Set, SetKey
    <2> QED BY <1>1, <1>4, <2>1, <2>2 DEF Set, Serves, Standing, IsExpired
  <1>5. ASSUME NEW j \in Keys, Del(j)
        PROVE  Serves(k)'
    <2>1. CASE Present(store, j, now')
      <3>1. k # j /\ ~InFlight(k) /\ mode = "up" /\ expected' = expected
        BY <1>5, <2>1 DEF Del, DelRecord, InFlight, Idle
      <3>2. store'.data[k] = store.data[k] /\ store'.expires[k] = store.expires[k]
        BY <1>0, <1>5, <3>1 DEF Del, DeleteKey, EvictIfExpired, Drop, Store
      <3> QED BY <1>0, <1>1, <3>1, <3>2, StandingEarlier DEF Serves
    <2>2. CASE ~Present(store, j, now')
      <3>1. store' = EvictIfExpired(store, j, now')
        <4>1. EvictIfExpired(store, j, now').data[j] = None
          BY <2>2 DEF Present
        <4>2. EvictIfExpired(store, j, now').expires[j] = None
          BY <1>0, <4>1, EvictSound DEF Typed, TypeOK, DeadlineHasData, Sound, NoOrphanDeadline
        <4>3. EvictIfExpired(store, j, now') \in Store
          BY <1>0, EvictStore
        <4> QED BY <1>5, <4>1, <4>2, <4>3 DEF Del, DeleteKey, Drop, Store
      <3>2. OnlyDueTaken(store, store', now')
        BY <1>0, <3>1, EvictTakesDue
      <3> QED BY <1>2, <1>5, <2>2, <3>2 DEF Del, Idle, InFlight
    <2> QED BY <2>1, <2>2
  <1>6. ASSUME NEW j \in Keys, NEW s \in Seconds, Expire(j, s)
        PROVE  Serves(k)'
    <2>1. PICK t1 \in From(now) :
             /\ now' \in From(t1)
             /\ store' = ExpireKey(store, j, s, t1, now')
             /\ IF Present(store, j, t1)
                THEN step' = "deadline" /\ rec' = ExpireRecord(j, store'.expires[j])
                ELSE UNCHANGED command
      BY <1>6 DEF Expire
    <2>2. t1 \in Nat /\ t1 <= now'
      BY <1>0, <2>1, FromNat
    <2>3. CASE Present(store, j, t1)
      <3>1. k # j /\ ~InFlight(k) /\ mode = "up" /\ expected' = expected
        BY <1>6, <2>1, <2>3 DEF Expire, ExpireRecord, InFlight, Idle
      <3>2. store'.data[k] = store.data[k] /\ store'.expires[k] = store.expires[k]
        BY <1>0, <2>1, <3>1 DEF ExpireKey, EvictIfExpired, SetDeadline, Drop, Store
      <3> QED BY <1>0, <1>1, <3>1, <3>2, StandingEarlier DEF Serves
    <2>4. CASE ~Present(store, j, t1)
      <3>1. OnlyDueTaken(store, store', now')
        BY <1>0, <2>1, <2>2, <2>4, EvictTakesDue DEF ExpireKey
      <3> QED BY <1>2, <1>6, <2>1, <2>4, <3>1 DEF Expire, Idle, InFlight
    <2> QED BY <2>3, <2>4
  <1>7. CASE ReadDeadline
    <2>1. PICK t1 \in From(now) :
             now' \in From(t1) /\ store' = GetExpireAt(store, rec.key, t1, now')
      BY <1>7 DEF ReadDeadline
    <2>2. rec \in Record /\ rec.key \in Keys /\ rec.op = "EXPIRE" /\ mode = "up"
      BY <1>0, <1>7, RecordCases DEF ReadDeadline, Typed, Phases
    <2>3. OnlyDueTaken(store, store', now')
      BY <1>0, <2>1, <2>2, FromNat, GetExpireAtTakesDue
    <2>4. CASE store'.expires[rec.key] # None
      <3>1. ~InFlight(k)
        BY <1>7, <2>4 DEF ReadDeadline, ExpireRecord, InFlight
      <3> QED BY <1>2, <1>7, <2>2, <2>3, <2>4, <3>1 DEF ReadDeadline
    <2>5. CASE store'.expires[rec.key] = None
      <3>1. expected' = Apply(expected, rec)
        BY <1>7, <2>5 DEF ReadDeadline
      <3>2. /\ store.data[rec.key] = expected.data[rec.key] /\ store.data[rec.key] # None
            /\ store.expires[rec.key] = rec.at /\ rec.at \in Nat
        BY <1>0, <2>2, RecordCases DEF InFlightShown
      <3>3. expected' = SetDeadline(expected, rec.key, rec.at)
        BY <2>2, <3>1, <3>2 DEF Apply
      <3>4. CASE k = rec.key
        <4>1. expected'.data[k] = store.data[k] /\ expected'.expires[k] = store.expires[k]
          BY <1>0, <3>2, <3>3, <3>4 DEF SetDeadline, Typed, TypeOK, Store
        <4>2. store.expires[k] # None /\ store.expires[k] <= now'
          BY <2>3, <2>5, <3>2, <3>4, StorageAssumption DEF OnlyDueTaken
        <4>3. ~Standing(k)'
          BY <4>1, <4>2 DEF Standing, IsExpired
        <4> QED BY <2>3, <4>1, <4>3 DEF Serves, OnlyDueTaken
      <3>5. CASE k # rec.key
        <4>1. expected'.data[k] = expected.data[k] /\ expected'.expires[k] = expected.expires[k]
          BY <1>0, <3>3, <3>5 DEF SetDeadline
        <4> QED BY <1>0, <1>1, <2>2, <2>3, <3>5, <4>1, TakenServes DEF InFlight
      <3> QED BY <3>4, <3>5
    <2> QED BY <2>4, <2>5
  <1>8. CASE LogAppend \/ LogFails
    <2>1. /\ step = "log" /\ mode = "up" /\ store' = store /\ now' = now
          /\ expected' = Apply(expected, rec)
      BY <1>0, <1>8 DEF LogAppend, LogFails, Typed, Phases
    <2>2. CASE k = rec.key
      BY <1>0, <2>1, <2>2, DoneServes
    <2>3. CASE k # rec.key
      <3>1. Serves(k)
        BY <1>1, <2>1, <2>3 DEF InFlight
      <3>2. expected'.data[k] = expected.data[k] /\ expected'.expires[k] = expected.expires[k]
        BY <1>0, <2>1, <2>3, DoneServes
      <3> QED BY <2>1, <3>1, <3>2 DEF Serves, Standing, IsExpired
    <2> QED BY <2>2, <2>3
  <1>9. ASSUME NEW j \in Keys, Read(j)
        PROVE  Serves(k)'
    BY <1>0, <1>2, <1>9, EvictTakesDue DEF Read, Idle, InFlight
  <1>10. ASSUME NEW j \in Keys, Ttl(j)
         PROVE  Serves(k)'
    BY <1>0, <1>2, <1>10, FromNat, TtlTakesDue DEF Ttl, Idle, InFlight
  <1>11. CASE SaveRdb \/ SaveFails
    <2>1. OnlyDueTaken(store, store', now')
      BY <1>0, <1>11, FromNat, PassTakesDue DEF SaveRdb, SaveFails, Sweep
    <2> QED BY <1>2, <1>11, <2>1 DEF SaveRdb, SaveFails, Idle, InFlight
  <1>12. CASE ResetLog \/ ResetFails \/ Tick \/ UNCHANGED vars
    <2>1. OnlyDueTaken(store, store', now') /\ expected' = expected
      BY <1>0, <1>12, NothingTaken DEF ResetLog, ResetFails, Tick
    <2>2. mode = "up" /\ ~InFlight(k)
      BY <1>12 DEF ResetLog, ResetFails, Tick, InFlight
    <2> QED BY <1>2, <2>1, <2>2
  <1>13. CASE Boot \/ ReplayRecord \/ ReplayTorn \/ Crash \/ CrashInAppend
    BY <1>13 DEF Boot, ReplayRecord, ReplayTorn, Crash, CrashInAppend, Die
  <1> QED BY <1>3, <1>4, <1>5, <1>6, <1>7, <1>8, <1>9, <1>10, <1>11, <1>12, <1>13 DEF Next

-----------------------------------------------------------------------------
(* What the files hold *)

\* Nothing that the last records and the snapshot say of k changes its truth
\* when the files stay and k keeps its value and, while it stands, its deadline.
LEMMA FilesStay ==
  ASSUME NEW k \in Keys, FilesAgree(k), Settled(k)' => Settled(k),
         aof' = aof, rdb' = rdb,
         expected'.data[k] = expected.data[k],
         Elapsed(k) => Elapsed(k)',
         Standing(k)' => Standing(k) /\ expected'.expires[k] = expected.expires[k],
         MemoryIsBacked(k) => MemoryIsBacked(k)'
  PROVE  FilesAgree(k)'
  <1> SUFFICES ASSUME Settled(k)'
               PROVE  /\ LastWriteCounts(k)' /\ SnapshotCounts(k)'
                      /\ MemoryIsBacked(k)' /\ DeadlineCounts(k)'
    BY DEF FilesAgree
  <1>1. LastWriteCounts(k) /\ SnapshotCounts(k) /\ MemoryIsBacked(k) /\ DeadlineCounts(k)
    BY DEF FilesAgree
  <1>2. LastWriteCounts(k)'
    BY <1>1 DEF LastWriteCounts, NoWriteAfter
  <1>3. SnapshotCounts(k)'
    BY <1>1 DEF SnapshotCounts, NoWriteAfter
  <1>4. DeadlineCounts(k)'
    BY <1>1 DEF DeadlineCounts, NoTouchAfter
  <1> QED BY <1>1, <1>2, <1>3, <1>4

\* A log with a line it cannot read says nothing.
LEMMA SpoiledFiles ==
  ASSUME NEW k \in Keys, NEW i \in 1 .. Len(aof'), aof'[i] = Torn
  PROVE  FilesAgree(k)'
  BY DEF FilesAgree, Settled, Readable

\* A record of another key changes nothing for k.
LEMMA OthersRecord ==
  ASSUME Typed, NEW k \in Keys, NEW r \in Record, r.key # k,
         FilesAgree(k), k \notin tainted' => k \notin tainted,
         aof' = Written(r), ~ragged, rdb' = rdb, now' = now,
         expected'.data[k] = expected.data[k], expected'.expires[k] = expected.expires[k],
         store'.data[k] \in {store.data[k], None},
         step = "log", rec = r
  PROVE  FilesAgree(k)'
  <1> DEFINE n == Len(aof)
  <1>0. /\ n \in Nat /\ Len(aof') = n + 1
        /\ \A i \in 1 .. n : aof'[i] = aof[i]
        /\ aof'[n + 1] = r
    BY WrittenLines DEF Typed, TypeOK, Phases, Line
  <1>1. ~Writes(r, k) /\ ~Touches(r, k)
    BY DEF Writes, Touches
  <1> HIDE DEF n
  <1>2. ASSUME Settled(k)' PROVE Settled(k)
    <2>1. \A i \in 1 .. n : i \in 1 .. Len(aof')
      BY <1>0
    <2> QED BY <1>0, <1>2, <2>1 DEF Settled, Readable, n
  <1>3. ASSUME NEW i \in Nat, NoWriteAfter(i, k)'
        PROVE  NoWriteAfter(i, k)
    <2>1. \A j \in 1 .. n : j \in 1 .. Len(aof')
      BY <1>0
    <2> QED BY <1>0, <1>3, <2>1 DEF NoWriteAfter, n
  <1>4. ASSUME NEW i \in Nat, NoTouchAfter(i, k)'
        PROVE  NoTouchAfter(i, k)
    <2>1. \A j \in 1 .. n : j \in 1 .. Len(aof')
      BY <1>0
    <2> QED BY <1>0, <1>4, <2>1 DEF NoTouchAfter, n
  <1>5. ASSUME NEW i \in 1 .. Len(aof'), Touches(aof'[i], k)
        PROVE  i \in 1 .. n /\ i \in Nat /\ aof'[i] = aof[i]
    <2>1. i # n + 1
      BY <1>0, <1>1, <1>5
    <2> QED BY <1>0, <2>1
  <1>6. \A l : Writes(l, k) => Touches(l, k)
    BY DEF Writes, Touches
  <1> SUFFICES ASSUME Settled(k)'
               PROVE  /\ LastWriteCounts(k)' /\ SnapshotCounts(k)'
                      /\ MemoryIsBacked(k)' /\ DeadlineCounts(k)'
    BY DEF FilesAgree
  <1>8. LastWriteCounts(k) /\ SnapshotCounts(k) /\ MemoryIsBacked(k) /\ DeadlineCounts(k)
    BY <1>2 DEF FilesAgree
  <1>9. LastWriteCounts(k)'
    BY <1>3, <1>5, <1>6, <1>8 DEF LastWriteCounts, n
  <1>10. SnapshotCounts(k)'
    BY <1>3, <1>8 DEF SnapshotCounts, Elapsed, IsExpired
  <1>11. MemoryIsBacked(k)'
    BY <1>1, <1>3, <1>8 DEF MemoryIsBacked
  <1>12. DeadlineCounts(k)'
    BY <1>4, <1>5, <1>8 DEF DeadlineCounts, Standing, IsExpired, n
  <1> QED BY <1>9, <1>10, <1>11, <1>12

\* The new last record of k says what its command has left k with.
LEMMA OwnRecord ==
  ASSUME Typed, InFlightShown, NEW k \in Keys, rec.key = k, step = "log",
         FilesAgree(k), rec.op = "EXPIRE" => (k \notin tainted' => k \notin tainted),
         aof' = Written(rec), ~ragged, rdb' = rdb, now' = now, store' = store,
         expected' = Apply(expected, rec)
  PROVE  FilesAgree(k)'
  <1> DEFINE n == Len(aof)
  <1> USE DEF Typed, TypeOK, Phases
  <1>0. /\ n \in Nat /\ Len(aof') = n + 1
        /\ \A i \in 1 .. n : aof'[i] = aof[i]
        /\ aof'[n + 1] = rec /\ n + 1 \in 1 .. Len(aof')
    BY WrittenLines DEF Line
  <1>1. rec \in Record /\ Touches(rec, k)
    BY RecordCases DEF Touches
  <1>2. expected'.data[k] = IF rec.op = "EXPIRE" THEN expected.data[k] ELSE rec.val
    BY <1>1, RecordCases DEF Apply, SetKey, Drop, SetDeadline, Store
  <1>3. expected'.data[k] # None => expected'.expires[k] = rec.at
    BY <1>1, RecordCases DEF Apply, SetKey, Drop, SetDeadline, Store, InFlightShown
  <1> HIDE DEF n
  <1>4. \A i \in 1 .. n : i \in 1 .. Len(aof')
    BY <1>0
  <1>5. ASSUME Settled(k)', rec.op = "EXPIRE"
        PROVE  Settled(k)
    BY <1>0, <1>4, <1>5 DEF Settled, Readable, n
  <1>6. ASSUME NEW i \in 0 .. n
        PROVE  ~NoTouchAfter(i, k)' /\ (NoWriteAfter(i, k)' => NoWriteAfter(i, k) /\ ~Writes(rec, k))
    <2>1. n + 1 > i
      BY <1>0, <1>6
    <2> QED BY <1>0, <1>1, <1>4, <2>1 DEF NoTouchAfter, NoWriteAfter, n
  <1>7. \A i \in 1 .. Len(aof') : i = n + 1 \/ (i \in 1 .. n /\ i \in 0 .. n)
    BY <1>0
  <1>8. 0 \in 0 .. n
    BY <1>0
  <1>9. Writes(rec, k) <=> rec.op # "EXPIRE"
    BY <1>1, RecordCases DEF Writes
  <1> SUFFICES ASSUME Settled(k)'
               PROVE  /\ LastWriteCounts(k)' /\ SnapshotCounts(k)'
                      /\ MemoryIsBacked(k)' /\ DeadlineCounts(k)'
    BY DEF FilesAgree
  <1>10. rec.op = "EXPIRE" =>
            LastWriteCounts(k) /\ MemoryIsBacked(k)
    BY <1>5 DEF FilesAgree
  <1>11. LastWriteCounts(k)'
    BY <1>0, <1>2, <1>6, <1>7, <1>9, <1>10 DEF LastWriteCounts, n
  <1>12. SnapshotCounts(k)' /\ MemoryIsBacked(k)'
    <2>1. SUFFICES ASSUME NoWriteAfter(0, k)' PROVE rdb'.data[k] = expected'.data[k]
      BY DEF SnapshotCounts, MemoryIsBacked
    <2>2. NoWriteAfter(0, k) /\ rec.op = "EXPIRE" /\ ~Writes(rec, k)
      BY <1>6, <1>8, <1>9, <2>1
    <2>3. store.data[k] # None
      BY <2>2 DEF InFlightShown
    <2> QED BY <1>2, <1>10, <2>2, <2>3 DEF MemoryIsBacked
  <1>13. DeadlineCounts(k)'
    BY <1>0, <1>3, <1>6, <1>7, <1>8 DEF DeadlineCounts, Standing
  <1> QED BY <1>11, <1>12, <1>13

\* A record written to a ragged log, or torn itself, spoils the log.
LEMMA SpoiledLog ==
  ASSUME Typed, NEW k \in Keys, NEW r \in Line, aof' = Written(r), ragged \/ r = Torn
  PROVE  FilesAgree(k)'
  <1>1. \E i \in 1 .. Len(aof') : aof'[i] = Torn
    <2>1. CASE ragged
      BY <2>1, WrittenLines DEF Typed, TypeOK, Phases, Line
    <2>2. CASE ~ragged
      <3>1. Len(aof) \in Nat /\ Len(aof') = Len(aof) + 1 /\ aof'[Len(aof) + 1] = Torn
        BY <2>2, WrittenLines DEF Typed, TypeOK, Phases, Line
      <3> QED BY <3>1
    <2> QED BY <2>1, <2>2
  <1> QED BY <1>1, SpoiledFiles

\* A write that stops early: the key of its record is no longer settled.
LEMMA CutFiles ==
  ASSUME Typed, NEW k \in Keys, FilesAgree(k), step = "log", CutShort(rec),
         rdb' = rdb, now' = now, tainted' = tainted \cup {rec.key},
         store'.data[k] \in {store.data[k], None},
         k # rec.key => /\ expected'.data[k] = expected.data[k]
                        /\ expected'.expires[k] = expected.expires[k]
  PROVE  FilesAgree(k)'
  <1>0. rec \in Record /\ rec \in Line /\ Torn \in Line
    BY DEF Typed, Phases, Line
  <1>1. CASE k = rec.key
    BY <1>1 DEF FilesAgree, Settled
  <1>2. CASE k # rec.key /\ UNCHANGED <<aof, ragged>>
    <2>1. Settled(k)' => Settled(k)
      BY <1>2 DEF Settled, Readable
    <2>2. ~Writes(rec, k)
      BY <1>2 DEF Writes
    <2>3. MemoryIsBacked(k) => MemoryIsBacked(k)'
      BY <1>2, <2>2 DEF MemoryIsBacked, NoWriteAfter
    <2> QED BY <1>2, <2>1, <2>3, FilesStay DEF Elapsed, Standing, IsExpired
  <1>3. CASE k # rec.key /\ aof' = Written(rec) /\ ~ragged
    BY <1>0, <1>3, OthersRecord
  <1>4. CASE aof' = Written(Torn) \/ (aof' = Written(rec) /\ ragged)
    BY <1>0, <1>4, SpoiledLog
  <1> QED BY <1>1, <1>2, <1>3, <1>4 DEF CutShort

\* A new snapshot holds what is served; so does the log, or the reset log.
LEMMA SnapshotFiles ==
  ASSUME Typed, Typed', NEW k \in Keys, FilesAgree(k), SaveRdb,
         now' \in Nat, now <= now', Serves(k)'
  PROVE  FilesAgree(k)'
  <1> USE DEF history, booting
  <1>1. /\ aof' = aof /\ expected' = expected /\ tainted' = tainted
        /\ rdb'.data[k] = store'.data[k]
        /\ ~IsExpired(store, k, now)' => rdb'.expires[k] = store'.expires[k]
    BY DEF SaveRdb, Dump, FutureDeadlines, IsExpired
  <1>2. /\ Settled(k)' <=> Settled(k)
        /\ Standing(k)' => Standing(k)
    BY <1>1, StandingEarlier DEF Settled, Readable
  <1> SUFFICES ASSUME Settled(k)'
               PROVE  /\ LastWriteCounts(k)' /\ SnapshotCounts(k)'
                      /\ MemoryIsBacked(k)' /\ DeadlineCounts(k)'
    BY DEF FilesAgree
  <1>3. LastWriteCounts(k) /\ DeadlineCounts(k)
    BY <1>2 DEF FilesAgree
  <1>4. LastWriteCounts(k)'
    BY <1>1, <1>3 DEF LastWriteCounts, NoWriteAfter
  <1>5. SnapshotCounts(k)' /\ MemoryIsBacked(k)'
    BY <1>1 DEF Serves, SnapshotCounts, MemoryIsBacked, Standing, Elapsed
  <1>6. ASSUME Standing(k)'
        PROVE  rdb'.expires[k] = expected'.expires[k]
    BY <1>1, <1>6 DEF Serves, Standing, IsExpired
  <1>7. DeadlineCounts(k)'
    BY <1>1, <1>2, <1>3, <1>6 DEF DeadlineCounts, NoTouchAfter
  <1> QED BY <1>4, <1>5, <1>7

LEMMA ResetFiles ==
  ASSUME Typed, NEW k \in Keys, SnapshotIsMemory, ResetLog, Serves(k)
  PROVE  FilesAgree(k)'
  <1>1. /\ Len(aof') = 0 /\ rdb' = rdb /\ store' = store /\ expected' = expected /\ now' = now
        /\ step = "unlink"
    BY DEF ResetLog
  <1>2. /\ rdb.data[k] = store.data[k]
        /\ ~IsExpired(store, k, now) => rdb.expires[k] = store.expires[k]
    BY <1>1 DEF SnapshotIsMemory
  <1>3. SnapshotCounts(k)' /\ MemoryIsBacked(k)'
    BY <1>1, <1>2 DEF Serves, SnapshotCounts, MemoryIsBacked, Standing, Elapsed, IsExpired
  <1>4. Standing(k) => rdb.expires[k] = expected.expires[k]
    BY <1>2 DEF Serves, Standing, IsExpired
  <1>5. DeadlineCounts(k)'
    BY <1>1, <1>4 DEF DeadlineCounts, Standing, IsExpired
  <1>6. LastWriteCounts(k)'
    BY <1>1 DEF LastWriteCounts
  <1> QED BY <1>3, <1>5, <1>6 DEF FilesAgree

\* Steps that leave both files and all that is expected of k alone.
LEMMA FilesUntouched ==
  ASSUME Typed, NEW k \in Keys, FilesAgree(k), aof' = aof, rdb' = rdb, tainted' = tainted,
         now' \in Nat, now <= now',
         expected'.data[k] = expected.data[k], expected'.expires[k] = expected.expires[k],
         MemoryIsBacked(k) => MemoryIsBacked(k)'
  PROVE  FilesAgree(k)'
  <1>1. Settled(k)' => Settled(k)
    BY DEF Settled, Readable
  <1> QED BY <1>1, StandingEarlier, FilesStay

LEMMA StepFiles ==
  ASSUME IInv, Typed', ServesExpected', [Next]_vars, NEW k \in Keys
  PROVE  FilesAgree(k)'
  <1> USE DEF vars, files, booting, command, history
  <1>0. /\ Typed /\ store \in Store /\ ServesExpected /\ InFlightShown /\ SnapshotIsMemory
        /\ FilesAgree(k) /\ ReplayAgrees(k)
        /\ now \in Nat /\ now' \in Nat /\ now <= now'
    BY StepClock DEF IInv, Typed, TypeOK
  \* Memory loses keys, and the running command is the same or a new one.
  <1>1. ASSUME aof' = aof, rdb' = rdb, tainted' = tainted, expected' = expected,
               store'.data[k] \in {store.data[k], None},
               step = "log" => UNCHANGED command
        PROVE  FilesAgree(k)'
    <2>1. MemoryIsBacked(k) => MemoryIsBacked(k)'
      BY <1>1 DEF MemoryIsBacked, NoWriteAfter
    <2> QED BY <1>0, <1>1, <2>1, FilesUntouched
  <1>2. CASE Boot \/ ReplayRecord \/ ReplayTorn \/ ResetFails \/ Tick \/ UNCHANGED vars
    BY <1>0, <1>1, <1>2 DEF Boot, ReplayRecord, ReplayTorn, ResetFails, Tick, Typed, Phases
  <1>3. CASE FinishBoot
    <2>1. /\ aof' = aof /\ rdb' = rdb /\ tainted' = tainted /\ mode = "booting"
          /\ store'.data[k] \in {recovered.data[k], None}
      BY <1>3 DEF FinishBoot, DropAll, LoadAll
    <2>2. CASE k \in tainted
      BY <2>1, <2>2 DEF FilesAgree, Settled
    <2>3. CASE k \notin tainted
      <3>1. expected'.data[k] = expected.data[k] /\ expected'.expires[k] = expected.expires[k]
        BY <1>3, <2>3 DEF FinishBoot
      <3>2. NoWriteAfter(0, k)' => NoWriteAfter(0, k)
        BY <2>1 DEF NoWriteAfter
      <3>3. Settled(k)' => Settled(k)
        BY <2>1 DEF Settled, Readable
      <3>4. ASSUME Settled(k)', NoWriteAfter(0, k), store'.data[k] # None
            PROVE  rdb.data[k] = expected.data[k]
        <4>1. recovered.data[k] = rdb.data[k]
          BY <1>0, <2>1, <3>4 DEF ReplayAgrees, UnwrittenIsSnapshot
        <4> QED BY <1>0, <2>1, <3>3, <3>4, <4>1 DEF FilesAgree, SnapshotCounts
      <3>5. Settled(k)' => MemoryIsBacked(k)'
        BY <2>1, <3>1, <3>2, <3>4 DEF MemoryIsBacked
      <3>6. CASE Settled(k)'
        BY <1>0, <2>1, <3>1, <3>5, <3>6, FilesUntouched
      <3>7. CASE ~Settled(k)'
        BY <3>7 DEF FilesAgree
      <3> QED BY <3>6, <3>7
    <2> QED BY <2>2, <2>3
  <1>4. ASSUME NEW j \in Keys, NEW v \in Values, Set(j, v)
        PROVE  FilesAgree(k)'
    <2>1. k = j => step' = "log" /\ Writes(rec', k)
      BY <1>4 DEF Set, SetRecord, Writes
    <2>2. k # j => store'.data[k] = store.data[k] /\ step # "log"
      BY <1>4 DEF Set, SetKey, Idle
    <2>3. MemoryIsBacked(k) => MemoryIsBacked(k)'
      BY <1>4, <2>1, <2>2 DEF Set, MemoryIsBacked, NoWriteAfter
    <2> QED BY <1>0, <1>4, <2>3, FilesUntouched DEF Set
  <1>5. ASSUME NEW j \in Keys, Del(j) \/ Read(j) \/ Ttl(j)
        PROVE  FilesAgree(k)'
    <2>1. store'.data[k] \in {store.data[k], None}
      BY <1>0, <1>5 DEF Del, Read, Ttl, DeleteKey, TtlKey, EvictIfExpired, Forget, Drop, Store
    <2> QED BY <1>1, <1>5, <2>1 DEF Del, Read, Ttl, Idle
  <1>6. ASSUME NEW j \in Keys, NEW s \in Seconds, Expire(j, s)
        PROVE  FilesAgree(k)'
    <2>1. store'.data[k] \in {store.data[k], None}
      BY <1>0, <1>6 DEF Expire, ExpireKey, EvictIfExpired, SetDeadline, Drop, Store
    <2> QED BY <1>1, <1>6, <2>1 DEF Expire, Idle
  <1>7. CASE ReadDeadline
    <2>1. PICK t1 \in From(now) :
             now' \in From(t1) /\ store' = GetExpireAt(store, rec.key, t1, now')
      BY <1>7 DEF ReadDeadline
    <2>2. rec.key \in Keys /\ rec.op = "EXPIRE"
      BY <1>0, <1>7, RecordCases DEF ReadDeadline, Typed, Phases
    <2>3. OnlyDueTaken(store, store', now')
      BY <1>0, <2>1, <2>2, FromNat, GetExpireAtTakesDue
    <2>4. CASE expected' = expected
      BY <1>1, <1>7, <2>3, <2>4 DEF ReadDeadline, OnlyDueTaken
    <2>5. CASE expected' # expected
      <3>1. /\ expected' = Apply(expected, rec) /\ store'.expires[rec.key] = None
            /\ step' = "idle" /\ aof' = aof /\ rdb' = rdb /\ tainted' = tainted
        BY <1>7, <2>5 DEF ReadDeadline
      <3>2. /\ store.data[rec.key] = expected.data[rec.key] /\ store.data[rec.key] # None
            /\ store.expires[rec.key] = rec.at /\ rec.at # None
        BY <1>0, <1>7, <2>2, RecordCases, StorageAssumption
        DEF InFlightShown, ReadDeadline, Typed, Phases
      <3>3. expected' = SetDeadline(expected, rec.key, rec.at)
        BY <2>2, <3>1, <3>2 DEF Apply
      <3>4. expected'.data[k] = expected.data[k]
        BY <3>3 DEF SetDeadline
      <3>5. MemoryIsBacked(k) => MemoryIsBacked(k)'
        BY <1>7, <2>3, <3>1, <3>4
        DEF ReadDeadline, MemoryIsBacked, NoWriteAfter, OnlyDueTaken
      <3>6. CASE k # rec.key
        <4>1. expected'.expires[k] = expected.expires[k]
          BY <3>3, <3>6 DEF SetDeadline
        <4> QED BY <1>0, <3>1, <3>4, <3>5, <4>1, FilesUntouched
      <3>7. CASE k = rec.key
        <4>1. expected'.expires[k] = rec.at
          BY <1>0, <3>3, <3>7 DEF SetDeadline, Typed, TypeOK, Store
        <4>2. rec.at # None /\ rec.at <= now'
          BY <2>3, <3>1, <3>2, <3>7 DEF OnlyDueTaken
        <4>3. Elapsed(k)' /\ ~Standing(k)'
          BY <4>1, <4>2 DEF Elapsed, Standing, IsExpired
        <4>4. Settled(k)' => Settled(k)
          BY <3>1 DEF Settled, Readable
        <4> QED BY <1>0, <3>1, <3>4, <3>5, <4>3, <4>4, FilesStay
      <3> QED BY <3>6, <3>7
    <2> QED BY <2>4, <2>5
  <1>8. CASE LogAppend
    <2>1. rec \in Record /\ rec \in Line /\ rec.key \in Keys
      BY <1>0, <1>8, RecordCases DEF LogAppend, Typed, Phases, Line
    <2>2. CASE ragged
      BY <1>0, <1>8, <2>1, <2>2, SpoiledLog DEF LogAppend
    <2>3. CASE ~ragged /\ k = rec.key
      BY <1>0, <1>8, <2>3, OwnRecord DEF LogAppend
    <2>4. CASE ~ragged /\ k # rec.key
      <3>1. expected'.data[k] = expected.data[k] /\ expected'.expires[k] = expected.expires[k]
        BY <1>0, <1>8, <2>4, DoneServes DEF LogAppend
      <3> QED BY <1>0, <1>8, <2>1, <2>4, <3>1, OthersRecord DEF LogAppend
    <2> QED BY <2>2, <2>3, <2>4
  <1>9. CASE LogFails
    <2>1. k # rec.key => expected'.data[k] = expected.data[k] /\ expected'.expires[k] = expected.expires[k]
      BY <1>0, <1>9, DoneServes DEF LogFails
    <2> QED BY <1>0, <1>9, <2>1, CutFiles DEF LogFails
  <1>10. CASE CrashInAppend
    <2>1. store'.data[k] = None
      BY <1>10 DEF CrashInAppend, Die, EmptyStore
    <2> QED BY <1>0, <1>10, <2>1, CutFiles DEF CrashInAppend
  <1>11. CASE SaveRdb
    <2>1. mode' = "up" /\ ~InFlight(k)'
      BY <1>11 DEF SaveRdb, Idle, InFlight
    <2>2. Serves(k)'
      BY <2>1 DEF ServesExpected, Serves
    <2> QED BY <1>0, <1>11, <2>2, SnapshotFiles
  <1>12. CASE SaveFails
    <2>1. store'.data[k] \in {store.data[k], None}
      BY <1>0, <1>12 DEF SaveFails, Sweep, DropAll
    <2> QED BY <1>1, <1>12, <2>1 DEF SaveFails, Idle
  <1>13. CASE ResetLog
    <2>1. mode = "up" /\ ~InFlight(k)
      BY <1>0, <1>13 DEF ResetLog, Typed, Phases, InFlight
    <2>2. Serves(k)
      BY <1>0, <2>1 DEF ServesExpected, Serves
    <2> QED BY <1>0, <1>13, <2>2, ResetFiles
  <1>14. CASE Crash
    <2>1. store'.data[k] = None
      BY <1>14 DEF Crash, Die, EmptyStore
    <2>2. MemoryIsBacked(k)'
      BY <2>1 DEF MemoryIsBacked
    <2> QED BY <1>0, <1>14, <2>2, FilesUntouched DEF Crash
  <1> QED BY <1>2, <1>3, <1>4, <1>5, <1>6, <1>7, <1>8, <1>9, <1>10, <1>11, <1>12, <1>13, <1>14
          DEF Next

-----------------------------------------------------------------------------
(* What the replay makes of them *)

LEMMA BootAgrees ==
  ASSUME Typed, Boot, NEW k \in Keys, FilesAgree(k)
  PROVE  ReplayAgrees(k)'
  <1>1. /\ aof' = aof /\ rdb' = rdb /\ expected' = expected /\ tainted' = tainted /\ now' = now
        /\ pos' = 0 /\ recovered'.data[k] = rdb.data[k]
        /\ rdb.data[k] # None => recovered'.expires[k] = rdb.expires[k]
    BY DEF Boot, Base, files, history
  <1>2. UnwrittenIsSnapshot(k)'
    BY <1>1 DEF UnwrittenIsSnapshot
  <1> SUFFICES ASSUME Settled(k)' PROVE ReplayedValue(k)' /\ ReplayedDeadline(k)'
    BY <1>2 DEF ReplayAgrees
  <1>3. SnapshotCounts(k) /\ DeadlineCounts(k)
    BY <1>1 DEF FilesAgree, Settled, Readable
  <1>4. ReplayedValue(k)'
    BY <1>1, <1>3 DEF ReplayedValue, SnapshotCounts, NoWriteAfter, Elapsed, IsExpired
  <1>5. ASSUME Standing(k), NoTouchAfter(0, k)
        PROVE  recovered'.expires[k] = expected.expires[k]
    <2>1. NoWriteAfter(0, k)
      BY <1>5 DEF NoWriteAfter, NoTouchAfter, Writes, Touches
    <2>2. rdb.data[k] # None /\ rdb.expires[k] = expected.expires[k]
      BY <1>3, <1>5, <2>1 DEF SnapshotCounts, DeadlineCounts, Standing, Elapsed
    <2> QED BY <1>1, <2>2
  <1>6. ReplayedDeadline(k)'
    BY <1>1, <1>5 DEF ReplayedDeadline, Standing, IsExpired, NoTouchAfter
  <1> QED BY <1>4, <1>6

LEMMA ReplayKeepsAgreeing ==
  ASSUME Typed, ReplayRecord, NEW k \in Keys, FilesAgree(k), ReplayAgrees(k)
  PROVE  ReplayAgrees(k)'
  <1> DEFINE r == aof[pos + 1]
  <1>1. /\ aof' = aof /\ rdb' = rdb /\ expected' = expected /\ tainted' = tainted /\ now' = now
        /\ pos' = pos + 1 /\ recovered' = Apply(recovered, r) /\ mode = "booting"
    BY DEF ReplayRecord, files, history
  <1>2. pos \in Nat /\ pos + 1 \in 1 .. Len(aof) /\ Len(aof) \in Nat
    BY DEF ReplayRecord, Typed, TypeOK
  <1>3. r \in Record
    <2>1. aof[pos + 1] \in Record \cup {Torn}
      BY <1>2 DEF Typed, TypeOK
    <2> QED BY <2>1 DEF ReplayRecord
  <1> HIDE DEF r
  <1>4. recovered \in Store
    BY DEF Typed, TypeOK
  <1>5. /\ Writes(r, k) => recovered'.data[k] = r.val
        /\ ~Writes(r, k) => recovered'.data[k] = recovered.data[k]
    BY <1>1, <1>3, <1>4, RecordCases DEF Writes, Apply, SetKey, Drop, SetDeadline, Store
  <1>6. /\ ~Touches(r, k) => recovered'.expires[k] = recovered.expires[k]
        /\ Touches(r, k) /\ (Writes(r, k) \/ recovered.data[k] # None)
               => recovered'.expires[k] = r.at
    BY <1>1, <1>3, <1>4, RecordCases
    DEF Writes, Touches, Apply, SetKey, Drop, SetDeadline, Store
  <1>7. /\ NoWriteAfter(0, k)' => NoWriteAfter(0, k) /\ ~Writes(r, k)
        /\ NoWriteAfter(pos, k)' <=> NoWriteAfter(pos + 1, k)
        /\ NoTouchAfter(pos, k)' <=> NoTouchAfter(pos + 1, k)
    BY <1>1, <1>2 DEF NoWriteAfter, NoTouchAfter, r
  <1>8. UnwrittenIsSnapshot(k)'
    BY <1>1, <1>5, <1>7 DEF ReplayAgrees, UnwrittenIsSnapshot
  <1> SUFFICES ASSUME Settled(k)' PROVE ReplayedValue(k)' /\ ReplayedDeadline(k)'
    BY <1>8 DEF ReplayAgrees
  <1>9. /\ LastWriteCounts(k) /\ DeadlineCounts(k)
        /\ ReplayedValue(k) /\ ReplayedDeadline(k)
    BY <1>1 DEF FilesAgree, ReplayAgrees, Settled, Readable
  <1>10. \A j \in Nat : j > pos => j > pos + 1 \/ j = pos + 1
    BY <1>2
  <1>11. NoWriteAfter(pos + 1, k) /\ ~Writes(r, k) => NoWriteAfter(pos, k)
    BY <1>2, <1>10 DEF NoWriteAfter, r
  <1>12. NoTouchAfter(pos + 1, k) /\ ~Touches(r, k) => NoTouchAfter(pos, k)
    BY <1>2, <1>10 DEF NoTouchAfter, r
  <1>13. NoTouchAfter(pos + 1, k) => NoWriteAfter(pos + 1, k)
    BY DEF NoWriteAfter, NoTouchAfter, Writes, Touches
  <1>14. Writes(r, k) /\ NoWriteAfter(pos + 1, k) => r.val = expected.data[k]
    BY <1>2, <1>9 DEF LastWriteCounts, r
  <1>15. ReplayedValue(k)'
    <2>1. SUFFICES ASSUME NoWriteAfter(pos + 1, k)
                   PROVE  \/ recovered'.data[k] = expected.data[k]
                          \/ Elapsed(k) /\ recovered'.data[k] = None
      BY <1>1, <1>7 DEF ReplayedValue, Elapsed, IsExpired
    <2> QED BY <1>5, <1>9, <1>11, <1>14, <2>1 DEF ReplayedValue
  <1>16. ReplayedDeadline(k)'
    <2>1. SUFFICES ASSUME Standing(k), NoTouchAfter(pos + 1, k)
                   PROVE  recovered'.expires[k] = expected.expires[k]
      BY <1>1, <1>7 DEF ReplayedDeadline, Standing, IsExpired
    <2>2. CASE Touches(r, k)
      <3>1. r.at = expected.expires[k]
        BY <1>2, <1>9, <2>1, <2>2 DEF DeadlineCounts, r
      <3>2. Writes(r, k) \/ recovered.data[k] # None
        BY <1>9, <1>11, <1>13, <2>1 DEF ReplayedValue, Standing, Elapsed
      <3> QED BY <1>6, <2>2, <3>1, <3>2
    <2>3. CASE ~Touches(r, k)
      BY <1>6, <1>9, <1>12, <2>1, <2>3 DEF ReplayedDeadline
    <2> QED BY <2>2, <2>3
  <1> QED BY <1>15, <1>16

LEMMA StepReplayAgrees ==
  ASSUME IInv, [Next]_vars, NEW k \in Keys
  PROVE  ReplayAgrees(k)'
  <1> USE DEF vars, files, booting, command, history
  <1>0. /\ Typed /\ FilesAgree(k) /\ ReplayAgrees(k)
        /\ now \in Nat /\ now' \in Nat /\ now <= now'
    BY StepClock DEF IInv, Typed
  <1>1. CASE Boot
    BY <1>0, <1>1, BootAgrees
  <1>2. CASE ReplayRecord
    BY <1>0, <1>2, ReplayKeepsAgreeing
  <1>3. CASE Tick \/ UNCHANGED vars
    <2>1. UNCHANGED <<store, files, booting, command, history>>
      BY <1>3 DEF Tick
    <2>2. (Standing(k)' => Standing(k)) /\ (Elapsed(k) => Elapsed(k)')
      BY <1>0, <2>1, StandingEarlier
    <2>3. UnwrittenIsSnapshot(k) => UnwrittenIsSnapshot(k)'
      BY <2>1 DEF UnwrittenIsSnapshot, NoWriteAfter
    <2>4. ReplayedValue(k) => ReplayedValue(k)'
      BY <2>1, <2>2 DEF ReplayedValue, NoWriteAfter
    <2>5. ReplayedDeadline(k) => ReplayedDeadline(k)'
      BY <2>1, <2>2 DEF ReplayedDeadline, NoTouchAfter
    <2>6. Settled(k)' => Settled(k)
      BY <2>1 DEF Settled, Readable
    <2> QED BY <1>0, <2>1, <2>3, <2>4, <2>5, <2>6 DEF ReplayAgrees
  <1>4. CASE mode' # "booting"
    BY <1>4 DEF ReplayAgrees
  <1> QED
    BY <1>0, <1>1, <1>2, <1>3, <1>4
    DEF Next, Typed, Phases, ReplayTorn, FinishBoot, Set, Del, Expire, ReadDeadline, Read,
        Ttl, LogAppend, LogFails, SaveRdb, SaveFails, ResetLog, ResetFails, Crash,
        CrashInAppend, Die, Idle

-----------------------------------------------------------------------------
(* The theorems *)

LEMMA InitIInv == Init => IInv
  <1> SUFFICES ASSUME Init PROVE IInv
    OBVIOUS
  <1>1. Typed
    BY InitTyped
  <1>2. /\ mode = "down" /\ step = "idle" /\ rec.op = "none" /\ Len(aof) = 0
        /\ rdb = EmptyStore /\ expected = EmptyStore
    BY DEF Init, NoRecord
  <1>3. ASSUME NEW k \in Keys
        PROVE  FilesAgree(k) /\ ReplayAgrees(k)
    BY <1>2 DEF FilesAgree, ReplayAgrees, LastWriteCounts, SnapshotCounts, MemoryIsBacked,
                DeadlineCounts, EmptyStore
  <1>4. ServesExpected /\ InFlightShown /\ SnapshotIsMemory /\ ReplayedReadable
    BY <1>2 DEF ServesExpected, InFlightShown, SnapshotIsMemory, ReplayedReadable
  <1> QED BY <1>1, <1>3, <1>4 DEF IInv, Typed

LEMMA StepIInv ==
  ASSUME IInv, [Next]_vars
  PROVE  IInv'
  <1>1. Typed /\ Typed'
    BY StepTyped DEF IInv, Typed
  <1>2. ServesExpected'
    BY StepServes
  <1>3. InFlightShown' /\ SnapshotIsMemory' /\ ReplayedReadable'
    BY <1>1, StepInFlightShown, StepSnapshotIsMemory, StepReplayedReadable DEF IInv
  <1>4. \A k \in Keys : FilesAgree(k)' /\ ReplayAgrees(k)'
    BY <1>1, <1>2, StepFiles, StepReplayAgrees
  <1> QED BY <1>1, <1>2, <1>3, <1>4 DEF IInv, Typed

\* The files, the replay and memory always agree on every settled key
\* (AofPersistence, RdbPersistence, PersistenceManager).
THEOREM FilesAndMemoryAgree == Spec => []IInv
  BY InitIInv, StepIInv, PTL DEF Spec

\* The files, memory and the phases of a command have their types
\* (PersistenceManager).
THEOREM TypeCorrect == Spec => []TypeOK
  <1>1. IInv => TypeOK
    BY DEF IInv
  <1> QED BY FilesAndMemoryAgree, <1>1, PTL

\* Clients are served what the finished commands have left, through any number
\* of crashes, restarts, failed writes, torn records and snapshots (Dispatcher,
\* PersistenceManager).
THEOREM Durability == Spec => []ServesExpected
  <1>1. IInv => ServesExpected
    BY DEF IInv
  <1> QED BY FilesAndMemoryAgree, <1>1, PTL

=============================================================================
