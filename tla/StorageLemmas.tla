---------------------------- MODULE StorageLemmas ----------------------------
(***************************************************************************)
(* What the operators of StorageOps preserve: each maps stores to stores,  *)
(* and none leaves a deadline without its value.                           *)
(***************************************************************************)
EXTENDS StorageOps, TLAPS

Sound(s) == s \in Store /\ NoOrphanDeadline(s)

-----------------------------------------------------------------------------
(* Updates of the two tables *)

LEMMA EmptyStoreSound == Sound(EmptyStore)
  BY DEF Sound, EmptyStore, Store, Deadline, NoOrphanDeadline

LEMMA DropSound ==
  ASSUME NEW s, Sound(s), NEW k \in Keys
  PROVE  Sound(Drop(s, k))
  BY DEF Sound, Drop, Store, Deadline, NoOrphanDeadline

LEMMA ForgetSound ==
  ASSUME NEW s, Sound(s), NEW k \in Keys
  PROVE  Sound(Forget(s, k))
  BY DEF Sound, Forget, Store, Deadline, NoOrphanDeadline

LEMMA SetDeadlineSound ==
  ASSUME NEW s, Sound(s), NEW k \in Keys, NEW at \in Nat, s.data[k] # None
  PROVE  Sound(SetDeadline(s, k, at))
  BY DEF Sound, SetDeadline, Store, Deadline, NoOrphanDeadline

LEMMA SetKeySound ==
  ASSUME NEW s, Sound(s), NEW k \in Keys, NEW v \in Values
  PROVE  Sound(SetKey(s, k, v)) /\ SetKey(s, k, v).data[k] # None
  BY StorageAssumption DEF Sound, SetKey, Store, Deadline, NoOrphanDeadline

LEMMA DropAllSound ==
  ASSUME NEW s, Sound(s), NEW found
  PROVE  Sound(DropAll(s, found))
  BY DEF Sound, DropAll, Store, Deadline, NoOrphanDeadline

LEMMA FutureDeadlinesSound ==
  ASSUME NEW s, Sound(s), NEW t
  PROVE  Sound([data |-> s.data, expires |-> FutureDeadlines(s, t)])
  BY DEF Sound, FutureDeadlines, Store, Deadline, NoOrphanDeadline

-----------------------------------------------------------------------------
(* The methods *)

\* A deadline in the future is a natural number.
LEMMA LaterIsNat ==
  ASSUME NEW t \in Nat, NEW seconds \in Int, seconds > 0
  PROVE  t + seconds * TicksPerSecond \in Nat
  <1>1. seconds \in Nat /\ TicksPerSecond \in Nat
    BY StorageAssumption
  <1>2. seconds * TicksPerSecond \in Nat
    BY <1>1
  <1> QED BY <1>2

LEMMA EvictSound ==
  ASSUME NEW s, Sound(s), NEW k \in Keys, NEW t
  PROVE  Sound(EvictIfExpired(s, k, t))
  BY DropSound DEF EvictIfExpired

LEMMA SetKeyForSound ==
  ASSUME NEW s, Sound(s), NEW k \in Keys, NEW v \in Values,
         NEW seconds \in Int, NEW t \in Nat
  PROVE  Sound(SetKeyFor(s, k, v, seconds, t))
  <1>1. Sound(SetKey(s, k, v)) /\ SetKey(s, k, v).data[k] # None
    BY SetKeySound
  <1>2. CASE seconds <= 0
    BY <1>1, <1>2, DropSound DEF SetKeyFor
  <1>3. CASE seconds > 0
    BY <1>1, <1>3, LaterIsNat, SetDeadlineSound DEF SetKeyFor
  <1> QED BY <1>2, <1>3

LEMMA DeleteSound ==
  ASSUME NEW s, Sound(s), NEW k \in Keys, NEW t
  PROVE  Sound(DeleteKey(s, k, t))
  BY EvictSound, DropSound DEF DeleteKey

LEMMA ExpireSound ==
  ASSUME NEW s, Sound(s), NEW k \in Keys, NEW seconds \in Int,
         NEW t1 \in Nat, NEW t2 \in Nat
  PROVE  Sound(ExpireKey(s, k, seconds, t1, t2))
  <1>1. Sound(EvictIfExpired(s, k, t1))
    BY EvictSound
  <1>2. CASE Present(s, k, t1) /\ seconds > 0
    BY <1>1, <1>2, LaterIsNat, SetDeadlineSound DEF ExpireKey, Present
  <1>3. CASE ~(Present(s, k, t1) /\ seconds > 0)
    BY <1>1, <1>3 DEF ExpireKey
  <1> QED BY <1>2, <1>3

LEMMA TtlSound ==
  ASSUME NEW s, Sound(s), NEW k \in Keys, NEW t1, NEW t2
  PROVE  Sound(TtlKey(s, k, t1, t2))
  BY EvictSound, ForgetSound DEF TtlKey

LEMMA GetExpireAtSound ==
  ASSUME NEW s, Sound(s), NEW k \in Keys, NEW t1, NEW t2
  PROVE  Sound(GetExpireAt(s, k, t1, t2))
  BY EvictSound, ForgetSound DEF GetExpireAt

-----------------------------------------------------------------------------
(* Evictions, lookups and passes take only what is due *)

\* From s to r no value is replaced, and only keys whose deadline has come by t
\* lose their value or their deadline.
OnlyDueTaken(s, r, t) ==
    \A k \in Keys :
        /\ r.data[k] \in {s.data[k], None}
        /\ r.data[k] # s.data[k] \/ r.expires[k] # s.expires[k]
               => s.expires[k] # None /\ s.expires[k] <= t

LEMMA EvictTakesDue ==
  ASSUME NEW s \in Store, NEW k \in Keys, NEW t1 \in Nat, NEW t2 \in Nat, t1 <= t2
  PROVE  OnlyDueTaken(s, EvictIfExpired(s, k, t1), t2)
  <1>1. CASE IsExpired(s, k, t1)
    <2>1. s.expires[k] # None /\ s.expires[k] <= t2
      BY <1>1 DEF IsExpired, Store, Deadline
    <2>2. EvictIfExpired(s, k, t1) = Drop(s, k)
      BY <1>1 DEF EvictIfExpired
    <2> QED BY <2>1, <2>2 DEF OnlyDueTaken, Drop, Store
  <1>2. CASE ~IsExpired(s, k, t1)
    BY <1>2 DEF OnlyDueTaken, EvictIfExpired
  <1> QED BY <1>1, <1>2

LEMMA TakenTwice ==
  ASSUME NEW s \in Store, NEW q \in Store, NEW r \in Store,
         NEW t1 \in Nat, NEW t2 \in Nat, t1 <= t2,
         OnlyDueTaken(s, q, t1), OnlyDueTaken(q, r, t2)
  PROVE  OnlyDueTaken(s, r, t2)
  <1> SUFFICES ASSUME NEW k \in Keys
               PROVE  /\ r.data[k] \in {s.data[k], None}
                      /\ r.data[k] # s.data[k] \/ r.expires[k] # s.expires[k]
                             => s.expires[k] # None /\ s.expires[k] <= t2
    BY DEF OnlyDueTaken
  <1>1. s.expires[k] # None => s.expires[k] \in Nat
    BY DEF Store, Deadline
  <1>2. CASE q.data[k] = s.data[k] /\ q.expires[k] = s.expires[k]
    BY <1>2 DEF OnlyDueTaken
  <1>3. CASE ~(q.data[k] = s.data[k] /\ q.expires[k] = s.expires[k])
    <2>1. s.expires[k] # None /\ s.expires[k] <= t1
      BY <1>3 DEF OnlyDueTaken
    <2>2. s.expires[k] <= t2
      BY <1>1, <2>1
    <2> QED BY <2>1, <2>2 DEF OnlyDueTaken
  <1> QED BY <1>2, <1>3

LEMMA EvictStore ==
  ASSUME NEW s \in Store, NEW k \in Keys, NEW t
  PROVE  EvictIfExpired(s, k, t) \in Store
  BY DEF EvictIfExpired, Drop, Store, Deadline

LEMMA ForgetTakesDue ==
  ASSUME NEW s \in Store, NEW k \in Keys, NEW t, s.expires[k] # None, s.expires[k] <= t
  PROVE  OnlyDueTaken(s, Forget(s, k), t) /\ Forget(s, k) \in Store
  BY DEF OnlyDueTaken, Forget, Store, Deadline

LEMMA NothingTaken ==
  ASSUME NEW s \in Store, NEW t
  PROVE  OnlyDueTaken(s, s, t)
  BY DEF OnlyDueTaken

\* ttl gives a deadline up a second or more after it has come.
LEMMA GoneIsDue ==
  ASSUME NEW s \in Store, NEW k \in Keys, NEW t \in Nat, TtlFindsItGone(s, k, t)
  PROVE  s.expires[k] # None /\ s.expires[k] <= t
  <1>1. s.expires[k] \in Nat
    BY DEF TtlFindsItGone, Store, Deadline
  <1>2. CASE s.expires[k] - t >= 0
    <2> DEFINE left == s.expires[k] - t
    <2>1. left \in Nat /\ TicksPerSecond \in Nat /\ TicksPerSecond > 0
      BY <1>1, <1>2, StorageAssumption
    <2>2. left \div TicksPerSecond \in Int /\ left \div TicksPerSecond >= 0
      <3> HIDE DEF left
      <3> QED BY <2>1
    <2>3. WholeSeconds(left) \in Int /\ WholeSeconds(left) >= 0
      <3> HIDE DEF left
      <3> QED BY <2>1, <2>2 DEF WholeSeconds
    <2> QED BY <2>3 DEF TtlFindsItGone
  <1>3. CASE ~(s.expires[k] - t >= 0)
    BY <1>1, <1>3 DEF TtlFindsItGone
  <1> QED BY <1>2, <1>3

LEMMA TtlTakesDue ==
  ASSUME NEW s \in Store, NEW k \in Keys, NEW t1 \in Nat, NEW t2 \in Nat, t1 <= t2
  PROVE  OnlyDueTaken(s, TtlKey(s, k, t1, t2), t2)
  <1> DEFINE e == EvictIfExpired(s, k, t1)
  <1>1. e \in Store /\ OnlyDueTaken(s, e, t1)
    BY EvictStore, EvictTakesDue
  <1>2. TtlKey(s, k, t1, t2) = IF TtlFindsItGone(e, k, t2) THEN Forget(e, k) ELSE e
    BY DEF TtlKey
  <1> HIDE DEF e
  <1>3. CASE TtlFindsItGone(e, k, t2)
    BY <1>1, <1>2, <1>3, GoneIsDue, ForgetTakesDue, TakenTwice
  <1>4. CASE ~TtlFindsItGone(e, k, t2)
    BY <1>1, <1>2, <1>4, NothingTaken, TakenTwice
  <1> QED BY <1>3, <1>4

LEMMA GetExpireAtTakesDue ==
  ASSUME NEW s \in Store, NEW k \in Keys, NEW t1 \in Nat, NEW t2 \in Nat, t1 <= t2
  PROVE  OnlyDueTaken(s, GetExpireAt(s, k, t1, t2), t2)
  <1> DEFINE e == EvictIfExpired(s, k, t1)
  <1>1. e \in Store /\ OnlyDueTaken(s, e, t1)
    BY EvictStore, EvictTakesDue
  <1>2. GetExpireAt(s, k, t1, t2) = IF IsExpired(e, k, t2) THEN Forget(e, k) ELSE e
    BY DEF GetExpireAt
  <1> HIDE DEF e
  <1>3. CASE IsExpired(e, k, t2)
    <2>1. e.expires[k] # None /\ e.expires[k] <= t2
      BY <1>3 DEF IsExpired
    <2> QED BY <1>1, <1>2, <1>3, <2>1, ForgetTakesDue, TakenTwice
  <1>4. CASE ~IsExpired(e, k, t2)
    BY <1>1, <1>2, <1>4, NothingTaken, TakenTwice
  <1> QED BY <1>3, <1>4

LEMMA PassTakesDue ==
  ASSUME NEW s \in Store, NEW t0 \in Nat, NEW t1 \in Nat, NEW t2 \in Nat, t1 <= t2,
         NEW found \in PassFinds(s, t0, t1)
  PROVE  OnlyDueTaken(s, DropAll(s, found), t2)
  <1>1. \A k \in Keys : k \in found => s.expires[k] # None /\ s.expires[k] <= t2
    BY DEF PassFinds, IsExpired, Store, Deadline
  <1> QED BY <1>1 DEF OnlyDueTaken, DropAll, Store

=============================================================================
