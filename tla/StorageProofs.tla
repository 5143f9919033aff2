---------------------------- MODULE StorageProofs ----------------------------
(***************************************************************************)
(* Theorems about Storage, for every set of keys and values, every         *)
(* duration, and a clock that may move while a method runs.                *)
(***************************************************************************)
EXTENDS Storage, StorageLemmas

\* The instants of one method are natural numbers in order.
LEMMA FromNat ==
  ASSUME NEW t \in Nat, NEW u \in From(t)
  PROVE  u \in Nat /\ t <= u
  BY CallsAssumption DEF From

\* Every method maps sound tables to sound tables.
LEMMA NextSound ==
  ASSUME Sound(store), now \in Nat, [Next]_vars
  PROVE  Sound(store)' /\ (now \in Nat)'
  <1>1. CASE UNCHANGED vars
    BY <1>1 DEF vars, Sound
  <1>2. ASSUME NEW k \in Keys, Get(k) \/ Exists(k)
        PROVE  Sound(store)' /\ (now \in Nat)'
    BY <1>2, FromNat, EvictSound DEF Get, Exists, Sound
  <1>3. ASSUME NEW k \in Keys, Delete(k)
        PROVE  Sound(store)' /\ (now \in Nat)'
    BY <1>3, FromNat, DeleteSound DEF Delete, Sound
  <1>4. ASSUME NEW k \in Keys, Ttl(k)
        PROVE  Sound(store)' /\ (now \in Nat)'
    BY <1>4, FromNat, TtlSound DEF Ttl, Sound
  <1>5. ASSUME NEW k \in Keys, ExpireAt(k)
        PROVE  Sound(store)' /\ (now \in Nat)'
    BY <1>5, FromNat, GetExpireAtSound DEF ExpireAt, Sound
  <1>6. ASSUME NEW k \in Keys, NEW v \in Values, Set(k, v)
        PROVE  Sound(store)' /\ (now \in Nat)'
    BY <1>6, SetKeySound DEF Set, Sound
  <1>7. ASSUME NEW k \in Keys, NEW v \in Values, NEW s \in Seconds, SetEx(k, v, s)
        PROVE  Sound(store)' /\ (now \in Nat)'
    BY <1>7, FromNat, SetKeyForSound, CallsAssumption DEF SetEx, Sound
  <1>8. ASSUME NEW k \in Keys, NEW s \in Seconds, Expire(k, s)
        PROVE  Sound(store)' /\ (now \in Nat)'
    <2>1. PICK t1 \in From(now) :
             now' \in From(t1) /\ store' = ExpireKey(store, k, s, t1, now')
      BY <1>8 DEF Expire
    <2>2. t1 \in Nat /\ now' \in Nat /\ s \in Int
      BY <2>1, FromNat, CallsAssumption
    <2>3. Sound(ExpireKey(store, k, s, t1, now'))
      BY <2>2, ExpireSound
    <2> QED BY <2>1, <2>2, <2>3 DEF Sound
  <1>9. CASE Snapshot
    BY <1>9, FromNat, DropAllSound DEF Snapshot, Sound
  <1>10. CASE Tick
    BY <1>10 DEF Tick, Sound
  <1>11. CASE SetBack
    BY <1>11 DEF SetBack, Sound
  <1> QED BY <1>1, <1>2, <1>3, <1>4, <1>5, <1>6, <1>7, <1>8, <1>9, <1>10, <1>11 DEF Next

LEMMA AlwaysSound == Spec => [](Sound(store) /\ now \in Nat)
  <1>1. Init => Sound(store) /\ now \in Nat
    BY EmptyStoreSound DEF Init
  <1>2. (Sound(store) /\ now \in Nat) /\ [Next]_vars => (Sound(store) /\ now \in Nat)'
    BY NextSound
  <1> QED BY <1>1, <1>2, PTL DEF Spec

\* The tables have their type: values, and natural numbers as deadlines
\* (InMemoryStore, ExpirationManager).
THEOREM TypeCorrect == Spec => []TypeOK
  <1>1. Sound(store) /\ now \in Nat => TypeOK
    BY DEF Sound, TypeOK
  <1> QED BY AlwaysSound, <1>1, PTL

\* No deadline outlives its value, whichever methods are called
\* (InMemoryStore).
THEOREM SoundTables == Spec => []DeadlineHasData
  <1>1. Sound(store) /\ now \in Nat => DeadlineHasData
    BY DEF Sound, DeadlineHasData
  <1> QED BY AlwaysSound, <1>1, PTL

-----------------------------------------------------------------------------
(* No method takes a key or its deadline before the time *)

Excused(k) == reply'.op \in {"delete", "set"} /\ reply'.key = k

Due(k) == store.expires[k] # None /\ store.expires[k] <= now'

KeptUnlessDue ==
    \A k \in Keys :
        /\ store.data[k] # None /\ store'.data[k] = None => Excused(k) \/ Due(k)
        /\ store.expires[k] # None /\ store'.expires[k] = None => Excused(k) \/ Due(k)

LEMMA NextKeeps ==
  ASSUME TypeOK, [Next]_vars
  PROVE  KeptUnlessDue \/ UNCHANGED vars
  <1> SUFFICES ASSUME Next PROVE KeptUnlessDue
    OBVIOUS
  <1> USE DEF TypeOK
  <1>0. ASSUME OnlyDueTaken(store, store', now')
        PROVE  KeptUnlessDue
    BY <1>0 DEF OnlyDueTaken, KeptUnlessDue, Due
  <1>1. ASSUME NEW k \in Keys, Get(k) \/ Exists(k)
        PROVE  KeptUnlessDue
    BY <1>0, <1>1, FromNat, EvictTakesDue DEF Get, Exists
  <1>2. ASSUME NEW k \in Keys, Delete(k)
        PROVE  KeptUnlessDue
    <2>1. Excused(k) /\ now' \in Nat
      BY <1>2, FromNat DEF Delete, Returns, Excused
    <2>2. \A j \in Keys : j # k => /\ store'.data[j] = store.data[j]
                                   /\ store'.expires[j] = store.expires[j]
      BY <1>2 DEF Delete, DeleteKey, EvictIfExpired, Drop, Store
    <2> QED BY <2>1, <2>2 DEF KeptUnlessDue
  <1>3. ASSUME NEW k \in Keys, Ttl(k)
        PROVE  KeptUnlessDue
    BY <1>0, <1>3, FromNat, TtlTakesDue DEF Ttl
  <1>4. ASSUME NEW k \in Keys, ExpireAt(k)
        PROVE  KeptUnlessDue
    BY <1>0, <1>4, FromNat, GetExpireAtTakesDue DEF ExpireAt
  <1>5. ASSUME NEW k \in Keys, NEW v \in Values, Set(k, v)
        PROVE  KeptUnlessDue
    BY <1>5 DEF Set, SetKey, Returns, Store, KeptUnlessDue, Excused
  <1>6. ASSUME NEW k \in Keys, NEW v \in Values, NEW s \in Seconds, SetEx(k, v, s)
        PROVE  KeptUnlessDue
    <2>1. Excused(k)
      BY <1>6 DEF SetEx, Returns, Excused
    <2>2. \A j \in Keys : j # k => /\ store'.data[j] = store.data[j]
                                   /\ store'.expires[j] = store.expires[j]
      BY <1>6 DEF SetEx, SetKeyFor, SetKey, SetDeadline, Drop, Store
    <2> QED BY <2>1, <2>2 DEF KeptUnlessDue
  <1>7. ASSUME NEW k \in Keys, NEW s \in Seconds, Expire(k, s)
        PROVE  KeptUnlessDue
    <2>1. PICK t1 \in From(now) :
             now' \in From(t1) /\ store' = ExpireKey(store, k, s, t1, now')
      BY <1>7 DEF Expire
    <2>2. t1 \in Nat /\ now' \in Nat /\ t1 <= now' /\ s \in Int
      BY <2>1, FromNat, CallsAssumption
    <2>3. CASE Present(store, k, t1) /\ s > 0
      <3>1. now' + s * TicksPerSecond # None
        BY <2>2, <2>3, LaterIsNat, StorageAssumption
      <3>2. EvictIfExpired(store, k, t1) = store
        BY <2>3 DEF Present, EvictIfExpired, Drop, Store
      <3>3. store' = SetDeadline(store, k, now' + s * TicksPerSecond)
        BY <2>1, <2>3, <3>2 DEF ExpireKey
      <3> QED BY <3>1, <3>3 DEF SetDeadline, Store, KeptUnlessDue
    <2>4. CASE ~(Present(store, k, t1) /\ s > 0)
      BY <1>0, <2>1, <2>2, <2>4, EvictTakesDue DEF ExpireKey
    <2> QED BY <2>3, <2>4
  <1>8. CASE Snapshot
    BY <1>0, <1>8, FromNat, PassTakesDue DEF Snapshot
  <1>9. CASE Tick
    BY <1>9 DEF Tick, KeptUnlessDue
  <1>10. CASE SetBack
    BY <1>10 DEF SetBack, KeptUnlessDue
  <1> QED BY <1>1, <1>2, <1>3, <1>4, <1>5, <1>6, <1>7, <1>8, <1>9, <1>10 DEF Next

\* Values leave the table by delete, by a set of no duration, or at their
\* deadline (InMemoryStore, ExpirationManager).
THEOREM ValuesKept == Spec => NoEarlyLoss
  <1>1. TypeOK /\ [Next]_vars =>
          [\A k \in Keys :
              store.data[k] # None /\ store'.data[k] = None
                  => \/ reply'.op \in {"delete", "set"} /\ reply'.key = k
                     \/ store.expires[k] # None /\ store.expires[k] <= now']_vars
    BY NextKeeps DEF KeptUnlessDue, Excused, Due
  <1> QED BY <1>1, TypeCorrect, PTL DEF Spec, NoEarlyLoss

\* Deadlines are given up by delete and set, or once they have come
\* (ExpirationManager).
THEOREM DeadlinesKept == Spec => NoEarlyPersist
  <1>1. TypeOK /\ [Next]_vars =>
          [\A k \in Keys :
              store.expires[k] # None /\ store'.expires[k] = None
                  => \/ reply'.op \in {"delete", "set"} /\ reply'.key = k
                     \/ store.expires[k] <= now']_vars
    BY NextKeeps DEF KeptUnlessDue, Excused, Due
  <1> QED BY <1>1, TypeCorrect, PTL DEF Spec, NoEarlyPersist

-----------------------------------------------------------------------------
(* Lazy expiration implements eager expiration *)

\* A deadline set at t by a positive duration has not come at t.
LEMMA LaterIsLater ==
  ASSUME NEW t \in Nat, NEW seconds \in Int, seconds > 0
  PROVE  ~(t + seconds * TicksPerSecond <= t)
  <1>1. seconds \in Nat \ {0} /\ TicksPerSecond \in Nat \ {0}
    BY StorageAssumption
  <1>2. seconds * TicksPerSecond \in Nat \ {0}
    BY <1>1
  <1> QED BY <1>2

\* What is visible of a store, field by field.
LEMMA VisibleFields ==
  ASSUME NEW s, NEW t
  PROVE  /\ \A k \in Keys : IsExpired(s, k, t) =>
               Visible(s, t).data[k] = None /\ Visible(s, t).expires[k] = None
         /\ \A k \in Keys : ~IsExpired(s, k, t) =>
               /\ Visible(s, t).data[k] = s.data[k]
               /\ Visible(s, t).expires[k] = s.expires[k]
  BY DEF Visible, FutureDeadlines

\* Stores look alike when they agree on every key that is not due.
LEMMA SameView ==
  ASSUME NEW s, NEW r, NEW t,
         \A k \in Keys : \/ IsExpired(s, k, t) /\ IsExpired(r, k, t)
                         \/ IsExpired(s, k, t) /\ r.data[k] = None /\ r.expires[k] = None
                         \/ r.data[k] = s.data[k] /\ r.expires[k] = s.expires[k]
  PROVE  Visible(r, t) = Visible(s, t)
  <1>1. \A k \in Keys :
           /\ (IF IsExpired(r, k, t) THEN None ELSE r.data[k])
                = (IF IsExpired(s, k, t) THEN None ELSE s.data[k])
           /\ (IF IsExpired(r, k, t) THEN None ELSE r.expires[k])
                = (IF IsExpired(s, k, t) THEN None ELSE s.expires[k])
    BY DEF IsExpired
  <1> QED BY <1>1 DEF Visible, FutureDeadlines

\* An eviction check changes nothing that is visible, and leaves the entry of
\* its key as it is visible.
LEMMA EvictUnseen ==
  ASSUME NEW s \in Store, NEW k \in Keys, NEW t \in Nat
  PROVE  LET e == EvictIfExpired(s, k, t)
         IN  /\ Visible(e, t) = Visible(s, t)
             /\ ~IsExpired(e, k, t)
             /\ e.data[k] = Visible(s, t).data[k]
             /\ e.expires[k] = Visible(s, t).expires[k]
             /\ Present(s, k, t) <=> Visible(s, t).data[k] # None
  <1> DEFINE e == EvictIfExpired(s, k, t)
  <1>1. CASE IsExpired(s, k, t)
    <2>1. e = Drop(s, k)
      BY <1>1 DEF EvictIfExpired
    <2>2. e.data[k] = None /\ e.expires[k] = None
      BY <2>1 DEF Drop, Store
    <2>3. \A j \in Keys : j # k => e.data[j] = s.data[j] /\ e.expires[j] = s.expires[j]
      BY <2>1 DEF Drop, Store
    <2>4. ~IsExpired(e, k, t)
      BY <2>2 DEF IsExpired
    <2>5. Visible(e, t) = Visible(s, t)
      <3> HIDE DEF e
      <3>1. \A j \in Keys : \/ IsExpired(s, j, t) /\ IsExpired(e, j, t)
                            \/ IsExpired(s, j, t) /\ e.data[j] = None /\ e.expires[j] = None
                            \/ e.data[j] = s.data[j] /\ e.expires[j] = s.expires[j]
        <4> TAKE j \in Keys
        <4>1. CASE j = k
          BY <1>1, <2>2, <4>1 DEF IsExpired
        <4>2. CASE j # k
          BY <2>3, <4>2
        <4> QED BY <4>1, <4>2
      <3> QED BY <3>1, SameView
    <2> QED BY <1>1, <2>2, <2>4, <2>5, VisibleFields DEF Present
  <1>2. CASE ~IsExpired(s, k, t)
    BY <1>2, VisibleFields DEF EvictIfExpired, Present
  <1> QED BY <1>1, <1>2

\* A method that takes no time reads one instant.
LEMMA NoTimePasses ==
  ASSUME now \in Nat, now' = now, NEW t1 \in From(now), now' \in From(t1)
  PROVE  t1 = now
  <1>1. t1 \in Nat /\ now <= t1 /\ t1 <= now'
    BY FromNat
  <1> QED BY <1>1

\* A method that rewrites the entry of one key does so on the ideal map.
LEMMA WrittenView ==
  ASSUME NEW s \in Store, Visible(s, now) = Visible(store, now),
         store' \in Store, now' = now, NEW k \in Keys, NEW v, NEW at,
         at = None \/ ~(at <= now),
         store' = [data |-> [s.data EXCEPT ![k] = v], expires |-> [s.expires EXCEPT ![k] = at]]
  PROVE  Ideal!With(k, v, at)
  <1> DEFINE r == store'
  <1>1. r.data[k] = v /\ r.expires[k] = at /\ ~IsExpired(r, k, now)
    BY DEF IsExpired, Store
  <1>2. ASSUME NEW j \in Keys, j # k
        PROVE  /\ r.data[j] = s.data[j] /\ r.expires[j] = s.expires[j]
               /\ IsExpired(r, j, now) <=> IsExpired(s, j, now)
    BY <1>2 DEF IsExpired, Store
  <1> HIDE DEF r
  <1>3. Visible(r, now) = [data    |-> [Visible(s, now).data EXCEPT ![k] = v],
                           expires |-> [Visible(s, now).expires EXCEPT ![k] = at]]
    BY <1>1, <1>2 DEF Visible, FutureDeadlines
  <1> QED BY <1>3 DEF Ideal!With, r

LEMMA GetIsLookup ==
  ASSUME Sound(store), now \in Nat, now' = now, NEW k \in Keys, Get(k)
  PROVE  Ideal!Lookup(k)
  <1>1. /\ Visible(store', now') = Visible(store, now)
        /\ store'.data[k] = Visible(store, now).data[k]
    BY EvictUnseen DEF Get, Sound
  <1>2. reply' = [op |-> "get", key |-> k, ret |-> Visible(store, now).data[k]]
    BY <1>1 DEF Get, Returns
  <1> QED BY <1>1, <1>2 DEF Ideal!Lookup, Ideal!Answer

LEMMA ExistsIsContains ==
  ASSUME Sound(store), now \in Nat, now' = now, NEW k \in Keys, Exists(k)
  PROVE  Ideal!Contains(k)
  <1>1. /\ Visible(store', now') = Visible(store, now)
        /\ Present(store, k, now') <=> Visible(store, now).data[k] # None
    BY EvictUnseen DEF Exists, Sound
  <1> QED BY <1>1 DEF Exists, Returns, Ideal!Contains, Ideal!Answer, Ideal!Has

LEMMA DeleteIsRemove ==
  ASSUME Sound(store), now \in Nat, now' = now, NEW k \in Keys, Delete(k)
  PROVE  Ideal!Remove(k)
  <1> DEFINE e == EvictIfExpired(store, k, now)
  <1>1. /\ Visible(e, now) = Visible(store, now)
        /\ Present(store, k, now) <=> Visible(store, now).data[k] # None
    BY EvictUnseen DEF Sound
  <1>2. e \in Store
    BY EvictStore DEF Sound
  <1>3. store' = Drop(e, k)
    BY DEF Delete, DeleteKey
  <1>4. store' \in Store
    BY DeleteSound DEF Delete, Sound
  <1>5. Ideal!With(k, None, None)
    <2> HIDE DEF e
    <2> QED BY <1>1, <1>2, <1>3, <1>4, WrittenView DEF Drop
  <1>6. Ideal!Answer("delete", k, IF Ideal!Has(k) THEN 1 ELSE 0)
    BY <1>1 DEF Delete, Returns, Ideal!Answer, Ideal!Has
  <1> QED BY <1>5, <1>6 DEF Ideal!Remove

LEMMA SetIsPut ==
  ASSUME Sound(store), NEW k \in Keys, NEW v \in Values, Set(k, v)
  PROVE  Ideal!Put(k, v)
  <1>1. store \in Store /\ store' \in Store /\ now' = now
    BY SetKeySound DEF Set, Sound
  <1>2. store' = [data |-> [store.data EXCEPT ![k] = v],
                  expires |-> [store.expires EXCEPT ![k] = None]]
    BY DEF Set, SetKey
  <1>3. Ideal!With(k, v, None)
    BY <1>1, <1>2, WrittenView
  <1> QED BY <1>1, <1>3 DEF Set, Returns, Ideal!Put, Ideal!Answer

LEMMA SetExIsPutFor ==
  ASSUME Sound(store), now \in Nat, now' = now,
         NEW k \in Keys, NEW v \in Values, NEW s \in Seconds, SetEx(k, v, s)
  PROVE  Ideal!PutFor(k, v, s)
  <1>1. s \in Int
    BY CallsAssumption
  <1>2. store \in Store /\ store' \in Store /\ store' = SetKeyFor(store, k, v, s, now)
    BY <1>1, SetKeyForSound DEF SetEx, Sound
  <1>3. CASE s > 0
    <2>1. store' = [data    |-> [store.data EXCEPT ![k] = v],
                    expires |-> [store.expires EXCEPT ![k] = now + s * TicksPerSecond]]
      BY <1>1, <1>2, <1>3 DEF SetKeyFor, SetKey, SetDeadline, Store
    <2>2. ~(now + s * TicksPerSecond <= now)
      BY <1>1, <1>3, LaterIsLater
    <2>3. Ideal!With(k, v, now + s * TicksPerSecond)
      BY <1>2, <2>1, <2>2, WrittenView
    <2> QED BY <1>3, <2>3 DEF SetEx, Returns, Ideal!PutFor, Ideal!Answer, Ideal!After
  <1>4. CASE ~(s > 0)
    <2>1. store' = [data    |-> [store.data EXCEPT ![k] = None],
                    expires |-> [store.expires EXCEPT ![k] = None]]
      BY <1>1, <1>2, <1>4 DEF SetKeyFor, SetKey, Drop, Store
    <2>2. Ideal!With(k, None, None)
      BY <1>2, <2>1, WrittenView
    <2> QED BY <1>4, <2>2 DEF SetEx, Returns, Ideal!PutFor, Ideal!Answer
  <1> QED BY <1>3, <1>4

LEMMA ExpireIsLimit ==
  ASSUME Sound(store), now \in Nat, now' = now,
         NEW k \in Keys, NEW s \in Seconds, Expire(k, s)
  PROVE  Ideal!Limit(k, s)
  <1> DEFINE e == EvictIfExpired(store, k, now)
  <1>0. s \in Int
    BY CallsAssumption
  <1>1. /\ store' = ExpireKey(store, k, s, now, now)
        /\ Returns("expire", k, IF Present(store, k, now) /\ s > 0 THEN 1 ELSE 0)
    BY NoTimePasses DEF Expire
  <1>2. /\ Visible(e, now) = Visible(store, now)
        /\ Present(store, k, now) <=> Visible(store, now).data[k] # None
        /\ e.data[k] = Visible(store, now).data[k]
    BY EvictUnseen DEF Sound
  <1>3. e \in Store
    BY EvictStore DEF Sound
  <1>4. store' \in Store
    BY <1>0, <1>1, ExpireSound DEF Sound
  <1>5. CASE Present(store, k, now) /\ s > 0
    <2>1. store' = SetDeadline(e, k, now + s * TicksPerSecond)
      BY <1>1, <1>5 DEF ExpireKey
    <2> HIDE DEF e
    <2>2. store' = [data    |-> [e.data EXCEPT ![k] = Visible(store, now).data[k]],
                    expires |-> [e.expires EXCEPT ![k] = now + s * TicksPerSecond]]
      BY <1>2, <1>3, <2>1 DEF SetDeadline, Store
    <2>3. ~(now + s * TicksPerSecond <= now)
      BY <1>0, <1>5, LaterIsLater
    <2>4. Ideal!With(k, Visible(store, now).data[k], now + s * TicksPerSecond)
      BY <1>2, <1>3, <1>4, <2>2, <2>3, WrittenView
    <2> QED BY <1>1, <1>2, <1>5, <2>4
            DEF Returns, Ideal!Limit, Ideal!Answer, Ideal!After, Ideal!Has
  <1>6. CASE ~(Present(store, k, now) /\ s > 0)
    <2>1. store' = e
      BY <1>1, <1>6 DEF ExpireKey
    <2> HIDE DEF e
    <2> QED BY <1>1, <1>2, <1>6, <2>1 DEF Returns, Ideal!Limit, Ideal!Answer, Ideal!Has
  <1> QED BY <1>5, <1>6

LEMMA TtlIsRemaining ==
  ASSUME Sound(store), now \in Nat, now' = now, NEW k \in Keys, Ttl(k)
  PROVE  Ideal!Remaining(k)
  <1> DEFINE e == EvictIfExpired(store, k, now)
  <1>1. /\ store' = TtlKey(store, k, now, now)
        /\ Returns("ttl", k, TtlReply(store, k, now, now))
    BY NoTimePasses DEF Ttl
  <1>2. /\ Visible(e, now) = Visible(store, now)
        /\ ~IsExpired(e, k, now)
        /\ e.data[k] = Visible(store, now).data[k]
        /\ e.expires[k] = Visible(store, now).expires[k]
    BY EvictUnseen DEF Sound
  <1>3. e \in Store
    BY EvictStore DEF Sound
  <1>4. ~TtlFindsItGone(e, k, now)
    <2> HIDE DEF e
    <2> QED BY <1>2, <1>3, GoneIsDue DEF IsExpired
  <1>5. store' = e
    BY <1>1, <1>4 DEF TtlKey
  <1>6. TtlReply(store, k, now, now)
          = IF e.data[k] = None THEN -2
            ELSE IF e.expires[k] = None THEN -1
            ELSE WholeSeconds(e.expires[k] - now)
    BY <1>4 DEF TtlReply
  <1> HIDE DEF e
  <1>7. e.expires[k] # None => WholeSeconds(e.expires[k] - now)
                                 = (e.expires[k] - now) \div TicksPerSecond
    <2> SUFFICES ASSUME e.expires[k] # None
                 PROVE  e.expires[k] - now >= 0
      BY DEF WholeSeconds
    <2> QED BY <1>2, <1>3 DEF IsExpired, Store, Deadline
  <1> QED BY <1>1, <1>2, <1>5, <1>6, <1>7
          DEF Returns, Ideal!Remaining, Ideal!Answer, Ideal!Has

LEMMA ExpireAtIsDeadlineOf ==
  ASSUME Sound(store), now \in Nat, now' = now, NEW k \in Keys, ExpireAt(k)
  PROVE  Ideal!DeadlineOf(k)
  <1> DEFINE e == EvictIfExpired(store, k, now)
  <1>1. /\ store' = GetExpireAt(store, k, now, now)
        /\ Returns("deadline", k, store'.expires[k])
    BY NoTimePasses DEF ExpireAt
  <1>2. /\ Visible(e, now) = Visible(store, now)
        /\ ~IsExpired(e, k, now)
        /\ e.expires[k] = Visible(store, now).expires[k]
    BY EvictUnseen DEF Sound
  <1>3. store' = e
    BY <1>1, <1>2 DEF GetExpireAt
  <1> HIDE DEF e
  <1> QED BY <1>1, <1>2, <1>3 DEF Returns, Ideal!DeadlineOf, Ideal!Answer

LEMMA SnapshotIsCopyOut ==
  ASSUME Sound(store), now \in Nat, now' = now, Snapshot
  PROVE  Ideal!CopyOut
  <1>1. PICK found \in PassFinds(store, now, now) :
           /\ store' = DropAll(store, found)
           /\ reply' = [op |-> "snapshot", image |-> Dump(store', now)]
    BY NoTimePasses DEF Snapshot
  <1>2. \A k \in Keys : k \in found <=> store.data[k] # None /\ IsExpired(store, k, now)
    BY DEF PassFinds
  <1>3. \A k \in Keys : k \in found <=> IsExpired(store, k, now)
    BY <1>2 DEF Sound, NoOrphanDeadline, IsExpired
  <1>4. \A k \in Keys : /\ store'.data[k] = IF k \in found THEN None ELSE store.data[k]
                        /\ store'.expires[k] = IF k \in found THEN None ELSE store.expires[k]
    BY <1>1 DEF DropAll
  <1>5. Visible(store', now) = Visible(store, now)
    <2>1. \A k \in Keys : \/ IsExpired(store, k, now) /\ store'.data[k] = None /\ store'.expires[k] = None
                          \/ store'.data[k] = store.data[k] /\ store'.expires[k] = store.expires[k]
      <3> TAKE k \in Keys
      <3>1. CASE k \in found
        BY <1>3, <1>4, <3>1 DEF IsExpired
      <3>2. CASE k \notin found
        BY <1>4, <3>2
      <3> QED BY <3>1, <3>2
    <2> QED BY <2>1, SameView
  <1>6. Dump(store', now) = Visible(store', now)
    <2>1. \A k \in Keys : ~IsExpired(store', k, now)
      BY <1>3, <1>4 DEF IsExpired
    <2>2. store'.data = [k \in Keys |-> store'.data[k]]
      BY <1>1 DEF DropAll
    <2> QED BY <2>1, <2>2 DEF Dump, Visible
  <1> QED BY <1>1, <1>5, <1>6 DEF Ideal!CopyOut

LEMMA TickIsElapse ==
  ASSUME Sound(store), now \in Nat, Tick
  PROVE  Ideal!Elapse
  <1>1. now < MaxTime /\ now' = now + 1 /\ store' = store /\ reply' = reply
    BY DEF Tick
  <1>2. \A k \in Keys : IsExpired(store, k, now + 1)
           <=> IsExpired(store, k, now) \/ Visible(store, now).expires[k] = now + 1
    BY StorageAssumption DEF Sound, Store, Deadline, IsExpired, Visible, FutureDeadlines
  <1>3. Visible(store, now + 1) =
          [data    |-> [k \in Keys |-> IF Visible(store, now).expires[k] = now + 1
                                      THEN None ELSE Visible(store, now).data[k]],
           expires |-> [k \in Keys |-> IF Visible(store, now).expires[k] = now + 1
                                      THEN None ELSE Visible(store, now).expires[k]]]
    <2>1. \A k \in Keys :
             /\ (IF IsExpired(store, k, now + 1) THEN None ELSE store.data[k])
                  = (IF Visible(store, now).expires[k] = now + 1
                     THEN None ELSE Visible(store, now).data[k])
             /\ (IF IsExpired(store, k, now + 1) THEN None ELSE store.expires[k])
                  = (IF Visible(store, now).expires[k] = now + 1
                     THEN None ELSE Visible(store, now).expires[k])
      <3> TAKE k \in Keys
      <3>1. CASE IsExpired(store, k, now)
        BY <1>2, <3>1, VisibleFields
      <3>2. CASE ~IsExpired(store, k, now)
        BY <1>2, <3>2, VisibleFields
      <3> QED BY <3>1, <3>2
    <2> QED BY <2>1 DEF Visible, FutureDeadlines
  <1> QED BY <1>1, <1>3 DEF Ideal!Elapse

LEMMA InitIsIdeal == Init => Ideal!Init
  <1> SUFFICES ASSUME Init PROVE Ideal!Init
    OBVIOUS
  <1>1. \A k \in Keys : store.data[k] = None /\ store.expires[k] = None
    BY DEF Init, EmptyStore
  <1>2. Visible(store, now) =
          [data |-> [k \in Keys |-> None], expires |-> [k \in Keys |-> None]]
    BY <1>1 DEF Visible, FutureDeadlines
  <1> QED BY <1>2 DEF Init, Ideal!Init

\* Every step of the engine that takes no time, and every tick, is a step of the
\* ideal map or changes nothing there.
LEMMA NextIsIdeal ==
  ASSUME Sound(store), now \in Nat, [Next]_vars, now' = now \/ Tick
  PROVE  [Ideal!Next]_(Ideal!vars)
  <1>1. CASE UNCHANGED vars
    BY <1>1 DEF vars, Ideal!vars
  <1>2. CASE Tick
    BY <1>2, TickIsElapse DEF Ideal!Next
  <1>3. CASE now' = now /\ \E k \in Keys : Get(k) \/ Delete(k) \/ Exists(k) \/ Ttl(k) \/ ExpireAt(k)
    BY <1>3, GetIsLookup, DeleteIsRemove, ExistsIsContains, TtlIsRemaining,
       ExpireAtIsDeadlineOf DEF Ideal!Next
  <1>4. CASE now' = now /\ \E k \in Keys, v \in Values : Set(k, v)
    BY <1>4, SetIsPut DEF Ideal!Next
  <1>5. CASE now' = now /\ \E k \in Keys, v \in Values, s \in Seconds : SetEx(k, v, s)
    BY <1>5, SetExIsPutFor DEF Ideal!Next
  <1>6. CASE now' = now /\ \E k \in Keys, s \in Seconds : Expire(k, s)
    BY <1>6, ExpireIsLimit DEF Ideal!Next
  <1>7. CASE now' = now /\ Snapshot
    BY <1>7, SnapshotIsCopyOut DEF Ideal!Next
  <1>8. CASE now' = now /\ SetBack
    BY <1>8 DEF SetBack
  <1> QED BY <1>1, <1>2, <1>3, <1>4, <1>5, <1>6, <1>7, <1>8 DEF Next

\* Lazy expiration is indistinguishable from entries that vanish at their
\* deadline, for calls that take no time (StorageEngine, InMemoryStore).
THEOREM LazyIsEager == Spec => RefinesIdeal
  <1>1. Spec => [](Sound(store) /\ now \in Nat)
    BY AlwaysSound
  <1>2. Sound(store) /\ now \in Nat /\ [Next]_vars
          => [now' = now \/ Tick => [Ideal!Next]_(Ideal!vars)]_vars
    BY NextIsIdeal
  <1> QED BY <1>1, <1>2, InitIsIdeal, PTL DEF Spec, RefinesIdeal

=============================================================================
