--------------------------- MODULE HashTableProofs ---------------------------
(***************************************************************************)
(* Proofs about HashTable: for any keys, hash function and least capacity  *)
(* the table is well formed also in the middle of a resize, and it         *)
(* implements Dict.                                                        *)
(*                                                                         *)
(* A first part is about lists of buckets in general, a second about the   *)
(* invariant, a third about the map that buckets and pending pairs stand   *)
(* for.                                                                    *)
(***************************************************************************)
EXTENDS HashTable, SequenceTheorems, FiniteSetTheorems, TLAPS

-----------------------------------------------------------------------------
(* Lists of buckets *)

Lists == Seq(Seq(Pair))

\* The pairs in bs.
PairsOf(bs) == UNION {{bs[i][j] : j \in DOMAIN bs[i]} : i \in DOMAIN bs}

LEMMA ListTypes ==
  ASSUME NEW bs \in Lists
  PROVE  /\ Len(bs) \in Nat /\ DOMAIN bs = 1 .. Len(bs)
         /\ \A i \in DOMAIN bs :
               /\ bs[i] \in Seq(Pair)
               /\ Len(bs[i]) \in Nat /\ DOMAIN bs[i] = 1 .. Len(bs[i])
               /\ \A j \in DOMAIN bs[i] : bs[i][j] \in Pair
  <1>1. Len(bs) \in Nat /\ DOMAIN bs = 1 .. Len(bs)
    BY LenProperties DEF Lists
  <1>2. ASSUME NEW i \in DOMAIN bs
        PROVE  /\ bs[i] \in Seq(Pair)
               /\ Len(bs[i]) \in Nat /\ DOMAIN bs[i] = 1 .. Len(bs[i])
               /\ \A j \in DOMAIN bs[i] : bs[i][j] \in Pair
    <2>1. bs[i] \in Seq(Pair)
      BY <1>1, <1>2, ElementOfSeq DEF Lists
    <2> QED BY <2>1, LenProperties, ElementOfSeq
  <1> QED BY <1>1, <1>2

LEMMA InPairs ==
  ASSUME NEW bs, NEW p
  PROVE  p \in PairsOf(bs) <=> \E i \in DOMAIN bs : \E j \in DOMAIN bs[i] : bs[i][j] = p
  BY DEF PairsOf

LEMMA InKeys ==
  ASSUME NEW bs, NEW k
  PROVE  k \in KeysOf(bs) <=> \E i \in DOMAIN bs : \E j \in DOMAIN bs[i] : bs[i][j].key = k
  BY DEF KeysOf

LEMMA KeysArePairs ==
  ASSUME NEW bs, NEW k
  PROVE  k \in KeysOf(bs) <=> \E p \in PairsOf(bs) : p.key = k
  BY InKeys, InPairs

\* In a list that has each key once, a key has one pair.
LEMMA OnePair ==
  ASSUME NEW bs, EachOnce(bs), NEW p \in PairsOf(bs), NEW q \in PairsOf(bs), p.key = q.key
  PROVE  p = q
  BY InPairs DEF EachOnce

LEMMA EmptyList ==
  ASSUME NEW n \in Nat
  PROVE  /\ Empty(n) \in Lists /\ Len(Empty(n)) = n
         /\ \A i \in DOMAIN Empty(n) : DOMAIN Empty(n)[i] = {}
         /\ KeysOf(Empty(n)) = {} /\ PairsOf(Empty(n)) = {} /\ EachOnce(Empty(n))
  <1>1. <<>> \in Seq(Pair) /\ DOMAIN <<>> = {}
    OBVIOUS
  <1>2. Empty(n) \in [1 .. n -> Seq(Pair)] /\ \A i \in 1 .. n : Empty(n)[i] = <<>>
    BY <1>1 DEF Empty
  <1>3. Empty(n) \in Lists /\ Len(Empty(n)) = n
    BY <1>2 DEF Lists
  <1>4. \A i \in DOMAIN Empty(n) : DOMAIN Empty(n)[i] = {}
    BY <1>1, <1>2
  <1> QED BY <1>3, <1>4, InKeys, InPairs DEF EachOnce

LEMMA NoList ==
  /\ <<>> \in Lists /\ Len(<<>>) = 0
  /\ KeysOf(<<>>) = {} /\ PairsOf(<<>>) = {} /\ EachOnce(<<>>)
  <1>1. <<>> \in Lists /\ Len(<<>>) = 0 /\ DOMAIN <<>> = {}
    BY EmptySeq DEF Lists
  <1> QED BY <1>1, InKeys, InPairs DEF EachOnce

\* A pair with a new key at the end of a bucket.
Appended(bs, h, p) == [bs EXCEPT ![h] = Append(@, p)]

LEMMA PairAppended ==
  ASSUME NEW bs \in Lists, EachOnce(bs), NEW h \in DOMAIN bs,
         NEW p \in Pair, p.key \notin KeysOf(bs), NEW r, r = Appended(bs, h, p)
  PROVE  /\ r \in Lists /\ Len(r) = Len(bs)
         /\ KeysOf(r) = KeysOf(bs) \cup {p.key} /\ PairsOf(r) = PairsOf(bs) \cup {p}
         /\ EachOnce(r)
         /\ \A i \in DOMAIN r : \A j \in DOMAIN r[i] :
               (i = h /\ r[i][j] = p) \/ \E m \in DOMAIN bs[i] : r[i][j] = bs[i][m]
  <1> DEFINE c == Append(bs[h], p)
  <1>0. r = [bs EXCEPT ![h] = c]
    BY DEF Appended
  <1>1. /\ c \in Seq(Pair) /\ Len(c) = Len(bs[h]) + 1
        /\ \A j \in 1 .. Len(bs[h]) : c[j] = bs[h][j]
        /\ c[Len(bs[h]) + 1] = p
    BY ListTypes, AppendProperties
  <1> HIDE DEF c
  <1>2. r \in Lists /\ Len(r) = Len(bs) /\ DOMAIN r = DOMAIN bs
    BY <1>0, <1>1, ListTypes, ExceptSeq, LenProperties DEF Lists
  <1>3. r[h] = c /\ \A i \in DOMAIN bs : i # h => r[i] = bs[i]
    BY <1>0, ListTypes
  <1>4. DOMAIN c = 1 .. Len(bs[h]) + 1 /\ DOMAIN bs[h] = 1 .. Len(bs[h]) /\ Len(bs[h]) \in Nat
    BY <1>1, ListTypes, LenProperties
  <1>5. \A i \in DOMAIN r : \A j \in DOMAIN r[i] :
           \/ i = h /\ j = Len(bs[h]) + 1 /\ r[i][j] = p
           \/ j \in DOMAIN bs[i] /\ r[i][j] = bs[i][j]
    BY <1>1, <1>2, <1>3, <1>4
  <1>6. \A i \in DOMAIN bs : \A j \in DOMAIN bs[i] :
           j \in DOMAIN r[i] /\ r[i][j] = bs[i][j]
    BY <1>1, <1>2, <1>3, <1>4
  <1>7. h \in DOMAIN r /\ Len(bs[h]) + 1 \in DOMAIN r[h] /\ r[h][Len(bs[h]) + 1] = p
    BY <1>1, <1>2, <1>3, <1>4
  <1>8. PairsOf(r) = PairsOf(bs) \cup {p}
    BY <1>2, <1>5, <1>6, <1>7, InPairs
  <1>9. KeysOf(r) = KeysOf(bs) \cup {p.key}
    BY <1>8, KeysArePairs
  <1>10. EachOnce(r)
    <2> SUFFICES ASSUME NEW i \in DOMAIN r, NEW m \in DOMAIN r,
                        NEW j \in DOMAIN r[i], NEW n \in DOMAIN r[m],
                        r[i][j].key = r[m][n].key
                 PROVE  i = m /\ j = n
      BY DEF EachOnce
    <2>1. i \in DOMAIN bs /\ m \in DOMAIN bs
      BY <1>2
    <2>2. CASE j \in DOMAIN bs[i] /\ r[i][j] = bs[i][j] /\ n \in DOMAIN bs[m] /\ r[m][n] = bs[m][n]
      BY <2>1, <2>2 DEF EachOnce
    <2>3. CASE j \in DOMAIN bs[i] /\ r[i][j] = bs[i][j] /\ r[m][n] = p
      BY <2>1, <2>3, InKeys
    <2>4. CASE r[i][j] = p /\ n \in DOMAIN bs[m] /\ r[m][n] = bs[m][n]
      BY <2>1, <2>4, InKeys
    <2>5. CASE i = h /\ j = Len(bs[h]) + 1 /\ m = h /\ n = Len(bs[h]) + 1
      BY <2>5
    <2> QED BY <1>5, <2>2, <2>3, <2>4, <2>5
  <1>11. \A i \in DOMAIN r : \A j \in DOMAIN r[i] :
            (i = h /\ r[i][j] = p) \/ \E m \in DOMAIN bs[i] : r[i][j] = bs[i][m]
    BY <1>5
  <1> QED BY <1>2, <1>8, <1>9, <1>10, <1>11

\* A bucket without one of its pairs.
Replaced(bs, h, c) == [bs EXCEPT ![h] = c]

Cut(s, n, c) ==
  /\ c \in Seq(Pair) /\ Len(c) = Len(s) - 1
  /\ \A j \in 1 .. Len(c) : c[j] = IF j < n THEN s[j] ELSE s[j + 1]

LEMMA PairCut ==
  ASSUME NEW bs \in Lists, EachOnce(bs), NEW h \in DOMAIN bs, NEW n \in DOMAIN bs[h],
         NEW c, Cut(bs[h], n, c), NEW r, r = Replaced(bs, h, c)
  PROVE  /\ r \in Lists /\ Len(r) = Len(bs)
         /\ KeysOf(r) = KeysOf(bs) \ {bs[h][n].key} /\ PairsOf(r) = PairsOf(bs) \ {bs[h][n]}
         /\ EachOnce(r)
         /\ \A i \in DOMAIN r : \A j \in DOMAIN r[i] :
               \E m \in DOMAIN bs[i] : r[i][j] = bs[i][m]
  <1>1. /\ c \in Seq(Pair) /\ Len(c) = Len(bs[h]) - 1
        /\ \A j \in 1 .. Len(c) : c[j] = IF j < n THEN bs[h][j] ELSE bs[h][j + 1]
    BY DEF Cut
  <1>2. r \in Lists /\ Len(r) = Len(bs) /\ DOMAIN r = DOMAIN bs
    BY <1>1, ListTypes, ExceptSeq, LenProperties DEF Lists, Replaced
  <1>3. r[h] = c /\ \A i \in DOMAIN bs : i # h => r[i] = bs[i]
    BY ListTypes DEF Replaced
  <1>4. DOMAIN c = 1 .. Len(bs[h]) - 1 /\ DOMAIN bs[h] = 1 .. Len(bs[h]) /\ Len(bs[h]) \in Nat
        /\ n \in 1 .. Len(bs[h])
    BY <1>1, ListTypes, LenProperties
  <1> DEFINE from(i, j) == IF i # h \/ j < n THEN j ELSE j + 1
  <1>5. \A i \in DOMAIN r : \A j \in DOMAIN r[i] :
           /\ from(i, j) \in DOMAIN bs[i] /\ r[i][j] = bs[i][from(i, j)]
           /\ i = h => from(i, j) # n
    <2> SUFFICES ASSUME NEW i \in DOMAIN r, NEW j \in DOMAIN r[i]
                 PROVE  /\ from(i, j) \in DOMAIN bs[i] /\ r[i][j] = bs[i][from(i, j)]
                        /\ i = h => from(i, j) # n
      OBVIOUS
    <2>1. CASE i # h
      BY <2>1, <1>2, <1>3
    <2>2. CASE i = h
      <3>1. j \in 1 .. Len(c)
        BY <2>2, <1>1, <1>3, <1>4
      <3> QED BY <2>2, <3>1, <1>1, <1>3, <1>4
    <2> QED BY <2>1, <2>2
  <1>6. \A i \in DOMAIN r : \A j, l \in DOMAIN r[i] : from(i, j) = from(i, l) => j = l
    <2> SUFFICES ASSUME NEW i \in DOMAIN r, NEW j \in DOMAIN r[i], NEW l \in DOMAIN r[i],
                        from(i, j) = from(i, l)
                 PROVE  j = l
      OBVIOUS
    <2>1. CASE i # h
      BY <2>1
    <2>2. CASE i = h
      <3>1. j \in Int /\ l \in Int /\ n \in Int
        BY <2>2, <1>1, <1>3, <1>4
      <3> QED BY <2>2, <3>1
    <2> QED BY <2>1, <2>2
  <1>7. \A i \in DOMAIN bs : \A m \in DOMAIN bs[i] :
           (i = h /\ m = n) \/ \E j \in DOMAIN r[i] : r[i][j] = bs[i][m]
    <2> SUFFICES ASSUME NEW i \in DOMAIN bs, NEW m \in DOMAIN bs[i], ~(i = h /\ m = n)
                 PROVE  \E j \in DOMAIN r[i] : r[i][j] = bs[i][m]
      OBVIOUS
    <2>1. CASE i # h
      BY <2>1, <1>2, <1>3
    <2>2. CASE i = h
      <3>1. m \in 1 .. Len(bs[h]) /\ m # n
        BY <2>2, <1>4
      <3>2. CASE m < n
        <4>1. m \in 1 .. Len(c) /\ c[m] = bs[h][m]
          BY <3>1, <3>2, <1>1, <1>4
        <4> QED BY <4>1, <2>2, <1>1, <1>3, <1>4
      <3>3. CASE m > n
        <4>1. m - 1 \in 1 .. Len(c) /\ ~(m - 1 < n) /\ (m - 1) + 1 = m
          BY <3>1, <3>3, <1>1, <1>4
        <4>2. c[m - 1] = bs[h][m]
          BY <4>1, <1>1
        <4> QED BY <4>1, <4>2, <2>2, <1>1, <1>3, <1>4
      <3> QED BY <3>1, <3>2, <3>3, <1>4
    <2> QED BY <2>1, <2>2
  <1> HIDE DEF from
  <1>8. \A i \in DOMAIN r : \A j \in DOMAIN r[i] : r[i][j].key # bs[h][n].key
    BY <1>2, <1>5 DEF EachOnce
  <1>9. PairsOf(r) = PairsOf(bs) \ {bs[h][n]}
    <2>1. \A p : p \in PairsOf(r) => p \in PairsOf(bs) /\ p # bs[h][n]
      BY <1>2, <1>5, <1>8, InPairs
    <2>2. \A p : p \in PairsOf(bs) /\ p # bs[h][n] => p \in PairsOf(r)
      BY <1>2, <1>7, InPairs
    <2> QED BY <2>1, <2>2
  <1>10. KeysOf(r) = KeysOf(bs) \ {bs[h][n].key}
    <2>1. \A k : k \in KeysOf(r) => k \in KeysOf(bs) /\ k # bs[h][n].key
      BY <1>2, <1>5, <1>8, InKeys
    <2>2. \A k : k \in KeysOf(bs) /\ k # bs[h][n].key => k \in KeysOf(r)
      BY <1>2, <1>7, InKeys
    <2> QED BY <2>1, <2>2
  <1>11. EachOnce(r)
    <2> SUFFICES ASSUME NEW i \in DOMAIN r, NEW m \in DOMAIN r,
                        NEW j \in DOMAIN r[i], NEW l \in DOMAIN r[m],
                        r[i][j].key = r[m][l].key
                 PROVE  i = m /\ j = l
      BY DEF EachOnce
    <2>1. i = m /\ from(i, j) = from(m, l)
      BY <1>2, <1>5 DEF EachOnce
    <2> QED BY <2>1, <1>6
  <1>12. \A i \in DOMAIN r : \A j \in DOMAIN r[i] : \E m \in DOMAIN bs[i] : r[i][j] = bs[i][m]
    BY <1>5
  <1> QED BY <1>2, <1>9, <1>10, <1>11, <1>12

\* A pair with another value.
Changed(bs, h, n, v) == [bs EXCEPT ![h] = [@ EXCEPT ![n].value = v]]

LEMMA PairChanged ==
  ASSUME NEW bs \in Lists, EachOnce(bs), NEW h \in DOMAIN bs, NEW n \in DOMAIN bs[h],
         NEW v \in Values, NEW r, r = Changed(bs, h, n, v)
  PROVE  /\ r \in Lists /\ Len(r) = Len(bs)
         /\ KeysOf(r) = KeysOf(bs)
         /\ PairsOf(r) = (PairsOf(bs) \ {bs[h][n]}) \cup {[key |-> bs[h][n].key, value |-> v]}
         /\ EachOnce(r)
         /\ \A i \in DOMAIN r : DOMAIN r[i] = DOMAIN bs[i]
         /\ \A i \in DOMAIN r : \A j \in DOMAIN r[i] : r[i][j].key = bs[i][j].key
  <1> DEFINE p == [key |-> bs[h][n].key, value |-> v]
             c == [bs[h] EXCEPT ![n] = p]
  <1>1. bs[h][n] \in Pair /\ p \in Pair /\ [bs[h][n] EXCEPT !.value = v] = p
    BY ListTypes DEF Pair
  <1>2. r = [bs EXCEPT ![h] = c]
    BY <1>1 DEF Changed
  <1>3. c \in Seq(Pair) /\ DOMAIN c = DOMAIN bs[h]
        /\ c[n] = p /\ \A j \in DOMAIN c : j # n => c[j] = bs[h][j]
    <2> HIDE DEF p
    <2> QED BY <1>1, ListTypes, ExceptSeq, LenProperties
  <1>4. p.key = bs[h][n].key
    OBVIOUS
  <1> HIDE DEF c, p
  <1>5. r \in Lists /\ Len(r) = Len(bs) /\ DOMAIN r = DOMAIN bs
    BY <1>2, <1>3, ListTypes, ExceptSeq, LenProperties DEF Lists
  <1>6. r[h] = c /\ \A i \in DOMAIN bs : i # h => r[i] = bs[i]
    BY <1>2, ListTypes
  <1>7. /\ \A i \in DOMAIN r : DOMAIN r[i] = DOMAIN bs[i]
        /\ \A i \in DOMAIN r : \A j \in DOMAIN r[i] : r[i][j].key = bs[i][j].key
        /\ \A i \in DOMAIN r : \A j \in DOMAIN r[i] : (i = h /\ j = n) \/ r[i][j] = bs[i][j]
        /\ r[h][n] = p
    BY <1>3, <1>4, <1>5, <1>6
  <1>8. KeysOf(r) = KeysOf(bs)
    <2>1. \A k : k \in KeysOf(r) => k \in KeysOf(bs)
      BY <1>5, <1>7, InKeys
    <2>2. \A k : k \in KeysOf(bs) => k \in KeysOf(r)
      <3> SUFFICES ASSUME NEW i \in DOMAIN bs, NEW j \in DOMAIN bs[i]
                   PROVE  bs[i][j].key \in KeysOf(r)
        BY InKeys
      <3>1. i \in DOMAIN r /\ j \in DOMAIN r[i] /\ r[i][j].key = bs[i][j].key
        BY <1>5, <1>7
      <3> QED BY <3>1, InKeys
    <2> QED BY <2>1, <2>2
  <1>9. EachOnce(r)
    BY <1>5, <1>7 DEF EachOnce
  <1>10. PairsOf(r) = (PairsOf(bs) \ {bs[h][n]}) \cup {p}
    <2>1. \A q : q \in PairsOf(r) => q = p \/ (q \in PairsOf(bs) /\ q # bs[h][n])
      <3> SUFFICES ASSUME NEW i \in DOMAIN r, NEW j \in DOMAIN r[i], ~(i = h /\ j = n)
                   PROVE  r[i][j] \in PairsOf(bs) /\ r[i][j] # bs[h][n]
        BY <1>7, InPairs
      <3>1. i \in DOMAIN bs /\ j \in DOMAIN bs[i] /\ r[i][j] = bs[i][j]
        BY <1>5, <1>7
      <3> QED BY <3>1, InPairs DEF EachOnce
    <2>2. \A q : q \in PairsOf(bs) /\ q # bs[h][n] => q \in PairsOf(r)
      BY <1>5, <1>7, InPairs
    <2>3. p \in PairsOf(r)
      BY <1>5, <1>7, InPairs
    <2> QED BY <2>1, <2>2, <2>3
  <1> QED BY <1>5, <1>7, <1>8, <1>9, <1>10 DEF p

-----------------------------------------------------------------------------
(* The invariant *)

\* _find_bucket with n buckets.
HomeAmong(n, k) == (Hash[k] % n) + 1

\* A table of n pairs, in buckets bs, with pend still to insert.
WellFormed(bs, n, pend) ==
  /\ bs \in Lists /\ Len(bs) >= MinCapacity /\ EachOnce(bs)
  /\ \A i \in DOMAIN bs : \A j \in DOMAIN bs[i] : HomeAmong(Len(bs), bs[i][j].key) = i
  /\ pend \in Lists /\ EachOnce(pend)
  /\ KeysOf(bs) \cap KeysOf(pend) = {}
  /\ IsFiniteSet(KeysOf(bs)) /\ IsFiniteSet(KeysOf(pend))
  /\ n = Cardinality(KeysOf(bs))
  /\ 4 * (n + Cardinality(KeysOf(pend))) <= 3 * Len(bs)
  /\ pend # <<>> => KeysOf(pend) # {}

IInv == WellFormed(buckets, size, pending)

LEMMA InitIInv == Init => IInv
  <1> SUFFICES ASSUME Init PROVE IInv
    OBVIOUS
  <1>1. MinCapacity \in Nat /\ MinCapacity >= 1
    BY TableAssumption
  <1>2. buckets \in Lists /\ Len(buckets) = MinCapacity /\ EachOnce(buckets)
        /\ KeysOf(buckets) = {} /\ \A i \in DOMAIN buckets : DOMAIN buckets[i] = {}
    BY <1>1, EmptyList DEF Init
  <1>3. pending \in Lists /\ EachOnce(pending) /\ KeysOf(pending) = {} /\ pending = <<>>
    BY NoList DEF Init
  <1>4. IsFiniteSet({}) /\ Cardinality({}) = 0 /\ size = 0
    BY FS_EmptySet DEF Init
  <1> QED BY <1>1, <1>2, <1>3, <1>4 DEF IInv, WellFormed

LEMMA NumbersOfIInv ==
  ASSUME IInv
  PROVE  /\ Len(buckets) \in Nat /\ Len(buckets) >= 1 /\ size \in Nat
         /\ Cardinality(KeysOf(pending)) \in Nat
  BY TableAssumption, ListTypes, FS_CardinalityType DEF IInv, WellFormed

LEMMA KeysTyped ==
  ASSUME NEW bs \in Lists
  PROVE  KeysOf(bs) \subseteq Keys /\ PairsOf(bs) \subseteq Pair
  <1>1. PairsOf(bs) \subseteq Pair
    BY ListTypes, InPairs
  <1> QED BY <1>1, KeysArePairs DEF Pair

\* A scan of the bucket that its hash names finds a key if it is in the table, in
\* one place only.
LEMMA ScanFinds ==
  ASSUME IInv, NEW k \in Keys
  PROVE  /\ Home(k) \in DOMAIN buckets /\ Home(k) = HomeAmong(Len(buckets), k)
         /\ Has(k) <=> k \in KeysOf(buckets)
         /\ Has(k) => /\ FirstHit(k) \in DOMAIN Bucket(k)
                      /\ Bucket(k)[FirstHit(k)] = [key |-> k, value |-> Stored(k)]
                      /\ Stored(k) \in Values
                      /\ [key |-> k, value |-> Stored(k)] \in PairsOf(buckets)
  <1>1. buckets \in Lists /\ EachOnce(buckets)
        /\ \A i \in DOMAIN buckets : \A j \in DOMAIN buckets[i] :
              HomeAmong(Len(buckets), buckets[i][j].key) = i
    BY DEF IInv, WellFormed
  <1>2. Hash[k] \in Int /\ Len(buckets) \in Nat /\ Len(buckets) >= 1
    BY TableAssumption, NumbersOfIInv
  <1>3. Hash[k] % Len(buckets) \in 0 .. Len(buckets) - 1
    BY <1>2
  <1>4. Home(k) \in DOMAIN buckets /\ Home(k) = HomeAmong(Len(buckets), k)
    BY <1>1, <1>2, <1>3, ListTypes DEF Home, HomeAmong
  <1>5. Has(k) <=> k \in KeysOf(buckets)
    <2>1. ASSUME Has(k) PROVE k \in KeysOf(buckets)
      BY <1>4, <2>1, InKeys DEF Has, Hits, Bucket
    <2>2. ASSUME k \in KeysOf(buckets) PROVE Has(k)
      <3>1. PICK i \in DOMAIN buckets : \E j \in DOMAIN buckets[i] : buckets[i][j].key = k
        BY <2>2, InKeys
      <3>2. i = Home(k)
        BY <3>1, <1>1, <1>4
      <3> QED BY <3>1, <3>2 DEF Has, Hits, Bucket
    <2> QED BY <2>1, <2>2
  <1>6. ASSUME Has(k)
        PROVE  /\ FirstHit(k) \in DOMAIN Bucket(k)
               /\ Bucket(k)[FirstHit(k)] = [key |-> k, value |-> Stored(k)]
               /\ Stored(k) \in Values
               /\ [key |-> k, value |-> Stored(k)] \in PairsOf(buckets)
    <2>1. PICK i \in Hits(k) : TRUE
      BY <1>6 DEF Has
    <2>2. \A j \in Hits(k) : j = i
      BY <1>1, <1>4 DEF Hits, Bucket, EachOnce
    <2>3. i \in Nat
      BY <1>1, <1>4, ListTypes DEF Hits, Bucket
    <2>4. FirstHit(k) = i
      <3>1. \A j \in Hits(k) : i <= j
        BY <2>2, <2>3
      <3>2. FirstHit(k) \in Hits(k)
        BY <2>1, <3>1 DEF FirstHit
      <3> QED BY <2>2, <3>2
    <2>5. i \in DOMAIN Bucket(k) /\ Bucket(k)[i].key = k /\ Bucket(k)[i] \in Pair
      BY <1>1, <1>4, ListTypes DEF Hits, Bucket
    <2>6. Bucket(k)[i] = [key |-> k, value |-> Stored(k)] /\ Stored(k) \in Values
      BY <2>4, <2>5 DEF Stored, Pair
    <2> QED BY <1>4, <2>4, <2>5, <2>6, InPairs DEF Bucket
  <1> QED BY <1>4, <1>5, <1>6

\* __setitem__ of a key that is there.
LEMMA OverwriteKeeps ==
  ASSUME IInv, pending = <<>>, NEW k \in Keys, NEW v \in Values,
         Overwrite(k, v), pending' = <<>>
  PROVE  /\ IInv'
         /\ PairsOf(buckets') = (PairsOf(buckets) \ {[key |-> k, value |-> Stored(k)]})
                                   \cup {[key |-> k, value |-> v]}
  <1> DEFINE h == Home(k)
             n == FirstHit(k)
  <1>1. h \in DOMAIN buckets /\ n \in DOMAIN buckets[h]
        /\ buckets[h][n] = [key |-> k, value |-> Stored(k)]
    BY ScanFinds DEF Overwrite, Bucket
  <1>2. buckets' = Changed(buckets, h, n, v) /\ size' = size
    BY DEF Overwrite, Changed
  <1>3. buckets \in Lists /\ EachOnce(buckets)
    BY DEF IInv, WellFormed
  <1> HIDE DEF h, n
  <1>4. /\ buckets' \in Lists /\ Len(buckets') = Len(buckets)
        /\ KeysOf(buckets') = KeysOf(buckets)
        /\ PairsOf(buckets') = (PairsOf(buckets) \ {buckets[h][n]})
                                  \cup {[key |-> buckets[h][n].key, value |-> v]}
        /\ EachOnce(buckets')
        /\ \A i \in DOMAIN buckets' : DOMAIN buckets'[i] = DOMAIN buckets[i]
        /\ \A i \in DOMAIN buckets' : \A j \in DOMAIN buckets'[i] :
              buckets'[i][j].key = buckets[i][j].key
    BY <1>1, <1>2, <1>3, PairChanged
  <1>5. DOMAIN buckets' = DOMAIN buckets
    BY <1>3, <1>4, ListTypes
  <1>6. \A i \in DOMAIN buckets' : \A j \in DOMAIN buckets'[i] :
           HomeAmong(Len(buckets'), buckets'[i][j].key) = i
    BY <1>4, <1>5 DEF IInv, WellFormed
  <1>7. IInv'
    BY <1>2, <1>4, <1>6 DEF IInv, WellFormed
  <1> QED BY <1>1, <1>4, <1>7

\* __setitem__ of a new key that leaves room enough, with rest to insert after it.
LEMMA AddKeeps ==
  ASSUME IInv, NEW k \in Keys, NEW v \in Values, Add(k, v),
         NEW rest \in Lists, EachOnce(rest), IsFiniteSet(KeysOf(rest)),
         KeysOf(buckets) \cap KeysOf(rest) = {}, k \notin KeysOf(rest),
         rest # <<>> => KeysOf(rest) # {},
         4 * (size + 1 + Cardinality(KeysOf(rest))) <= 3 * Len(buckets),
         pending' = rest
  PROVE  /\ IInv'
         /\ PairsOf(buckets') = PairsOf(buckets) \cup {[key |-> k, value |-> v]}
  <1> DEFINE h == Home(k)
             p == [key |-> k, value |-> v]
  <1>1. h \in DOMAIN buckets /\ h = HomeAmong(Len(buckets), k) /\ k \notin KeysOf(buckets)
    BY ScanFinds DEF Add
  <1>2. buckets' = Appended(buckets, h, p) /\ size' = size + 1
    BY DEF Add, With, Appended
  <1>3. buckets \in Lists /\ EachOnce(buckets) /\ p \in Pair /\ p.key = k
    BY DEF IInv, WellFormed, Pair
  <1> HIDE DEF h, p
  <1>4. /\ buckets' \in Lists /\ Len(buckets') = Len(buckets)
        /\ KeysOf(buckets') = KeysOf(buckets) \cup {k}
        /\ PairsOf(buckets') = PairsOf(buckets) \cup {p}
        /\ EachOnce(buckets')
        /\ \A i \in DOMAIN buckets' : \A j \in DOMAIN buckets'[i] :
              (i = h /\ buckets'[i][j] = p) \/ \E m \in DOMAIN buckets[i] : buckets'[i][j] = buckets[i][m]
    BY <1>1, <1>2, <1>3, PairAppended
  <1>5. DOMAIN buckets' = DOMAIN buckets
    BY <1>3, <1>4, ListTypes
  <1>6. \A i \in DOMAIN buckets' : \A j \in DOMAIN buckets'[i] :
           HomeAmong(Len(buckets'), buckets'[i][j].key) = i
    BY <1>1, <1>3, <1>4, <1>5 DEF IInv, WellFormed
  <1>7. IsFiniteSet(KeysOf(buckets')) /\ Cardinality(KeysOf(buckets')) = size + 1
    BY <1>1, <1>4, FS_AddElement DEF IInv, WellFormed
  <1>8. KeysOf(buckets') \cap KeysOf(rest) = {}
    BY <1>4
  <1>9. IInv'
    BY <1>2, <1>4, <1>6, <1>7, <1>8 DEF IInv, WellFormed
  <1> QED BY <1>4, <1>9 DEF p

\* __setitem__ of a new key for which there is no room: twice the buckets are
\* enough for all pairs.
LEMMA GrowKeeps ==
  ASSUME IInv, NEW k \in Keys, NEW v \in Values, Grow(k, v, <<>>)
  PROVE  /\ IInv'
         /\ PairsOf(buckets') = {}
         /\ PairsOf(pending') = PairsOf(buckets) \cup {[key |-> k, value |-> v]}
  <1> DEFINE h == Home(k)
             p == [key |-> k, value |-> v]
             r == Appended(buckets, h, p)
  <1>1. h \in DOMAIN buckets /\ k \notin KeysOf(buckets)
    BY ScanFinds DEF Grow
  <1>2. buckets' = Empty(2 * Len(buckets)) /\ size' = 0 /\ pending' = r \o <<>>
    BY DEF Grow, With, Anew, Appended
  <1>3. buckets \in Lists /\ EachOnce(buckets) /\ p \in Pair /\ p.key = k
        /\ IsFiniteSet(KeysOf(buckets)) /\ size = Cardinality(KeysOf(buckets))
    BY DEF IInv, WellFormed, Pair
  <1> HIDE DEF h, p
  <1>4. /\ r \in Lists
        /\ KeysOf(r) = KeysOf(buckets) \cup {k}
        /\ PairsOf(r) = PairsOf(buckets) \cup {p}
        /\ EachOnce(r)
    BY <1>1, <1>3, PairAppended
  <1> HIDE DEF r
  <1>5. pending' = r
    BY <1>2, <1>4, ConcatEmptySeq DEF Lists
  <1>6. IsFiniteSet(KeysOf(r)) /\ Cardinality(KeysOf(r)) = size + 1
    BY <1>1, <1>3, <1>4, FS_AddElement
  <1>7. Len(buckets) \in Nat /\ Len(buckets) >= 1 /\ size \in Nat /\ 4 * size <= 3 * Len(buckets)
        /\ Len(buckets) >= MinCapacity /\ MinCapacity \in Nat
    BY NumbersOfIInv, TableAssumption DEF IInv, WellFormed
  <1>8. /\ 2 * Len(buckets) \in Nat /\ 2 * Len(buckets) >= MinCapacity
        /\ 4 * (0 + (size + 1)) <= 3 * (2 * Len(buckets))
    BY <1>7
  <1>9. /\ buckets' \in Lists /\ Len(buckets') = 2 * Len(buckets)
        /\ \A i \in DOMAIN buckets' : DOMAIN buckets'[i] = {}
        /\ KeysOf(buckets') = {} /\ PairsOf(buckets') = {} /\ EachOnce(buckets')
    BY <1>2, <1>8, EmptyList
  <1>10. IsFiniteSet({}) /\ Cardinality({}) = 0
    BY FS_EmptySet
  <1>11. IInv'
    BY <1>2, <1>4, <1>5, <1>6, <1>8, <1>9, <1>10 DEF IInv, WellFormed
  <1> QED BY <1>4, <1>5, <1>9, <1>11 DEF p

\* Seqs!RemoveAt and Tail cut a bucket.
LEMMA RemoveAtCuts ==
  ASSUME NEW s \in Seq(Pair), NEW n \in DOMAIN s
  PROVE  Cut(s, n, Seqs!RemoveAt(s, n))
  <1> DEFINE a == SubSeq(s, 1, n - 1)
             b == SubSeq(s, n + 1, Len(s))
  <1>1. Len(s) \in Nat /\ n \in 1 .. Len(s) /\ \A i \in 1 .. Len(s) : s[i] \in Pair
    BY LenProperties, ElementOfSeq
  <1>2. /\ a \in Seq(Pair) /\ Len(a) = n - 1
        /\ \A i \in 1 .. n - 1 : a[i] = s[i]
    BY <1>1, SubSeqProperties
  <1>3. /\ b \in Seq(Pair) /\ Len(b) = Len(s) - n
        /\ \A i \in 1 .. Len(s) - n : b[i] = s[n + i]
    BY <1>1, SubSeqProperties
  <1> HIDE DEF a, b
  <1>4. /\ a \o b \in Seq(Pair) /\ Len(a \o b) = Len(s) - 1
        /\ \A i \in 1 .. Len(s) - 1 : (a \o b)[i] = IF i < n THEN a[i] ELSE b[i - (n - 1)]
    <2>1. /\ a \o b \in Seq(Pair) /\ Len(a \o b) = Len(a) + Len(b)
          /\ \A i \in 1 .. Len(a) + Len(b) :
                (a \o b)[i] = IF i <= Len(a) THEN a[i] ELSE b[i - Len(a)]
      BY <1>2, <1>3, ConcatProperties, Zenon
    <2>2. Len(a) + Len(b) = Len(s) - 1 /\ Len(a) = n - 1
          /\ \A i \in 1 .. Len(s) - 1 : i <= n - 1 <=> i < n
      BY <1>1, <1>2, <1>3, SMTT(30)
    <2> QED BY <2>1, <2>2
  <1>5. ASSUME NEW i \in 1 .. Len(s) - 1
        PROVE  (a \o b)[i] = IF i < n THEN s[i] ELSE s[i + 1]
    <2>1. CASE i < n
      BY <1>1, <1>2, <1>4, <1>5, <2>1
    <2>2. CASE ~(i < n)
      <3>1. i - (n - 1) \in 1 .. Len(s) - n /\ n + (i - (n - 1)) = i + 1
        BY <1>1, <1>5, <2>2
      <3> QED BY <1>3, <1>4, <1>5, <2>2, <3>1
    <2> QED BY <2>1, <2>2
  <1> QED BY <1>4, <1>5 DEF Cut, Seqs!RemoveAt, a, b

LEMMA TailCuts ==
  ASSUME NEW s \in Seq(Pair), s # <<>>
  PROVE  /\ Cut(s, 1, Tail(s)) /\ 1 \in DOMAIN s
         /\ Head(s) = s[1]
  <1>1. Len(s) \in Nat /\ Len(s) >= 1 /\ DOMAIN s = 1 .. Len(s)
    BY EmptySeq, LenProperties
  <1>2. Tail(s) \in Seq(Pair) /\ Len(Tail(s)) = Len(s) - 1
        /\ \A i \in 1 .. Len(Tail(s)) : Tail(s)[i] = s[i + 1]
    BY HeadTailProperties
  <1>3. \A i \in 1 .. Len(Tail(s)) : ~(i < 1)
    BY <1>1, <1>2
  <1> QED BY <1>1, <1>2, <1>3 DEF Cut

\* __delitem__ and pop of a key that is there.
LEMMA TakeKeeps ==
  ASSUME IInv, NEW k \in Keys, Take(k)
  PROVE  /\ IInv'
         /\ PairsOf(buckets') = PairsOf(buckets) \ {[key |-> k, value |-> Stored(k)]}
  <1> DEFINE h == Home(k)
             n == FirstHit(k)
  <1>1. h \in DOMAIN buckets /\ n \in DOMAIN buckets[h]
        /\ buckets[h][n] = [key |-> k, value |-> Stored(k)] /\ k \in KeysOf(buckets)
    BY ScanFinds DEF Take, Bucket
  <1>2. buckets' = Replaced(buckets, h, Without(k)) /\ size' = size - 1
        /\ pending = <<>> /\ pending' = <<>>
    BY DEF Take, Replaced
  <1>3. buckets \in Lists /\ EachOnce(buckets)
    BY DEF IInv, WellFormed
  <1>4. Cut(buckets[h], n, Without(k))
    BY <1>1, <1>3, ListTypes, RemoveAtCuts DEF Without, Bucket
  <1> HIDE DEF h, n
  <1>5. /\ buckets' \in Lists /\ Len(buckets') = Len(buckets)
        /\ KeysOf(buckets') = KeysOf(buckets) \ {k}
        /\ PairsOf(buckets') = PairsOf(buckets) \ {[key |-> k, value |-> Stored(k)]}
        /\ EachOnce(buckets')
        /\ \A i \in DOMAIN buckets' : \A j \in DOMAIN buckets'[i] :
              \E m \in DOMAIN buckets[i] : buckets'[i][j] = buckets[i][m]
    BY <1>1, <1>2, <1>3, <1>4, PairCut
  <1>6. DOMAIN buckets' = DOMAIN buckets
    BY <1>3, <1>5, ListTypes
  <1>7. \A i \in DOMAIN buckets' : \A j \in DOMAIN buckets'[i] :
           HomeAmong(Len(buckets'), buckets'[i][j].key) = i
    BY <1>5, <1>6 DEF IInv, WellFormed
  <1>8. IsFiniteSet(KeysOf(buckets')) /\ Cardinality(KeysOf(buckets')) = size - 1
    BY <1>1, <1>5, FS_RemoveElement DEF IInv, WellFormed
  <1>9. 4 * (size - 1 + Cardinality(KeysOf(pending))) <= 3 * Len(buckets)
    BY NumbersOfIInv DEF IInv, WellFormed
  <1>10. IInv'
    BY <1>2, <1>5, <1>7, <1>8, <1>9 DEF IInv, WellFormed
  <1> QED BY <1>5, <1>10

LEMMA ClearKeeps ==
  ASSUME IInv, Clear
  PROVE  IInv' /\ PairsOf(buckets') = {} /\ pending' = <<>>
  <1>1. MinCapacity \in Nat /\ MinCapacity >= 1
    BY TableAssumption
  <1>2. buckets' \in Lists /\ Len(buckets') = MinCapacity /\ EachOnce(buckets')
        /\ KeysOf(buckets') = {} /\ PairsOf(buckets') = {}
        /\ \A i \in DOMAIN buckets' : DOMAIN buckets'[i] = {}
    BY <1>1, EmptyList DEF Clear
  <1>3. pending' \in Lists /\ EachOnce(pending') /\ KeysOf(pending') = {} /\ pending' = <<>>
    BY NoList DEF Clear
  <1>4. IsFiniteSet({}) /\ Cardinality({}) = 0 /\ size' = 0
    BY FS_EmptySet DEF Clear
  <1> QED BY <1>1, <1>2, <1>3, <1>4 DEF IInv, WellFormed

LEMMA LeastNumber ==
  ASSUME NEW T \in SUBSET Nat, T # {}
  PROVE  \E n \in T : \A m \in T : n <= m
  <1>1. PICK n \in T : \A m \in T : <<m, n>> \notin OpToRel(<, Nat)
    BY NatLessThanWellFounded, WFMin
  <1>2. \A m \in T : ~(m < n)
    BY <1>1 DEF OpToRel
  <1> QED BY <1>2

\* While pairs are pending, there is a first bucket that has some.
LEMMA ForemostHasPairs ==
  ASSUME IInv, pending # <<>>
  PROVE  Foremost \in DOMAIN pending /\ pending[Foremost] # <<>>
  <1> DEFINE T == {i \in DOMAIN pending : pending[i] # <<>>}
  <1>1. pending \in Lists /\ KeysOf(pending) # {}
    BY DEF IInv, WellFormed
  <1>2. T \in SUBSET Nat /\ DOMAIN pending = 1 .. Len(pending) /\ Len(pending) \in Nat
    BY <1>1, ListTypes
  <1>3. T # {}
    <2>1. PICK k : k \in KeysOf(pending)
      BY <1>1
    <2>2. PICK i \in DOMAIN pending : \E j \in DOMAIN pending[i] : pending[i][j].key = k
      BY <2>1, InKeys
    <2>3. pending[i] # <<>>
      BY <2>2
    <2> QED BY <2>2, <2>3
  <1>4. PICK i \in T : \A m \in T : i <= m
    BY <1>2, <1>3, LeastNumber
  <1>5. \A j \in 1 .. i - 1 : pending[j] = <<>>
    BY <1>2, <1>4
  <1>6. \E f \in DOMAIN pending : pending[f] # <<>> /\ \A j \in 1 .. f - 1 : pending[j] = <<>>
    BY <1>4, <1>5
  <1> QED BY <1>6 DEF Foremost

\* What is left of old_items is what was pending without the pair that is next.
LEMMA LeftAfterForemost ==
  ASSUME IInv, pending # <<>>
  PROVE  LET p == Head(pending[Foremost])
         IN  /\ p \in PairsOf(pending) /\ p \in Pair
             /\ AfterForemost \in Lists /\ EachOnce(AfterForemost)
             /\ PairsOf(AfterForemost) = PairsOf(pending) \ {p}
             /\ KeysOf(AfterForemost) = KeysOf(pending) \ {p.key}
             /\ AfterForemost # <<>> => KeysOf(AfterForemost) # {}
  <1> DEFINE f == Foremost
             p == Head(pending[f])
             r == Replaced(pending, f, Tail(pending[f]))
  <1>1. f \in DOMAIN pending /\ pending[f] # <<>>
    BY ForemostHasPairs
  <1>2. pending \in Lists /\ EachOnce(pending)
    BY DEF IInv, WellFormed
  <1>3. pending[f] \in Seq(Pair)
    BY <1>1, <1>2, ListTypes
  <1>4. Cut(pending[f], 1, Tail(pending[f])) /\ 1 \in DOMAIN pending[f] /\ p = pending[f][1]
    BY <1>1, <1>3, TailCuts
  <1>5. AfterForemost = IF \A i \in DOMAIN r : r[i] = <<>> THEN <<>> ELSE r
    BY DEF AfterForemost, Replaced
  <1>6. p \in PairsOf(pending) /\ p \in Pair
    BY <1>1, <1>2, <1>4, InPairs, ListTypes
  <1> HIDE DEF f, p, r
  <1>7. /\ r \in Lists /\ EachOnce(r)
        /\ PairsOf(r) = PairsOf(pending) \ {p}
        /\ KeysOf(r) = KeysOf(pending) \ {p.key}
    BY <1>1, <1>2, <1>4, PairCut DEF r
  <1>8. CASE \A i \in DOMAIN r : r[i] = <<>>
    <2>1. \A i \in DOMAIN r : DOMAIN r[i] = {}
      BY <1>8
    <2>2. PairsOf(r) = {} /\ KeysOf(r) = {}
      BY <2>1, InPairs, InKeys
    <2>3. AfterForemost = <<>>
      BY <1>5, <1>8
    <2> QED BY <1>6, <1>7, <2>2, <2>3, NoList DEF f, p
  <1>9. CASE ~ \A i \in DOMAIN r : r[i] = <<>>
    <2>1. PICK i \in DOMAIN r : r[i] # <<>>
      BY <1>9
    <2>2. 1 \in DOMAIN r[i]
      BY <1>7, <2>1, ListTypes, TailCuts
    <2>3. KeysOf(r) # {}
      BY <2>2, InKeys
    <2>4. AfterForemost = r
      BY <1>5, <1>9
    <2> QED BY <1>6, <1>7, <2>3, <2>4 DEF f, p
  <1> QED BY <1>8, <1>9

\* A round of _resize finds its key nowhere and the room it needs: it adds the
\* pair, and neither overwrites one nor resizes again.
LEMMA ReinsertKeeps ==
  ASSUME IInv, Reinsert
  PROVE  /\ IInv'
         /\ PairsOf(buckets') \cup PairsOf(pending') = PairsOf(buckets) \cup PairsOf(pending)
  <1> DEFINE p == Head(pending[Foremost])
             rest == AfterForemost
  <1>1. pending # <<>> /\ Insert(p.key, p.value, rest)
    BY DEF Reinsert
  <1>2. /\ p \in PairsOf(pending) /\ p \in Pair
        /\ rest \in Lists /\ EachOnce(rest)
        /\ PairsOf(rest) = PairsOf(pending) \ {p}
        /\ KeysOf(rest) = KeysOf(pending) \ {p.key}
        /\ rest # <<>> => KeysOf(rest) # {}
    BY <1>1, LeftAfterForemost
  <1> HIDE DEF p, rest
  <1>3. p.key \in Keys /\ p.value \in Values /\ p = [key |-> p.key, value |-> p.value]
    BY <1>2 DEF Pair
  <1>4. p.key \in KeysOf(pending) /\ p.key \notin KeysOf(buckets)
    BY <1>2, KeysArePairs DEF IInv, WellFormed
  <1>5. ~Has(p.key)
    BY <1>3, <1>4, ScanFinds
  <1>6. IsFiniteSet(KeysOf(rest)) /\ Cardinality(KeysOf(rest)) = Cardinality(KeysOf(pending)) - 1
        /\ KeysOf(buckets) \cap KeysOf(rest) = {} /\ p.key \notin KeysOf(rest)
    BY <1>2, <1>4, FS_RemoveElement, ZenonT(30) DEF IInv, WellFormed
  <1>7. Cardinality(KeysOf(rest)) \in Nat
    BY <1>6, FS_CardinalityType
  <1>8. /\ 4 * (size + 1 + Cardinality(KeysOf(rest))) <= 3 * Len(buckets)
        /\ ~(4 * (size + 1) > 3 * Len(buckets))
    BY <1>6, <1>7, NumbersOfIInv DEF IInv, WellFormed
  <1>9. Add(p.key, p.value) /\ pending' = rest
    BY <1>1, <1>5, <1>8 DEF Insert, Overwrite, Grow, Overloaded
  <1>10. IInv' /\ PairsOf(buckets') = PairsOf(buckets) \cup {p}
    BY <1>2, <1>3, <1>6, <1>8, <1>9, AddKeeps
  <1> QED BY <1>2, <1>9, <1>10

\* What __setitem__ does to the pairs, whichever way it goes.
LEMMA InsertKeeps ==
  ASSUME IInv, pending = <<>>, NEW k \in Keys, NEW v \in Values, Insert(k, v, <<>>)
  PROVE  /\ IInv'
         /\ PairsOf(buckets') \cup PairsOf(pending')
               = {p \in PairsOf(buckets) : p.key # k} \cup {[key |-> k, value |-> v]}
  <1>1. EachOnce(buckets) /\ buckets \in Lists /\ size \in Nat
    BY NumbersOfIInv DEF IInv, WellFormed
  <1>2. CASE Overwrite(k, v) /\ pending' = <<>>
    <2>1. [key |-> k, value |-> Stored(k)] \in PairsOf(buckets)
      BY <1>2, ScanFinds DEF Overwrite
    <2>2. PairsOf(buckets) \ {[key |-> k, value |-> Stored(k)]} = {p \in PairsOf(buckets) : p.key # k}
      BY <1>1, <2>1, OnePair
    <2>3. IInv' /\ PairsOf(buckets') = (PairsOf(buckets) \ {[key |-> k, value |-> Stored(k)]})
                                          \cup {[key |-> k, value |-> v]}
      BY <1>2, OverwriteKeeps
    <2> QED BY <1>2, <2>2, <2>3, NoList
  <1>3. ASSUME ~Has(k)
        PROVE  PairsOf(buckets) = {p \in PairsOf(buckets) : p.key # k}
    BY <1>3, ScanFinds, KeysArePairs
  <1>4. CASE Add(k, v) /\ pending' = <<>>
    <2>1. ~Has(k) /\ 4 * (size + 1) <= 3 * Len(buckets)
      BY <1>4, NumbersOfIInv DEF Add, Overloaded
    <2>2. IsFiniteSet(KeysOf(<<>>)) /\ Cardinality(KeysOf(<<>>)) = 0
      BY NoList, FS_EmptySet
    <2>3. 4 * (size + 1 + Cardinality(KeysOf(<<>>))) <= 3 * Len(buckets)
      BY <1>1, <2>1, <2>2
    <2>4. IInv' /\ PairsOf(buckets') = PairsOf(buckets) \cup {[key |-> k, value |-> v]}
      BY <1>4, <2>2, <2>3, NoList, AddKeeps
    <2> QED BY <1>3, <1>4, <2>1, <2>4, NoList
  <1>5. CASE Grow(k, v, <<>>)
    BY <1>3, <1>5, GrowKeeps DEF Grow
  <1> QED BY <1>2, <1>4, <1>5 DEF Insert

LEMMA StepKeepsIInv == IInv /\ [Next]_vars => IInv'
  <1> SUFFICES ASSUME IInv, [Next]_vars
               PROVE  IInv'
    OBVIOUS
  <1>1. ASSUME UNCHANGED <<buckets, size, pending>> PROVE IInv'
    BY <1>1 DEF IInv
  <1>2. ASSUME NEW k \in Keys, NEW v \in Values, SetItem(k, v) PROVE IInv'
    BY <1>2, InsertKeeps DEF SetItem
  <1>3. ASSUME NEW k \in Keys, NEW v \in Values, SetDefault(k, v) PROVE IInv'
    BY <1>1, <1>3, InsertKeeps DEF SetDefault, Get, Reads
  <1>4. ASSUME NEW k \in Keys, DelItem(k) PROVE IInv'
    BY <1>1, <1>4, TakeKeeps DEF DelItem, Reads
  <1>5. ASSUME NEW k \in Keys, NEW d \in Values \cup {None}, Pop(k, d) PROVE IInv'
    BY <1>1, <1>5, TakeKeeps DEF Pop, Reads
  <1>6. ASSUME NEW k \in Keys, GetItem(k) \/ Contains(k) \/ \E d \in Values \cup {None} : Get(k, d)
        PROVE  IInv'
    BY <1>1, <1>6 DEF GetItem, Contains, Get, Reads
  <1>7. CASE Size \/ Items
    BY <1>1, <1>7 DEF Size, Items, Reads
  <1>8. CASE Clear
    BY <1>8, ClearKeeps
  <1>9. CASE Reinsert
    BY <1>9, ReinsertKeeps
  <1>10. CASE UNCHANGED vars
    BY <1>1, <1>10 DEF vars
  <1> QED BY <1>2, <1>3, <1>4, <1>5, <1>6, <1>7, <1>8, <1>9, <1>10 DEF Next

LEMMA AlwaysIInv == Spec => []IInv
  BY InitIInv, StepKeepsIInv, PTL DEF Spec

\* A key is in one place, and each place has one key.
LEMMA PlacesAreKeys ==
  ASSUME IInv
  PROVE  Cardinality(Places) = Cardinality(KeysOf(buckets))
  <1> DEFINE f == [p \in Places |-> buckets[p[1]][p[2]].key]
  <1>1. \A p : p \in Places <=> \E i \in DOMAIN buckets : \E j \in DOMAIN buckets[i] : p = <<i, j>>
    BY DEF Places
  <1>2. f \in [Places -> KeysOf(buckets)]
    BY <1>1, InKeys
  <1>3. \A p, q \in Places : f[p] = f[q] => p = q
    BY <1>1 DEF IInv, WellFormed, EachOnce
  <1>4. \A k \in KeysOf(buckets) : \E p \in Places : f[p] = k
    <2> SUFFICES ASSUME NEW i \in DOMAIN buckets, NEW j \in DOMAIN buckets[i]
                 PROVE  \E p \in Places : f[p] = buckets[i][j].key
      BY InKeys
    <2>1. <<i, j>> \in Places /\ f[<<i, j>>] = buckets[i][j].key
      BY <1>1
    <2> QED BY <2>1
  <1>5. f \in Surjection(Places, KeysOf(buckets)) /\ f \in Injection(Places, KeysOf(buckets))
    <2> HIDE DEF f
    <2> QED BY <1>2, <1>3, <1>4 DEF Surjection, Injection, IsInjective
  <1> HIDE DEF f
  <1> QED BY <1>5, FS_Injection DEF IInv, WellFormed

\* Buckets, size and pending pairs are well typed, whatever the hash function.
THEOREM TypeCorrect == Spec => []TypeOK
  <1>1. IInv => TypeOK
    BY NumbersOfIInv DEF IInv, WellFormed, TypeOK, Lists
  <1> QED BY AlwaysIInv, <1>1, PTL

\* A key is where its hash names and nowhere else, in every state of a resize.
THEOREM KeysAtHome == Spec => []EveryKeyAtHome
  <1>1. IInv => EveryKeyAtHome
    BY DEF IInv, WellFormed, EveryKeyAtHome, HomeAmong, Home
  <1> QED BY AlwaysIInv, <1>1, PTL

\* size counts the pairs, and the load stays at most three quarters, with what a
\* resize has still to insert.
THEOREM LoadBounded == Spec => []LoadIsBounded
  <1>1. IInv => LoadIsBounded
    BY PlacesAreKeys DEF IInv, WellFormed, LoadIsBounded
  <1> QED BY AlwaysIInv, <1>1, PTL

-----------------------------------------------------------------------------
(* The table implements Dict *)

\* The pairs of the table, inserted again or not yet.
AllPairs == PairsOf(buckets) \cup PairsOf(pending)

\* The map has the pairs of the table and nothing else.
ShowsPairs ==
  /\ Abstract \in [Keys -> Values \cup {None}]
  /\ \A p \in AllPairs : p.key \in Keys /\ p.value \in Values /\ Abstract[p.key] = p.value
  /\ \A k \in Keys : (\A p \in AllPairs : p.key # k) => Abstract[k] = None

LEMMA AbstractShows == IInv => ShowsPairs
  <1> SUFFICES ASSUME IInv PROVE ShowsPairs
    OBVIOUS
  <1>1. /\ buckets \in Lists /\ EachOnce(buckets) /\ pending \in Lists /\ EachOnce(pending)
        /\ KeysOf(buckets) \cap KeysOf(pending) = {}
    BY DEF IInv, WellFormed
  <1>2. \A k \in Keys : Waiting(k) = {p \in PairsOf(pending) : p.key = k}
    BY DEF Waiting, PairsOf, Seqs!ToSet
  <1>3. PairsOf(pending) \subseteq Pair /\ PairsOf(buckets) \subseteq Pair
    BY <1>1, KeysTyped
  <1>4. ASSUME NEW p \in PairsOf(pending)
        PROVE  p.key \in Keys /\ p.value \in Values /\ Abstract[p.key] = p.value
    <2>1. p.key \in Keys /\ p.value \in Values
      BY <1>3 DEF Pair
    <2>2. Waiting(p.key) = {p}
      BY <1>1, <1>2, <2>1, OnePair
    <2>3. (CHOOSE q \in {p} : TRUE) = p
      OBVIOUS
    <2> QED BY <2>1, <2>2, <2>3 DEF Abstract
  <1>5. ASSUME NEW p \in PairsOf(buckets)
        PROVE  p.key \in Keys /\ p.value \in Values /\ Abstract[p.key] = p.value
    <2>1. p.key \in Keys /\ p.value \in Values
      BY <1>3 DEF Pair
    <2>2. p.key \in KeysOf(buckets) /\ p.key \notin KeysOf(pending)
      BY <1>1, KeysArePairs
    <2>3. Waiting(p.key) = {}
      BY <1>2, <2>1, <2>2, KeysArePairs
    <2>4. Has(p.key) /\ [key |-> p.key, value |-> Stored(p.key)] \in PairsOf(buckets)
      BY <2>1, <2>2, ScanFinds
    <2>5. p = [key |-> p.key, value |-> Stored(p.key)]
      BY <1>1, <2>4, OnePair
    <2>6. Stored(p.key) = p.value
      BY <2>5, <1>3 DEF Pair
    <2> QED BY <2>1, <2>3, <2>4, <2>6 DEF Abstract
  <1>6. ASSUME NEW k \in Keys, \A p \in AllPairs : p.key # k
        PROVE  Abstract[k] = None
    <2>1. Waiting(k) = {} /\ k \notin KeysOf(buckets)
      BY <1>2, <1>6, KeysArePairs DEF AllPairs
    <2>2. ~Has(k)
      BY <2>1, ScanFinds
    <2> QED BY <2>1, <2>2 DEF Abstract
  <1>7. \A p \in AllPairs : p.key \in Keys /\ p.value \in Values /\ Abstract[p.key] = p.value
    BY <1>4, <1>5 DEF AllPairs
  <1>8. Abstract \in [Keys -> Values \cup {None}]
    <2> SUFFICES ASSUME NEW k \in Keys PROVE Abstract[k] \in Values \cup {None}
      BY DEF Abstract
    <2> QED BY <1>6, <1>7
  <1> QED BY <1>6, <1>7, <1>8 DEF ShowsPairs

LEMMA AbstractShowsThen == IInv' => ShowsPairs'
  BY AbstractShows, PTL

\* Maps that show the same pairs are the same.
LEMMA SamePairs ==
  ASSUME ShowsPairs, ShowsPairs', AllPairs' = AllPairs
  PROVE  Abstract' = Abstract
  <1>1. ASSUME NEW k \in Keys PROVE Abstract'[k] = Abstract[k]
    <2>1. CASE \E p \in AllPairs : p.key = k
      BY <2>1 DEF ShowsPairs
    <2>2. CASE \A p \in AllPairs : p.key # k
      BY <2>2 DEF ShowsPairs
    <2> QED BY <2>1, <2>2
  <1> QED BY <1>1 DEF ShowsPairs

LEMMA OnePairMore ==
  ASSUME ShowsPairs, ShowsPairs', NEW k \in Keys, NEW v \in Values,
         AllPairs' = {p \in AllPairs : p.key # k} \cup {[key |-> k, value |-> v]}
  PROVE  Abstract' = [Abstract EXCEPT ![k] = v]
  <1>1. ASSUME NEW j \in Keys PROVE Abstract'[j] = IF j = k THEN v ELSE Abstract[j]
    <2>1. CASE j = k
      BY <2>1 DEF ShowsPairs
    <2>2. CASE j # k /\ \E p \in AllPairs : p.key = j
      BY <2>2 DEF ShowsPairs
    <2>3. CASE j # k /\ \A p \in AllPairs : p.key # j
      BY <2>3 DEF ShowsPairs
    <2> QED BY <2>1, <2>2, <2>3
  <1> QED BY <1>1 DEF ShowsPairs

LEMMA OnePairLess ==
  ASSUME ShowsPairs, ShowsPairs', NEW k \in Keys,
         AllPairs' = {p \in AllPairs : p.key # k}
  PROVE  Abstract' = [Abstract EXCEPT ![k] = None]
  <1>1. ASSUME NEW j \in Keys PROVE Abstract'[j] = IF j = k THEN None ELSE Abstract[j]
    <2>1. CASE j = k
      BY <2>1 DEF ShowsPairs
    <2>2. CASE j # k /\ \E p \in AllPairs : p.key = j
      BY <2>2 DEF ShowsPairs
    <2>3. CASE j # k /\ \A p \in AllPairs : p.key # j
      BY <2>3 DEF ShowsPairs
    <2> QED BY <2>1, <2>2, <2>3
  <1> QED BY <1>1 DEF ShowsPairs

\* What a method looks up when it is called is what the map has.
LEMMA LookupIsMap ==
  ASSUME IInv, pending = <<>>
  PROVE  /\ AllPairs = PairsOf(buckets) /\ ShowsPairs
         /\ D!Known = KeysOf(buckets)
         /\ \A k \in Keys : /\ Has(k) <=> k \in D!Known
                            /\ Has(k) => Abstract[k] = Stored(k)
                            /\ \A o : Found(k, o) = D!Found(k, o)
  <1>1. ShowsPairs
    BY AbstractShows
  <1>2. AllPairs = PairsOf(buckets)
    BY NoList DEF AllPairs
  <1>3. KeysOf(buckets) \subseteq Keys
    BY KeysTyped DEF IInv, WellFormed
  <1>4. D!Known = KeysOf(buckets)
    <2>1. ASSUME NEW k \in Keys PROVE k \in D!Known <=> k \in KeysOf(buckets)
      <3>1. CASE k \in KeysOf(buckets)
        <4>1. PICK p \in PairsOf(buckets) : p.key = k
          BY <3>1, KeysArePairs
        <4>2. Abstract[k] # None
          BY <1>1, <1>2, <4>1, TableAssumption DEF ShowsPairs
        <4> QED BY <3>1, <4>2 DEF D!Known
      <3>2. CASE k \notin KeysOf(buckets)
        <4>1. Abstract[k] = None
          BY <1>1, <1>2, <3>2, KeysArePairs DEF ShowsPairs
        <4> QED BY <3>2, <4>1 DEF D!Known
      <3> QED BY <3>1, <3>2
    <2> QED BY <1>3, <2>1 DEF D!Known
  <1>5. ASSUME NEW k \in Keys
        PROVE  /\ Has(k) <=> k \in D!Known
               /\ Has(k) => Abstract[k] = Stored(k)
    <2>1. ASSUME Has(k) PROVE Abstract[k] = Stored(k)
      <3>1. [key |-> k, value |-> Stored(k)] \in AllPairs
        BY <1>2, <2>1, ScanFinds
      <3> QED BY <1>1, <3>1 DEF ShowsPairs
    <2> QED BY <1>4, <2>1, ScanFinds
  <1>6. \A k \in Keys : \A o : Found(k, o) = D!Found(k, o)
    BY <1>5 DEF Found, D!Found, Value, D!Value
  <1> QED BY <1>1, <1>2, <1>4, <1>5, <1>6

LEMMA InsertIsPut ==
  ASSUME IInv, pending = <<>>, NEW k \in Keys, NEW v \in Values, Insert(k, v, <<>>)
  PROVE  Abstract' = [Abstract EXCEPT ![k] = v]
  <1>1. IInv' /\ AllPairs' = {p \in PairsOf(buckets) : p.key # k} \cup {[key |-> k, value |-> v]}
    BY InsertKeeps DEF AllPairs
  <1>2. AllPairs = PairsOf(buckets) /\ ShowsPairs
    BY LookupIsMap
  <1> QED BY <1>1, <1>2, AbstractShowsThen, OnePairMore

LEMMA TakeIsRemove ==
  ASSUME IInv, NEW k \in Keys, Take(k)
  PROVE  Abstract' = [Abstract EXCEPT ![k] = None]
  <1>1. IInv' /\ PairsOf(buckets') = PairsOf(buckets) \ {[key |-> k, value |-> Stored(k)]}
        /\ pending = <<>> /\ pending' = <<>>
    BY TakeKeeps DEF Take
  <1>2. [key |-> k, value |-> Stored(k)] \in PairsOf(buckets) /\ EachOnce(buckets)
    BY ScanFinds DEF Take, IInv, WellFormed
  <1>3. PairsOf(buckets) \ {[key |-> k, value |-> Stored(k)]} = {p \in PairsOf(buckets) : p.key # k}
    BY <1>2, OnePair
  <1>4. AllPairs' = {p \in AllPairs : p.key # k}
    BY <1>1, <1>3, NoList DEF AllPairs
  <1> QED BY <1>1, <1>4, AbstractShows, AbstractShowsThen, OnePairLess

\* A method that only reads leaves the map as it is.
LEMMA ReadsSame ==
  ASSUME IInv, Reads
  PROVE  Abstract' = Abstract /\ pending = <<>>
  <1>1. IInv' /\ AllPairs' = AllPairs /\ pending = <<>>
    BY DEF Reads, IInv, AllPairs
  <1> QED BY <1>1, AbstractShows, AbstractShowsThen, SamePairs

LEMMA SameCardinality ==
  ASSUME NEW S
  PROVE  D!Cardinality(S) = Cardinality(S)
  BY DEF D!Cardinality, Cardinality

LEMMA ClearIsClear ==
  ASSUME IInv, Clear
  PROVE  D!Clear
  <1>1. IInv' /\ AllPairs' = {}
    BY ClearKeeps, NoList DEF AllPairs
  <1>2. ShowsPairs'
    BY <1>1, AbstractShowsThen
  <1>3. Abstract' = [k \in Keys |-> None]
    BY <1>1, <1>2 DEF ShowsPairs
  <1> QED BY <1>3 DEF Clear, D!Clear, Value, D!Value

\* An iteration yields each pair of the map once.
LEMMA ItemsIsItems ==
  ASSUME IInv, Items
  PROVE  D!Items
  <1> DEFINE mine == {<<buckets[p[1]][p[2]].key, buckets[p[1]][p[2]].value>> : p \in Places}
             its == {<<k, Abstract[k]>> : k \in D!Known}
  <1>1. Abstract' = Abstract /\ pending = <<>>
    BY ReadsSame DEF Items
  <1>2. /\ AllPairs = PairsOf(buckets) /\ ShowsPairs
        /\ D!Known = KeysOf(buckets)
    BY <1>1, LookupIsMap
  <1>3. \A p : p \in Places <=> \E i \in DOMAIN buckets : \E j \in DOMAIN buckets[i] : p = <<i, j>>
    BY DEF Places
  <1>4. \A x : x \in mine <=> \E q \in PairsOf(buckets) : x = <<q.key, q.value>>
    <2>1. ASSUME NEW x \in mine PROVE \E q \in PairsOf(buckets) : x = <<q.key, q.value>>
      <3>1. PICK p \in Places : x = <<buckets[p[1]][p[2]].key, buckets[p[1]][p[2]].value>>
        BY <2>1
      <3>2. p[1] \in DOMAIN buckets /\ p[2] \in DOMAIN buckets[p[1]]
        BY <1>3
      <3>3. buckets[p[1]][p[2]] \in PairsOf(buckets)
        BY <3>2, InPairs
      <3> QED BY <3>1, <3>3
    <2>2. ASSUME NEW q \in PairsOf(buckets) PROVE <<q.key, q.value>> \in mine
      <3>1. PICK i \in DOMAIN buckets : \E j \in DOMAIN buckets[i] : buckets[i][j] = q
        BY InPairs
      <3>2. PICK j \in DOMAIN buckets[i] : buckets[i][j] = q
        BY <3>1
      <3>3. <<i, j>> \in Places /\ <<i, j>>[1] = i /\ <<i, j>>[2] = j
        BY <1>3
      <3> QED BY <3>2, <3>3
    <2> QED BY <2>1, <2>2
  <1>5. \A x : x \in its <=> \E q \in PairsOf(buckets) : x = <<q.key, q.value>>
    <2>1. ASSUME NEW k \in D!Known PROVE \E q \in PairsOf(buckets) : <<k, Abstract[k]>> = <<q.key, q.value>>
      <3>1. PICK q \in PairsOf(buckets) : q.key = k
        BY <1>2, KeysArePairs
      <3> QED BY <1>2, <3>1 DEF ShowsPairs
    <2>2. ASSUME NEW q \in PairsOf(buckets) PROVE <<q.key, q.value>> \in its
      <3>1. q.key \in D!Known /\ Abstract[q.key] = q.value
        BY <1>2, KeysArePairs DEF ShowsPairs
      <3> QED BY <3>1
    <2> QED BY <2>1, <2>2
  <1>6. mine = its
    <2> HIDE DEF mine, its
    <2> QED BY <1>4, <1>5
  <1>7. Cardinality(Places) = Cardinality(D!Known)
    BY <1>2, PlacesAreKeys
  <1>8. ret' = <<"items", mine, Cardinality(Places)>>
    BY DEF Items
  <1>9. ret' = <<"items", its, Cardinality(D!Known)>>
    <2> HIDE DEF mine, its
    <2> QED BY <1>6, <1>7, <1>8
  <1> QED BY <1>1, <1>9, SameCardinality DEF D!Items

LEMMA SizeIsSize ==
  ASSUME IInv, Size
  PROVE  D!Size
  <1>1. Abstract' = Abstract /\ pending = <<>>
    BY ReadsSame DEF Size
  <1>2. size = Cardinality(D!Known)
    BY <1>1, LookupIsMap DEF IInv, WellFormed
  <1>3. ret' = <<"int", Cardinality(D!Known)>>
    BY <1>2 DEF Size
  <1> QED BY <1>1, <1>3, SameCardinality DEF D!Size

LEMMA PopIsPop ==
  ASSUME IInv, NEW k \in Keys, NEW d, Pop(k, d)
  PROVE  D!Pop(k, d)
  <1>1. CASE Take(k) /\ ret' = Found(k, Value(d))
    <2>1. pending = <<>> /\ Has(k)
      BY <1>1 DEF Take
    <2>2. k \in D!Known /\ Found(k, Value(d)) = D!Found(k, Value(d))
      BY <2>1, LookupIsMap
    <2>3. ret' = D!Found(k, IF d = None THEN D!KeyError ELSE D!Value(d))
      BY <1>1, <2>2 DEF D!Found
    <2> QED BY <1>1, <2>3, TakeIsRemove DEF D!Pop
  <1>2. CASE ~Has(k) /\ Reads /\ ret' = IF d = None THEN KeyError ELSE Value(d)
    <2>1. Abstract' = Abstract /\ pending = <<>>
      BY <1>2, ReadsSame
    <2>2. k \notin D!Known /\ ShowsPairs
      BY <1>2, <2>1, LookupIsMap
    <2>3. Abstract' = [Abstract EXCEPT ![k] = None]
      BY <2>1, <2>2 DEF ShowsPairs, D!Known
    <2> QED BY <1>2, <2>2, <2>3 DEF D!Pop, D!Found, KeyError, D!KeyError, Value, D!Value
  <1> QED BY <1>1, <1>2 DEF Pop

LEMMA DelItemIsDelItem ==
  ASSUME IInv, NEW k \in Keys, DelItem(k)
  PROVE  D!DelItem(k)
  <1>1. CASE Take(k) /\ ret' = Value(None)
    <2>1. k \in D!Known
      BY <1>1, LookupIsMap DEF Take
    <2> QED BY <1>1, <2>1, TakeIsRemove DEF D!DelItem, Value, D!Value
  <1>2. CASE ~Has(k) /\ Reads /\ ret' = KeyError
    <2>1. Abstract' = Abstract /\ pending = <<>>
      BY <1>2, ReadsSame
    <2>2. k \notin D!Known /\ ShowsPairs
      BY <1>2, <2>1, LookupIsMap
    <2>3. Abstract' = [Abstract EXCEPT ![k] = None]
      BY <2>1, <2>2 DEF ShowsPairs, D!Known
    <2> QED BY <1>2, <2>2, <2>3 DEF D!DelItem, KeyError, D!KeyError
  <1> QED BY <1>1, <1>2 DEF DelItem

LEMMA SetDefaultIsSetDefault ==
  ASSUME IInv, NEW k \in Keys, NEW v \in Values, SetDefault(k, v)
  PROVE  D!SetDefault(k, v)
  <1>1. CASE Has(k) /\ Get(k, v)
    <2>1. Abstract' = Abstract /\ pending = <<>>
      BY <1>1, ReadsSame DEF Get
    <2>2. k \in D!Known /\ ShowsPairs /\ Found(k, Value(v)) = D!Found(k, Value(v))
      BY <1>1, <2>1, LookupIsMap
    <2>3. Abstract' = [Abstract EXCEPT ![k] = IF k \in D!Known THEN @ ELSE v]
      BY <2>1, <2>2 DEF ShowsPairs
    <2> QED BY <1>1, <2>2, <2>3 DEF D!SetDefault, Get, Value, D!Value
  <1>2. CASE ~Has(k) /\ pending = <<>> /\ Insert(k, v, <<>>) /\ ret' = Value(v)
    <2>1. k \notin D!Known
      BY <1>2, LookupIsMap
    <2>2. Abstract' = [Abstract EXCEPT ![k] = v]
      BY <1>2, InsertIsPut
    <2> QED BY <1>2, <2>1, <2>2 DEF D!SetDefault, D!Found, Value, D!Value
  <1> QED BY <1>1, <1>2 DEF SetDefault

LEMMA InitIsDict == Init => D!Init
  <1> SUFFICES ASSUME Init PROVE D!Init
    OBVIOUS
  <1>1. IInv
    BY InitIInv
  <1>2. pending = <<>> /\ KeysOf(buckets) = {}
    BY EmptyList, TableAssumption DEF Init
  <1>3. ShowsPairs /\ AllPairs = {}
    BY <1>1, <1>2, LookupIsMap, KeysArePairs
  <1>4. Abstract = [k \in Keys |-> None]
    BY <1>3 DEF ShowsPairs
  <1> QED BY <1>4 DEF Init, D!Init, Value, D!Value

LEMMA NextIsDict == IInv /\ [Next]_vars => [D!Next]_(D!vars)
  <1> SUFFICES ASSUME IInv, [Next]_vars
               PROVE  D!Next \/ UNCHANGED D!vars
    OBVIOUS
  <1>1. ASSUME NEW k \in Keys, NEW v \in Values, SetItem(k, v) PROVE D!Next
    <2>1. D!SetItem(k, v)
      BY <1>1, InsertIsPut DEF SetItem, D!SetItem, Value, D!Value
    <2> QED BY <2>1 DEF D!Next
  <1>2. ASSUME NEW k \in Keys, NEW v \in Values, SetDefault(k, v) PROVE D!Next
    BY <1>2, SetDefaultIsSetDefault DEF D!Next
  <1>3. ASSUME NEW k \in Keys, NEW d \in Values \cup {None}, Get(k, d) PROVE D!Next
    <2>1. D!Get(k, d)
      BY <1>3, ReadsSame, LookupIsMap DEF Get, D!Get, Value, D!Value
    <2> QED BY <2>1 DEF D!Next
  <1>4. ASSUME NEW k \in Keys, NEW d \in Values \cup {None}, Pop(k, d) PROVE D!Next
    BY <1>4, PopIsPop DEF D!Next
  <1>5. ASSUME NEW k \in Keys, GetItem(k) PROVE D!Next
    <2>1. D!GetItem(k)
      BY <1>5, ReadsSame, LookupIsMap DEF GetItem, D!GetItem, KeyError, D!KeyError
    <2> QED BY <2>1 DEF D!Next
  <1>6. ASSUME NEW k \in Keys, Contains(k) PROVE D!Next
    <2>1. Abstract' = Abstract /\ (Has(k) <=> k \in D!Known)
      BY <1>6, ReadsSame, LookupIsMap DEF Contains
    <2>2. Has(k) = (k \in D!Known)
      BY <2>1 DEF Has
    <2>3. D!Contains(k)
      BY <1>6, <2>1, <2>2 DEF Contains, D!Contains
    <2> QED BY <2>3 DEF D!Next
  <1>7. ASSUME NEW k \in Keys, DelItem(k) PROVE D!Next
    BY <1>7, DelItemIsDelItem DEF D!Next
  <1>8. CASE Clear
    BY <1>8, ClearIsClear DEF D!Next
  <1>9. CASE Size
    BY <1>9, SizeIsSize DEF D!Next
  <1>10. CASE Items
    BY <1>10, ItemsIsItems DEF D!Next
  <1>11. CASE Reinsert
    <2>1. IInv' /\ AllPairs' = AllPairs
      BY <1>11, ReinsertKeeps DEF AllPairs
    <2>2. Abstract' = Abstract
      BY <2>1, AbstractShows, AbstractShowsThen, SamePairs
    <2> QED BY <1>11, <2>2 DEF Reinsert, D!vars
  <1>12. CASE UNCHANGED vars
    <2>1. IInv' /\ AllPairs' = AllPairs
      BY <1>12 DEF vars, IInv, AllPairs
    <2>2. Abstract' = Abstract
      BY <2>1, AbstractShows, AbstractShowsThen, SamePairs
    <2> QED BY <1>12, <2>2 DEF vars, D!vars
  <1> QED BY <1>1, <1>2, <1>3, <1>4, <1>5, <1>6, <1>7, <1>8, <1>9, <1>10, <1>11, <1>12 DEF Next

\* Whatever the hash function makes collide and whatever a resize has not moved
\* yet, every method answers as a plain map would.
THEOREM TableIsADict == Spec => IsADict
  <1> QED BY AlwaysIInv, InitIsDict, NextIsDict, PTL DEF Spec, IsADict, D!Spec

=============================================================================
