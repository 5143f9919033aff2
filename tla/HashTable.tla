------------------------------ MODULE HashTable ------------------------------
(***************************************************************************)
(* HashTable of asd.py: buckets of (key, value) pairs and a size.          *)
(*                                                                         *)
(* Every method is one step but __setitem__, when it makes the load too    *)
(* high: _resize calls __setitem__ again for every pair, and that call may *)
(* resize again.  The table is then a program in the middle of its work,   *)
(* with the pairs still to insert in pending, one bucket after the other.  *)
(***************************************************************************)
EXTENDS Integers, Sequences, FiniteSets

Seqs == INSTANCE SequencesExt

CONSTANTS
    Keys,
    Values,
    None,          \* no value, and no default
    Hash,          \* hash(), which is not the same in any two processes
    MinCapacity    \* _MIN_CAPACITY

ASSUME TableAssumption ==
    /\ None \notin Values
    /\ Hash \in [Keys -> Int]
    /\ MinCapacity \in Nat \ {0}

VARIABLES
    buckets,    \* _buckets
    size,       \* _size
    pending,    \* the buckets of old_items, as far as they are not inserted yet
    ret         \* what the last method returned or raised, with its type

vars == <<buckets, size, pending, ret>>

Pair == [key : Keys, value : Values]

Value(v) == <<"value", v>>
KeyError == <<"raised", "KeyError">>

Empty(capacity) == [i \in 1 .. capacity |-> <<>>]

Init ==
    /\ buckets = Empty(MinCapacity) /\ size = 0
    /\ pending = <<>>
    /\ ret = Value(None)

-----------------------------------------------------------------------------
(* Lookup *)

\* _find_bucket.  Like Python's, this % is never negative.
Home(k) == (Hash[k] % Len(buckets)) + 1

Bucket(k) == buckets[Home(k)]

\* Where a scan of the bucket finds k.
Hits(k) == {i \in DOMAIN Bucket(k) : Bucket(k)[i].key = k}

Has(k) == Hits(k) # {}

FirstHit(k) == CHOOSE i \in Hits(k) : \A j \in Hits(k) : i <= j

Stored(k) == Bucket(k)[FirstHit(k)].value

Found(k, otherwise) == IF Has(k) THEN Value(Stored(k)) ELSE otherwise

-----------------------------------------------------------------------------
(* Insertion *)

\* A slip: the load is that of before the insertion.
OverloadedBefore(n) == 4 * (n - 1) > 3 * Len(buckets)

\* load_factor > _MAX_LOAD_FACTOR.
Overloaded(n) == 4 * n > 3 * Len(buckets)

Overwrite(k, v) ==
    /\ Has(k)
    /\ buckets' = [buckets EXCEPT ![Home(k)] = [@ EXCEPT ![FirstHit(k)].value = v]]
    /\ UNCHANGED size

\* The buckets with the pair at the end of its bucket.
With(k, v) == [buckets EXCEPT ![Home(k)] = Append(@, [key |-> k, value |-> v])]

Add(k, v) ==
    /\ ~Has(k) /\ ~Overloaded(size + 1)
    /\ buckets' = With(k, v) /\ size' = size + 1

\* A slip: buckets are added and the pairs stay where they are.
AnewInPlace == buckets \o Empty(Len(buckets))

\* A slip: the table is built anew as large as it was.
AnewAsLarge == Empty(Len(buckets))

\* The buckets of a resize.  Twice the capacity is never below the least.
Anew == Empty(2 * Len(buckets))

\* _resize: new buckets, and the pairs of the old ones before those that an
\* outer _resize has not come to.
Grow(k, v, rest) ==
    /\ ~Has(k) /\ Overloaded(size + 1)
    /\ buckets' = Anew
    /\ size' = 0
    /\ pending' = With(k, v) \o rest

Insert(k, v, rest) ==
    \/ Overwrite(k, v) /\ pending' = rest
    \/ Add(k, v) /\ pending' = rest
    \/ Grow(k, v, rest)

\* The bucket of pending whose first pair is the next of old_items.
Foremost == CHOOSE i \in DOMAIN pending :
             pending[i] # <<>> /\ \A j \in 1 .. i - 1 : pending[j] = <<>>

AfterForemost ==
    LET rest == [pending EXCEPT ![Foremost] = Tail(@)]
    IN  IF \A i \in DOMAIN rest : rest[i] = <<>> THEN <<>> ELSE rest

\* One round of the loop in _resize.
Reinsert ==
    /\ pending # <<>>
    /\ LET pair == Head(pending[Foremost])
       IN  Insert(pair.key, pair.value, AfterForemost)
    /\ UNCHANGED ret

-----------------------------------------------------------------------------
(* The methods *)

\* A method is called when no other runs, and changes nothing here.
Reads == pending = <<>> /\ UNCHANGED <<buckets, size, pending>>

SetItem(k, v) ==
    /\ pending = <<>>
    /\ Insert(k, v, <<>>)
    /\ ret' = Value(None)

GetItem(k) == Reads /\ ret' = Found(k, KeyError)

Contains(k) == Reads /\ ret' = <<"bool", Has(k)>>

Get(k, default) == Reads /\ ret' = Found(k, Value(default))

SetDefault(k, default) ==
    \/ Has(k) /\ Get(k, default)
    \/ /\ ~Has(k) /\ pending = <<>>
       /\ Insert(k, default, <<>>)
       /\ ret' = Value(default)

\* A slip: the first pair of the bucket goes, whichever it is.
WithoutFirst(k) == Tail(Bucket(k))

\* bucket.pop(index).
Without(k) == Seqs!RemoveAt(Bucket(k), FirstHit(k))

Take(k) ==
    /\ pending = <<>> /\ Has(k)
    /\ buckets' = [buckets EXCEPT ![Home(k)] = Without(k)]
    /\ size' = size - 1
    /\ UNCHANGED pending

\* A slip: the size goes down before the scan.
DelItemCounting(k) ==
    \/ Take(k) /\ ret' = Value(None)
    \/ /\ pending = <<>> /\ ~Has(k)
       /\ size' = size - 1 /\ ret' = KeyError
       /\ UNCHANGED <<buckets, pending>>

DelItem(k) ==
    \/ Take(k) /\ ret' = Value(None)
    \/ ~Has(k) /\ Reads /\ ret' = KeyError

\* A default of None cannot be told from no default.
Pop(k, default) ==
    \/ Take(k) /\ ret' = Found(k, Value(default))
    \/ ~Has(k) /\ Reads /\ ret' = IF default = None THEN KeyError ELSE Value(default)

Clear ==
    /\ pending = <<>>
    /\ buckets' = Empty(MinCapacity) /\ size' = 0
    /\ ret' = Value(None)
    /\ UNCHANGED pending

Size == Reads /\ ret' = <<"int", size>>

\* Every place of a pair in the buckets.
Places == UNION {{<<i, j>> : j \in DOMAIN buckets[i]} : i \in DOMAIN buckets}

Items ==
    /\ Reads
    /\ ret' = <<"items",
               {<<buckets[p[1]][p[2]].key, buckets[p[1]][p[2]].value>> : p \in Places},
               Cardinality(Places)>>

Next ==
    \/ \E k \in Keys :
          \/ \E v \in Values : SetItem(k, v) \/ SetDefault(k, v)
          \/ \E d \in Values \cup {None} : Get(k, d) \/ Pop(k, d)
          \/ GetItem(k) \/ Contains(k) \/ DelItem(k)
    \/ Clear \/ Size \/ Items
    \/ Reinsert

Spec == Init /\ [][Next]_vars

\* A method that has begun runs to its end.
FairSpec == Spec /\ WF_vars(Reinsert)

-----------------------------------------------------------------------------
(* Properties *)

\* Buckets and old_items are lists of lists of pairs.
TypeOK ==
    /\ buckets \in Seq(Seq(Pair)) /\ Len(buckets) >= MinCapacity
    /\ size \in Nat
    /\ pending \in Seq(Seq(Pair))

\* The keys of the pairs in bs, a sequence of buckets.
KeysOf(bs) == UNION {{bs[i][j].key : j \in DOMAIN bs[i]} : i \in DOMAIN bs}

\* No key is in two places of bs.
EachOnce(bs) ==
    \A i, m \in DOMAIN bs : \A j \in DOMAIN bs[i], n \in DOMAIN bs[m] :
        bs[i][j].key = bs[m][n].key => i = m /\ j = n

\* Also in the middle of a resize, every pair is in the bucket its hash now
\* names, a key is in one place only and is not waiting to be inserted as well.
EveryKeyAtHome ==
    /\ \A i \in DOMAIN buckets : \A j \in DOMAIN buckets[i] : Home(buckets[i][j].key) = i
    /\ EachOnce(buckets) /\ EachOnce(pending)
    /\ KeysOf(buckets) \cap KeysOf(pending) = {}

\* _size is the number of pairs, so the load factor is what it says; it is at
\* most the maximum, and a resize makes room for all it has to insert.
LoadIsBounded ==
    /\ size = Cardinality(Places)
    /\ 4 * (size + Cardinality(KeysOf(pending))) <= 3 * Len(buckets)

\* A resize ends.
ResizeEnds == pending # <<>> ~> pending = <<>>

\* What callers may take the table for: the pairs that a resize has still to
\* insert count as well.
Waiting(k) == {p \in UNION {Seqs!ToSet(pending[i]) : i \in DOMAIN pending} : p.key = k}

Abstract ==
    [k \in Keys |-> IF Waiting(k) # {} THEN (CHOOSE p \in Waiting(k) : TRUE).value
                    ELSE IF Has(k) THEN Stored(k) ELSE None]

D == INSTANCE Dict WITH map <- Abstract

\* Through collisions, resizes and removals every method of HashTable returns
\* or raises what it would on a plain map, and changes it alike.
IsADict == D!Spec

=============================================================================
