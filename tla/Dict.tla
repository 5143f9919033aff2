--------------------------------- MODULE Dict ---------------------------------
(***************************************************************************)
(* What HashTable promises: a map from keys to values, one operation after *)
(* another, each with the result its caller gets.                          *)
(***************************************************************************)
EXTENDS Integers, FiniteSets

CONSTANTS Keys, Values, None

VARIABLES
    map,    \* the value of each key, None for a key that is not there
    ret     \* what the last operation returned or raised, with its type

vars == <<map, ret>>

Value(v) == <<"value", v>>
KeyError == <<"raised", "KeyError">>

Init == map = [k \in Keys |-> None] /\ ret = Value(None)

Known == {k \in Keys : map[k] # None}

Found(k, otherwise) == IF k \in Known THEN Value(map[k]) ELSE otherwise

SetItem(k, v) == map' = [map EXCEPT ![k] = v] /\ ret' = Value(None)

GetItem(k) == ret' = Found(k, KeyError) /\ UNCHANGED map

Contains(k) == ret' = <<"bool", k \in Known>> /\ UNCHANGED map

Get(k, default) == ret' = Found(k, Value(default)) /\ UNCHANGED map

SetDefault(k, default) ==
    /\ map' = [map EXCEPT ![k] = IF k \in Known THEN @ ELSE default]
    /\ ret' = Found(k, Value(default))

DelItem(k) ==
    /\ map' = [map EXCEPT ![k] = None]
    /\ ret' = IF k \in Known THEN Value(None) ELSE KeyError

Pop(k, default) ==
    /\ map' = [map EXCEPT ![k] = None]
    /\ ret' = Found(k, IF default = None THEN KeyError ELSE Value(default))

Clear == map' = [k \in Keys |-> None] /\ ret' = Value(None)

Size == ret' = <<"int", Cardinality(Known)>> /\ UNCHANGED map

\* The pairs an iteration yields, and how many times it yields one.
Items ==
    /\ ret' = <<"items", {<<k, map[k]>> : k \in Known}, Cardinality(Known)>>
    /\ UNCHANGED map

Next ==
    \/ \E k \in Keys :
          \/ \E v \in Values : SetItem(k, v) \/ SetDefault(k, v)
          \/ \E d \in Values \cup {None} : Get(k, d) \/ Pop(k, d)
          \/ GetItem(k) \/ Contains(k) \/ DelItem(k)
    \/ Clear \/ Size \/ Items

Spec == Init /\ [][Next]_vars

=============================================================================
