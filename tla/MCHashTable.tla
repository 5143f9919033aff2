----------------------------- MODULE MCHashTable -----------------------------
(***************************************************************************)
(* HashTable with integer keys, whose hash is the integer itself.          *)
(***************************************************************************)
EXTENDS HashTable

MCHash == [k \in Keys |-> k]

=============================================================================
