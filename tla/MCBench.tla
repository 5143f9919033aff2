------------------------------- MODULE MCBench -------------------------------
(***************************************************************************)
(* Bench with two threads, keys for up to two indices and one late call.   *)
(***************************************************************************)
EXTENDS Bench, TLC

MCSymmetry == Permutations(Requests)

=============================================================================
