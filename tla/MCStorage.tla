------------------------------ MODULE MCStorage ------------------------------
(***************************************************************************)
(* Storage on two keys and two values, with durations that are negative,   *)
(* zero, and shorter and longer than what is left of the clock.            *)
(***************************************************************************)
EXTENDS Storage, TLC

MCSeconds == {-1, 0, 1, 2}

\* Values and keys are only stored and compared.
MCSymmetry == Permutations(Keys) \cup Permutations(Values)

=============================================================================
