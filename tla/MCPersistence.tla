---------------------------- MODULE MCPersistence ----------------------------
(***************************************************************************)
(* Persistence with durations that end within the bound of the clock and   *)
(* beyond it.                                                              *)
(***************************************************************************)
EXTENDS PersistenceInv

MCSeconds == {0, 1, 2}

=============================================================================
