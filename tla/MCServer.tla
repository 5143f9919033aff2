------------------------------ MODULE MCServer ------------------------------
(***************************************************************************)
(* Server with connections 1, whose client sends First requests of         *)
(* FirstKinds, and perhaps 2, whose client sends one, a write or a SAVE.   *)
(***************************************************************************)
EXTENDS Server

CONSTANTS
    First,        \* bound: requests on connection 1
    FirstKinds

MCRequests == [c \in Conns |-> IF c = 1 THEN First ELSE 1]

MCKinds == [c \in Conns |-> IF c = 1 THEN FirstKinds ELSE {"write", "save"}]

=============================================================================
