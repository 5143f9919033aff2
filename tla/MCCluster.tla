------------------------------ MODULE MCCluster ------------------------------
(***************************************************************************)
(* Cluster with two processes.  A list may leave one out, have the two in  *)
(* the other order, give one another name, or have a third node in it,     *)
(* where nobody listens.                                                   *)
(***************************************************************************)
EXTENDS Cluster

CONSTANTS a1, a2, a3

Node(name, addr) == [name |-> name, addr |-> addr]

N1 == Node("node-1", a1)
N2 == Node("node-2", a2)
N3 == Node("node-3", a3)

MCSelf == [p \in Procs |-> IF p = 1 THEN N1 ELSE N2]

MCLists == { <<N1>>, <<N1, N2>>, <<N2, N1>>, <<N1, N2, N3>>, <<N1, Node("node-1", a2)>> }

FirstOf(S) == CHOOSE x \in S : TRUE

\* One client writes a key, and the other reads both.
MCCalls == [c \in Clients |->
    IF c = FirstOf(Clients) THEN {op \in Ops : op.op = "set" /\ op.key = FirstOf(Keys)}
                            ELSE {op \in Ops : op.op # "set"}]

\* Slots that fall to N1 and N2 of two nodes, and to N2 and N3 of three.
MCSlot == [k \in Keys |-> IF k = FirstOf(Keys) THEN 4 ELSE 16379]

=============================================================================
