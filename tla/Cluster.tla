-------------------------------- MODULE Cluster --------------------------------
(***************************************************************************)
(* Several servers, each with its own list of nodes, and clients that      *)
(* follow MOVED.  ClusterCoordinator decides by the list of the process it *)
(* runs in; nothing in the code makes two lists equal, or a list the same  *)
(* after a restart.                                                        *)
(***************************************************************************)
EXTENDS Integers, Sequences

CONSTANTS
    Procs,      \* the server processes
    Self,       \* current_node of each: its name and the address it listens at
    Lists,      \* the node lists a process may be started with
    Keys, Values, None,
    Slot,       \* hash_slot
    Clients,
    Calls,      \* per client, the operations it may begin
    MaxHops     \* bound: redirects of a request that are counted

TotalHashSlots == 16384

Addresses == {Self[p].addr : p \in Procs}

\* GET has no value, PING no key.
Ops == [op : {"set"}, key : Keys, value : Values]
       \cup [op : {"get"}, key : Keys, value : {None}]
       \cup [op : {"ping"}, key : {None}, value : {None}]

ASSUME ClusterAssumption ==
    /\ None \notin Values
    /\ None \notin Procs
    /\ \A p, q \in Procs : Self[p].addr = Self[q].addr => p = q
    /\ \A l \in Lists : l # <<>> /\ l \in Seq({l[i] : i \in DOMAIN l})
    /\ Slot \in [Keys -> 0 .. TotalHashSlots - 1]
    /\ Calls \in [Clients -> SUBSET Ops]
    /\ MaxHops \in Nat

VARIABLES
    list,       \* per process, nodes
    owner,      \* history: per key, the process that every list so far has named
                \* as its owner, or None
    data,       \* per process, its store
    request,    \* per client, the request it waits for, or None
    latest      \* history: the value last stored for each key, by any process

vars == <<list, owner, data, request, latest>>

\* Where clients may be sent.
NodeAddresses == Addresses \cup UNION {{l[i].addr : i \in DOMAIN l} : l \in Lists}

-----------------------------------------------------------------------------
(* ClusterRouter and ClusterCoordinator *)

\* route.
Route(k, nodes) == nodes[(Slot[k] % Len(nodes)) + 1]

\* A slip: the same node list without the node itself.
OwnerElsewhere(p, k) ==
    LET others == SelectSeq(list[p], LAMBDA n : n # Self[p])
    IN  IF others = <<>> THEN Self[p] ELSE Route(k, others)

Owner(p, k) == Route(k, list[p])

\* A slip: hosts are compared without ports, and all processes are on one host.
IsLocalByHost(p, k) == Owner(p, k).addr \in Addresses

\* is_local_key: name, host and port are compared.
IsLocal(p, k) == Owner(p, k) = Self[p]

-----------------------------------------------------------------------------
(* Starts *)

\* The process that all of these lists name as the owner of k.
OwnerIn(lists, k) ==
    LET named == {p \in Procs : \A l \in lists : Route(k, l) = Self[p]}
    IN  IF named = {} THEN None ELSE CHOOSE p \in named : TRUE

Init ==
    /\ list \in [Procs -> Lists]
    /\ owner = [k \in Keys |-> OwnerIn({list[p] : p \in Procs}, k)]
    /\ data = [p \in Procs |-> [k \in Keys |-> None]]
    /\ request = [c \in Clients |-> None]
    /\ latest = [k \in Keys |-> None]

\* A process ends and is started again, with any list: its store comes back from
\* its files, and some of the connections to it are lost with their requests.
Restart(p, l) ==
    /\ list' = [list EXCEPT ![p] = l]
    /\ owner' = [k \in Keys |-> IF owner[k] = OwnerIn({l}, k) THEN owner[k] ELSE None]
    /\ \E lost \in SUBSET {c \in Clients : request[c] # None /\ request[c].at = Self[p].addr} :
          request' = [c \in Clients |-> IF c \in lost THEN None ELSE request[c]]
    /\ UNCHANGED <<data, latest>>

-----------------------------------------------------------------------------
(* Clients *)

Begin(c, op, addr) ==
    /\ request[c] = None
    /\ request' = [request EXCEPT ![c] = [op |-> op, at |-> addr, hops |-> 0]]
    /\ UNCHANGED <<list, owner, data, latest>>

\* Nobody listens at the address of a MOVED: the client gives up.
GiveUp(c) ==
    /\ request[c] # None /\ request[c].at \notin Addresses
    /\ request' = [request EXCEPT ![c] = None]
    /\ UNCHANGED <<list, owner, data, latest>>

-----------------------------------------------------------------------------
(* dispatch at the process a request has come to *)

Arrives(c, p, op) ==
    /\ request[c] # None
    /\ request[c].at = Self[p].addr /\ request[c].op.op = op

Answered(c) == request' = [request EXCEPT ![c] = None]

\* A slip: MOVED carries the name of the node.
NameOf(node) == node.name

\* The host and port of MOVED.
Target(node) == node.addr

\* _route_error: the client goes on to where MOVED sends it.
Redirect(c, p) ==
    /\ \E op \in {"set", "get"} : Arrives(c, p, op)
    /\ ~IsLocal(p, request[c].op.key)
    /\ request' = [request EXCEPT
          ![c].at = Target(Owner(p, request[c].op.key)),
          ![c].hops = IF @ < MaxHops THEN @ + 1 ELSE @]
    /\ UNCHANGED <<list, owner, data, latest>>

ServeSet(c, p) ==
    /\ Arrives(c, p, "set") /\ IsLocal(p, request[c].op.key)
    /\ data' = [data EXCEPT ![p][request[c].op.key] = request[c].op.value]
    /\ latest' = [latest EXCEPT ![request[c].op.key] = request[c].op.value]
    /\ Answered(c)
    /\ UNCHANGED <<list, owner>>

\* What GET is answered.
Reply(c, p) == data[p][request[c].op.key]

ServeGet(c, p) ==
    /\ Arrives(c, p, "get") /\ IsLocal(p, request[c].op.key)
    /\ Answered(c)
    /\ UNCHANGED <<list, owner, data, latest>>

\* PING and SAVE have no key and are answered anywhere.
ServePing(c, p) ==
    /\ Arrives(c, p, "ping")
    /\ Answered(c)
    /\ UNCHANGED <<list, owner, data, latest>>

Dispatch(c, p) == Redirect(c, p) \/ ServeSet(c, p) \/ ServeGet(c, p) \/ ServePing(c, p)

Next ==
    \/ \E c \in Clients :
          \/ \E op \in Calls[c], addr \in Addresses : Begin(c, op, addr)
          \/ GiveUp(c)
          \/ \E p \in Procs : Dispatch(c, p)
    \/ \E p \in Procs, l \in Lists : Restart(p, l)

Spec == Init /\ [][Next]_vars

\* Servers answer, and clients follow what they are told.
FairSpec ==
    /\ Spec
    /\ \A c \in Clients : WF_vars(GiveUp(c)) /\ WF_vars(\E p \in Procs : Dispatch(c, p))

-----------------------------------------------------------------------------
(* Properties *)

\* Requests are at addresses, counted, and every process has a list and a store.
TypeOK ==
    /\ list \in [Procs -> Lists] /\ owner \in [Keys -> Procs \cup {None}]
    /\ data \in [Procs -> [Keys -> Values \cup {None}]]
    /\ latest \in [Keys -> Values \cup {None}]
    /\ request \in [Clients -> [op : Ops, at : NodeAddresses, hops : 0 .. MaxHops] \cup {None}]

\* Every list that any process has had gives k to one process, under the name and
\* address that this process has; what has no key needs none.
AgreedOn(k) == k \in Keys => owner[k] # None

\* As long as the lists agree on a key, whatever else they disagree on and
\* whoever is restarted with another, a request for it is redirected once at
\* most, wherever it was sent first, and no two processes store it.
OneOwner ==
    \A k \in Keys : AgreedOn(k) =>
        /\ \A c \in Clients : request[c] # None /\ request[c].op.key = k => request[c].hops <= 1
        /\ \A p, q \in Procs : data[p][k] # None /\ data[q][k] # None => p = q

\* As long as the lists agree on a key the processes together are one map: a GET
\* returns the value of the last SET of its key, through whichever nodes both
\* were sent.  A list that moves a key moves no data with it.
ReadsLatest ==
    [][\A c \in Clients, p \in Procs :
          ServeGet(c, p) /\ AgreedOn(request[c].op.key)
              => Reply(c, p) = latest[request[c].op.key]]_vars

\* As long as the lists agree on its key every request is answered, or lost with
\* its server.  With lists of another order or length two nodes may send a client
\* to each other for ever.
AnsweredIfAgreed ==
    \A c \in Clients : []<>(request[c] = None \/ ~AgreedOn(request[c].op.key))

=============================================================================
