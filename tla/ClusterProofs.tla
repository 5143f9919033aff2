---------------------------- MODULE ClusterProofs ----------------------------
(***************************************************************************)
(* Theorems about Cluster, for any number of processes and clients, any    *)
(* node lists and any restarts with other lists: as long as the lists      *)
(* agree on a key, its owner is the only process that stores it, answers   *)
(* for it, and is reached by following one MOVED.                          *)
(***************************************************************************)
EXTENDS Cluster, TLAPS

-----------------------------------------------------------------------------
(* The inductive invariant *)

\* Every list names the owner of k, under the owner's name and address.
NamedByAll(k) == \A p \in Procs : Route(k, list[p]) = Self[owner[k]]

\* The owner alone stores k, and has its latest value.
StoredByOwner(k) ==
    /\ \A p \in Procs : data[p][k] # None => p = owner[k]
    /\ data[owner[k]][k] = latest[k]

\* Whoever has been redirected for k has been sent to the owner, at once.
SentToOwner(k) ==
    \A c \in Clients : request[c] # None /\ request[c].op.key = k =>
        /\ request[c].hops <= 1
        /\ request[c].hops = 1 => request[c].at = Self[owner[k]].addr

\* What holds of a key as long as the lists agree on it.
Agreed(k) == owner[k] # None => NamedByAll(k) /\ StoredByOwner(k) /\ SentToOwner(k)

IInv == TypeOK /\ \A k \in Keys : Agreed(k)

-----------------------------------------------------------------------------
(* Routing *)

\* route picks a node of the list.
LEMMA RouteInList ==
  ASSUME NEW k \in Keys, NEW l \in Lists
  PROVE  Route(k, l).addr \in NodeAddresses
  <1> DEFINE n == Len(l)
             i == (Slot[k] % n) + 1
  <1>1. l \in Seq({l[j] : j \in DOMAIN l}) /\ l # <<>>
    BY ClusterAssumption
  <1>2. n \in Nat /\ n # 0 /\ DOMAIN l = 1 .. n
    BY <1>1
  <1>3. Slot[k] \in Nat
    <2>1. Slot \in [Keys -> 0 .. TotalHashSlots - 1]
      BY ClusterAssumption
    <2>2. TotalHashSlots \in Nat
      BY DEF TotalHashSlots
    <2>3. Slot[k] \in 0 .. TotalHashSlots - 1
      BY <2>1
    <2> QED BY <2>2, <2>3
  <1>4. i \in DOMAIN l
    <2> HIDE DEF n
    <2> QED BY <1>2, <1>3
  <1>5. Route(k, l) = l[i]
    BY DEF Route
  <1> HIDE DEF i
  <1> QED BY <1>4, <1>5 DEF NodeAddresses

\* The process that lists agree on is named by each of them.
LEMMA OwnerInIsNamed ==
  ASSUME NEW lists, NEW k, OwnerIn(lists, k) # None
  PROVE  /\ OwnerIn(lists, k) \in Procs
         /\ \A l \in lists : Route(k, l) = Self[OwnerIn(lists, k)]
  BY DEF OwnerIn

LEMMA OwnerInType ==
  ASSUME NEW lists, NEW k
  PROVE  OwnerIn(lists, k) \in Procs \cup {None}
  BY OwnerInIsNamed

\* Two processes never have the same address, so a process that takes a key for
\* its own is the owner every list names.
LEMMA LocalIsOwner ==
  ASSUME IInv, NEW k \in Keys, owner[k] # None, NEW p \in Procs
  PROVE  IsLocal(p, k) <=> p = owner[k]
  <1>1. owner[k] \in Procs
    BY DEF IInv, TypeOK
  <1>2. Owner(p, k) = Self[owner[k]]
    BY DEF IInv, Agreed, NamedByAll, Owner
  <1> QED BY <1>1, <1>2, ClusterAssumption DEF IsLocal

-----------------------------------------------------------------------------
(* Types *)

LEMMA InitType == Init => TypeOK
  <1> SUFFICES ASSUME Init PROVE TypeOK
    OBVIOUS
  <1>1. owner \in [Keys -> Procs \cup {None}]
    BY OwnerInType DEF Init
  <1> QED BY <1>1 DEF Init, TypeOK

\* A request has a place to be at and an operation of its client.
LEMMA RequestType ==
  ASSUME TypeOK, NEW c \in Clients, request[c] # None
  PROVE  /\ request[c] \in [op : Ops, at : NodeAddresses, hops : 0 .. MaxHops]
         /\ request[c].op.op \in {"set", "get"} => request[c].op.key \in Keys
         /\ request[c].op.op = "set" => request[c].op.value \in Values
  <1>1. request[c] \in [op : Ops, at : NodeAddresses, hops : 0 .. MaxHops]
    BY DEF TypeOK
  <1>2. request[c].op \in Ops
    BY <1>1
  <1> QED BY <1>1, <1>2 DEF Ops

LEMMA SentOn ==
  ASSUME NEW r \in [op : Ops, at : NodeAddresses, hops : 0 .. MaxHops], NEW a, NEW h
  PROVE  [r EXCEPT !.at = a, !.hops = h] = [op |-> r.op, at |-> a, hops |-> h]
  <1> DEFINE q == [op |-> r.op, at |-> a, hops |-> r.hops]
  <1>1. [r EXCEPT !.at = a] = q
    OBVIOUS
  <1>2. [q EXCEPT !.hops = h] = [op |-> r.op, at |-> a, hops |-> h]
    OBVIOUS
  <1> HIDE DEF q
  <1> QED BY <1>1, <1>2

LEMMA NextType ==
  ASSUME TypeOK, [Next]_vars
  PROVE  TypeOK'
  <1> DEFINE Request == [op : Ops, at : NodeAddresses, hops : 0 .. MaxHops]
  <1> USE DEF TypeOK
  <1>1. CASE UNCHANGED vars
    BY <1>1 DEF vars
  <1>2. ASSUME NEW c \in Clients, NEW op \in Calls[c], NEW addr \in Addresses, Begin(c, op, addr)
        PROVE  TypeOK'
    <2>1. op \in Ops /\ addr \in NodeAddresses /\ 0 \in 0 .. MaxHops
      BY ClusterAssumption DEF NodeAddresses
    <2>2. [op |-> op, at |-> addr, hops |-> 0] \in Request
      BY <2>1
    <2> HIDE DEF Request
    <2>3. request' \in [Clients -> Request \cup {None}]
      BY <1>2, <2>2 DEF Begin, Request
    <2> QED BY <1>2, <2>3 DEF Begin, Request
  <1>3. ASSUME NEW c \in Clients, GiveUp(c)
        PROVE  TypeOK'
    BY <1>3 DEF GiveUp
  <1>4. ASSUME NEW c \in Clients, NEW p \in Procs, Redirect(c, p)
        PROVE  TypeOK'
    <2> DEFINE r == request[c]
               k == r.op.key
               hops == IF r.hops < MaxHops THEN r.hops + 1 ELSE r.hops
               to == Target(Owner(p, k))
               moved == [op |-> r.op, at |-> to, hops |-> hops]
    <2>1. r # None /\ k \in Keys /\ r \in Request
      BY <1>4, RequestType DEF Redirect, Arrives
    <2>2. to \in NodeAddresses
      BY <2>1, RouteInList DEF Target, Owner
    <2>3. moved \in Request
      <3>1. r.hops \in 0 .. MaxHops /\ MaxHops \in Nat
        BY <2>1, ClusterAssumption
      <3>2. hops \in 0 .. MaxHops
        BY <3>1
      <3> HIDE DEF hops
      <3> QED BY <2>1, <2>2, <3>2
    <2>4. request' = [request EXCEPT ![c] = moved]
      <3>1. request' = [request EXCEPT ![c] = [r EXCEPT !.at = to, !.hops = hops]]
        BY <1>4 DEF Redirect
      <3> HIDE DEF r, to, hops
      <3>2. [r EXCEPT !.at = to, !.hops = hops] = moved
        BY <2>1, SentOn
      <3> QED BY <3>1, <3>2
    <2> HIDE DEF moved, Request
    <2>5. request' \in [Clients -> Request \cup {None}]
      BY <2>3, <2>4 DEF Request
    <2> QED BY <1>4, <2>5 DEF Redirect, Request
  <1>5. ASSUME NEW c \in Clients, NEW p \in Procs, ServeSet(c, p)
        PROVE  TypeOK'
    <2>1. request[c].op.key \in Keys /\ request[c].op.value \in Values
      BY <1>5, RequestType DEF ServeSet, Arrives
    <2> QED BY <1>5, <2>1 DEF ServeSet, Answered
  <1>6. ASSUME NEW c \in Clients, NEW p \in Procs, ServeGet(c, p) \/ ServePing(c, p)
        PROVE  TypeOK'
    BY <1>6 DEF ServeGet, ServePing, Answered
  <1>7. ASSUME NEW p \in Procs, NEW l \in Lists, Restart(p, l)
        PROVE  TypeOK'
    <2>1. owner' \in [Keys -> Procs \cup {None}]
      BY <1>7 DEF Restart
    <2>2. request' \in [Clients -> Request \cup {None}]
      BY <1>7 DEF Restart
    <2> QED BY <1>7, <2>1, <2>2 DEF Restart
  <1> QED BY <1>1, <1>2, <1>3, <1>4, <1>5, <1>6, <1>7 DEF Next, Dispatch

-----------------------------------------------------------------------------
(* The agreement of the lists on a key *)

LEMMA InitAgreed ==
  ASSUME Init, NEW k \in Keys, owner[k] # None
  PROVE  NamedByAll(k) /\ StoredByOwner(k) /\ SentToOwner(k)
  <1>1. owner[k] = OwnerIn({list[p] : p \in Procs}, k)
    BY DEF Init
  <1>2. owner[k] \in Procs /\ \A l \in {list[p] : p \in Procs} : Route(k, l) = Self[owner[k]]
    BY <1>1, OwnerInIsNamed
  <1>3. NamedByAll(k)
    BY <1>2 DEF NamedByAll
  <1>4. StoredByOwner(k) /\ SentToOwner(k)
    BY <1>2 DEF Init, StoredByOwner, SentToOwner
  <1> QED BY <1>3, <1>4

\* A restart keeps the owner of a key only if the new list names it too.
LEMMA RestartAgreed ==
  ASSUME IInv, NEW p \in Procs, NEW l \in Lists, Restart(p, l), NEW k \in Keys, owner'[k] # None
  PROVE  (NamedByAll(k) /\ StoredByOwner(k) /\ SentToOwner(k))'
  <1>1. owner'[k] = owner[k] /\ owner[k] = OwnerIn({l}, k)
    BY DEF Restart
  <1>2. NamedByAll(k) /\ StoredByOwner(k) /\ SentToOwner(k)
    BY <1>1 DEF IInv, Agreed
  <1>3. Route(k, l) = Self[owner[k]]
    BY <1>1, OwnerInIsNamed
  <1>4. list' = [list EXCEPT ![p] = l] /\ list \in [Procs -> Lists]
    BY DEF Restart, IInv, TypeOK
  <1>5. NamedByAll(k)'
    BY <1>1, <1>2, <1>3, <1>4 DEF NamedByAll
  <1>6. StoredByOwner(k)'
    BY <1>1, <1>2 DEF StoredByOwner, Restart
  <1>7. \A c \in Clients : request'[c] \in {request[c], None}
    BY DEF Restart
  <1>8. SentToOwner(k)'
    BY <1>1, <1>2, <1>7 DEF SentToOwner
  <1> QED BY <1>5, <1>6, <1>8

\* Only a request for k that has not been redirected yet is redirected, and to
\* the owner.
LEMMA RedirectAgreed ==
  ASSUME IInv, NEW c \in Clients, NEW p \in Procs, Redirect(c, p),
         NEW k \in Keys, owner[k] # None
  PROVE  SentToOwner(k)'
  <1> DEFINE r == request[c]
  <1>0. owner' = owner /\ SentToOwner(k)
    BY DEF Redirect, IInv, Agreed
  <1>1. /\ r # None /\ r.at = Self[p].addr
        /\ r \in [op : Ops, at : NodeAddresses, hops : 0 .. MaxHops]
    BY RequestType DEF Redirect, Arrives, IInv
  <1>2. \A d \in Clients : d # c => request'[d] = request[d]
    BY DEF Redirect, IInv, TypeOK
  <1>3. request'[c].op = r.op
    BY <1>1 DEF Redirect, IInv, TypeOK
  <1>4. CASE r.op.key # k
    BY <1>0, <1>2, <1>3, <1>4 DEF SentToOwner
  <1>5. CASE r.op.key = k
    <2>1. Owner(p, k) = Self[owner[k]] /\ p # owner[k]
      <3>1. ~IsLocal(p, k)
        BY <1>5 DEF Redirect
      <3> QED BY <3>1, LocalIsOwner DEF IInv, Agreed, NamedByAll, Owner
    <2>2. r.hops # 1
      BY <1>0, <1>1, <1>5, <2>1, ClusterAssumption DEF SentToOwner, IInv, TypeOK
    <2>3. r.hops = 0
      BY <1>0, <1>1, <1>5, <2>2 DEF SentToOwner
    <2>4. request'[c].at = Self[owner[k]].addr /\ request'[c].hops \in {0, 1}
      BY <1>1, <1>5, <2>1, <2>3 DEF Redirect, Target, IInv, TypeOK
    <2> QED BY <1>0, <1>2, <2>4 DEF SentToOwner
  <1> QED BY <1>4, <1>5

LEMMA NextAgreed ==
  ASSUME IInv, [Next]_vars, NEW k \in Keys
  PROVE  Agreed(k)'
  <1> SUFFICES ASSUME owner'[k] # None
               PROVE  (NamedByAll(k) /\ StoredByOwner(k) /\ SentToOwner(k))'
    BY DEF Agreed
  <1> USE DEF NamedByAll, StoredByOwner
  <1>0. ASSUME list' = list, owner' = owner
        PROVE  /\ NamedByAll(k) /\ StoredByOwner(k) /\ SentToOwner(k)
               /\ owner[k] # None /\ owner[k] \in Procs /\ NamedByAll(k)'
    BY <1>0 DEF IInv, Agreed, TypeOK
  <1>1. CASE UNCHANGED vars
    BY <1>0, <1>1 DEF vars, SentToOwner
  <1>2. ASSUME NEW c \in Clients, NEW op \in Calls[c], NEW addr \in Addresses, Begin(c, op, addr)
        PROVE  (NamedByAll(k) /\ StoredByOwner(k) /\ SentToOwner(k))'
    <2>1. request'[c].hops = 0 /\ \A d \in Clients : d # c => request'[d] = request[d]
      BY <1>2 DEF Begin, IInv, TypeOK
    <2> QED BY <1>0, <1>2, <2>1 DEF Begin, SentToOwner
  <1>3. ASSUME NEW c \in Clients, request' = [request EXCEPT ![c] = None], owner' = owner
        PROVE  SentToOwner(k) => SentToOwner(k)'
    BY <1>3 DEF SentToOwner, IInv, TypeOK
  <1>4. ASSUME NEW c \in Clients, GiveUp(c)
        PROVE  (NamedByAll(k) /\ StoredByOwner(k) /\ SentToOwner(k))'
    BY <1>0, <1>3, <1>4 DEF GiveUp
  <1>5. ASSUME NEW c \in Clients, NEW p \in Procs, Redirect(c, p)
        PROVE  (NamedByAll(k) /\ StoredByOwner(k) /\ SentToOwner(k))'
    BY <1>0, <1>5, RedirectAgreed DEF Redirect
  <1>6. ASSUME NEW c \in Clients, NEW p \in Procs, ServeGet(c, p) \/ ServePing(c, p)
        PROVE  (NamedByAll(k) /\ StoredByOwner(k) /\ SentToOwner(k))'
    BY <1>0, <1>3, <1>6 DEF ServeGet, ServePing, Answered
  <1>7. ASSUME NEW c \in Clients, NEW p \in Procs, ServeSet(c, p)
        PROVE  (NamedByAll(k) /\ StoredByOwner(k) /\ SentToOwner(k))'
    <2>1. NamedByAll(k)' /\ SentToOwner(k)'
      BY <1>0, <1>3, <1>7 DEF ServeSet, Answered
    <2> DEFINE j == request[c].op.key
    <2>2. j \in Keys /\ IsLocal(p, j)
      BY <1>7, RequestType DEF ServeSet, Arrives, IInv
    <2>3. j = k => p = owner[k]
      BY <1>0, <1>7, <2>2, LocalIsOwner DEF ServeSet
    <2>4. /\ data' = [data EXCEPT ![p][j] = request[c].op.value]
          /\ latest' = [latest EXCEPT ![j] = request[c].op.value]
          /\ data \in [Procs -> [Keys -> Values \cup {None}]]
          /\ latest \in [Keys -> Values \cup {None}]
      BY <1>7 DEF ServeSet, IInv, TypeOK
    <2> HIDE DEF j
    <2>5. StoredByOwner(k)'
      BY <1>0, <1>7, <2>2, <2>3, <2>4 DEF ServeSet
    <2> QED BY <2>1, <2>5
  <1>8. ASSUME NEW p \in Procs, NEW l \in Lists, Restart(p, l)
        PROVE  (NamedByAll(k) /\ StoredByOwner(k) /\ SentToOwner(k))'
    BY <1>8, RestartAgreed
  <1> QED BY <1>1, <1>2, <1>4, <1>5, <1>6, <1>7, <1>8 DEF Next, Dispatch

-----------------------------------------------------------------------------
(* The theorems *)

LEMMA AlwaysIInv == Spec => []IInv
  <1>1. Init => IInv
    BY InitType, InitAgreed DEF IInv, Agreed
  <1>2. IInv /\ [Next]_vars => IInv'
    BY NextType, NextAgreed DEF IInv
  <1> QED BY <1>1, <1>2, PTL DEF Spec

\* Lists, stores and requests have their types; a MOVED names an address that
\* some list has (ClusterCoordinator, Dispatcher).
THEOREM TypeCorrect == Spec => []TypeOK
  <1>1. IInv => TypeOK
    BY DEF IInv
  <1> QED BY AlwaysIInv, <1>1, PTL

\* While the lists agree on a key, one process stores it and one MOVED is enough
\* (ClusterCoordinator.is_local_key, Dispatcher._route_error).
THEOREM OneOwnerAlways == Spec => []OneOwner
  <1>1. IInv => OneOwner
    BY DEF IInv, Agreed, StoredByOwner, SentToOwner, OneOwner, AgreedOn
  <1> QED BY AlwaysIInv, <1>1, PTL

\* While the lists agree on its key, GET returns the value of the last SET,
\* through whichever nodes both came (Dispatcher, ClusterCoordinator).
THEOREM ReadsLatestAlways == Spec => ReadsLatest
  <1>1. IInv /\ [Next]_vars =>
          [\A c \in Clients, p \in Procs :
              ServeGet(c, p) /\ AgreedOn(request[c].op.key)
                  => Reply(c, p) = latest[request[c].op.key]]_vars
    <2> SUFFICES ASSUME IInv, NEW c \in Clients, NEW p \in Procs,
                        ServeGet(c, p), AgreedOn(request[c].op.key)
                 PROVE  Reply(c, p) = latest[request[c].op.key]
      OBVIOUS
    <2> DEFINE k == request[c].op.key
    <2>1. k \in Keys /\ IsLocal(p, k)
      BY RequestType DEF ServeGet, Arrives, IInv
    <2>2. owner[k] # None
      BY <2>1 DEF AgreedOn
    <2>3. p = owner[k]
      BY <2>1, <2>2, LocalIsOwner
    <2> QED BY <2>1, <2>2, <2>3 DEF IInv, Agreed, StoredByOwner, Reply
  <1> QED BY AlwaysIInv, <1>1, PTL DEF Spec, ReadsLatest

=============================================================================
