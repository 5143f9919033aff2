---------------------------- MODULE ExpiringMap ----------------------------
(***************************************************************************)
(* What the storage engine promises its caller: a map whose entries        *)
(* disappear at the instant of their deadline, whoever looks.  There are   *)
(* no expired entries in it, so there is nothing to evict: this is the     *)
(* specification that lazy expiration has to be indistinguishable from.    *)
(***************************************************************************)
EXTENDS Integers

CONSTANTS Keys, Values, None, TicksPerSecond, Seconds, MaxTime

VARIABLES
    live,     \* the entries alive at this instant, [data, expires]
    clock,
    answer    \* what the last operation returned

vars == <<live, clock, answer>>

Answer(op, k, ret) == answer' = [op |-> op, key |-> k, ret |-> ret]

With(k, v, at) ==
    live' = [data    |-> [live.data EXCEPT ![k] = v],
             expires |-> [live.expires EXCEPT ![k] = at]]

Has(k) == live.data[k] # None

After(seconds) == clock + seconds * TicksPerSecond

Init ==
    /\ live = [data |-> [k \in Keys |-> None], expires |-> [k \in Keys |-> None]]
    /\ clock = 0
    /\ answer = [op |-> "none", key |-> None, ret |-> None]

Put(k, v) == With(k, v, None) /\ Answer("set", k, None) /\ UNCHANGED clock

PutFor(k, v, seconds) ==
    /\ IF seconds > 0 THEN With(k, v, After(seconds)) ELSE With(k, None, None)
    /\ Answer("set", k, None)
    /\ UNCHANGED clock

Lookup(k) == Answer("get", k, live.data[k]) /\ UNCHANGED <<live, clock>>

Remove(k) ==
    /\ With(k, None, None)
    /\ Answer("delete", k, IF Has(k) THEN 1 ELSE 0)
    /\ UNCHANGED clock

Contains(k) ==
    /\ Answer("exists", k, IF Has(k) THEN 1 ELSE 0)
    /\ UNCHANGED <<live, clock>>

Limit(k, seconds) ==
    /\ UNCHANGED clock
    /\ IF Has(k) /\ seconds > 0
       THEN With(k, live.data[k], After(seconds)) /\ Answer("expire", k, 1)
       ELSE UNCHANGED live /\ Answer("expire", k, 0)

Remaining(k) ==
    /\ Answer("ttl", k,
              IF ~Has(k) THEN -2
              ELSE IF live.expires[k] = None THEN -1
              ELSE (live.expires[k] - clock) \div TicksPerSecond)
    /\ UNCHANGED <<live, clock>>

DeadlineOf(k) ==
    /\ Answer("deadline", k, live.expires[k])
    /\ UNCHANGED <<live, clock>>

\* The whole map is copied out.
CopyOut ==
    /\ answer' = [op |-> "snapshot", image |-> live]
    /\ UNCHANGED <<live, clock>>

\* Time passes and whatever falls due is gone.
Elapse ==
    /\ clock < MaxTime
    /\ clock' = clock + 1
    /\ LET due == {k \in Keys : live.expires[k] = clock'}
       IN  live' = [data    |-> [k \in Keys |-> IF k \in due THEN None ELSE live.data[k]],
                    expires |-> [k \in Keys |-> IF k \in due THEN None ELSE live.expires[k]]]
    /\ UNCHANGED answer

Next ==
    \/ \E k \in Keys :
          \/ Lookup(k) \/ Remove(k) \/ Contains(k) \/ Remaining(k) \/ DeadlineOf(k)
          \/ \E v \in Values : Put(k, v) \/ \E s \in Seconds : PutFor(k, v, s)
          \/ \E s \in Seconds : Limit(k, s)
    \/ CopyOut
    \/ Elapse

Spec == Init /\ [][Next]_vars

=============================================================================
