-------------------------- MODULE ExactlyOnceImport --------------------------
(***************************************************************************)
(* What the postgres-postgres transform promises, without processes,       *)
(* locks, transactions or crashes.  A scope is one (import name, source    *)
(* content) pair, the namespace of the destination table.  The rows of a   *)
(* scope are delivered once each, in customer order, and a scope is        *)
(* announced as imported only when every row of its source is delivered.   *)
(* Truncating the workload tables is the only way back, and a scope that   *)
(* lost rows that way makes no promise any more.                           *)
(***************************************************************************)
EXTENDS Naturals

CONSTANTS Scopes,   \* the (import name, source content) pairs
          Total     \* [Scopes -> Nat], the number of source rows of a scope

VARIABLES delivered,   \* [Scopes -> SUBSET Nat], the customers delivered
          announced,   \* the scopes reported as completely imported
          wiped        \* the scopes that lost delivered rows to a reset

vars == <<delivered, announced, wiped>>

Init ==
    /\ delivered = [s \in Scopes |-> {}]
    /\ announced = {}
    /\ wiped = {}

\* The next rows of a scope become durable: never a gap, never a repetition.
Deliver(s) ==
    /\ s \notin wiped
    /\ \E lo, hi \in 0..Total[s] :
          /\ lo < hi
          /\ delivered[s] = 1..lo
          /\ delivered' = [delivered EXCEPT ![s] = 1..hi]
    /\ UNCHANGED <<announced, wiped>>

Announce(s) ==
    /\ s \notin wiped
    /\ delivered[s] = 1..Total[s]
    /\ announced' = announced \union {s}
    /\ UNCHANGED <<delivered, wiped>>

Wipe ==
    /\ delivered' = [s \in Scopes |-> {}]
    /\ wiped' = wiped \union {s \in Scopes : delivered[s] # {}}
    /\ announced' = announced \ wiped'

Next ==
    \/ \E s \in Scopes : Deliver(s) \/ Announce(s)
    \/ Wipe

Spec == Init /\ [][Next]_vars
=============================================================================
