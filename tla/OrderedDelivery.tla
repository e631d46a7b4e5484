-------------------------- MODULE OrderedDelivery --------------------------
(***************************************************************************)
(* What the outbox promises to the consumers of its events, without rows,  *)
(* workers or clocks: an event is handed over only after it was committed, *)
(* several times perhaps but at most MaxAttempts times, and a payment      *)
(* event only after the invoice.issued events of the same invoice that     *)
(* were committed before it have been handled.                             *)
(***************************************************************************)
EXTENDS Naturals

CONSTANTS Events, MaxAttempts, Gate

VARIABLES
    rank,        \* commit order, 0 for an event that is not committed
    deliveries,  \* how often an event was handed over
    handled      \* some hand-over succeeded

dvars == <<rank, deliveries, handled>>

Init ==
    /\ rank = [e \in Events |-> 0]
    /\ deliveries = [e \in Events |-> 0]
    /\ handled = [e \in Events |-> FALSE]

(* Later commits rank higher; by how much is nobody's business. *)
Commit(e) ==
    /\ rank[e] = 0
    /\ rank' = [rank EXCEPT ![e] = rank'[e]]
    /\ rank'[e] \in Nat
    /\ \A f \in Events : rank[f] < rank'[e]
    /\ UNCHANGED <<deliveries, handled>>

Deliver(e, ok) ==
    /\ rank[e] > 0
    /\ deliveries[e] < MaxAttempts
    /\ \A i \in Gate[e] : 0 < rank[i] /\ rank[i] < rank[e] => handled[i]
    /\ deliveries' = [deliveries EXCEPT ![e] = @ + 1]
    /\ handled' = [handled EXCEPT ![e] = @ \/ ok]
    /\ UNCHANGED rank

Next == \E e \in Events : Commit(e) \/ \E ok \in BOOLEAN : Deliver(e, ok)

Spec == Init /\ [][Next]_dvars
=============================================================================
