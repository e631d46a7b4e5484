------------------------------ MODULE MCSePay ------------------------------
(* Instances of SePay for TLC. *)
EXTENDS SePay, TLC

CONSTANTS t1, t2, c1, c2, i1, d1, h1, h2, o1, k1

Prices == [s \in Sources |-> IF s \in Invoices THEN 2 ELSE 1]
SmallTransfers == [amount : {1, 2}, memo : {c1}, account : {TRUE}]
AnyTransfers == SmallTransfers \cup [amount : {1}, memo : {c1, None}, account : {TRUE, FALSE}]
Symmetry == Permutations(Transfers) \cup Permutations(Handlers)
=============================================================================
