-------------------------- MODULE MCDepositOutbox --------------------------
(* Instances of DepositOutbox for TLC: one invoice with its issue event and *)
(* its payment event, and one deposit event.                                *)
EXTENDS DepositOutbox, TLC

CONSTANTS issued, paid, deposit, w1, w2, c1

InvoiceGate == [e \in Events |-> IF e = paid THEN {issued} ELSE {}]
InvoiceScope == {{issued, paid}}
Symmetry == Permutations({w1, w2})
=============================================================================
