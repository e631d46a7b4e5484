--------------------------- MODULE MCDepositCore ---------------------------
(* Instances of DepositCore for TLC. *)
EXTENDS DepositCore, TLC

CONSTANTS d1, d2, d3, c1, c2, c3, r1, r2, h1, h2, h3

MixedSlots == [r \in Rooms |-> IF r \in Whole THEN 1 ELSE 2]
Symmetry == Permutations(Deposits) \cup Permutations(Cycles) \cup Permutations(Holds)

(* Which key a command has makes no difference: keys are numbered and used *)
(* in order.                                                               *)
NextKey == {k \in Keys : k = Cardinality(DOMAIN op) + 1}
NextInOrder == (\E k \in NextKey : Command(k)) \/ Unkeyed
SpecInOrder == Init /\ [][NextInOrder]_vars
=============================================================================
