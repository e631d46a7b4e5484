--------------------------- MODULE MCDepositDesk ---------------------------
(* Instances of DepositDesk for TLC. *)
EXTENDS DepositDesk, TLC

CONSTANTS d1, d2, c1, r1, h1

OneSlot == [r \in Rooms |-> 1]
Symmetry == Permutations(Deposits)

(* Keys are numbered and used in order, as in MCDepositCore. *)
NextKey == {k \in Keys : k = Cardinality(DOMAIN op) + 1}
DeskNextInOrder == (\E k \in NextKey : DeskCommand(k)) \/ DeskUnkeyed
DeskSpecInOrder == DeskInit /\ [][DeskNextInOrder]_deskVars
=============================================================================
