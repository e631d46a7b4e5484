--------------------------- MODULE MCMonthlyClose ---------------------------
(* Instances of MonthlyClose for TLC. *)
EXTENDS MonthlyClose, TLC

CONSTANTS a, b, k1, k2

\* Two contracts share room a; room b is let whole to one after the other.
TwoRooms == [c \in Contracts |-> IF c <= 2 THEN a ELSE b]
Symmetry == Permutations(Closers)
=============================================================================
