--------------------------- MODULE MCProductStock ---------------------------
(* Small instances of ProductStock: a buyer wants one unit, or two.         *)
EXTENDS ProductStock, TLC

CONSTANTS Big, Small

Wants == [b \in Big \cup Small |-> IF b \in Big THEN 2 ELSE 1]
Symmetry == Permutations(Big)

=============================================================================
