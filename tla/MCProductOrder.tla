--------------------------- MODULE MCProductOrder ---------------------------
(* Small instances of ProductOrder.                                         *)
EXTENDS ProductOrder, TLC

Symmetry == Permutations(Workers)

=============================================================================
