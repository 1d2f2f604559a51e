--------------------------- MODULE MCDealLifecycle ---------------------------
(* Small instances of DealLifecycle. *)
EXTENDS DealLifecycle, TLC

Symmetry == Permutations(Workers) \cup Permutations(Sessions)

=============================================================================
