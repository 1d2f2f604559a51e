------------------------------ MODULE MCRefund ------------------------------
(* Small instances of RefundLedger: invocations are interchangeable.        *)
EXTENDS RefundLedger, TLC

Symmetry == Permutations(Workers)

=============================================================================
