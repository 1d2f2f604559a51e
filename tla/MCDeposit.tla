----------------------------- MODULE MCDeposit -----------------------------
(* Instances of DepositSettlement for TLC: every session is for one deal,   *)
(* which is where sessions and rows can be taken for one another.           *)
EXTENDS DepositSettlement, TLC

CONSTANT deal

OneDeal == [s \in Sessions |-> deal]
Symmetry == Permutations(Workers) \cup Permutations(Rows) \cup Permutations(Sessions)
            \cup Permutations(Endpoints)

=============================================================================
