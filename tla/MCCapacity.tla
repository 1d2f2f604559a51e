----------------------------- MODULE MCCapacity -----------------------------
(* Small instances of CapacityCounter: the referrals are interchangeable.   *)
EXTENDS CapacityCounter, TLC

Symmetry == Permutations(Referrals)
=============================================================================
