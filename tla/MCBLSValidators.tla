-------------------------- MODULE MCBLSValidators --------------------------
(* The registry with three key pairs and at most four members. *)
EXTENDS BLSValidators, TLC

CONSTANTS k1, k2, k3

MCKeys == {k1, k2, k3}
KeySymmetry == Permutations(MCKeys)

=============================================================================
