-------------------------- MODULE MCSigningRound ---------------------------
(* Three key pairs; two clients that interleave, or one with a longer queue. *)
EXTENDS SigningRound, TLC

CONSTANTS k1, k2, k3, c1, c2

MCKeys == {k1, k2, k3}
MCClients == {c1, c2}
MCOneClient == {c1}
MCKeySymmetry == Permutations(MCKeys)
MCSymmetry == Permutations(MCKeys) \cup Permutations(MCClients)

=============================================================================
