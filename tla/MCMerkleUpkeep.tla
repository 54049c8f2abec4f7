--------------------------- MODULE MCMerkleUpkeep ---------------------------
(* 29 is a compression function under which many trees stay straight, 211  *)
(* one under which children are exchanged.                                 *)
EXTENDS MerkleUpkeep

MCLeafHashes == {3000, 15000, 28000}
MCSalts == {29, 211}

=============================================================================
