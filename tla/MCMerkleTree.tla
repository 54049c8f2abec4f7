---------------------------- MODULE MCMerkleTree ---------------------------
(* Leaf hashes spread over the range, and a few compression functions.  A  *)
(* tree starts empty, or with thirteen waiting leaves: from fourteen on an *)
(* insertion can end below the top.                                        *)
EXTENDS MerklePast

MCLeafHashes == {3000, 9000, 15000, 22000, 28000}
MCSalts == {29, 211, 733, 4099, 9001, 17449}
MCBegun == {<<>>,
            <<9000, 3000, 28000, 15000, 22000, 3000, 9000, 15000, 28000, 22000,
              15000, 9000, 3000>>}
MCEmpty == {<<>>}
MCLengths == (0 .. 4) \cup (13 .. 15)

=============================================================================
