----------------------------- MODULE MCEncoding -----------------------------
EXTENDS Encoding

\* Words with a first byte of two digits, of one, and with none but zeros.
High == [i \in 1..32 |-> 255 - i]
Low  == [i \in 1..32 |-> IF i = 1 THEN 7 ELSE (16 * i) % 256]
Thin == [i \in 1..32 |-> IF i < 3 THEN 0 ELSE i]

Names == <<"addValidator", "clearValidators", "checkSigAGG", "checkAggPubkey",
           "checkSigAGGIndices", "checkSigAGGNegateIndices", "validateProofOfPossession",
           "calcField", "updateRewardsMerkleRoot", "validateProof", "hash">>
MCSelectors == [f \in {Names[i] : i \in DOMAIN Names} |->
    LET i == CHOOSE j \in DOMAIN Names : Names[j] = f IN <<i - 1, 15 * i, 0, 16>>]

MCAddresses == {[i \in 1..20 |-> 240 - i], [i \in 1..20 |-> IF i = 1 THEN 0 ELSE i]}
MCKeys == {[x |-> High, y |-> Thin], [x |-> Low, y |-> High]}
MCSignatures == {[xa |-> High, xb |-> Low, ya |-> Thin, yb |-> High],
                 [xa |-> Thin, xb |-> Low, ya |-> Low, yb |-> Thin]}
MCHashes == {High, Thin}
MCIndexLists == {<<>>, <<0>>, <<0, 9, 10, 15, 16, 255, 256>>}
MCProofs == {<<>>, <<Low>>, <<High, Thin, Low>>}
MCQuantities == {0, 10, 4096}
MCContract == [i \in 1..20 |-> IF i < 3 THEN 0 ELSE 11 * i]

\* Each number with an empty, a one-byte, a 0x80 and a longer encoding.
MCPopulations ==
    {[chainId |-> c, nonce |-> n, maxPriorityFeePerGas |-> p, maxFeePerGas |-> m] :
        <<c, n, p, m>> \in {<<1, 0, 0, 7>>, <<127, 128, 2147483646, 255>>, <<31337, 256, 1, 65535>>}}

MCSecp == {[r |-> High, s |-> Low, recid |-> 0], [r |-> Thin, s |-> High, recid |-> 1],
           [r |-> Low, s |-> Thin, recid |-> 1]}
=============================================================================
