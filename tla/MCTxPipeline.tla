---------------------------- MODULE MCTxPipeline ----------------------------
(* One or two callers that share an account. *)
EXTENDS TxPipeline, TLC

CONSTANTS c1, c2, o1, o2

MCTwoCallers == {c1, c2}
MCOneCaller == {c1}
MCOneObject == {o1}
MCTwoObjects == {o1, o2}
MCCallerSymmetry == Permutations(MCTwoCallers)
MCObjectSymmetry == Permutations(MCTwoObjects)

=============================================================================
