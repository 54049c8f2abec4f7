-------------------------- MODULE MCRewardsRound ---------------------------
(* Three addresses, rewards of one or two tokens, three updates. *)
EXTENDS RewardsRound, TLC

CONSTANTS a1, a2, a3

MCAccounts == {a1, a2, a3}
MCFirstRoots == {{<<a1, 1>>}}
MCPeriods == {{<<a1, 2>>}, {<<a2, 1>>, <<a3, 1>>}}
MCSymmetry == Permutations({a2, a3})

=============================================================================
