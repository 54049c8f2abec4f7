--------------------------- MODULE MerkleRewards ---------------------------
(***************************************************************************)
(* The reward contract hardhat/contracts/MerkleRewards.sol.  The owner     *)
(* publishes the root of a Merkle tree over (address, quantity) pairs; an  *)
(* address with a proof claims its quantity once per published root.       *)
(*                                                                         *)
(* A root is the set of pairs it commits to (hashes do not collide), and a *)
(* proof of a pair verifies against a root exactly if the pair is in it.   *)
(* A contract just deployed has a root written into the source: whatever   *)
(* it commits to.  The token is another contract; all that is assumed of   *)
(* transfer is that it moves the whole quantity or nothing, and it may     *)
(* report failure in the returned value, which claimRewards ignores.       *)
(***************************************************************************)
EXTENDS Integers, Sequences, FiniteSets

CONSTANTS Accounts,    \* the addresses that may claim
          Quantities,  \* the quantities of a reward
          ResetLimit,  \* entries the reset loop gets through before the gas
                       \* limit of updateRewardsMerkleRoot's sender
          MaxFunds     \* bound: the tokens the contract holds

Pairs == Accounts \X Quantities

\* An address has 160 bits.
ASSUME AccountsAssumption == IsFiniteSet(Accounts)
ASSUME QuantitiesAssumption == Quantities \subseteq Nat \ {0}
ASSUME LimitsAssumption == ResetLimit \in Nat /\ MaxFunds \in Nat

VARIABLES
    rewardsMerkleRoot,  \* the pairs the published root commits to
    rewardClaimed,      \* mapping(address => bool)
    rewardClaimedList,  \* address[]: whom to reset at the next root
    funds,              \* tokens of this contract in the token contract
    paid                \* history: tokens sent to an address for this root

vars == <<rewardsMerkleRoot, rewardClaimed, rewardClaimedList, funds, paid>>

Init ==
    /\ rewardsMerkleRoot \in SUBSET Pairs
    /\ rewardClaimed = [a \in Accounts |-> FALSE]
    /\ rewardClaimedList = <<>>
    /\ funds = 0
    /\ paid = [a \in Accounts |-> 0]

Listed(a) == \E i \in DOMAIN rewardClaimedList : rewardClaimedList[i] = a

\* Variants: the list is walked and kept; or walked from its second entry.
updateKeepingList(newRoot) ==
    /\ Len(rewardClaimedList) <= ResetLimit
    /\ rewardsMerkleRoot' = newRoot
    /\ rewardClaimed' = [a \in Accounts |-> IF Listed(a) THEN FALSE ELSE rewardClaimed[a]]
    /\ paid' = [a \in Accounts |-> 0]
    /\ UNCHANGED <<rewardClaimedList, funds>>

updateFromSecond(newRoot) ==
    /\ Len(rewardClaimedList) <= ResetLimit
    /\ rewardsMerkleRoot' = newRoot
    /\ rewardClaimed' =
          [a \in Accounts |->
              IF \E i \in DOMAIN rewardClaimedList : i > 1 /\ rewardClaimedList[i] = a
              THEN FALSE ELSE rewardClaimed[a]]
    /\ rewardClaimedList' = <<>>
    /\ paid' = [a \in Accounts |-> 0]
    /\ UNCHANGED funds

\* The owner publishes a root; resetRewardClaimed walks the list and empties it.
\* With too long a list the loop runs out of gas and the call reverts.
updateRewardsMerkleRoot(newRoot) ==
    /\ Len(rewardClaimedList) <= ResetLimit
    /\ rewardsMerkleRoot' = newRoot
    /\ rewardClaimed' = [a \in Accounts |-> IF Listed(a) THEN FALSE ELSE rewardClaimed[a]]
    /\ rewardClaimedList' = <<>>
    /\ paid' = [a \in Accounts |-> 0]
    /\ UNCHANGED funds

\* Variant: a token that does not look at the balance.
TransferUnbacked(a, quantity) ==
    /\ funds' = funds - quantity
    /\ paid' = [paid EXCEPT ![a] = @ + quantity]

\* token.transfer: the quantity is moved, or the token reports failure.
Transfer(a, quantity) ==
    \/ /\ funds >= quantity
       /\ funds' = funds - quantity
       /\ paid' = [paid EXCEPT ![a] = @ + quantity]
    \/ UNCHANGED <<funds, paid>>

\* Variant: an address that has claimed may claim again.
claimRewardsAgain(a, quantity) ==
    /\ <<a, quantity>> \in rewardsMerkleRoot
    /\ rewardClaimed' = [rewardClaimed EXCEPT ![a] = TRUE]
    /\ rewardClaimedList' = Append(rewardClaimedList, a)
    /\ Transfer(a, quantity)
    /\ UNCHANGED rewardsMerkleRoot

claimRewards(a, quantity) ==
    /\ ~rewardClaimed[a]
    /\ <<a, quantity>> \in rewardsMerkleRoot
    /\ rewardClaimed' = [rewardClaimed EXCEPT ![a] = TRUE]
    /\ rewardClaimedList' = Append(rewardClaimedList, a)
    /\ Transfer(a, quantity)
    /\ UNCHANGED rewardsMerkleRoot

\* Somebody sends the contract a token.
Deposit ==
    /\ funds < MaxFunds
    /\ funds' = funds + 1
    /\ UNCHANGED <<rewardsMerkleRoot, rewardClaimed, rewardClaimedList, paid>>

Next ==
    \/ \E newRoot \in SUBSET Pairs : updateRewardsMerkleRoot(newRoot)
    \/ \E a \in Accounts, quantity \in Quantities : claimRewards(a, quantity)
    \/ Deposit

Spec == Init /\ [][Next]_vars

-----------------------------------------------------------------------------
\* Properties.

\* Root, flags, list, funds and history have their types.
TypeOK ==
    /\ rewardsMerkleRoot \subseteq Pairs
    /\ rewardClaimed \in [Accounts -> BOOLEAN]
    /\ rewardClaimedList \in Seq(Accounts)
    /\ funds \in Nat
    /\ paid \in [Accounts -> Nat]

\* The list, which the reset loop walks, and the mapping, which claimRewards
\* asks, say the same: nobody is left marked when the list is emptied, and no
\* address is walked over twice.
ListMatchesFlags ==
    /\ \A a \in Accounts : rewardClaimed[a] <=> Listed(a)
    /\ \A i, j \in DOMAIN rewardClaimedList :
          rewardClaimedList[i] = rewardClaimedList[j] => i = j

\* For one published root an address is paid at most one of the quantities the
\* root lists for it, and whoever was paid is marked.
OneRewardPerRoot ==
    \A a \in Accounts :
        paid[a] # 0 => rewardClaimed[a] /\ <<a, paid[a]>> \in rewardsMerkleRoot

\* A new root gives every address it lists its claim back: right after the
\* update each listed pair can be claimed.
UpdateReopensClaims ==
    [][rewardsMerkleRoot' # rewardsMerkleRoot =>
          \A a \in Accounts : ~rewardClaimed'[a] /\ paid'[a] = 0]_vars

=============================================================================
