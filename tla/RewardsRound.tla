---------------------------- MODULE RewardsRound ----------------------------
(***************************************************************************)
(* A reward period from end to end: the owner collects accounts in the     *)
(* tree of a MerkleTreeCreator (src/merkle_tree_creator.cpp), sends its    *)
(* root to the reward contract through Signer and Provider, waits for the  *)
(* receipt and starts over; accounts claim meanwhile.  Each wait of the    *)
(* owner may time out while the transaction is still on its way, and the   *)
(* owner may then send the next update, of the same root or another.       *)
(*                                                                         *)
(* An update is a Transaction object of its own, known by its place in     *)
(* `issued'.  What TxPipeline shows of one object is taken for granted: it *)
(* gets one nonce, and is executed once at most.  A proof of a pair is     *)
(* accepted exactly if the published root was computed from it, which      *)
(* MerkleTree shows of trees that are grown at once, as this owner's are.  *)
(***************************************************************************)
EXTENDS MerkleRewards

CONSTANTS FirstRoots,  \* what the root in the contract's source may commit to
          Periods,     \* the data of a period: pairs that addLeaves is given
          MaxUpdates   \* bound: the updates the owner makes

ASSUME RoundAssumption ==
    /\ FirstRoots \subseteq SUBSET Pairs /\ Periods \subseteq SUBSET Pairs
    /\ MaxUpdates \in Nat

VARIABLES
    tree,       \* the pairs the creator's tree has leaves for
    issued,     \* the owner's updates: the root and the nonce of each
    at,         \* how far the owner's last update has come in its program
    relayed,    \* updates a node was given, any of which may reach the pool
    pool,       \* updates in the memory pool
    nonce,      \* how many transactions of the owner have been executed
    published,  \* updates that have been executed with success, in order
    confirmed,  \* the last update whose success the owner was told of, or 0
    given,      \* history: what addLeaves was given since the tree was begun
    granted,    \* history: the nonces under which an address's pairs were sent
    opened,     \* history: the roots published that list an address
    payments    \* history: the transfers to an address

ownerVars == <<tree, issued, at, confirmed>>
nodeVars == <<relayed, pool, nonce, published>>
contractVars == vars
grantVars == <<given, granted>>
roundVars == <<ownerVars, nodeVars, contractVars, grantVars, opened, payments>>

-----------------------------------------------------------------------------
Lists(root, a) == \E quantity \in Quantities : <<a, quantity>> \in root

\* The root in the contract's source was sent under no nonce.
NoNonce == -1

RoundInit ==
    /\ Init
    /\ rewardsMerkleRoot \in FirstRoots
    /\ tree = {} /\ issued = <<>> /\ at = "idle" /\ confirmed = 0
    /\ relayed = {} /\ pool = {} /\ nonce = 0 /\ published = <<>>
    /\ given = {}
    /\ granted = [a \in Accounts |-> IF Lists(rewardsMerkleRoot, a) THEN {NoNonce} ELSE {}]
    /\ opened = [a \in Accounts |-> IF Lists(rewardsMerkleRoot, a) THEN 1 ELSE 0]
    /\ payments = [a \in Accounts |-> 0]

\* addLeaves: the tree only grows.
addLeaves(data) ==
    /\ at = "idle"
    /\ tree' = tree \cup data
    /\ given' = given \cup data
    /\ UNCHANGED <<issued, at, confirmed, nodeVars, contractVars, granted, opened, payments>>

\* Variant: the assignment leaves the leaves.
resetTreeKept ==
    /\ at = "idle"
    /\ given' = {}
    /\ UNCHANGED <<ownerVars, nodeVars, contractVars, granted, opened, payments>>

\* tree = {}: the next period's tree is a new one.
resetTree ==
    /\ at = "idle"
    /\ tree' = {}
    /\ given' = {}
    /\ UNCHANGED <<issued, at, confirmed, nodeVars, contractVars, granted, opened, payments>>

Taken(n) == n < nonce \/ \E i \in pool : issued[i].nonce = n

\* The first nonce that is neither used nor pooled: what
\* eth_getTransactionCount(account, "pending") answers.
PendingCount(n) == ~Taken(n) /\ \A m \in 0 .. n - 1 : Taken(m)

\* updateRewardsMerkleRoot builds the transaction with the root of the tree,
\* and throws if there is no leaf; then populateTransaction fetches the nonce.
issueUpdate ==
    /\ at = "idle"
    /\ Len(issued) < MaxUpdates
    /\ tree # {}
    /\ \E n \in 0 .. nonce + MaxUpdates :
          /\ PendingCount(n)
          /\ issued' = Append(issued, [root |-> tree, nonce |-> n])
          /\ granted' = [a \in Accounts |-> IF Lists(given, a) THEN granted[a] \cup {n}
                                            ELSE granted[a]]
    /\ at' = "submit"
    /\ UNCHANGED <<tree, confirmed, nodeVars, contractVars, given, opened, payments>>

\* eth_sendRawTransaction: refused or not delivered, or taken by the node; the
\* caller has the hash, or an exception whatever the node did.
submitUpdate ==
    /\ at = "submit"
    /\ \/ relayed' = relayed \cup {Len(issued)} /\ at' \in {"poll", "idle"}
       \/ at' = "idle" /\ UNCHANGED relayed
    /\ UNCHANGED <<tree, issued, confirmed, pool, nonce, published,
                   contractVars, grantVars, opened, payments>>

Executed(i) == issued[i].nonce < nonce

\* Provider::sendTransaction: the node knows the transaction, or time is up.
pollUpdate ==
    /\ at = "poll"
    /\ \/ /\ Len(issued) \in pool \/ Executed(Len(issued))
          /\ at' = "receipt"
       \/ at' = "idle"
    /\ UNCHANGED <<tree, issued, confirmed, nodeVars, contractVars, grantVars, opened,
                   payments>>

\* Variant: a transaction the node knows counts as one that has succeeded.
awaitReceiptKnown ==
    /\ at = "receipt"
    /\ at' = "idle"
    /\ confirmed' = Len(issued)
    /\ UNCHANGED <<tree, issued, nodeVars, contractVars, grantVars, opened, payments>>

\* transactionSuccessful: the receipt says that the update has succeeded; or it
\* says it has not, or time is up.
awaitReceipt ==
    /\ at = "receipt"
    /\ at' = "idle"
    /\ \/ /\ \E k \in DOMAIN published : published[k] = Len(issued)
          /\ confirmed' = Len(issued)
       \/ UNCHANGED confirmed
    /\ UNCHANGED <<tree, issued, nodeVars, contractVars, grantVars, opened, payments>>

\* What a node was given reaches the pool at any time, again if it has been
\* given to several, unless its nonce is used up by then; of two with the same
\* nonce the one that pays more stays, whichever that is.
relay(i) ==
    /\ i \in relayed
    /\ issued[i].nonce >= nonce
    /\ pool' = {j \in pool : issued[j].nonce # issued[i].nonce} \cup {i}
    /\ UNCHANGED <<ownerVars, relayed, nonce, published, contractVars, grantVars, opened,
                   payments>>

\* A block takes the owner's next update and executes it.  One that runs out of
\* gas in the reset loop fails and leaves the contract as it is.
executeUpdate(i) ==
    /\ i \in pool
    /\ issued[i].nonce = nonce
    /\ pool' = pool \ {i}
    /\ nonce' = nonce + 1
    /\ \/ /\ updateRewardsMerkleRoot(issued[i].root)
          /\ published' = Append(published, i)
          /\ opened' = [a \in Accounts |-> IF Lists(issued[i].root, a) THEN opened[a] + 1
                                           ELSE opened[a]]
       \/ /\ Len(rewardClaimedList) > ResetLimit
          /\ UNCHANGED <<published, contractVars, opened>>
    /\ UNCHANGED <<ownerVars, relayed, grantVars, payments>>

\* An account claims, with a proof from the tree of the published root.
claim(a, quantity) ==
    /\ claimRewards(a, quantity)
    /\ payments' = IF funds' # funds THEN [payments EXCEPT ![a] = @ + 1] ELSE payments
    /\ UNCHANGED <<ownerVars, nodeVars, grantVars, opened>>

deposit ==
    /\ Deposit
    /\ UNCHANGED <<ownerVars, nodeVars, grantVars, opened, payments>>

RoundNext ==
    \/ \E data \in Periods : addLeaves(data)
    \/ resetTree
    \/ issueUpdate
    \/ submitUpdate
    \/ pollUpdate
    \/ awaitReceipt
    \/ \E i \in relayed : relay(i)
    \/ \E i \in pool : executeUpdate(i)
    \/ \E a \in Accounts, quantity \in Quantities : claim(a, quantity)
    \/ deposit

RoundSpec == RoundInit /\ [][RoundNext]_roundVars

-----------------------------------------------------------------------------
\* Properties.

Issues == 1 .. Len(issued)
Updates == [root : SUBSET Pairs, nonce : Nat]

\* Contract, owner and node have their types.
RoundTypeOK ==
    /\ TypeOK
    /\ tree \subseteq Pairs /\ given \subseteq Pairs
    /\ granted \in [Accounts -> SUBSET (Nat \cup {NoNonce})]
    /\ issued \in Seq(Updates)
    /\ at \in {"idle", "submit", "poll", "receipt"}
    /\ at # "idle" => issued # <<>>
    /\ relayed \subseteq Issues /\ pool \subseteq Issues
    /\ nonce \in Nat
    /\ published \in Seq(Issues)
    /\ confirmed \in Nat
    /\ opened \in [Accounts -> Nat] /\ payments \in [Accounts -> Nat]

\* However updates are lost, late, or supplant each other, the contract gets
\* them in the order the owner made them in: what the owner was told has been
\* published is published still, or replaced by a later update, and never by an
\* earlier one the owner had given up.
ConfirmedUpdateStands ==
    /\ \A k \in DOMAIN published : \A l \in 1 .. k - 1 : published[l] < published[k]
    /\ confirmed # 0 =>
          published # <<>> /\ published[Len(published)] >= confirmed
    /\ published # <<>> => rewardsMerkleRoot = issued[published[Len(published)]].root

\* Over all periods an address is paid once at most for each root published that
\* lists it, and roots list it no more often than its pairs were sent: each nonce
\* under which the owner sent them, and the root the contract began with, is good
\* for one payment.  An update that is lost and sent again has the nonce of the
\* lost one, and the two open one claim; a period whose tree was begun anew lists
\* nobody of the last.  To be paid for the same pairs again an address needs the
\* tree to be sent under another nonce, after a timeout that came too early or as
\* the tree of another period; that the owner may do.
PaymentsPerGrant ==
    \A a \in Accounts :
        /\ payments[a] + (IF ~rewardClaimed[a] /\ Lists(rewardsMerkleRoot, a) THEN 1 ELSE 0)
              <= opened[a]
        /\ opened[a] <= Cardinality(granted[a])

\* The addresses that have claimed since the last root.
Claimants == {a \in Accounts : rewardClaimed[a]}

\* What the reset loop costs decides over every update that is executed: it takes
\* effect if the gas is enough for the different addresses that have claimed, and
\* fails if not.  Claims only add to those, so that once they are too many no root
\* is published any more.
UpdatesUntilTooMany ==
    [][/\ nonce' # nonce =>
             (published' # published <=> Cardinality(Claimants) <= ResetLimit)
       /\ Cardinality(Claimants) > ResetLimit =>
             Cardinality(Claimants') > ResetLimit]_roundVars

=============================================================================
