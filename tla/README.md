# Verification of eth-bls

eth-bls simulates a network of service nodes. Each node has a BLS key; a contract
on Ethereum keeps the list of registered keys and verifies aggregate signatures of
the nodes; a second contract pays rewards that are proved by a Merkle tree. This
directory holds TLA+ models of the program, the TLC configurations that check them
on small instances, and proofs of the main results that TLAPS checks.

## 1. The system

| Component | State | Operations | Interacts with |
|---|---|---|---|
| Registry contract, `hardhat/contracts/BLSValidators.sol` | `validators[]`, `_aggregate_pubkey` | `addValidator`, `addValidatorTest`, `clearValidators`; the checks `checkSigAGG`, `checkAggPubkey`, `checkSigAGGIndices`, `checkSigAGGNegateIndices` | called by transactions of the clients; calls the curve precompiles |
| Service node list, `src/service_node_list.cpp` | `nodes`, each with a secret key | `addNode`, `aggregatePubkeyHex`, `aggregateSignatures`, `aggregateSignaturesFromIndices`, `findNonSigners`, `randomSigners` | gives the client keys, indices and signatures |
| Registry client, `src/bls_validator_contract.cpp` | none | builds one `Transaction` per contract function | hands them to the Signer |
| Merkle tree, `include/eth-bls/merklecpp.h` | `_root`, `leaf_nodes`, `uninserted_leaf_nodes`, `num_flushed`, stacks | `insert`, `root`, `path`, `past_root`, `past_path`, `flush_to`, `retract_to`, copy, serialise | used by the creator |
| Merkle tree creator, `src/merkle_tree_creator.cpp` | a tree, the contract's address | `addLeaf(s)`, `getRoot`, `getPath`, `findIndex`, transaction builders | the tree; the reward contract by transactions |
| Reward contract, `hardhat/contracts/MerkleRewards.sol` | `rewardsMerkleRoot`, `rewardClaimed`, `rewardClaimedList` | `updateRewardsMerkleRoot`, `claimRewards`, `withdraw`, views | the token contract |
| Signer, `src/signer.cpp` | a client pointer, the secp256k1 context | `populateTransaction`, `signTransaction`, `sendTransaction`, key and address helpers | changes the `Transaction` it is given; the Provider |
| Provider, `src/provider.cpp` | URL and session | JSON-RPC requests; polling loops with timeouts | the Ethereum node |
| Transaction, `src/transaction.cpp` | the fields of an EIP-1559 transaction | `serialized`, `hash`, `raw` | filled in by the Signer |
| Encoding helpers, `src/utils.cpp`, `src/ec_utils.cpp` | none | hex, padding, hashing, integers to bytes, keys and signatures as text | everybody |
| BN256G2, `hardhat/contracts/BN256G2.sol` | none | arithmetic of the field of p² elements and of the twisted curve | the registry contract |
| Hashing to the curve, `hashToG2` and what it calls in `BLSValidators.sol`; `HashModulus` in `src/ec_utils.cpp` | none | a message becomes a point, once in the contract and once in the client | BN256G2; mcl |

What is hard about it:

* **Concurrency.** Clients compute indices and signatures from *their own* list, and
  the registry is whatever it is when the transaction is executed. Two callers of
  the same secret key fetch nonces that nobody reserves for them.
* **Cached state.** `_aggregate_pubkey` is never recomputed; a Merkle node has a
  hash only once `root()` has been called, but decides the order of its children
  before; `rewardClaimedList` is a second copy of what `rewardClaimed` says.
* **Failure.** A contract call reverts as a whole, and parts of the code rely on
  it. Every HTTP request may fail, and the node may have done its work when the
  answer is lost. A `Transaction` is left half filled in when a request throws.
* **Ordering and time.** Registrations have to be executed in the order of the
  list. `sendTransaction` polls the memory pool and gives up at some point; the
  transaction may turn up after that, when its owner has sent the next one.
* **Two implementations of one thing.** The client and the contract each hash a
  message to a point, encode an account, put arguments into words and take them
  out. A byte order, a mask or an offset that differs in one place fails for some
  inputs only.

What makes each part correct is stated in the properties of its module; section 3
says which, and `PROJECT.json` lists the hazards with the properties that cover them.

## 2. The modules and the code

| Module | Models | Built from |
|---|---|---|
| `BLSValidators` | the registry contract | |
| `SignedRegistry` | abstract specification of registry and clients | |
| `SigningRound` | clients with their node lists, and the registry | `INSTANCE` of `BLSValidators`; implements `SignedRegistry` |
| `MerkleTree` | merklecpp as the program uses it | |
| `MerklePast` | past roots and paths of a tree | extends `MerkleTree` |
| `MerkleUpkeep` | flushing, retracting, copying, writing a tree | over an `INSTANCE` of `MerkleTree` |
| `MerkleRewards` | the reward contract | |
| `RewardsRound` | the owner's program, the node and the reward contract | extends `MerkleRewards` and implements it |
| `TxPipeline` | Signer, Provider and the node | |
| `BN256G2`, `TwistGroup`, `HashToG2` | the curve library, the group it is to compute in, and its callers | `HashToG2` extends the first, `INSTANCE` of the second |
| `Encoding` | everything between arguments and bytes | |
| `MC...` | constants of the configurations | |
| `...Proofs` | theorems, see section 4 | the module they are about; those of `MerkleRewards` are in `RewardsRoundProofs` |
| `PowersOfTwo` | the powers of two, for shifts and masks | |
| `SetInduction` | induction over numbers and facts about the powers of two, for `MerkleTreeProofs`, `EncodingProofs` and `HashToG2Proofs` | extends `PowersOfTwo` |

A definition whose comment begins with "Variant" or "One digit short" or the like, next
to one of nearly the same name, is a mistake one could have made in it. No
specification uses it; `PROJECT.json` says which property each one violates.

### `BLSValidators`: the registry contract

`validators` is the array, `aggregate` is `_aggregate_pubkey`. One action per
function that changes storage: `addValidator`, `addValidatorTest`, `clearValidators`;
the checks are state predicates, true when the call does not revert.

*Curve points.* A point of G1 is written as the function from `Keys` to integers
that says how often each key occurs in it. Keys are random in a group of 2^254
elements, so that there is no relation between them, and two combinations are the
same point exactly when the multiplicities agree. `add`, `negate` and the pairing
check become sums, signs and equality. `OffCurve` stands for coordinates that are
not on the curve: the precompiles refuse them. `addValidator` pushes first and adds
afterwards, and a first key is not added to anything, so that a malformed key can
get in as the first. A `require` that fails takes back the whole call, so that a
reverting call is an action that is not enabled.

`seeded` is a history variable: `addValidatorTest` pushes keys without adding them
to the aggregate, so the aggregate is no longer that of the array. It is a helper of
the contract's tests; the properties of the aggregate are for registries without it.

### `SigningRound` and `SignedRegistry`: clients and the registry

`SigningRound` composes an `INSTANCE` of `BLSValidators` with `Clients`, processes
that own a `ServiceNodeList` (`nodes`) and send transactions. `pending[c]` holds those
that are not executed yet, in the order of their nonces. `SendAddValidator` is one turn
of the loop in `test/src/bls_validator_contract_test.cpp` that registers the nodes; the
four `SendCheck...` actions compute the arguments as the program does, from the
client's list *at that time*. `Execute` takes the first pending transaction of
some client and applies it to the registry; it may revert and leaves a receipt. A
check carries the list it was computed from (`roster`) and its signers, for the
properties only. `findNonSigners` and `randomSigners` answer sets listed in an
arbitrary order, since the contract adds up whatever it is given.

`SignedRegistry` says what this is for, with no points, sums, caches or transactions:
there are `members`, clients ask to join, to dismiss everybody, or for a check, and a
check succeeds exactly if the keys that signed are the members it names. It names them by positions, "only"
these, "all but" these, or "all"; `MeantBy` says which positions the client has in mind.
The refinement mapping in `SigningRound` takes `validators` for
`members`, the pending transactions for the requests and the receipt for the answer.
One thing is left open: an empty registry that is asked for "all but" may answer
either, because of the stale aggregate of section 3.

### `MerkleTree`, `MerklePast`: merklecpp

A tree is a record; the pointers of the code form a tree, so that values do. `root`,
`leaf_nodes`, `uninserted` and `insertion_stack` are the members of the class. `insert`,
`size` and `compute_root` are its operations, each with everything it calls:
the waiting leaves go in along the insertion stack, which `size()` leaves half
way and `compute_root` completes, sorts (`sort_subnodes`) and hashes from the bottom.
What the code does by recursion over the nodes (`hash`, `walk_to`, the ways down and up the stack) is a
recursive function on the nodes below a node, `NodesOf(n)`, or on the length of a list.
`path`, `verify`, `find_leaf_index` are operators of the
same names; `processProof` is what OpenZeppelin's `MerkleProof` does with a proof.
`MerklePast` adds `past_root` and `past_path`, which read a tree and change nothing. The three segments of
`past_path` are `PastPathFrom` (from the root to the fork, by level and node, since a level that a node does not reach is
skipped), `RawWalk(..., index)` and `RawWalk(..., as_of)` (from the fork to the two leaves, by the bits as they are);
`PathAtFork` puts them together.
A hash is a number, and the compression function mixes two numbers; since the
hashes decide by their order which children are exchanged, the runs start with
several compression functions (`salt`) so that many orders occur.

### `MerkleUpkeep`: flushing, retracting, copying, writing and reading

Over an `INSTANCE` of `MerkleTree`, with `num_flushed`: `flush_to`, `retract_to` (two actions, for an
index in the tree and for one among the waiting leaves), `copy` (assignment to another tree, which
goes on in its place), `reset` (assignment of an empty one), `serialise` of a segment or of
everything into `buffer`, and `deserialise`. `atOnce` of a buffer says that all leaves of the tree
were inserted before its first root. A flushed subtree is one node without
children. An entry of `leaf_nodes` is a pointer in the code and the hash of the leaf here;
`Intact` says that no entry is left without a leaf, and a tree for which it is false, in the
code one with dangling pointers, does nothing more. `Operations` says which of the
operations a run uses. `appended`, all leaves in their order, and `straight`, that no tree was
changed while it had exchanged children, are history variables.

### `MerkleRewards`: the reward contract

`updateRewardsMerkleRoot` with the whole reset loop, and `claimRewards`. A root is
the set of pairs it commits to. The token is external: `transfer` moves the
quantity or reports failure, and `claimRewards` does not look at the answer.
`ResetLimit` is the number of resets one transaction has gas for. `paid` is a
history variable.

### `RewardsRound`: owner, node, reward contract and accounts

A reward period from end to end, over `MerkleRewards`. The owner adds leaves, sends the
root in an update, waits for the memory pool and for the receipt, and starts over, with the same tree
or a new one; each wait may time out while the transaction is on its way. A
tree is the set of pairs it has leaves for: a proof of a pair is taken to be accepted
exactly if the published root was computed from it, which `ProofsConvinceContract` of
`MerkleTree` shows of trees that are grown at once, as the owner's are. An update is a
`Transaction` object of its own with one nonce; what happens to an object that is
sent twice is the subject of `TxPipeline`. Four history variables: `opened` counts, per address,
the published roots that list it, and `payments` its transfers; `given` is what `addLeaves` was given since
the tree was begun, and `granted` the nonces under which an address's pairs, so given, were sent.

The node keeps a pooled transaction until it is mined or supplanted. Were it to evict
one, the nonce of the evicted update would be given out again, and an update the owner
had given up could be executed after a later one.

### `TxPipeline`: Signer, Provider and the node

Several threads (`Callers`) send transactions of one account. A call of
`sendTransaction` is a sequence of requests with one action each (`FetchNonce`,
`CheckChain`, `FetchFee`, `Submit`, `Poll`, `AwaitReceipt`), so that the calls of two
threads interleave between any two requests. Every caller has a Provider of its own: a
Provider has one session that is used without a lock, and sharing it is a data race. `RequestFails` ends a call with an
exception and leaves the object as it is; the answer of `Submit` may be lost after
the node has accepted. The node is external: an accepted transaction is `relayed`,
then in the `pool` or dropped (`Relay`), then `mined` in the order of the nonces.
`sig` records what the signature covers: an object that is sent a second time
already has a signature, and `hash()` covers it, so that the new one is invalid.

### `BN256G2`, `TwistGroup`, `HashToG2`: the curve

`BN256G2` has the formulas of the source, function by function, on the same
representatives: coordinates that need not be reduced, projective points whose third
coordinate is zero in more than one way, and the modulus itself where the source leaves
it for zero. `TwistGroup` is what they are measured against, the field and the group
law from the textbook. Only the constants are smaller.

`HashToG2` makes calls of it: `hashToG2` from the hash to the point, candidate by
candidate in `mapToG2` and turn by turn in the loop of `_ECTwistMulJacobian`; `ECTwistMul`;
`ECTwistAdd` with its cases for the neutral element; and `rootFp2` on its own. Calls of the
EVM run alone, so that there is one call in a behaviour. A hash has two bytes where
the source has 32. `setArrayMask` is what the client does with the same bytes
(`HashModulus`, external: mcl); which of the two square roots mcl chooses is not
modelled.

### `Encoding`: from arguments to bytes and back

The path of one call: `Build...` writes the calldata, `populateTransaction` and
`signTransaction` fill in the object, `sendUncheckedTransaction` writes the text, and
`Execute` is what the node and the contract read out of it. A text is a sequence of
digits, with the prefix as two characters of its own. Words have their real 32 bytes, and RLP its real
thresholds. The reader of RLP and of the ABI is external and written from their rules,
not as an inverse of the writer; RLP refuses leading zeros and lengths that are not the
shortest, since nodes do. Functions that do not change the chain, `calcField` and `hash`,
are `Read...` actions. What the contract decodes is `ArgumentsOf`: the word at a parameter's place, the list where
that word says, the points of a signature with their coordinates the other way round.

Numbers are those of a `uint64_t`, of at most sixteen digits. The reader's numbers could be of any size, and TLC
has 32 bits: `NumberOf` stops at `TooLarge`, and all numbers from there on are one.

## 3. What is checked

Every configuration is one question. "States" are distinct states.

| Run | Instance | What it shows |
|---|---|---|
| `registry` | 3 keys, 4 members, seeds of 2, lists of 5 indices together | In every sequence of registrations, seedings and clears, the cached aggregate is the sum of the members (`AggregateMatches`), and subtracting one list of indices from it is adding up another if the two name every member once; if the keys differ, no other lists agree, such as those with an index twice (`NegateAgrees`); once a malformed key is the first, the registry does not grow by `addValidator` any more (`MalformedFirstKeyBlocks`). 2,639 states |
| `signing_two_clients` | 2 clients, 3 keys, lists of 2, one transaction each in flight | Clients and registry are a `SignedRegistry` (`ImplementsSignedRegistry`): whatever another client did to the registry in between, a check is accepted if and only if exactly the members it names have signed. 554,723 states |
| `signing_one_client` | 1 client, list of 3, three transactions in flight | The same with longer queues, clears and refills of its own, and every split of three members into signers and others; the registry has the nodes in list order (`ListOrderKept`). 210,546 states |
| `merkle_tree` | trees of up to 5 leaves and of 13 to 16, of 5 hashes, 3 batches, 6 compression functions | Wherever `size()` stops an insertion, completing the stack gives a well-formed tree (`StackCompletes`). Pairs are sorted however often leaves are added (`PairsSorted`). With all leaves inserted before the first root, every path verifies and its proof convinces the contract (`ProofsConvinceContract`). In trees without exchanged children `past_root` and `past_path` give what the smaller tree had (`PastOfStraightTree`). 768,296 states |
| `merkle_upkeep` | 5 leaves of 3 hashes, 2 batches, 2 compression functions, all operations | Where the trees that are changed have no exchanged children: every index that is not given up keeps its leaf and a path that verifies (`StraightPathsSurvive`), and the root is that of a new tree of the same leaves (`RootRemembers`). A tree that is written and read back has the root it had (`RoundTripKeepsRoot`) if it has no exchanged children, and with exchanged children if all its leaves were inserted before its first root. `retract_to` ends where its assertion says (`RetractedToLast`). 45,164 states |
| `rewards` | 3 addresses, quantities 1 and 2, 2 sets of data, 3 updates, gas for 2 resets | Updates are published in the order they were made, and a confirmed one is never undone by an earlier one (`ConfirmedUpdateStands`). One reward per address and root (`OneRewardPerRoot`); over all periods one for each nonce under which the address's pairs were sent, so that an update that is lost and sent again opens one claim and a period whose tree was begun anew none of the last (`PaymentsPerGrant`). An executed update succeeds exactly if its gas is enough for those that have claimed; once it is not, no root is published any more (`UpdatesUntilTooMany`). 3,256,110 states, up to the exchange of two addresses |
| `pipeline_two_callers` | 2 threads, 1 object each, 3 transactions | No gap in the nonces (`NoNonceGap`), nothing is executed twice however often it is retried (`ExecutedOnce`), a returned hash has its nonce taken (`ReturnedIsKnown`), a thread does not compete with itself (`OwnNoncesDiffer`). 4,458,697 states |
| `pipeline_one_caller` | 1 thread, 2 objects, also one set to another chain | Every call ends (`CallsEnd`); the nonce of a returned hash is used up in the end (`ReturnedIsMined`). 78,243 states |
| `hash_to_g2` | curve of the same family with p = 27631, 192 hashes, 7 points, 10 scalars, 35 arguments of the root | The contract begins with the same field element as the client, leaves no candidate out (`SearchInOrder`); imaginary parts stay where the source can subtract them from the modulus (`TypeOK`). The result is in the subgroup (`HashInSubgroup`). In every turn of the loop what is summed and what is left add up to the product (`LoopKeepsProduct`); sums, multiples and roots are those of the group, the neutral element and points that are each other's opposite included and of the candidates hashing takes the first that is the x of a point, as the client does (`AnswersRight`). Every call ends (`CallEnds`). 2,740 states |
| `encoding` | words with a high, a low and zero first bytes, 3 index lists, 3 paths, 3 fee settings, 3 signatures | What the contract reads is what the caller meant (`ArgumentsArrive`); the node puts together the payload that was signed and reads the signature as it was made (`SignedIsSent`); hashes computed on both sides are of the same bytes (`HashesAgree`). 1,528 states |

`TypeOK` (`RoundTypeOK`) of each module is checked in one of its runs.

The bounds. Four members of three keys include a key that is registered twice, a
registry that is cleared and filled anew, and every split into signers and
non-signers; lists of five indices together can name all four members and one of them twice.
One more key adds nothing new since keys are only compared. Two
clients with lists of two interleave in the registry in every order. Up to five leaves
make full, nearly full and lopsided trees with levels that a lone leaf skips; from fourteen
on an insertion can end below the top, which is where `size()` leaves something on
the stack, so that some trees begin with thirteen waiting leaves. In `MerkleUpkeep` 29
is a compression function under which many trees stay straight, those of five leaves with all but the
last one flushed among them, and 211 one that exchanges children; two batches let
leaves be added after each of the operations. A tree that was changed while it had
exchanged children is looked at once, written as a whole if it has not been flushed, and not used any
further. A buffer is read by the next step or
not at all, since reading replaces the whole tree. Three updates are one that is
given up, one that takes its place and one of the next period; three addresses and gas
for two resets let the reset loop run over an empty list and over a part of the addresses, and run out of gas over all of
them. Two of the addresses have the same data, and are interchangeable. Three transactions are
enough for two threads to fetch the same nonce and for one of them to go on; fees of 1
and 2 let a transaction supplant another. The hashes of `hash_to_g2` lie on both sides
of the mask and of the modulus, and among its points is one whose order divides the cofactor,
so that the loop meets the neutral element, equal points and opposite ones half way.
The words of `encoding` have their leading zeros (`TooLarge` is the largest number TLC has), the numbers their encodings as no byte, one byte,
a byte of 0x80 and several, and the calldata lengths on either side of RLP's thresholds.

Fairness. In `FairSpec` of `TxPipeline` a thread that is in a call takes its next step
(`WF` of `InCall(c)` for every caller), since every request ends, in an answer
or a failure, and the loops sleep for a fixed time; and blocks keep being produced
(`WF` of `Mine`). Nothing makes a caller send, a request succeed, or a
relayed transaction arrive. In `HashToG2` the call goes on (`WF` of `Next`): the EVM
executes it to its end, with as much gas as it takes. What `CallEnds` adds is that for each
of the hashes a candidate is found, and every loop is left.

Deadlock is checked except where a behaviour is over: a call of `HashToG2` or `Encoding` that has
returned, a tree of `MerkleUpkeep` that has used up its batches.

### Disagreements between code and documentation

Two runs show where the code does not do what a test or the README says:

* `signing_stale_aggregate`: `clearValidators` does not reset `_aggregate_pubkey`.
  On the empty registry `checkSigAGGNegateIndices` verifies against the sum of
  nodes that are no longer on the list.
* `merkle_incremental_paths`: with leaves added after a root was taken, `Node::make`
  and a second `sort_subnodes` exchange children in a way that `swapped` does not
  record, and `path` returns paths that do not verify. The test of `merklecpp`
  that expects this to work inserts all leaves first.

Others were met while modelling and have no run:

* The README speaks of a majority of the nodes. The contract counts nobody: a check by
  one member of many is accepted if it names that one.
* `retract_to` removes what is on the right of its walk (`merklecpp.h`, 915), and with
  exchanged children those are older leaves, whose indices are to stay valid (878-879).
  `flush_to` gives up what is on the left (862) in the same way. A copy lists the leaves from
  the left to the right, `serialise` writes the hashes on the left where `deserialise` expects
  one for every set bit of the number of flushed leaves, `past_root` takes elements on the left
  for older ones, and `past_path` does not look at `swapped`. All of these are from before the children were
  sorted, and are the reason for the conditions of `StraightPathsSurvive` and
  `PastOfStraightTree`. The program itself only lets a tree grow.
* `size()` of a tree of fourteen leaves or more may answer the size of a subtree
  (1502-1505), since it inserts the leaves without completing the insertion; an assignment
  after that loses leaves (963-985). `StackCompletes` says exactly when.
* `deserialise` decides anew which children to exchange (`merklecpp.h`, 1416). A tree with exchanged children
  that has grown after a root was taken may have kept an exchange that is not made again, and gets
  another root when it is written and read back. `RoundTripKeepsRoot` says nothing of such trees.
* The creator sends its updates with 300,000 gas (`merkle_tree_creator.cpp`, 76), which is enough for a few dozen
  resets of an address and its list entry. Once more addresses have claimed, every update fails, and the
  contract has no other way to empty the list. `UpdatesUntilTooMany` says exactly when.
* `claimRewards` marks the address and ignores what `transfer` answers (`MerkleRewards.sol`, 50-52): with a token
  that reports failure the address is marked and unpaid until the next root.
* An owner who gives up an update and makes another of the same tree may get a new nonce for it. If both are
  executed, everybody may claim twice, and likewise if the tree is kept for the next period. `PaymentsPerGrant`
  counts these payments, since nothing in the code prevents them.
* The move constructor of the tree leaves the other tree its `_root`.
* `hash` reads every input that begins with the bytes `0x` as hexadecimal text
  (`utils.cpp`, 64). `addressFromPrivateKey` passes raw bytes, so that one key in 65,536
  gets a wrong address.

## 4. What is proved

For every value of the constants, with TLAPS.

`BLSValidatorsProofs`. The invariant `IInv` is the conjunction of `TypeOK`, of
which `MalformedKeyOnlyFirst` is a part, and of the statement that the aggregate is, key by key, the
number of entries of the array with that key (or `OffCurve`, if the first entry is).
The former is needed for the latter: `addValidator` on a registry whose aggregate is
a point must not meet a malformed key. The lemmas say that appending a key counts
one more of it. From the invariant follow `RegistryTypes`,
`CachedAggregate` (`AggregateMatches`), `NegateVerifiesSigners` (`NegateAgrees`) and `MalformedBlocks`
(an action property). For `NegateVerifiesSigners` the positions that hold a key are taken apart into those the one list
names and those the other does, of which there are as many as entries if every member is named once
(`NamedOnceSplits`); and where keys differ, a sum tells how often each member is named (`MemberCount`). Assumed: `KeysAssumption`, that malformed coordinates are not
a key nor a point, and `BoundsAssumption`, that the bounds are numbers; the number
of members is bounded by any natural number.

`SigningRoundProofs`. That clients and registry implement `SignedRegistry`
(`RegistryImplementsSigned`). The invariant has four parts: types; where keys are (each
in one place of one list, asked for once and registered once, in the order of its list);
what a check in a queue carries (the sum of its signers, and the indices that go with them); and
that the aggregate has every member of a registry that is not empty exactly once. The
second part makes the sums sets: where every key occurs once, two sums are equal
exactly if the same keys are in them (`ChecksMean`), so that "the pairing holds" and "the members it
names are those that signed" are the same. For the check by non-signers this is a matter of
the difference of the aggregate and the sum of the named members. The refinement then
goes step by step: sending is `Ask`, executing is `Answer`, everything else a stutter.
`ListsKeepTheirOrder` and `ClientsKeepTypes` follow from the invariant. Assumed:
`ClientsAssumption`, that malformed coordinates are not a key nor a point, and that the bounds
are numbers.

`RewardsRoundProofs`, the contract alone. The invariant is `TypeOK`, `ListMatchesFlags` (the marked
addresses are those of the list, each once) and `OneRewardPerRoot`. Everybody who is marked is in the list, so
that the loop reaches everybody (`UpdatesReopen`); nobody marked can claim, so nobody
is paid twice for one root (`PaidOnce`). Assumed: addresses are finitely many,
quantities are positive.

`RewardsRoundProofs`, the composition. Every step of it is a step of the contract or leaves
it alone (`RoundImplementsContract`), so that the invariant of the contract holds in it. To
that comes what the owner and the node keep up: nonces never fall from one update to the
next, all below an update's are used or pooled, no two pooled updates have the same, and
what has been published has used its own. From these follows that updates are
published in order (`ConfirmedStands`): an older update with a smaller nonce must have
gone before. The payments to an address and one that is still due are together at most the
publications that list it, and every publication uses up a nonce of its own among those granted to the address, because
the tree of an update has the pairs given since it was begun and no others (`GrantsUsed`): this gives `PaidPerGrant`.
The list of those who have claimed has no repetitions, and is as long as they are many
(`ClaimantsCounted`), so that they decide whether the gas of an update is enough; and if it is not, the update
leaves them as they are (`UpdatesWhileAffordable`).

`TxPipelineProofs`. Any number of threads and objects. The invariant: objects are
jobs of their own, the node holds one transaction of a job at most and none of an
object that is not signed; blocks take the nonces in order; the taken nonces are those
below some k, and nothing relayed and no object is beyond k; and while a call goes on
with a nonce it fetched, its caller has not been returned one of that nonce. The count
the node answers is k: it is bounded, by the pigeonhole principle, because two nonces
that are taken belong to different jobs. `ReturnedKnown`, `NoncesWithoutGap`, `OwnNonces` and
`NothingTwice` follow. Assumed: `PipelineAssumption`, that fees and the chain id are
positive, and `NoObject` is not a transaction.

`RewardsTypes`, `FlagsListed` and `UpdatesReopen` are theorems without a
run: they hold for every instance, and the runs check what rests on them.

`MerkleTreeProofs`. Trees of any number of leaves, with any hashes, batches and calls of
`size()` in between. Invariants that rest on each other:

* The *shape*, `IInv` (`Invariant`). `IsTree` says of a node and all nodes below it that they are leaves
  or have two children, that sizes and heights follow from the children's, that none holds
  more nodes than its height allows, and that a node that is not dirty has the hash of its children, in
  order. Neither `TypeOK` nor the sizes are inductive on the root: an insertion ends in the
  middle, and what is kept up is that the elements of the stack and the root are trees (`StackOK`, `AtOK`)
  and that the tree one gets by *completing* the stack has `2c - 1` nodes, `c` being the length of `leaf_nodes`.
  From this follow `TypeCorrect`, `PairsAreSorted`, and the first two parts of `StackIsComplete`.
* The *order*, `OInv` (`LeafOrder`). `Fresh` says that no node has been hashed yet, so that all
  inner hashes are still zero and none but pairs of leaves are exchanged; `Regular` that every older child is full
  and one level lower than its node; `Listing` is the leaves from the oldest to the youngest. A
  tree that has not been hashed is fresh, regular and lists `leaf_nodes`; hashing it exchanges children and
  keeps the other two. What an insertion then does to a hashed tree is what the
  disagreement `merkle_incremental_paths` of section 3 is about, and the
  invariant does not cover it.
* The *walk*. In a regular tree the bits of an index lead to the leaf of that index
  (`WalkFinds`: the index is below the number of leaves, the older child takes the first half). In
  every computed tree, grown or not, a walk hashes up to the root in both ways, from side to side and
  with sorted pairs (`EveryWalkVerifies`, the property `WalksVerify`): after a tree has grown it is the leaf a path starts from that
  is wrong, not its elements. Together they give `ProofsConvince` (`ProofsConvinceContract`) and
  the last part of `StackIsComplete` (`StackCompletes`).
* The *past* (`PastIsRight`, the property `PastOfStraightTree`). In a straight tree, one without exchanged children, the
  order survives any number of batches: `SInv` (`StraightOrder`) is `OInv` for such trees, without a bound on the batches. The tree that `past_root`
  is compared with is built from nothing out of the first leaves (`TreeOfIs`), so that two trees of different shape have to be compared. `HasFirst(t, n, a)`
  says that a plain tree `t` (clean, regular, straight) lists the first `a + 1` leaves of a plain tree `n`. Then either these
  are in the left half of `n`, and `t` is such a tree of that half, or `t` has the same left half and, for its right half, such a tree of the
  right half of `n` (`FirstOfNode`; `OnePower`: a number is between one power of two and the next in one way only). By induction over the nodes the
  elements on the left hash to the root of `t` (`PlainShortened`); with `a` the last leaf, trees
  of the same leaves have the same hash (`SameHash`). By induction over the levels from the leaf (`PastLeads`), the path from a level and
  a node leads to the root of `t`: a level that the node does not reach changes nothing (`PastSkips`), and at
  a node both leaves are on the left, both are on the right, or the node is the fork (`PastNode`), where the other side is what `PlainShortened` says.

An induction over trees or numbers is stated of a set (`SetInduction`, `TreeInduction`, `NodeInduction`): a
set that has 0, and with a number the next one, has them all. The induction theorems of the
library take the statement as an operator, which the provers at hand cannot instantiate; in the set form
it is an instance of well-foundedness. Of each recursive function the existence is shown by such an induction,
and from then on only its law is used (`HashLaw`, `WalkLaw`, ...). Assumed: `HashAssumption` and
`BoundsAssumption`, that leaf hashes and multipliers are numbers below the modulus
and not zero, and that at least one batch may be hashed. That two compressions differ is assumed
nowhere: that nobody can make a proof of a leaf that is not there rests on the hash function and is not claimed.

`Invariant`, `LeafOrder`, `StraightOrder` and `EveryWalkVerifies` too are theorems without a run.

`EncodingProofs`. All calls, with any keys, signatures, hashes, indices, paths, amounts, fees and selectors. It is a chain of
statements that what one side writes the other side reads, from the digits upwards:

* *Digits and bytes.* `fromHexString` undoes `toHexString`, with the prefix and without (`HexBack`, `TextIs`), and
  texts of bytes that follow each other are the text of the bytes one after the other (`HexConcat`, `AddText`). A padded
  number is the text of its word (`PaddedIs`): the digits above its highest are zeros. Number to bytes and back is the identity, for
  the shortest form (`IntToBytesIs`) as for the word (`WordNumber`).
* *Calldata.* `Carries` says that bytes are a selector and so many words, `HasWord` that one of them is at a place.
  Appending keeps both (`AddList`), so that the decoder finds every word (`CallOf`), and a list where its offset
  says, if the offset is what the words before it need (`CallWithList`). For each function one lemma says which of
  these words its parameters are (`Given...`), and one that the client's text is such a call (`...IsCall`);
  the offsets 192 and 64, written by hand in the code, are right because the lists begin after six and two words.
* *RLP.* `Encodes` is what a form is the form of: a byte for itself, or a header and a body. The reader gets from a
  form, wherever it is, its kind, its body and the place behind it (`ReadsEncoded`), in the short and the long
  case, and its checks for the shortest form succeed. Forms that follow each other are therefore read as their
  bodies (`ItemsOf`), nine or twelve of them in a list as a transaction (`NodeReadsIs`, `SentIs`).
* *The steps.* `IInv` (`Invariant`): the data of a built or populated transaction is the text of the call
  that is meant (`IsCall`); once signed, `signed` has the payload of just these fields; once sent, `raw`
  is the serialisation of them with the signature, and what was received is what the node reads of that. None of the four
  properties is inductive, since they are about the end of a call only; each
  follows from `IInv` and the lemmas (`TypeCorrect`, `CallsArrive`, `SignatureArrives`, `HashesMeet`).

The readers recurse over the bytes; as with the tree, the recursion is unfolded once
(`NumberUnfolds`, `ItemsUnfold`, `FlattenUnfolds`), and what is said of all lengths is shown in the set form of induction.
Assumed: `ShapesAssumption`, that words have 32 bytes and addresses 20, and that the contract's functions
have selectors that differ; and `NumbersAssumption`, that numbers fit in 64 bits and are
below `TooLarge`, and that lists are short enough for the length of their calldata to be below it. The largest number the
program writes of itself is a gas limit of 30,004,000, so that `TooLarge` is above that.

`HashToG2Proofs`. Every prime with remainder 3 by 4, every width of a hash, every reduced input of a call.

* *The field element* (`SameFieldElement`). The contract masks the bytes of a hash in the order they came in, looks whether the
  word is still too large *when swapped*, and swaps; the client's library reads the bytes from the other end and cuts the
  number. `PrefixSplits` says what the first bytes of a word have to do with the word, and `ByteOfWord` that a shift
  and a mask cut a byte out, so that `byteSwap` reads the bytes from the other end (`SwapIs`). Masking the lowest byte is masking
  the last byte of the hash (`MaskIs`), which is the first once swapped, and that cuts bits from the
  top (`TopByteIs`). Cutting twice is cutting once (`CutTwice`). The result is below the modulus, since the
  second mask leaves no bit that the modulus does not have.
* *The bounds* (`FieldBounds`, the property `TypeOK`). `FIELD_MODULUS - x` occurs in `submod`, `_FQ2Inv`, `_FQ2Frobenius` and
  `FQ2Sqrt` and would revert if x were larger. Coordinates need not be reduced: `FQ2Inv` and the Frobenius map
  leave the modulus itself for zero. What is kept up is that a real part is a number and an imaginary part at
  most the modulus (`Bounded`); each operation on elements and on points has a lemma, and modular powers are
  unfolded once (`PowerUnfolds`).
* *The search* (`FirstCandidate`, the property `SearchInOrder`). With the field element and the types it is inductive.

Assumed: `FieldAssumption`, `WordAssumption` (the modulus has all the bits of a word but the spare ones) and
`CallsAssumption`, that callers pass reduced coordinates. That the modulus is a prime is assumed nowhere.

`SameFieldElement` is a theorem of an operator and has no run of its own; `SearchInOrder` rests on it.

Model-checked only: the properties of `MerkleUpkeep`, and of `HashToG2` what needs the
group: `LoopKeepsProduct`, `AnswersRight` and `HashInSubgroup`.
`MerkleUpkeep` is written with recursive operators, for which the proof system loses its
arithmetic; and it leaves the insertion stack out, which is right for trees of fewer than fourteen leaves only, so that a theorem
for every size would be one of another model. What would have to be proved is that flushing, retracting and reading keep
an order of leaves in straight trees. `LoopKeepsProduct`, `AnswersRight` and `HashInSubgroup` say that a chord-and-tangent formula is the
group law of a curve over the field of p² elements, associative and of a known order; that is arithmetic the
solvers do not do; `AnswersRight` says besides that what `FQ2Sqrt` finds no root of has none, for which one would have to prove
Fermat's theorem, an induction over data. Liveness
(`CallsEnd`, `ReturnedIsMined`, `CallEnds`), which the proof system does not support under
fairness, and ENABLED.

## 5. What is not modelled

* Libraries: secp256k1, mcl, cpr, and the hash functions under `src/crypto`, which are most of the
  lines of the repository. The program calls keccak only, and a hash is a value here.
* Gas, except for the reset loop of the rewards: the loops of the registry are as
  long as the registry.
* A Provider that two threads share. It has one session that is used without a lock.
* The parsing of what a node answers, and requests that change nothing
  (`getValidatorsLength`, balances, calls of views other than those in `Encoding`).
* The move constructor of the tree, and the serialisation of a single path.
* `_FQ2Div`, `_FQ2Pow` and `GetFieldModulus` of BN256G2 and `generateRandomString`, which the program
  does not use.
* `withdraw` of the reward contract: it moves ether only.
* `BLSStubb.sol`, `tmp.cpp`, the configuration and the build files: no behaviour of
  the program.

## 6. Plan

1. `MerkleUpkeep` with the insertion stack and as recursive functions on nodes like `MerkleTree`, and
   `SInv` for trees that are flushed and retracted.
2. Derivation of keys and addresses in `Encoding`, with a run for the prefix rule of
   `hash`.
3. Eviction from the memory pool in `RewardsRound`, with the order of updates as an
   assumption on the node instead of a part of the model.
4. The gas of the registry's loops as a bound on `checkSigAGG` and `clearValidators`,
   with the number of members up to which both can be executed.
5. The move constructor, with the two trees as two owners of one root.
