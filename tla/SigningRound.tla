---------------------------- MODULE SigningRound ----------------------------
(***************************************************************************)
(* Clients of the registry contract.  A client is a process that owns a    *)
(* ServiceNodeList (src/service_node_list.cpp), registers its nodes, has   *)
(* some of them sign, and sends the aggregate signature for the contract   *)
(* to check through a BLSValidatorsContract (src/bls_validator_contract.cpp). *)
(* The contract is shared; a client works out indices and signatures from  *)
(* its own list, and the chain executes the transaction some time later.   *)
(*                                                                         *)
(* A client's transactions are executed in the order of their nonces, that *)
(* is in the order it sent them; those of two clients interleave freely.   *)
(* The clients of the source register well-formed keys and never call      *)
(* addValidatorTest, so that `seeded' stays FALSE here.                    *)
(***************************************************************************)
EXTENDS Integers, Sequences, FiniteSets, SequencesExt

CONSTANTS Keys, OffCurve, MaxValidators, MaxSeeded, MaxMultiplicity,
          Clients,
          MaxNodes,     \* bound: the length of a ServiceNodeList
          MaxPending    \* bound: transactions of one client not yet executed

ASSUME ClientsAssumption ==
    /\ OffCurve \notin Keys /\ OffCurve \notin [Keys -> Int]
    /\ MaxNodes \in Nat /\ MaxPending \in Nat

VARIABLES
    validators, aggregate, seeded,  \* the contract's storage
    nodes,    \* nodes[c]: the keys of c's ServiceNodeList, in order
    sent,     \* sent[c]: how many of them c has sent addValidator for
    pending,  \* pending[c]: c's transactions in the order of their nonces
    receipt   \* the status in the receipt of the transaction executed last

registryVars == <<validators, aggregate, seeded>>
clientVars == <<nodes, sent>>
vars == <<registryVars, clientVars, pending, receipt>>

Registry == INSTANCE BLSValidators WITH MaxNamed <- 0

-----------------------------------------------------------------------------
\* ServiceNodeList: what a list `list' of nodes computes for indices from 0.

\* The sum of the public keys (or signatures) of the nodes the list names.
SumOfNodes(list, indices) ==
    [k \in Keys |-> Cardinality({j \in DOMAIN indices : list[indices[j] + 1] = k})]

AllNodes(list) == [j \in 1 .. Len(list) |-> j - 1]

aggregatePubkey(list) == SumOfNodes(list, AllNodes(list))
aggregateSignatures(list) == SumOfNodes(list, AllNodes(list))
aggregateSignaturesFromIndices(list, indices) == SumOfNodes(list, indices)

\* Variant: the given indices are taken to count from 1.
findNonSignersFromOne(list, indices) ==
    SetToSeq({i \in 0 .. Len(list) - 1 : \A j \in DOMAIN indices : indices[j] # i + 1})

\* The indices of the list that are not among the given ones.  The contract adds
\* them up, so that nothing depends on their order.
findNonSigners(list, indices) ==
    SetToSeq({i \in 0 .. Len(list) - 1 : \A j \in DOMAIN indices : indices[j] # i})

\* randomSigners(n) returns n different indices of the list, in no order that
\* matters.
randomSigners(list, n) ==
    {SetToSeq(chosen) :
        chosen \in {S \in SUBSET (0 .. Len(list) - 1) : Cardinality(S) = n}}

-----------------------------------------------------------------------------
\* Transactions.  `roster' records the list the client computed them from.

AddTx(key) == [op |-> "add", key |-> key]
ClearTx == [op |-> "clear"]
CheckTx(op, sum, indices, signers, roster) ==
    [op |-> op, sum |-> sum, indices |-> indices,
     signers |-> signers, roster |-> roster]

\* The keys that signed; the registered keys at these indices.
SignerKeys(tx) == {tx.roster[tx.signers[j] + 1] : j \in DOMAIN tx.signers}
Members(indices) == {validators[indices[j] + 1] : j \in DOMAIN indices}

\* Whether the contract accepts a check in the state it is executed in.
Accepts(tx) ==
    \/ tx.op = "agg" /\ Registry!checkSigAGG(tx.sum)
    \/ tx.op = "pubkey" /\ Registry!checkAggPubkey(tx.sum)
    \/ tx.op = "indices" /\ Registry!checkSigAGGIndices(tx.sum, tx.indices)
    \/ tx.op = "negate" /\ Registry!checkSigAGGNegateIndices(tx.sum, tx.indices)

-----------------------------------------------------------------------------
Init ==
    /\ Registry!Init
    /\ nodes = [c \in Clients |-> <<>>]
    /\ sent = [c \in Clients |-> 0]
    /\ pending = [c \in Clients |-> <<>>]
    /\ receipt = "none"

\* A secret key nobody else has: SecretKey::init draws it at random.
Fresh(key) ==
    \A c \in Clients :
        /\ \A i \in DOMAIN nodes[c] : nodes[c][i] # key
        /\ \A i \in DOMAIN pending[c] :
              pending[c][i].op = "add" => pending[c][i].key # key
        /\ \A i \in DOMAIN validators : validators[i] # key

\* addNode, and one turn of the constructor's loop.
addNode(c) ==
    /\ Len(nodes[c]) < MaxNodes
    /\ \E key \in Keys :
          /\ Fresh(key)
          /\ nodes' = [nodes EXCEPT ![c] = Append(@, key)]
    /\ UNCHANGED <<registryVars, sent, pending, receipt>>

\* Variant: the new list goes on where the old one was.
NewListKeepingSent(c) ==
    /\ nodes[c] # <<>>
    /\ nodes' = [nodes EXCEPT ![c] = <<>>]
    /\ UNCHANGED <<registryVars, sent, pending, receipt>>

\* The process ends, or goes on with a list of its own making; what it sent
\* before is still in the mempool.
NewList(c) ==
    /\ nodes[c] # <<>>
    /\ nodes' = [nodes EXCEPT ![c] = <<>>]
    /\ sent' = [sent EXCEPT ![c] = 0]
    /\ UNCHANGED <<registryVars, pending, receipt>>

Send(c, tx) ==
    /\ Len(pending[c]) < MaxPending
    /\ pending' = [pending EXCEPT ![c] = Append(@, tx)]

\* Variant: the nodes are registered from the end of the list.
SendAddValidatorReversed(c) ==
    /\ sent[c] < Len(nodes[c])
    /\ Send(c, AddTx(nodes[c][Len(nodes[c]) - sent[c]]))
    /\ sent' = [sent EXCEPT ![c] = @ + 1]
    /\ UNCHANGED <<registryVars, nodes, receipt>>

\* The nodes are registered in the order of the list.
SendAddValidator(c) ==
    /\ sent[c] < Len(nodes[c])
    /\ Send(c, AddTx(nodes[c][sent[c] + 1]))
    /\ sent' = [sent EXCEPT ![c] = @ + 1]
    /\ UNCHANGED <<registryVars, nodes, receipt>>

SendClear(c) ==
    /\ Send(c, ClearTx)
    /\ UNCHANGED <<registryVars, clientVars, receipt>>

\* A client waits for the receipt of a check before it sends another one.
SendCheck(c, tx) ==
    /\ \A i \in DOMAIN pending[c] : pending[c][i].op \in {"add", "clear"}
    /\ Send(c, tx)
    /\ UNCHANGED <<registryVars, clientVars, receipt>>

SendCheckSigAGG(c) ==
    SendCheck(c, CheckTx("agg", aggregateSignatures(nodes[c]), <<>>,
                         AllNodes(nodes[c]), nodes[c]))

SendCheckAggPubkey(c) ==
    SendCheck(c, CheckTx("pubkey", aggregatePubkey(nodes[c]), <<>>,
                         AllNodes(nodes[c]), nodes[c]))

SendCheckSigAGGIndices(c) ==
    \E n \in 0 .. Len(nodes[c]) : \E signers \in randomSigners(nodes[c], n) :
        SendCheck(c, CheckTx("indices",
                             aggregateSignaturesFromIndices(nodes[c], signers),
                             signers, signers, nodes[c]))

SendCheckSigAGGNegateIndices(c) ==
    \E n \in 0 .. Len(nodes[c]) : \E signers \in randomSigners(nodes[c], n) :
        SendCheck(c, CheckTx("negate",
                             aggregateSignaturesFromIndices(nodes[c], signers),
                             findNonSigners(nodes[c], signers),
                             signers, nodes[c]))

\* A block takes c's next transaction.  A transaction that reverts changes no
\* storage, but it has a receipt and uses its nonce up.
ExecuteAdd(tx) ==
    /\ tx.op = "add"
    /\ \/ Registry!addValidator(tx.key) /\ receipt' = "success"
       \/ ~Registry!CanAdd(tx.key) /\ receipt' = "failure" /\ UNCHANGED registryVars

ExecuteClear(tx) ==
    /\ tx.op = "clear"
    /\ Registry!clearValidators
    /\ receipt' = "success"

ExecuteCheck(tx) ==
    /\ tx.op \notin {"add", "clear"}
    /\ receipt' = IF Accepts(tx) THEN "success" ELSE "failure"
    /\ UNCHANGED registryVars

Execute(c) ==
    /\ pending[c] # <<>>
    /\ LET tx == Head(pending[c]) IN
          ExecuteAdd(tx) \/ ExecuteClear(tx) \/ ExecuteCheck(tx)
    /\ pending' = [pending EXCEPT ![c] = Tail(@)]
    /\ UNCHANGED clientVars

Next ==
    \E c \in Clients :
        \/ addNode(c)
        \/ NewList(c)
        \/ SendAddValidator(c)
        \/ SendClear(c)
        \/ SendCheckSigAGG(c)
        \/ SendCheckAggPubkey(c)
        \/ SendCheckSigAGGIndices(c)
        \/ SendCheckSigAGGNegateIndices(c)
        \/ Execute(c)

Spec == Init /\ [][Next]_vars

-----------------------------------------------------------------------------
\* Properties.

\* The registry is well typed and every client's bookkeeping is in range.
TypeOK ==
    /\ Registry!TypeOK
    /\ nodes \in [Clients -> Seq(Keys)]
    /\ sent \in [Clients -> Nat]
    /\ \A c \in Clients : sent[c] <= Len(nodes[c]) /\ Len(pending[c]) <= MaxPending
    /\ receipt \in {"none", "success", "failure"}

\* The step executes a check of c and the contract gives this verdict.
Decides(c, status) ==
    /\ pending[c] # <<>> /\ pending'[c] = Tail(pending[c])
    /\ Head(pending[c]).op \notin {"add", "clear"}
    /\ receipt' = status

\* What a transaction asks for, in the terms of SignedRegistry.  The positions
\* are those the client means, not those its calls worked out.
KindOf ==
    [agg |-> "all", pubkey |-> "allOfSeveral", indices |-> "only", negate |-> "allBut"]

MeantBy(tx) ==
    LET signing == {tx.signers[j] : j \in DOMAIN tx.signers}
    IN  {i \in 0 .. Len(tx.roster) - 1 :
            \/ tx.op = "indices" /\ i \in signing
            \/ tx.op = "negate" /\ i \notin signing}

RequestOf(tx) ==
    IF tx.op = "add" THEN [kind |-> "join", key |-> tx.key]
    ELSE IF tx.op = "clear" THEN [kind |-> "dismiss"]
    ELSE [kind |-> KindOf[tx.op], positions |-> MeantBy(tx),
          signers |-> SignerKeys(tx)]

Abstract ==
    INSTANCE SignedRegistry
        WITH members <- validators,
             requests <- [c \in Clients |->
                             [i \in DOMAIN pending[c] |-> RequestOf(pending[c][i])]],
             verdict <- receipt

\* Whatever happened to the registry after a client worked out its indices -
\* cleared and refilled, shifted by another client's nodes - a check succeeds
\* if and only if the keys that signed are the members it names at the time
\* it is executed: sums of points, non-signers and the cached aggregate say
\* neither more nor less.  Only an empty registry is left out, whose aggregate
\* is that of the registry before.
ImplementsSignedRegistry == Abstract!Spec

\* A client's nodes are registered in the order of its list, whatever other
\* clients register in between: its indices can be shifted but not permuted.
ListOrderKept ==
    \A c \in Clients : \A i, j \in DOMAIN nodes[c] : \A p, q \in DOMAIN validators :
        i < j /\ validators[p] = nodes[c][i] /\ validators[q] = nodes[c][j] => p < q

\* Whoever signed an accepted check is a member of the registry (README.md: the
\* service nodes that sign are those of the list the contract maintains).
SignersAreMembers ==
    [][\A c \in Clients :
          Decides(c, "success") =>
              SignerKeys(Head(pending[c])) \subseteq Members(AllNodes(validators))]_vars

=============================================================================
