----------------------------- MODULE TxPipeline -----------------------------
(***************************************************************************)
(* How a transaction gets from a Transaction object to the chain:          *)
(* Signer::sendTransaction (src/signer.cpp) fills in the object, signs it  *)
(* and hands it to Provider::sendTransaction (src/provider.cpp), which     *)
(* passes it to an Ethereum node and polls until the node knows it; the    *)
(* caller may then wait for the receipt.  Every request is a round trip in *)
(* which others may act, and any request may fail.                         *)
(*                                                                         *)
(* The callers are threads or processes that use one secret key, as the    *)
(* programs of test/src do.  The node is external: it accepts a            *)
(* transaction, which is relayed to the memory pool or lost on the way; a  *)
(* pooled one may be supplanted by one of the same nonce that pays more,   *)
(* and blocks take the pooled transactions of the account by nonce.        *)
(***************************************************************************)
EXTENDS Integers, Sequences, FiniteSets

CONSTANTS Callers,   \* the callers of Signer::sendTransaction
          Objects,   \* the Transaction variables each of them has
          NoObject,  \* a variable that holds no Transaction yet
          Chain,     \* the chain id of the network, not 0
          ChainIds,  \* what a caller may set tx.chainId to, 0 for unset
          Fees,      \* what getFeeData may answer, above 0
          MaxWaits,  \* the length of `timeouts' in Provider::sendTransaction (3)
          MaxJobs    \* bound: Transaction objects created in all

\* The fields of a Transaction that a call reads or sets.
TxRecords ==
    [job : 1 .. MaxJobs, nonce : Nat, chainId : Nat, maxFee : Nat,
     sig : {"empty", "valid", "invalid"}]

ASSUME PipelineAssumption ==
    /\ NoObject \notin TxRecords
    /\ Chain \in Nat \ {0} /\ ChainIds \subseteq Nat
    /\ Fees \subseteq Nat \ {0}
    /\ MaxWaits \in Nat /\ MaxJobs \in Nat

VARIABLES
    tx,        \* tx[c][o]: the Transaction object in c's variable o
    call,      \* call[c]: how far the call that c makes has come
    jobs,      \* how many objects have been created; each is a job
    relayed,   \* accepted by the node and not in the pool yet
    pool,      \* in the memory pool: known to eth_getTransactionByHash
    mined,     \* in a block, by nonce; mined[n + 1] has nonce n
    returned   \* history: [caller, tx, fresh] of the hashes sendTransaction
               \* returned, fresh if that call fetched the nonce

objectVars == <<tx, jobs>>
nodeVars == <<relayed, pool, mined>>
vars == <<objectVars, call, nodeVars, returned>>

-----------------------------------------------------------------------------
\* Transactions.  A signature is valid, or it was made over a serialisation
\* that had a signature in it, from which the node recovers another sender.

NewTx(job, chainId) ==
    [job |-> job, nonce |-> 0, chainId |-> chainId, maxFee |-> 0, sig |-> "empty"]

\* Variant: serialized() leaves the signature out whatever it is.
SignedAnew(t) == [t EXCEPT !.sig = "valid"]

\* hash() covers the signature an object already has.
Signed(t) == [t EXCEPT !.sig = IF t.sig = "empty" THEN "valid" ELSE "invalid"]

\* What identifies a transaction on the network: its hash.
Hashed(t) == [job |-> t.job, nonce |-> t.nonce, fee |-> t.maxFee]

-----------------------------------------------------------------------------
\* The node.

Mined == {mined[i] : i \in DOMAIN mined}
Known == pool \cup Mined
Taken(nonce) == \E t \in Known : t.nonce = nonce

\* eth_getTransactionCount(account, "pending").
PendingCount == CHOOSE n \in 0 .. MaxJobs + 1 :
    ~Taken(n) /\ \A m \in 0 .. n - 1 : Taken(m)

Outbids(t) == \A u \in pool : u.nonce = t.nonce => t.fee > u.fee

\* eth_sendRawTransaction answers with the hash.
NodeAccepts(t) ==
    /\ t.sig = "valid"
    /\ t.chainId = Chain
    /\ t.nonce >= Len(mined)
    /\ Hashed(t) \notin relayed \cup Known
    /\ Outbids(Hashed(t))

\* An accepted transaction reaches the pool, or it is dropped or lost.
Relay(t) ==
    /\ t \in relayed
    /\ relayed' = relayed \ {t}
    /\ \/ /\ t.nonce >= Len(mined) /\ Outbids(t)
          /\ pool' = {u \in pool : u.nonce # t.nonce} \cup {t}
       \/ UNCHANGED pool
    /\ UNCHANGED <<objectVars, call, mined, returned>>

Mine ==
    \E t \in pool :
        /\ t.nonce = Len(mined)
        /\ mined' = Append(mined, t)
        /\ pool' = pool \ {t}
        /\ UNCHANGED <<objectVars, call, relayed, returned>>

-----------------------------------------------------------------------------
\* A call.  `at' names the request that is under way, and "idle" that there is
\* no call; an exception ends the call and leaves the object as it is by then.

Idle == [at |-> "idle", object |-> NoObject, fresh |-> FALSE, waits |-> 0]

Init ==
    /\ tx = [c \in Callers |-> [o \in Objects |-> NoObject]]
    /\ call = [c \in Callers |-> Idle]
    /\ jobs = 0
    /\ relayed = {} /\ pool = {} /\ mined = <<>>
    /\ returned = {}

At(c, step) == call[c].at = step
Current(c) == tx[c][call[c].object]
SetCurrent(c, t) == tx' = [tx EXCEPT ![c][call[c].object] = t]
Proceed(c, step) == call' = [call EXCEPT ![c].at = step]
Throw(c) == call' = [call EXCEPT ![c] = Idle]

\* A caller makes a Transaction, and may set its chain id.
Create(c) ==
    /\ At(c, "idle")
    /\ jobs < MaxJobs
    /\ jobs' = jobs + 1
    /\ \E o \in Objects, chainId \in ChainIds :
          tx' = [tx EXCEPT ![c][o] = NewTx(jobs + 1, chainId)]
    /\ UNCHANGED <<call, nodeVars, returned>>

\* sendTransaction is called with an object, new or sent before.
Begin(c) ==
    /\ At(c, "idle")
    /\ \E o \in Objects :
          /\ tx[c][o] # NoObject
          /\ call' = [call EXCEPT ![c] = [Idle EXCEPT !.at = "nonce", !.object = o]]
    /\ UNCHANGED <<objectVars, nodeVars, returned>>

\* A request of populateTransaction fails: a status other than 200, or an error
\* in the answer.  A nonce that is set is not asked for.
RequestFails(c) ==
    /\ call[c].at \in {"nonce", "chain", "fee"}
    /\ At(c, "nonce") => Current(c).nonce = 0
    /\ Throw(c)
    /\ UNCHANGED <<objectVars, nodeVars, returned>>

\* Variant: the count is one too high.
FetchNonceAhead(c) ==
    /\ At(c, "nonce")
    /\ IF Current(c).nonce = 0
       THEN /\ SetCurrent(c, [Current(c) EXCEPT !.nonce = PendingCount + 1])
            /\ call' = [call EXCEPT ![c].at = "chain", ![c].fresh = TRUE]
       ELSE UNCHANGED tx /\ Proceed(c, "chain")
    /\ UNCHANGED <<jobs, nodeVars, returned>>

\* populateTransaction: the nonce, unless it is set; 0 counts as not set.
FetchNonce(c) ==
    /\ At(c, "nonce")
    /\ IF Current(c).nonce = 0
       THEN /\ SetCurrent(c, [Current(c) EXCEPT !.nonce = PendingCount])
            /\ call' = [call EXCEPT ![c].at = "chain", ![c].fresh = TRUE]
       ELSE UNCHANGED tx /\ Proceed(c, "chain")
    /\ UNCHANGED <<jobs, nodeVars, returned>>

\* The chain id of the network, or an exception if the object has another one.
CheckChain(c) ==
    /\ At(c, "chain")
    /\ \/ /\ Current(c).chainId \in {0, Chain}
          /\ SetCurrent(c, [Current(c) EXCEPT !.chainId = Chain])
          /\ Proceed(c, "fee")
       \/ /\ Current(c).chainId \notin {0, Chain}
          /\ Throw(c)
          /\ UNCHANGED tx
    /\ UNCHANGED <<jobs, nodeVars, returned>>

\* The fee, unless it is set.
FetchFee(c) ==
    /\ At(c, "fee")
    /\ \E fee \in Fees :
          SetCurrent(c, [Current(c) EXCEPT !.maxFee = IF @ = 0 THEN fee ELSE @])
    /\ Proceed(c, "submit")
    /\ UNCHANGED <<jobs, nodeVars, returned>>

\* Sign and send.  The request fails or the node refuses the transaction; or it
\* takes it, and the answer arrives or is lost, which is an exception too.  The
\* object is signed in any case.
Submit(c) ==
    /\ At(c, "submit")
    /\ LET t == Signed(Current(c)) IN
          /\ SetCurrent(c, t)
          /\ \/ UNCHANGED relayed /\ Throw(c)
             \/ /\ NodeAccepts(t)
                /\ relayed' = relayed \cup {Hashed(t)}
                /\ \/ call' = [call EXCEPT ![c].at = "poll", ![c].waits = MaxWaits]
                   \/ Throw(c)
    /\ UNCHANGED <<jobs, pool, mined, returned>>

Return(c) ==
    /\ returned' = returned \cup
          {[caller |-> c, tx |-> Hashed(Current(c)), fresh |-> call[c].fresh]}
    /\ Proceed(c, "receipt")

\* Variants: the hash is returned without a look at the pool; the waits are not
\* used up; or nobody asks whether there is a wait left.
PollUnchecked(c) ==
    /\ At(c, "poll")
    /\ Return(c)
    /\ UNCHANGED <<objectVars, nodeVars>>

PollForever(c) ==
    /\ At(c, "poll")
    /\ \/ Hashed(Current(c)) \in Known /\ Return(c)
       \/ Hashed(Current(c)) \notin Known /\ UNCHANGED <<call, returned>>
    /\ UNCHANGED <<objectVars, nodeVars>>

PollUnguarded(c) ==
    /\ At(c, "poll")
    /\ \/ Hashed(Current(c)) \in Known /\ Return(c)
       \/ call' = [call EXCEPT ![c].waits = @ - 1] /\ UNCHANGED returned
    /\ UNCHANGED <<objectVars, nodeVars>>

\* One turn of the loop of Provider::sendTransaction.  A failed request counts
\* as not known; an error in the answer is an exception.
Poll(c) ==
    /\ At(c, "poll")
    /\ \/ Hashed(Current(c)) \in Known /\ Return(c)
       \/ /\ call[c].waits > 0
          /\ call' = [call EXCEPT ![c].waits = @ - 1]
          /\ UNCHANGED returned
       \/ Throw(c) /\ UNCHANGED returned
    /\ UNCHANGED <<objectVars, nodeVars>>

\* waitForTransaction, transactionSuccessful or gasUsed: the transaction is in
\* a block, or the wait times out; a caller that waits for neither goes on.
AwaitReceipt(c) ==
    /\ At(c, "receipt")
    /\ Throw(c)
    /\ UNCHANGED <<objectVars, nodeVars, returned>>

InCall(c) ==
    \/ RequestFails(c)
    \/ FetchNonce(c)
    \/ CheckChain(c)
    \/ FetchFee(c)
    \/ Submit(c)
    \/ Poll(c)
    \/ AwaitReceipt(c)

Next ==
    \/ \E c \in Callers : Create(c) \/ Begin(c) \/ InCall(c)
    \/ \E t \in relayed : Relay(t)
    \/ Mine

Spec == Init /\ [][Next]_vars

\* A thread in a call goes on: every request ends, in an answer or a failure.
\* Blocks keep coming.
FairSpec ==
    /\ Spec
    /\ \A c \in Callers : WF_vars(InCall(c))
    /\ WF_vars(Mine)

-----------------------------------------------------------------------------
\* Properties.

Networked == [job : 1 .. MaxJobs, nonce : Nat, fee : Fees]

\* Objects, calls and what the node holds are well typed.
TypeOK ==
    /\ jobs \in 0 .. MaxJobs
    /\ \A c \in Callers, o \in Objects :
          tx[c][o] # NoObject =>
              /\ tx[c][o].job \in 1 .. jobs /\ tx[c][o].nonce \in Nat
              /\ tx[c][o].maxFee \in Fees \cup {0}
    /\ \A c \in Callers :
          /\ call[c].waits \in 0 .. MaxWaits
          /\ call[c].at # "idle" => tx[c][call[c].object] # NoObject
    /\ relayed \subseteq Networked /\ pool \subseteq Networked
    /\ mined \in Seq(Networked)

\* Provider::sendTransaction "will also check that it got into the mempool": a
\* hash it returned is that of a transaction whose nonce is now taken, by
\* itself or by one that supplanted it.
ReturnedIsKnown ==
    \A r \in returned : Taken(r.tx.nonce)

\* The nonces of the account leave no gap: none of its pooled transactions
\* waits for a nonce nobody has used, however the calls interleave and whatever
\* gets lost.
NoNonceGap ==
    \A t \in pool : \A n \in 0 .. t.nonce : Taken(n)

\* A caller that sends one transaction after the other never competes with
\* itself: two hashes it got from calls that fetched their nonces have
\* different nonces.  (Another caller of the same key may fetch the same one.)
OwnNoncesDiffer ==
    \A r, s \in returned :
        /\ r.caller = s.caller /\ r.fresh /\ s.fresh /\ r.tx # s.tx
        => r.tx.nonce # s.tx.nonce

\* However often sendTransaction is retried with one object, after a timeout or
\* a lost answer, the chain executes it at most once; the account's first
\* nonce, which is 0 and fetched again, is no exception.
ExecutedOnce ==
    \A i, j \in DOMAIN mined : mined[i].job = mined[j].job => i = j

\* Every call of sendTransaction returns or throws.
CallsEnd ==
    \A c \in Callers : ~At(c, "idle") ~> At(c, "idle")

\* The nonce of a returned hash is used up in a block: no transaction the pool
\* has shown stays there for ever.
ReturnedIsMined ==
    \A n \in 0 .. MaxJobs :
        (\E r \in returned : r.tx.nonce = n) ~> Len(mined) > n

=============================================================================
