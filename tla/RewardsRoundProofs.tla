------------------------- MODULE RewardsRoundProofs -------------------------
(***************************************************************************)
(* The reward contract for any set of addresses and quantities: marks and  *)
(* list agree, and nobody is paid twice for one root.  And a reward period *)
(* for any accounts, data and number of updates: the contract gets the     *)
(* updates in the order they were made in, pays an address no more often   *)
(* than its pairs were sent, and takes updates until too many have claimed.*)
(***************************************************************************)
EXTENDS RewardsRound, FiniteSetTheorems, FunctionTheorems, TLAPS

-----------------------------------------------------------------------------
\* The reward contract alone, whoever calls it.

\* The invariants of the runs are inductive together.
IInv == TypeOK /\ ListMatchesFlags /\ OneRewardPerRoot

\* A contract just deployed has nobody marked, listed or paid.
LEMMA InitIInv == Init => IInv
<1>1. <<>> \in Seq(Accounts) /\ DOMAIN <<>> = {}
  OBVIOUS
<1>2. QED BY <1>1 DEF Init, IInv, TypeOK, ListMatchesFlags, OneRewardPerRoot, Listed

\* Emptying the list unmarks everybody, because everybody marked is on it.
LEMMA Updating ==
    ASSUME IInv, NEW newRoot \in SUBSET Pairs, updateRewardsMerkleRoot(newRoot)
    PROVE  IInv'
<1>1. \A a \in Accounts : rewardClaimed'[a] = FALSE
  BY DEF updateRewardsMerkleRoot, IInv, TypeOK, ListMatchesFlags
<1>2. <<>> \in Seq(Accounts) /\ DOMAIN <<>> = {}
  OBVIOUS
<1>3. TypeOK'
  BY <1>2 DEF updateRewardsMerkleRoot, IInv, TypeOK
<1>4. ListMatchesFlags'
  BY <1>1, <1>2 DEF updateRewardsMerkleRoot, ListMatchesFlags, Listed
<1>5. OneRewardPerRoot'
  BY DEF updateRewardsMerkleRoot, OneRewardPerRoot
<1>6. QED BY <1>3, <1>4, <1>5 DEF IInv

\* A claim marks and lists an address that was neither, and pays it once.
LEMMA Claiming ==
    ASSUME IInv, NEW a \in Accounts, NEW quantity \in Quantities,
           claimRewards(a, quantity)
    PROVE  IInv'
<1>1. /\ rewardClaimed' = [rewardClaimed EXCEPT ![a] = TRUE]
      /\ rewardClaimedList' = Append(rewardClaimedList, a)
      /\ rewardsMerkleRoot' = rewardsMerkleRoot
      /\ ~rewardClaimed[a] /\ <<a, quantity>> \in rewardsMerkleRoot
  BY DEF claimRewards
<1>2. /\ rewardClaimed \in [Accounts -> BOOLEAN]
      /\ rewardClaimedList \in Seq(Accounts)
      /\ funds \in Nat /\ paid \in [Accounts -> Nat] /\ quantity \in Nat
  BY QuantitiesAssumption DEF IInv, TypeOK
<1>3. \/ /\ funds >= quantity /\ funds' = funds - quantity
         /\ paid' = [paid EXCEPT ![a] = @ + quantity]
      \/ funds' = funds /\ paid' = paid
  BY DEF claimRewards, Transfer
<1>4. /\ DOMAIN Append(rewardClaimedList, a) = 1 .. Len(rewardClaimedList) + 1
      /\ DOMAIN rewardClaimedList = 1 .. Len(rewardClaimedList)
      /\ \A i \in DOMAIN rewardClaimedList :
            Append(rewardClaimedList, a)[i] = rewardClaimedList[i]
      /\ Append(rewardClaimedList, a)[Len(rewardClaimedList) + 1] = a
      /\ Len(rewardClaimedList) \in Nat
  BY <1>2
<1>5. TypeOK'
  <2>1. funds' \in Nat /\ paid' \in [Accounts -> Nat]
    BY <1>2, <1>3
  <2>2. QED BY <1>1, <1>2, <2>1 DEF IInv, TypeOK
<1>6. ListMatchesFlags'
  <2>1. ASSUME NEW b \in Accounts
        PROVE  rewardClaimed'[b] <=> Listed(b)'
    <3>1. Listed(b)' <=> Listed(b) \/ b = a
      <4>1. Listed(b) => Listed(b)'
        BY <1>1, <1>4 DEF Listed
      <4>2. b = a => Listed(b)'
        BY <1>1, <1>4 DEF Listed
      <4>3. Listed(b)' => Listed(b) \/ b = a
        BY <1>1, <1>4 DEF Listed
      <4>4. QED BY <4>1, <4>2, <4>3
    <3>2. rewardClaimed'[b] <=> rewardClaimed[b] \/ b = a
      BY <1>1, <1>2
    <3>3. QED BY <3>1, <3>2 DEF IInv, ListMatchesFlags
  <2>2. ASSUME NEW i \in DOMAIN rewardClaimedList', NEW j \in DOMAIN rewardClaimedList',
               rewardClaimedList'[i] = rewardClaimedList'[j]
        PROVE  i = j
    <3>1. ~Listed(a)
      BY <1>1 DEF IInv, ListMatchesFlags
    <3>2. CASE i \in DOMAIN rewardClaimedList /\ j \in DOMAIN rewardClaimedList
      BY <1>1, <1>4, <2>2, <3>2 DEF IInv, ListMatchesFlags
    <3>3. CASE i = Len(rewardClaimedList) + 1 \/ j = Len(rewardClaimedList) + 1
      BY <1>1, <1>4, <2>2, <3>1, <3>3 DEF Listed
    <3>4. QED BY <1>1, <1>4, <3>2, <3>3
  <2>3. QED BY <2>1, <2>2 DEF ListMatchesFlags
<1>7. OneRewardPerRoot'
  <2>1. paid[a] = 0
    BY <1>1, <1>2 DEF IInv, OneRewardPerRoot
  <2>2. ASSUME NEW b \in Accounts, paid'[b] # 0
        PROVE  rewardClaimed'[b] /\ <<b, paid'[b]>> \in rewardsMerkleRoot'
    <3>1. CASE b = a
      <4>1. paid'[a] = quantity
        BY <1>2, <1>3, <2>1, <2>2, <3>1
      <4>2. rewardClaimed'[a]
        BY <1>1, <1>2
      <4>3. QED BY <1>1, <3>1, <4>1, <4>2
    <3>2. CASE b # a
      <4>1. paid'[b] = paid[b] /\ rewardClaimed'[b] = rewardClaimed[b]
        BY <1>1, <1>2, <1>3, <3>2
      <4>2. QED BY <1>1, <2>2, <4>1 DEF IInv, OneRewardPerRoot
    <3>3. QED BY <3>1, <3>2
  <2>3. QED BY <2>2 DEF OneRewardPerRoot
<1>8. QED BY <1>5, <1>6, <1>7 DEF IInv

\* Every call of the contract preserves the invariant.
LEMMA NextIInv == IInv /\ [Next]_vars => IInv'
<1>1. SUFFICES ASSUME IInv, [Next]_vars
               PROVE  IInv'
  OBVIOUS
<1>2. ASSUME NEW newRoot \in SUBSET Pairs, updateRewardsMerkleRoot(newRoot)
      PROVE  IInv'
  BY <1>1, <1>2, Updating
<1>3. ASSUME NEW a \in Accounts, NEW quantity \in Quantities, claimRewards(a, quantity)
      PROVE  IInv'
  BY <1>1, <1>3, Claiming
<1>4. CASE Deposit
  BY <1>1, <1>4 DEF Deposit, IInv, TypeOK, ListMatchesFlags, OneRewardPerRoot, Listed
<1>5. CASE UNCHANGED vars
  BY <1>1, <1>5 DEF vars, IInv, TypeOK, ListMatchesFlags, OneRewardPerRoot, Listed
<1>6. QED BY <1>1, <1>2, <1>3, <1>4, <1>5 DEF Next

\* Types, marks, list and payments are in order in every reachable state.
THEOREM RewardsInvariant == Spec => []IInv
  BY InitIInv, NextIInv, PTL DEF Spec

\* The contract's state keeps its types: no claim takes more than there is.
THEOREM RewardsTypes == Spec => []TypeOK
<1>1. IInv => TypeOK
  BY DEF IInv
<1>2. QED BY <1>1, RewardsInvariant, PTL

\* Marks and list agree in every reachable state, so a reset misses nobody.
THEOREM FlagsListed == Spec => []ListMatchesFlags
<1>1. IInv => ListMatchesFlags
  BY DEF IInv
<1>2. QED BY <1>1, RewardsInvariant, PTL

\* Nobody is paid twice for one published root, nor anything the root does not list.
THEOREM PaidOnce == Spec => []OneRewardPerRoot
<1>1. IInv => OneRewardPerRoot
  BY DEF IInv
<1>2. QED BY <1>1, RewardsInvariant, PTL

\* Every claimant is on the list, and once: the list is as long as they are many.
LEMMA ClaimantsCounted ==
    ASSUME IInv
    PROVE  /\ IsFiniteSet(Claimants)
           /\ Cardinality(Claimants) = Len(rewardClaimedList)
<1> DEFINE n == Len(rewardClaimedList)
<1>1. /\ n \in Nat
      /\ rewardClaimedList \in [1 .. n -> Accounts]
      /\ DOMAIN rewardClaimedList = 1 .. n
  BY DEF IInv, TypeOK
<1>2. \A i \in 1 .. n : rewardClaimedList[i] \in Claimants
  BY <1>1 DEF IInv, ListMatchesFlags, Listed, Claimants
<1>3. rewardClaimedList \in [1 .. n -> Claimants]
  BY <1>1, <1>2
<1>4. \A a \in Claimants : \E i \in 1 .. n : rewardClaimedList[i] = a
  BY <1>1 DEF IInv, ListMatchesFlags, Listed, Claimants
<1>5. rewardClaimedList \in Bijection(1 .. n, Claimants)
  BY <1>1, <1>3, <1>4, Fun_IsBij DEF IInv, ListMatchesFlags
<1>6. ExistsBijection(1 .. n, Claimants)
  BY <1>5 DEF ExistsBijection
<1>7. IsFiniteSet(1 .. n) /\ Cardinality(1 .. n) = n
  BY <1>1, FS_Interval
<1>8. QED BY <1>6, <1>7, FS_Bijection

\* Right after a new root nobody is marked and nobody has been paid for it.
THEOREM UpdatesReopen == Spec => UpdateReopensClaims
<1>1. IInv /\ [Next]_vars =>
         [rewardsMerkleRoot' # rewardsMerkleRoot =>
             \A a \in Accounts : ~rewardClaimed'[a] /\ paid'[a] = 0]_vars
  <2>1. SUFFICES ASSUME IInv, Next, rewardsMerkleRoot' # rewardsMerkleRoot,
                        NEW a \in Accounts
                 PROVE  ~rewardClaimed'[a] /\ paid'[a] = 0
    OBVIOUS
  <2>2. PICK newRoot \in SUBSET Pairs : updateRewardsMerkleRoot(newRoot)
    BY <2>1 DEF Next, claimRewards, Deposit
  <2>3. rewardClaimed'[a] = FALSE
    BY <2>1, <2>2 DEF updateRewardsMerkleRoot, IInv, TypeOK, ListMatchesFlags
  <2>4. paid'[a] = 0
    BY <2>2 DEF updateRewardsMerkleRoot
  <2>5. QED BY <2>3, <2>4
<1>2. QED BY <1>1, RewardsInvariant, PTL DEF Spec, UpdateReopensClaims

-----------------------------------------------------------------------------
\* The reward period.

\* Nonces never fall from one update to the next; all below an update's are
\* used or pooled; the pool has one transaction of each nonce, none of which is
\* used; and whatever has been published has used its own.
NoncesOrdered ==
    \A i, j \in Issues : i < j => issued[i].nonce <= issued[j].nonce
NoncesFilled ==
    \A i \in Issues : \A m \in Nat : m < issued[i].nonce => Taken(m)
PoolWaits ==
    /\ \A i \in pool : nonce <= issued[i].nonce
    /\ \A i, j \in pool : issued[i].nonce = issued[j].nonce => i = j
PublishedUsed ==
    \A k \in DOMAIN published : issued[published[k]].nonce < nonce

\* A root opens a claim and a claim makes one payment.
PaymentsPerPublication ==
    \A a \in Accounts :
        payments[a] + (IF ~rewardClaimed[a] /\ Lists(rewardsMerkleRoot, a) THEN 1 ELSE 0)
            <= opened[a]

\* The tree has what it was given; whoever an update lists has its nonce among
\* those granted; and of these every root published has used up one.
UsedOf(a) == {n \in granted[a] : n < nonce}
GrantsUsed ==
    /\ given = tree
    /\ \A a \in Accounts : IsFiniteSet(granted[a])
    /\ \A i \in Issues : \A a \in Accounts :
          Lists(issued[i].root, a) => issued[i].nonce \in granted[a]
    /\ \A a \in Accounts : opened[a] <= Cardinality(UsedOf(a))

RoundIInv ==
    /\ IInv
    /\ RoundTypeOK
    /\ NoncesOrdered /\ NoncesFilled /\ PoolWaits /\ PublishedUsed
    /\ ConfirmedUpdateStands
    /\ PaymentsPerPublication
    /\ GrantsUsed

-----------------------------------------------------------------------------
\* An update has a root and a nonce.
LEMMA IssuedTyped ==
    ASSUME RoundTypeOK
    PROVE  /\ Len(issued) \in Nat
           /\ DOMAIN issued = Issues
           /\ \A i \in Issues : issued[i].nonce \in Nat /\ issued[i].root \in SUBSET Pairs
           /\ DOMAIN published = 1 .. Len(published) /\ Len(published) \in Nat
           /\ \A k \in DOMAIN published : published[k] \in Issues
<1>1. issued \in Seq(Updates) /\ published \in Seq(Issues)
  BY DEF RoundTypeOK
<1>2. \A i \in Issues : issued[i] \in Updates
  BY <1>1 DEF Issues
<1>3. Len(issued) \in Nat /\ DOMAIN issued = Issues
  BY <1>1 DEF Issues
<1>4. /\ DOMAIN published = 1 .. Len(published) /\ Len(published) \in Nat
      /\ \A k \in DOMAIN published : published[k] \in Issues
  BY <1>1
<1>5. QED BY <1>2, <1>3, <1>4 DEF Updates

\* The contract's part of every step is a step of the contract.
LEMMA ContractStep == RoundIInv /\ [RoundNext]_roundVars => [Next]_vars
<1>1. SUFFICES ASSUME RoundIInv, [RoundNext]_roundVars
               PROVE  [Next]_vars
  OBVIOUS
<1>2. ASSUME NEW i \in pool, executeUpdate(i)
      PROVE  [Next]_vars
  <2>1. issued[i].root \in SUBSET Pairs
    BY <1>1, IssuedTyped DEF RoundIInv, RoundTypeOK
  <2>2. QED BY <1>2, <2>1 DEF executeUpdate, Next, contractVars
<1>3. ASSUME NEW a \in Accounts, NEW quantity \in Quantities, claim(a, quantity)
      PROVE  [Next]_vars
  BY <1>3 DEF claim, Next
<1>4. QED
  BY <1>1, <1>2, <1>3
  DEF RoundNext, addLeaves, resetTree, issueUpdate, submitUpdate, pollUpdate,
      awaitReceipt, relay, deposit, Next, contractVars, roundVars

\* A contract just deployed has published nothing but its first root.
LEMMA InitRound == RoundInit => RoundIInv
<1>1. SUFFICES ASSUME RoundInit PROVE RoundIInv
  OBVIOUS
<1>2. IInv
  BY <1>1, InitIInv DEF RoundInit
<1>3. /\ <<>> \in Seq(Updates) /\ <<>> \in Seq(Issues)
      /\ Len(<<>>) = 0 /\ DOMAIN <<>> = {}
  OBVIOUS
<1>4. RoundTypeOK
  <2>1. TypeOK
    BY <1>2 DEF IInv
  <2>2. /\ opened \in [Accounts -> Nat] /\ payments \in [Accounts -> Nat]
        /\ granted \in [Accounts -> SUBSET (Nat \cup {NoNonce})]
    BY <1>1 DEF RoundInit
  <2>3. QED BY <1>1, <1>3, <2>1, <2>2 DEF RoundInit, RoundTypeOK
<1>5. NoncesOrdered /\ NoncesFilled /\ PoolWaits /\ PublishedUsed
  BY <1>1, <1>3
  DEF RoundInit, NoncesOrdered, NoncesFilled, PoolWaits, PublishedUsed, Issues
<1>6. ConfirmedUpdateStands
  BY <1>1, <1>3 DEF RoundInit, ConfirmedUpdateStands
<1>7. PaymentsPerPublication
  BY <1>1 DEF RoundInit, Init, PaymentsPerPublication
<1>8. GrantsUsed
  <2>1. ASSUME NEW a \in Accounts
        PROVE  IsFiniteSet(granted[a]) /\ opened[a] <= Cardinality(UsedOf(a))
    <3>1. CASE Lists(rewardsMerkleRoot, a)
      <4>1. granted[a] = {NoNonce} /\ opened[a] = 1 /\ nonce = 0
        BY <1>1, <3>1 DEF RoundInit
      <4>2. UsedOf(a) = {NoNonce}
        BY <4>1 DEF UsedOf, NoNonce
      <4>3. IsFiniteSet({NoNonce}) /\ Cardinality({NoNonce}) = 1
        BY FS_Singleton
      <4>4. QED BY <4>1, <4>2, <4>3
    <3>2. CASE ~Lists(rewardsMerkleRoot, a)
      <4>1. granted[a] = {} /\ opened[a] = 0
        BY <1>1, <3>2 DEF RoundInit
      <4>2. UsedOf(a) = {}
        BY <4>1 DEF UsedOf
      <4>3. QED BY <4>1, <4>2, FS_EmptySet
    <3>3. QED BY <3>1, <3>2
  <2>2. given = tree /\ Issues = {}
    BY <1>1, <1>3 DEF RoundInit, Issues
  <2>3. QED BY <2>1, <2>2 DEF GrantsUsed
<1>9. QED BY <1>2, <1>4, <1>5, <1>6, <1>7, <1>8 DEF RoundIInv

-----------------------------------------------------------------------------
\* The nonces granted to an address, and those of them that are used, are finite
\* sets, the second the smaller one.
LEMMA UsedFinite ==
    ASSUME GrantsUsed, NEW a \in Accounts
    PROVE  /\ IsFiniteSet(granted[a]) /\ IsFiniteSet(UsedOf(a))
           /\ Cardinality(UsedOf(a)) \in Nat /\ Cardinality(granted[a]) \in Nat
           /\ Cardinality(UsedOf(a)) <= Cardinality(granted[a])
<1>1. IsFiniteSet(granted[a]) /\ UsedOf(a) \in SUBSET granted[a]
  BY DEF GrantsUsed, UsedOf
<1>2. QED BY <1>1, FS_Subset, FS_CardinalityType

\* Payments are covered by publications, and those by nonces granted.
LEMMA PaymentsCovered == RoundIInv => PaymentsPerGrant
<1>1. SUFFICES ASSUME RoundIInv, NEW a \in Accounts
               PROVE  opened[a] <= Cardinality(granted[a])
  BY DEF RoundIInv, PaymentsPerPublication, PaymentsPerGrant
<1>2. /\ opened[a] \in Nat /\ opened[a] <= Cardinality(UsedOf(a))
      /\ GrantsUsed
  BY <1>1 DEF RoundIInv, RoundTypeOK, GrantsUsed
<1>3. QED BY <1>2, UsedFinite

\* A new update has a nonce no lower than any before, since those below the one
\* fetched are taken and it is not.
LEMMA Issuing ==
    ASSUME RoundIInv, IInv', issueUpdate
    PROVE  RoundIInv'
<1>1. PICK n \in 0 .. nonce + MaxUpdates :
         /\ PendingCount(n) /\ issued' = Append(issued, [root |-> tree, nonce |-> n])
         /\ granted' = [a \in Accounts |-> IF Lists(given, a) THEN granted[a] \cup {n}
                                            ELSE granted[a]]
  BY DEF issueUpdate
<1> DEFINE new == [root |-> tree, nonce |-> n]
           len == Len(issued)
<1>2. n \in Nat /\ RoundTypeOK /\ nonce \in Nat
  BY RoundAssumption DEF RoundIInv, RoundTypeOK
<1>3. /\ new \in Updates /\ new.nonce = n /\ new.root = tree
  BY <1>2 DEF RoundTypeOK, Updates
<1>4. /\ len \in Nat /\ Issues = 1 .. len /\ Issues' = 1 .. len + 1
      /\ issued' \in Seq(Updates) /\ issued' # <<>>
      /\ \A i \in 1 .. len : issued'[i] = issued[i]
      /\ \A i \in 1 .. len : issued[i].nonce \in Nat
      /\ issued'[len + 1] = new
  <2>1. issued \in Seq(Updates)
    BY <1>2 DEF RoundTypeOK
  <2>2. /\ Append(issued, new) \in Seq(Updates)
        /\ Len(Append(issued, new)) = len + 1
        /\ \A i \in 1 .. len : Append(issued, new)[i] = issued[i]
        /\ Append(issued, new)[len + 1] = new
        /\ len \in Nat
    BY <1>3, <2>1
  <2>3. issued' = Append(issued, new)
    BY <1>1
  <2>4. Append(issued, new) # <<>>
    BY <2>2
  <2>5. \A i \in 1 .. len : issued[i].nonce \in Nat
    BY <1>2, IssuedTyped DEF Issues
  <2>6. Issues = 1 .. len /\ Issues' = 1 .. len + 1
    BY <2>2, <2>3 DEF Issues
  <2>7. QED BY <2>2, <2>3, <2>4, <2>5, <2>6
<1>5. /\ tree' = tree /\ given' = given /\ confirmed' = confirmed /\ at' = "submit"
      /\ relayed' = relayed /\ pool' = pool /\ nonce' = nonce /\ published' = published
      /\ opened' = opened /\ payments' = payments
      /\ rewardsMerkleRoot' = rewardsMerkleRoot /\ rewardClaimed' = rewardClaimed
  BY DEF issueUpdate, nodeVars, contractVars, vars
<1>6. RoundTypeOK'
  <2>1. published' \in Seq(Issues')
    BY <1>2, <1>4, <1>5 DEF RoundTypeOK
  <2>2. relayed' \subseteq Issues' /\ pool' \subseteq Issues'
    BY <1>2, <1>4, <1>5 DEF RoundTypeOK
  <2>3. granted' \in [Accounts -> SUBSET (Nat \cup {NoNonce})]
    BY <1>1, <1>2 DEF RoundTypeOK
  <2>4. QED BY <1>2, <1>4, <1>5, <2>1, <2>2, <2>3 DEF RoundTypeOK, IInv
<1>7. \A m : Taken(m)' <=> Taken(m)
  BY <1>2, <1>4, <1>5 DEF Taken, RoundTypeOK
<1>8. \A i \in 1 .. len : issued[i].nonce <= n
  <2>1. SUFFICES ASSUME NEW i \in 1 .. len, n < issued[i].nonce
                 PROVE  FALSE
    BY <1>2, <1>4 DEF Updates
  <2>2. Taken(n)
    BY <1>2, <1>4, <2>1 DEF RoundIInv, NoncesFilled
  <2>3. QED BY <1>1, <2>2 DEF PendingCount
<1>9. NoncesOrdered'
  <2>1. SUFFICES ASSUME NEW i \in Issues', NEW j \in Issues', i < j
                 PROVE  issued'[i].nonce <= issued'[j].nonce
    BY DEF NoncesOrdered
  <2>2. CASE j = len + 1
    <3>1. i \in 1 .. len /\ issued'[i] = issued[i] /\ issued'[j] = new
      BY <1>4, <2>1, <2>2
    <3>2. QED BY <1>3, <1>8, <3>1
  <2>3. CASE j \in 1 .. len
    BY <1>4, <2>1, <2>3 DEF RoundIInv, NoncesOrdered
  <2>4. j \in 1 .. len + 1 /\ len \in Nat
    BY <1>4
  <2>5. j = len + 1 \/ j \in 1 .. len
    BY <2>4
  <2>6. QED BY <2>2, <2>3, <2>5
<1>10. NoncesFilled'
  <2>1. \A m \in Nat : m < n => Taken(m)
    BY <1>1, <1>2 DEF PendingCount
  <2>2. \A i \in 1 .. len : \A m \in Nat : m < issued[i].nonce => Taken(m)
    BY <1>4 DEF RoundIInv, NoncesFilled
  <2>3. SUFFICES ASSUME NEW i \in Issues', NEW m \in Nat, m < issued'[i].nonce
                 PROVE  Taken(m)
    BY <1>7 DEF NoncesFilled
  <2>4. i \in 1 .. len \/ i = len + 1
    BY <1>4, <2>3
  <2>5. CASE i \in 1 .. len
    BY <1>4, <2>2, <2>3, <2>5
  <2>6. CASE i = len + 1
    BY <1>3, <1>4, <2>1, <2>3, <2>6
  <2>7. QED BY <2>4, <2>5, <2>6
<1>11. PoolWaits'
  <2>1. \A i \in pool : i \in 1 .. len
    BY <1>2, <1>4 DEF RoundTypeOK
  <2>2. \A i \in pool : issued'[i] = issued[i]
    BY <1>4, <2>1
  <2>3. QED BY <1>5, <2>2 DEF RoundIInv, PoolWaits
<1>12. \A k \in DOMAIN published : published[k] \in 1 .. len
  BY <1>2, <1>4 DEF RoundTypeOK
<1>13. PublishedUsed'
  BY <1>4, <1>5, <1>12 DEF RoundIInv, PublishedUsed
<1>14. ConfirmedUpdateStands'
  <2>1. published # <<>> => Len(published) \in DOMAIN published
    BY <1>2 DEF RoundTypeOK
  <2>2. QED BY <1>4, <1>5, <1>12, <2>1 DEF RoundIInv, ConfirmedUpdateStands
<1>15. PaymentsPerPublication'
  BY <1>5 DEF RoundIInv, PaymentsPerPublication, Lists
<1>16. GrantsUsed'
  <2>1. given = tree /\ given' = tree'
    BY <1>5 DEF RoundIInv, GrantsUsed
  <2>2. n >= nonce
    BY <1>1, <1>2 DEF PendingCount, Taken
  <2>3. ASSUME NEW a \in Accounts
        PROVE  /\ IsFiniteSet(granted'[a])
               /\ granted[a] \subseteq granted'[a]
               /\ Lists(tree, a) => n \in granted'[a]
               /\ opened'[a] <= Cardinality(UsedOf(a)')
    <3>1. granted'[a] = IF Lists(tree, a) THEN granted[a] \cup {n} ELSE granted[a]
      BY <1>1, <2>1
    <3>2. IsFiniteSet(granted[a]) /\ opened[a] <= Cardinality(UsedOf(a))
      BY DEF RoundIInv, GrantsUsed
    <3>3. IsFiniteSet(granted'[a])
      BY <3>1, <3>2, FS_AddElement
    <3>4. UsedOf(a)' = UsedOf(a)
      BY <1>2, <1>5, <2>2, <3>1 DEF UsedOf
    <3>5. QED BY <1>5, <3>1, <3>2, <3>3, <3>4
  <2>4. ASSUME NEW i \in Issues', NEW a \in Accounts, Lists(issued'[i].root, a)
        PROVE  issued'[i].nonce \in granted'[a]
    <3>1. CASE i = len + 1
      <4>1. issued'[i] = new
        BY <1>4, <3>1
      <4>2. QED BY <1>3, <2>3, <2>4, <4>1
    <3>2. CASE i \in 1 .. len
      <4>1. issued'[i] = issued[i] /\ i \in Issues
        BY <1>4, <3>2
      <4>2. QED BY <2>3, <2>4, <4>1 DEF RoundIInv, GrantsUsed
    <3>3. i = len + 1 \/ i \in 1 .. len
      BY <1>4
    <3>4. QED BY <3>1, <3>2, <3>3
  <2>5. QED BY <2>1, <2>3, <2>4 DEF GrantsUsed, Lists
<1>17. QED BY <1>6, <1>9, <1>10, <1>11, <1>13, <1>14, <1>15, <1>16 DEF RoundIInv

-----------------------------------------------------------------------------
\* Steps that leave the updates, the chain and the histories alone.
LEMMA Quiet ==
    ASSUME RoundIInv, IInv', RoundTypeOK', given' = tree',
           UNCHANGED <<issued, pool, nonce, published, confirmed, granted, opened, payments,
                       rewardsMerkleRoot, rewardClaimed>>
    PROVE  RoundIInv'
<1>1. NoncesOrdered' /\ PoolWaits' /\ PublishedUsed'
  BY DEF RoundIInv, NoncesOrdered, PoolWaits, PublishedUsed, Issues
<1>2. NoncesFilled'
  BY DEF RoundIInv, NoncesFilled, Taken, Issues
<1>3. ConfirmedUpdateStands' /\ PaymentsPerPublication'
  BY DEF RoundIInv, ConfirmedUpdateStands, PaymentsPerPublication, Lists
<1>4. GrantsUsed'
  BY DEF RoundIInv, GrantsUsed, UsedOf, Issues, Lists
<1>5. QED BY <1>1, <1>2, <1>3, <1>4 DEF RoundIInv

\* Collecting accounts, sending and polling change no more than that.
LEMMA Owning ==
    ASSUME RoundIInv, IInv',
           \/ \E data \in Periods : addLeaves(data)
           \/ resetTree \/ submitUpdate \/ pollUpdate
    PROVE  RoundIInv'
<1>1. /\ UNCHANGED <<issued, pool, nonce, published, confirmed, granted, opened, payments>>
      /\ UNCHANGED <<rewardsMerkleRoot, rewardClaimed>>
      /\ given' = tree'
  BY DEF addLeaves, resetTree, submitUpdate, pollUpdate, nodeVars, contractVars, vars,
         grantVars, RoundIInv, GrantsUsed
<1>2. RoundTypeOK /\ TypeOK'
  BY DEF RoundIInv, IInv
<1>3. tree' \subseteq Pairs
  BY <1>2, RoundAssumption
  DEF addLeaves, resetTree, submitUpdate, pollUpdate, RoundTypeOK
<1>4. at' \in {"idle", "submit", "poll", "receipt"} /\ (at' # "idle" => issued # <<>>)
  BY <1>2 DEF addLeaves, resetTree, submitUpdate, pollUpdate, RoundTypeOK
<1>5. relayed' \subseteq Issues
  <2>1. CASE submitUpdate
    <3>1. issued # <<>>
      BY <1>2, <2>1 DEF submitUpdate, RoundTypeOK
    <3>2. Len(issued) \in Issues
      BY <1>2, <3>1 DEF RoundTypeOK, Issues
    <3>3. QED BY <1>2, <2>1, <3>2 DEF submitUpdate, RoundTypeOK
  <2>2. CASE ~submitUpdate
    BY <1>2, <2>2 DEF addLeaves, resetTree, pollUpdate, RoundTypeOK, nodeVars
  <2>3. QED BY <2>1, <2>2
<1>6. RoundTypeOK'
  BY <1>1, <1>2, <1>3, <1>4, <1>5 DEF RoundTypeOK, Issues
<1>7. QED BY <1>1, <1>6, Quiet

\* The owner is told of an update that is among those published, the last of
\* which is no earlier.
LEMMA Confirming ==
    ASSUME RoundIInv, IInv', awaitReceipt
    PROVE  RoundIInv'
<1>1. /\ UNCHANGED <<tree, issued, relayed, pool, nonce, published, opened, payments>>
      /\ UNCHANGED <<given, granted, rewardsMerkleRoot, rewardClaimed>>
      /\ at' = "idle" /\ given' = tree'
  BY DEF awaitReceipt, nodeVars, contractVars, vars, grantVars, RoundIInv, GrantsUsed
<1>2. RoundTypeOK /\ TypeOK'
  BY DEF RoundIInv, IInv
<1>3. CASE UNCHANGED confirmed
  <2>1. RoundTypeOK'
    BY <1>1, <1>2, <1>3 DEF RoundTypeOK, Issues
  <2>2. QED BY <1>1, <1>3, <2>1, Quiet
<1>4. CASE confirmed' = Len(issued) /\ \E k \in DOMAIN published : published[k] = Len(issued)
  <2>1. PICK k \in DOMAIN published : published[k] = Len(issued)
    BY <1>4
  <2> DEFINE last == Len(published)
  <2>2. /\ last \in Nat /\ k \in 1 .. last /\ published # <<>>
        /\ last \in DOMAIN published /\ published[last] \in Issues
        /\ Len(issued) \in Nat
    BY <1>2, <2>1, IssuedTyped
  <2>3. published[last] >= Len(issued)
    BY <2>1, <2>2 DEF RoundIInv, ConfirmedUpdateStands, Issues
  <2>4. ConfirmedUpdateStands'
    BY <1>1, <1>4, <2>2, <2>3 DEF RoundIInv, ConfirmedUpdateStands
  <2>5. RoundTypeOK'
    BY <1>1, <1>2, <1>4, <2>2 DEF RoundTypeOK, Issues
  <2>6. NoncesOrdered' /\ PoolWaits' /\ PublishedUsed' /\ NoncesFilled'
    BY <1>1 DEF RoundIInv, NoncesOrdered, PoolWaits, PublishedUsed, NoncesFilled, Taken,
                Issues
  <2>7. PaymentsPerPublication'
    BY <1>1 DEF RoundIInv, PaymentsPerPublication, Lists
  <2>8. GrantsUsed'
    BY <1>1 DEF RoundIInv, GrantsUsed, UsedOf, Issues, Lists
  <2>9. QED BY <2>4, <2>5, <2>6, <2>7, <2>8 DEF RoundIInv
<1>5. QED BY <1>3, <1>4 DEF awaitReceipt

\* A relayed update takes the place of any other of its nonce.
LEMMA Relaying ==
    ASSUME RoundIInv, IInv', NEW i \in relayed, relay(i)
    PROVE  RoundIInv'
<1>1. /\ UNCHANGED <<tree, issued, at, confirmed, relayed, nonce, published, opened, payments>>
      /\ UNCHANGED <<given, granted, rewardsMerkleRoot, rewardClaimed>>
      /\ issued[i].nonce >= nonce
      /\ pool' = {j \in pool : issued[j].nonce # issued[i].nonce} \cup {i}
  BY DEF relay, ownerVars, contractVars, vars, grantVars
<1>2. RoundTypeOK /\ TypeOK' /\ i \in Issues /\ nonce \in Nat /\ issued[i].nonce \in Nat
  BY IssuedTyped DEF RoundIInv, IInv, RoundTypeOK
<1>3. RoundTypeOK'
  BY <1>1, <1>2 DEF RoundTypeOK, Issues
<1>4. \A m \in Nat : Taken(m) => Taken(m)'
  BY <1>1 DEF Taken
<1>5. NoncesFilled'
  BY <1>1, <1>4, <1>2, IssuedTyped DEF RoundIInv, NoncesFilled, Issues
<1>6. PoolWaits'
  BY <1>1, <1>2 DEF RoundIInv, PoolWaits
<1>7. NoncesOrdered' /\ PublishedUsed'
  BY <1>1 DEF RoundIInv, NoncesOrdered, PublishedUsed, Issues
<1>8. ConfirmedUpdateStands' /\ PaymentsPerPublication'
  BY <1>1 DEF RoundIInv, ConfirmedUpdateStands, PaymentsPerPublication, Lists
<1>9. GrantsUsed'
  BY <1>1 DEF RoundIInv, GrantsUsed, UsedOf, Issues, Lists
<1>10. QED BY <1>3, <1>5, <1>6, <1>7, <1>8, <1>9 DEF RoundIInv

-----------------------------------------------------------------------------
\* The update that is executed has a nonce no published one has, and hence is
\* later than all of those.
LEMMA LaterThanPublished ==
    ASSUME RoundIInv, NEW i \in pool, issued[i].nonce = nonce,
           NEW k \in DOMAIN published
    PROVE  published[k] < i
<1>1. /\ i \in Issues /\ published[k] \in Issues
      /\ issued[i].nonce \in Nat /\ issued[published[k]].nonce \in Nat
  BY IssuedTyped DEF RoundIInv, RoundTypeOK
<1>2. issued[published[k]].nonce < issued[i].nonce
  BY DEF RoundIInv, PublishedUsed
<1>3. SUFFICES ASSUME i <= published[k] PROVE FALSE
  BY <1>1 DEF Issues
<1>4. i # published[k]
  BY <1>1, <1>2
<1>5. i < published[k]
  BY <1>1, <1>3, <1>4 DEF Issues
<1>6. issued[i].nonce <= issued[published[k]].nonce
  BY <1>1, <1>5 DEF RoundIInv, NoncesOrdered
<1>7. QED BY <1>1, <1>2, <1>6

\* Executing an update uses up its nonce, whether it succeeds or not; if it does
\* it gives every address its claim back, and those the root lists one more.
LEMMA Executing ==
    ASSUME RoundIInv, IInv', NEW i \in pool, executeUpdate(i)
    PROVE  RoundIInv'
<1>1. /\ UNCHANGED <<tree, given, granted, issued, at, confirmed, relayed, payments>>
      /\ issued[i].nonce = nonce
      /\ pool' = pool \ {i} /\ nonce' = nonce + 1
  BY DEF executeUpdate, ownerVars, grantVars
<1>2. RoundTypeOK /\ TypeOK /\ TypeOK' /\ i \in Issues /\ nonce \in Nat /\ Issues' = Issues
  BY <1>1 DEF RoundIInv, IInv, RoundTypeOK, Issues
<1>3. \A j \in Issues : issued[j].nonce \in Nat /\ issued[j].root \in SUBSET Pairs
  BY <1>2, IssuedTyped
<1>4. \A m \in Nat : Taken(m) => Taken(m)'
  BY <1>1, <1>2 DEF Taken
<1>5. NoncesFilled'
  BY <1>1, <1>2, <1>4 DEF RoundIInv, NoncesFilled
<1>6. NoncesOrdered'
  BY <1>1, <1>2 DEF RoundIInv, NoncesOrdered
<1>7. PoolWaits'
  <2>1. \A j \in pool : j \in Issues /\ nonce <= issued[j].nonce
    BY <1>2 DEF RoundIInv, PoolWaits, RoundTypeOK
  <2>2. \A j \in pool : j # i => nonce # issued[j].nonce
    BY <1>1 DEF RoundIInv, PoolWaits
  <2>3. \A j \in pool' : nonce + 1 <= issued[j].nonce
    BY <1>1, <1>2, <1>3, <2>1, <2>2
  <2>4. QED BY <1>1, <2>3 DEF RoundIInv, PoolWaits
<1>8. ASSUME \/ opened' = opened
             \/ opened' = [a \in Accounts |-> IF Lists(issued[i].root, a) THEN opened[a] + 1
                                              ELSE opened[a]]
      PROVE  GrantsUsed'
  <2>1. ASSUME NEW a \in Accounts
        PROVE  opened'[a] <= Cardinality(UsedOf(a)')
    <3>1. /\ opened[a] \in Nat /\ opened[a] <= Cardinality(UsedOf(a))
          /\ granted[a] \subseteq Nat \cup {NoNonce}
      BY <1>2 DEF RoundIInv, GrantsUsed, RoundTypeOK
    <3>2. /\ IsFiniteSet(UsedOf(a)) /\ Cardinality(UsedOf(a)) \in Nat
          /\ IsFiniteSet(granted[a])
      BY UsedFinite DEF RoundIInv
    <3>3. UsedOf(a)' = {m \in granted[a] : m < nonce + 1}
      BY <1>1 DEF UsedOf
    <3>4. UsedOf(a) \subseteq UsedOf(a)' /\ UsedOf(a)' \subseteq granted[a]
      BY <1>2, <3>1, <3>3 DEF UsedOf, NoNonce
    <3>5. IsFiniteSet(UsedOf(a)') /\ Cardinality(UsedOf(a)') \in Nat
      BY <3>2, <3>4, FS_Subset, FS_CardinalityType
    <3>6. Cardinality(UsedOf(a)) <= Cardinality(UsedOf(a)')
      BY <3>4, <3>5, FS_Subset
    <3>7. CASE opened'[a] = opened[a]
      BY <3>1, <3>2, <3>5, <3>6, <3>7
    <3>8. CASE Lists(issued[i].root, a) /\ opened'[a] = opened[a] + 1
      <4>1. nonce \in granted[a]
        BY <1>1, <1>2, <3>8 DEF RoundIInv, GrantsUsed
      <4>2. nonce \notin UsedOf(a) /\ nonce \in UsedOf(a)'
        BY <1>2, <3>3, <4>1 DEF UsedOf
      <4>3. /\ IsFiniteSet(UsedOf(a) \cup {nonce})
            /\ Cardinality(UsedOf(a) \cup {nonce}) = Cardinality(UsedOf(a)) + 1
        BY <3>2, <4>2, FS_AddElement
      <4>4. Cardinality(UsedOf(a) \cup {nonce}) <= Cardinality(UsedOf(a)')
        BY <3>4, <3>5, <4>2, FS_Subset
      <4>5. QED BY <3>1, <3>2, <3>5, <3>8, <4>3, <4>4
    <3>9. QED BY <1>8, <3>7, <3>8
  <2>2. QED BY <1>1, <1>2, <2>1 DEF RoundIInv, GrantsUsed, Lists
<1>9. CASE UNCHANGED <<published, contractVars, opened>>
  <2>1. UNCHANGED <<published, opened, rewardsMerkleRoot, rewardClaimed>>
    BY <1>9 DEF contractVars, vars
  <2>2. RoundTypeOK'
    BY <1>1, <1>2, <2>1 DEF RoundTypeOK
  <2>3. PublishedUsed'
    BY <1>1, <1>2, <1>3, <2>1, IssuedTyped DEF RoundIInv, PublishedUsed
  <2>4. ConfirmedUpdateStands' /\ PaymentsPerPublication'
    BY <1>1, <2>1 DEF RoundIInv, ConfirmedUpdateStands, PaymentsPerPublication, Lists
  <2>5. GrantsUsed'
    BY <1>8, <2>1
  <2>6. QED BY <1>5, <1>6, <1>7, <2>2, <2>3, <2>4, <2>5 DEF RoundIInv
<1>10. CASE /\ updateRewardsMerkleRoot(issued[i].root)
            /\ published' = Append(published, i)
            /\ opened' = [a \in Accounts |-> IF Lists(issued[i].root, a) THEN opened[a] + 1
                                              ELSE opened[a]]
  <2> DEFINE last == Len(published)
  <2>1. /\ last \in Nat /\ DOMAIN published = 1 .. last
        /\ published' \in Seq(Issues) /\ Len(published') = last + 1
        /\ DOMAIN published' = 1 .. last + 1 /\ published' # <<>>
        /\ \A k \in 1 .. last : published'[k] = published[k] /\ published[k] \in Issues
        /\ published'[last + 1] = i
    <3>1. published \in Seq(Issues)
      BY <1>2 DEF RoundTypeOK
    <3>2. published' = Append(published, i)
      BY <1>10
    <3>3. /\ last \in Nat /\ DOMAIN published = 1 .. last
          /\ \A k \in 1 .. last : published[k] \in Issues
      BY <3>1
    <3>4. /\ Append(published, i) \in Seq(Issues)
          /\ Len(Append(published, i)) = last + 1
          /\ DOMAIN Append(published, i) = 1 .. last + 1
          /\ \A k \in 1 .. last : Append(published, i)[k] = published[k]
          /\ Append(published, i)[last + 1] = i
      BY <1>2, <3>1
    <3>5. Append(published, i) # <<>>
      BY <3>3, <3>4
    <3>6. QED BY <3>2, <3>3, <3>4, <3>5
  <2>2. \A k \in 1 .. last : published[k] < i
    BY <1>1, <2>1, LaterThanPublished
  <2>3. rewardsMerkleRoot' = issued[i].root /\ \A a \in Accounts : rewardClaimed'[a] = FALSE
    BY <1>10 DEF updateRewardsMerkleRoot, RoundIInv, IInv, TypeOK, ListMatchesFlags
  <2>4. opened' \in [Accounts -> Nat]
    BY <1>2, <1>10 DEF RoundTypeOK
  <2>5. RoundTypeOK'
    BY <1>1, <1>2, <2>1, <2>4 DEF RoundTypeOK
  <2>6. PublishedUsed'
    <3>1. \A k \in 1 .. last : issued[published[k]].nonce < nonce
      BY <2>1 DEF RoundIInv, PublishedUsed
    <3>2. \A k \in 1 .. last + 1 : k # last + 1 => k \in 1 .. last
      BY <2>1
    <3>3. \A k \in 1 .. last + 1 : issued[published'[k]].nonce < nonce + 1
      BY <1>1, <1>2, <1>3, <2>1, <3>1, <3>2
    <3>4. QED BY <1>1, <2>1, <3>3 DEF PublishedUsed
  <2>7. ConfirmedUpdateStands'
    <3>1. ASSUME NEW k \in 1 .. last + 1, NEW l \in 1 .. k - 1
          PROVE  published'[l] < published'[k]
      <4>1. l \in 1 .. last
        BY <2>1
      <4>2. CASE k = last + 1
        BY <2>1, <2>2, <4>1, <4>2
      <4>3. CASE k \in 1 .. last
        BY <2>1, <4>1, <4>3 DEF RoundIInv, ConfirmedUpdateStands
      <4>4. QED BY <2>1, <4>2, <4>3
    <3>2. confirmed # 0 => i >= confirmed
      <4>1. SUFFICES ASSUME confirmed # 0 PROVE i >= confirmed
        OBVIOUS
      <4>2. published # <<>> /\ published[last] >= confirmed
        BY <4>1 DEF RoundIInv, ConfirmedUpdateStands
      <4>3. last \in 1 .. last
        BY <1>2, <2>1, <4>2 DEF RoundTypeOK
      <4>4. confirmed \in Nat /\ published[last] \in Nat /\ i \in Nat
        BY <1>2, <2>1, <4>3 DEF RoundTypeOK, Issues
      <4>5. QED BY <2>2, <4>2, <4>3, <4>4
    <3>3. QED BY <1>1, <2>1, <2>3, <3>1, <3>2 DEF ConfirmedUpdateStands
  <2>8. PaymentsPerPublication'
    <3>1. ASSUME NEW a \in Accounts
          PROVE  payments'[a] + (IF ~rewardClaimed'[a] /\ Lists(rewardsMerkleRoot', a)
                                 THEN 1 ELSE 0) <= opened'[a]
      <4>1. payments[a] \in Nat /\ opened[a] \in Nat
        BY <1>2 DEF RoundTypeOK
      <4>2. payments[a] <= opened[a]
        BY <4>1 DEF RoundIInv, PaymentsPerPublication
      <4>3. opened'[a] = IF Lists(issued[i].root, a) THEN opened[a] + 1 ELSE opened[a]
        BY <1>10
      <4>4. QED BY <1>1, <2>3, <4>1, <4>2, <4>3
    <3>2. QED BY <3>1 DEF PaymentsPerPublication, Lists
  <2>9. GrantsUsed'
    BY <1>8, <1>10
  <2>10. QED BY <1>5, <1>6, <1>7, <2>5, <2>6, <2>7, <2>8, <2>9 DEF RoundIInv
<1>11. QED BY <1>9, <1>10 DEF executeUpdate

\* A claim takes the one payment an address has left.
LEMMA ClaimingRound ==
    ASSUME RoundIInv, IInv', NEW a \in Accounts, NEW quantity \in Quantities,
           claim(a, quantity)
    PROVE  RoundIInv'
<1>1. /\ UNCHANGED <<tree, issued, at, confirmed, relayed, pool, nonce, published, opened>>
      /\ UNCHANGED <<given, granted>>
      /\ rewardsMerkleRoot' = rewardsMerkleRoot
      /\ rewardClaimed' = [rewardClaimed EXCEPT ![a] = TRUE]
      /\ ~rewardClaimed[a] /\ Lists(rewardsMerkleRoot, a)
      /\ \/ payments' = [payments EXCEPT ![a] = @ + 1]
         \/ payments' = payments
  BY DEF claim, claimRewards, ownerVars, nodeVars, grantVars, Lists
<1>2. /\ RoundTypeOK /\ TypeOK'
      /\ rewardClaimed \in [Accounts -> BOOLEAN]
      /\ payments \in [Accounts -> Nat] /\ opened \in [Accounts -> Nat]
  BY DEF RoundIInv, IInv, RoundTypeOK, TypeOK
<1>3. payments' \in [Accounts -> Nat]
  BY <1>1, <1>2
<1>4. RoundTypeOK'
  BY <1>1, <1>2, <1>3 DEF RoundTypeOK, Issues
<1>5. NoncesOrdered' /\ PoolWaits' /\ PublishedUsed' /\ NoncesFilled'
  BY <1>1 DEF RoundIInv, NoncesOrdered, PoolWaits, PublishedUsed, NoncesFilled, Taken,
              Issues
<1>6. ConfirmedUpdateStands'
  BY <1>1 DEF RoundIInv, ConfirmedUpdateStands
<1>7. PaymentsPerPublication'
  <2>1. ASSUME NEW b \in Accounts
        PROVE  payments'[b] + (IF ~rewardClaimed'[b] /\ Lists(rewardsMerkleRoot', b)
                               THEN 1 ELSE 0) <= opened'[b]
    <3>1. payments[b] \in Nat /\ opened[b] \in Nat
      BY <1>2
    <3>2. payments[b] + (IF ~rewardClaimed[b] /\ Lists(rewardsMerkleRoot, b)
                         THEN 1 ELSE 0) <= opened[b]
      BY DEF RoundIInv, PaymentsPerPublication
    <3>3. CASE b = a
      <4>1. payments[a] + 1 <= opened[a]
        BY <1>1, <3>2, <3>3
      <4>2. rewardClaimed'[a] = TRUE
        BY <1>1, <1>2
      <4>3. payments'[a] <= payments[a] + 1
        BY <1>1, <1>2, <3>1, <3>3
      <4>4. payments'[a] \in Nat
        BY <1>3
      <4>5. QED BY <1>1, <3>1, <3>3, <4>1, <4>2, <4>3, <4>4
    <3>4. CASE b # a
      <4>1. payments'[b] = payments[b] /\ rewardClaimed'[b] = rewardClaimed[b]
        BY <1>1, <1>2, <3>4
      <4>2. QED BY <1>1, <3>2, <4>1
    <3>5. QED BY <3>3, <3>4
  <2>2. QED BY <2>1 DEF PaymentsPerPublication, Lists
<1>8. GrantsUsed'
  BY <1>1 DEF RoundIInv, GrantsUsed, UsedOf, Issues, Lists
<1>9. QED BY <1>4, <1>5, <1>6, <1>7, <1>8 DEF RoundIInv

\* Every step of the round preserves the invariant.
LEMMA RoundStep == RoundIInv /\ [RoundNext]_roundVars => RoundIInv'
<1>1. SUFFICES ASSUME RoundIInv, [RoundNext]_roundVars
               PROVE  RoundIInv'
  OBVIOUS
<1>2. IInv'
  BY <1>1, ContractStep, NextIInv DEF RoundIInv
<1>3. CASE (\E data \in Periods : addLeaves(data)) \/ resetTree \/ submitUpdate \/ pollUpdate
  BY <1>1, <1>2, <1>3, Owning
<1>4. CASE issueUpdate
  BY <1>1, <1>2, <1>4, Issuing
<1>5. CASE awaitReceipt
  BY <1>1, <1>2, <1>5, Confirming
<1>6. ASSUME NEW i \in relayed, relay(i)
      PROVE  RoundIInv'
  BY <1>1, <1>2, <1>6, Relaying
<1>7. ASSUME NEW i \in pool, executeUpdate(i)
      PROVE  RoundIInv'
  BY <1>1, <1>2, <1>7, Executing
<1>8. ASSUME NEW a \in Accounts, NEW quantity \in Quantities, claim(a, quantity)
      PROVE  RoundIInv'
  BY <1>1, <1>2, <1>8, ClaimingRound
<1>9. CASE deposit \/ UNCHANGED roundVars
  <2>1. UNCHANGED <<ownerVars, nodeVars, grantVars, opened, payments, rewardsMerkleRoot,
                    rewardClaimed>>
    BY <1>9 DEF deposit, Deposit, roundVars, contractVars, vars
  <2>2. /\ UNCHANGED <<tree, issued, at, relayed, pool, nonce, published, confirmed>>
        /\ UNCHANGED <<given, granted>> /\ given' = tree'
    BY <1>1, <2>1 DEF ownerVars, nodeVars, grantVars, RoundIInv, GrantsUsed
  <2>3. RoundTypeOK'
    BY <1>1, <1>2, <2>1, <2>2 DEF RoundIInv, IInv, RoundTypeOK, Issues
  <2>4. QED BY <1>1, <1>2, <2>1, <2>2, <2>3, Quiet
<1>10. QED BY <1>1, <1>3, <1>4, <1>5, <1>6, <1>7, <1>8, <1>9 DEF RoundNext

-----------------------------------------------------------------------------
\* Owner, node and contract are in order together in every reachable state.
THEOREM RoundInvariant == RoundSpec => []RoundIInv
  BY InitRound, RoundStep, PTL DEF RoundSpec

\* Whatever owner and node do, the reward contract does what MerkleRewards says,
\* so that all that is proved of it holds in every round.
THEOREM RoundImplementsContract == RoundSpec => Spec
<1>1. RoundInit => Init
  BY DEF RoundInit
<1>2. QED BY <1>1, RoundInvariant, ContractStep, PTL DEF RoundSpec, Spec

\* The types of owner, node and contract.
THEOREM RoundKeepsTypes == RoundSpec => []RoundTypeOK
<1>1. RoundIInv => RoundTypeOK
  BY DEF RoundIInv
<1>2. QED BY <1>1, RoundInvariant, PTL

\* Updates take effect in the order the owner made them in, so one whose success
\* the owner has seen is never undone by an earlier one, however late that is.
THEOREM ConfirmedStands == RoundSpec => []ConfirmedUpdateStands
<1>1. RoundIInv => ConfirmedUpdateStands
  BY DEF RoundIInv
<1>2. QED BY <1>1, RoundInvariant, PTL

\* Payments to an address never outnumber the nonces under which its pairs were
\* sent, the root the contract began with counted in.
THEOREM PaidPerGrant == RoundSpec => []PaymentsPerGrant
  BY PaymentsCovered, RoundInvariant, PTL

\* An executed update takes effect exactly if its gas is enough for the addresses
\* that have claimed, and once there are too many of those none ever does.
THEOREM UpdatesWhileAffordable == RoundSpec => UpdatesUntilTooMany
<1>1. RoundIInv /\ [RoundNext]_roundVars =>
         [/\ nonce' # nonce =>
                (published' # published <=> Cardinality(Claimants) <= ResetLimit)
          /\ Cardinality(Claimants) > ResetLimit =>
                Cardinality(Claimants') > ResetLimit]_roundVars
  <2>1. SUFFICES ASSUME RoundIInv, RoundNext
                 PROVE  /\ nonce' # nonce =>
                              (published' # published
                                  <=> Cardinality(Claimants) <= ResetLimit)
                        /\ Cardinality(Claimants) > ResetLimit =>
                              Cardinality(Claimants') > ResetLimit
    OBVIOUS
  <2>2. /\ Cardinality(Claimants) = Len(rewardClaimedList)
        /\ Len(rewardClaimedList) \in Nat
        /\ published \in Seq(Issues) /\ rewardClaimed \in [Accounts -> BOOLEAN]
    BY <2>1, ClaimantsCounted DEF RoundIInv, IInv, TypeOK, RoundTypeOK
  <2>3. Claimants \subseteq Claimants' => Cardinality(Claimants) <= Cardinality(Claimants')
    <3>1. IsFiniteSet(Claimants')
      BY AccountsAssumption, FS_Subset DEF Claimants
    <3>2. QED BY <3>1, FS_Subset
  <2>4. Cardinality(Claimants') \in Nat
    BY AccountsAssumption, FS_Subset, FS_CardinalityType DEF Claimants
  <2>5. ASSUME NEW i \in pool, executeUpdate(i)
        PROVE  /\ published' # published <=> Len(rewardClaimedList) <= ResetLimit
               /\ Len(rewardClaimedList) > ResetLimit => rewardClaimed' = rewardClaimed
    <3>1. CASE updateRewardsMerkleRoot(issued[i].root) /\ published' = Append(published, i)
      <4>1. Len(rewardClaimedList) <= ResetLimit
        BY <3>1 DEF updateRewardsMerkleRoot
      <4>2. Len(Append(published, i)) # Len(published)
        BY <2>2
      <4>3. QED BY <2>2, <3>1, <4>1, <4>2, LimitsAssumption
    <3>2. CASE /\ Len(rewardClaimedList) > ResetLimit
               /\ UNCHANGED <<published, contractVars, opened>>
      BY <2>2, <3>2, LimitsAssumption DEF contractVars, vars
    <3>3. QED BY <2>5, <3>1, <3>2 DEF executeUpdate
  <2>6. CASE \E i \in pool : executeUpdate(i)
    <3>1. /\ published' # published <=> Len(rewardClaimedList) <= ResetLimit
          /\ Len(rewardClaimedList) > ResetLimit => rewardClaimed' = rewardClaimed
      BY <2>5, <2>6
    <3>2. rewardClaimed' = rewardClaimed => Claimants' = Claimants
      BY DEF Claimants
    <3>3. QED BY <2>2, <3>1, <3>2
  <2>7. CASE \E a \in Accounts, quantity \in Quantities : claim(a, quantity)
    <3>1. PICK a \in Accounts : /\ rewardClaimed' = [rewardClaimed EXCEPT ![a] = TRUE]
                                /\ nonce' = nonce
      BY <2>7 DEF claim, claimRewards, nodeVars
    <3>2. Claimants \subseteq Claimants'
      BY <2>2, <3>1 DEF Claimants
    <3>3. QED BY <2>2, <2>3, <2>4, <3>1, <3>2, LimitsAssumption
  <2>8. CASE rewardClaimed' = rewardClaimed /\ nonce' = nonce
    BY <2>8 DEF Claimants
  <2>9. QED
    BY <2>1, <2>6, <2>7, <2>8
    DEF RoundNext, addLeaves, resetTree, issueUpdate, submitUpdate, pollUpdate,
        awaitReceipt, relay, deposit, Deposit, contractVars, nodeVars, vars
<1>2. QED BY <1>1, RoundInvariant, PTL DEF RoundSpec, UpdatesUntilTooMany

=============================================================================
