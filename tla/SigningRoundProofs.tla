------------------------- MODULE SigningRoundProofs -------------------------
(***************************************************************************)
(* The clients and the registry for any keys, clients and bounds: nodes    *)
(* are registered in the order of their lists, and the registry with all   *)
(* its sums of points is a SignedRegistry.                                 *)
(***************************************************************************)
EXTENDS SigningRound, FiniteSetTheorems, FunctionTheorems, TLAPS

\* Where a key is: c's list has it at i, c's transaction i asks to add it, the
\* registry has it at p.
Owns(c, i, k) == i \in DOMAIN nodes[c] /\ nodes[c][i] = k
Asked(c, i, k) ==
    i \in DOMAIN pending[c] /\ pending[c][i].op = "add" /\ pending[c][i].key = k
Member(p, k) == p \in DOMAIN validators /\ validators[p] = k

-----------------------------------------------------------------------------
\* The invariant, in four parts: types; where keys are; what a check carries;
\* and the cached aggregate.

Points == [Keys -> Int]
Indices == Seq(Nat)
Transactions ==
    [op : {"add"}, key : Keys] \cup [op : {"clear"}]
    \cup [op : {"agg", "pubkey", "indices", "negate"}, sum : Points,
          indices : Indices, signers : Indices, roster : Seq(Keys)]

Typed ==
    /\ validators \in Seq(Keys) /\ aggregate \in Points /\ seeded = FALSE
    /\ nodes \in [Clients -> Seq(Keys)]
    /\ sent \in [Clients -> Nat]
    /\ \A c \in Clients : sent[c] <= Len(nodes[c])
    /\ pending \in [Clients -> Seq(Transactions)]
    /\ \A c \in Clients : Len(pending[c]) <= MaxPending
    /\ receipt \in {"none", "success", "failure"}

\* Every key is in one place of one list, is asked for once and registered once.
OneOwner ==
    \A c, d \in Clients : \A i, j \in Nat : \A k \in Keys :
        Owns(c, i, k) /\ Owns(d, j, k) => c = d /\ i = j
AskedOnce ==
    \A c, d \in Clients : \A i, j \in Nat : \A k \in Keys :
        Asked(c, i, k) /\ Asked(d, j, k) => c = d /\ i = j
MembersOnce ==
    \A p, q \in Nat : \A k \in Keys : Member(p, k) /\ Member(q, k) => p = q
AskedIsNoMember ==
    \A c \in Clients : \A i, p \in Nat : \A k \in Keys :
        Asked(c, i, k) => ~Member(p, k)

\* What a client has not sent is nowhere else; what it has is in its own queue.
UnsentIsNowhere ==
    \A c, d \in Clients : \A i, j \in Nat : \A k \in Keys :
        Owns(c, i, k) /\ sent[c] < i => ~Member(j, k) /\ ~Asked(d, j, k)
OwnQueue ==
    \A c, d \in Clients : \A i, j \in Nat : \A k \in Keys :
        Owns(c, i, k) /\ Asked(d, j, k) => d = c

\* The order of the list: in the queue, from the registry to the queue, and in
\* the registry.
QueueInOrder ==
    \A c \in Clients : \A i, j, p, q \in Nat : \A k, l \in Keys :
        /\ Owns(c, i, k) /\ Owns(c, j, l) /\ i < j
        /\ Asked(c, p, k) /\ Asked(c, q, l)
        => p < q
EarlierFirst ==
    \A c \in Clients : \A i, j, p, q \in Nat : \A k, l \in Keys :
        Owns(c, i, k) /\ Owns(c, j, l) /\ i < j /\ Member(p, l) => ~Asked(c, q, k)
MembersInOrder ==
    \A c \in Clients : \A i, j, p, q \in Nat : \A k, l \in Keys :
        /\ Owns(c, i, k) /\ Owns(c, j, l) /\ i < j
        /\ Member(p, k) /\ Member(q, l)
        => p < q

KeysPlaced ==
    /\ OneOwner /\ AskedOnce /\ MembersOnce /\ AskedIsNoMember
    /\ UnsentIsNowhere /\ OwnQueue
    /\ QueueInOrder /\ EarlierFirst /\ MembersInOrder

\* The point that has each key of a set once.
Once(set) == [k \in Keys |-> IF k \in set THEN 1 ELSE 0]

NoRepeats(list) == \A i, j \in DOMAIN list : list[i] = list[j] => i = j
Listed(list) == {list[i] : i \in DOMAIN list}

SoundCheck(tx) ==
    /\ NoRepeats(tx.roster)
    /\ NoRepeats(tx.signers) /\ Listed(tx.signers) \subseteq 0 .. Len(tx.roster) - 1
    /\ tx.sum = Once(SignerKeys(tx))
    /\ NoRepeats(tx.indices)
    /\ tx.op = "indices" => tx.indices = tx.signers
    /\ tx.op = "negate" =>
          Listed(tx.indices) = (0 .. Len(tx.roster) - 1) \ Listed(tx.signers)

ChecksSound ==
    \A c \in Clients : \A i \in DOMAIN pending[c] :
        pending[c][i].op \notin {"add", "clear"} => SoundCheck(pending[c][i])

AggregateIsOnce ==
    validators # <<>> => aggregate = Once(Listed(validators))

IInv == Typed /\ KeysPlaced /\ ChecksSound /\ AggregateIsOnce

-----------------------------------------------------------------------------
\* What Append makes of a sequence.
LEMMA AppendFacts ==
    ASSUME NEW S, NEW s \in Seq(S), NEW x \in S
    PROVE  /\ Append(s, x) \in Seq(S) /\ Len(s) \in Nat
           /\ Append(s, x) # <<>>
           /\ Len(Append(s, x)) = Len(s) + 1
           /\ DOMAIN s = 1 .. Len(s)
           /\ DOMAIN Append(s, x) = 1 .. Len(s) + 1
           /\ Append(s, x)[Len(s) + 1] = x
           /\ \A i \in DOMAIN s : Append(s, x)[i] = s[i]
  OBVIOUS

\* The first entry of a sequence and the rest.
LEMMA TailFacts ==
    ASSUME NEW S, NEW s \in Seq(S), s # <<>>
    PROVE  /\ Head(s) = s[1] /\ s[1] \in S /\ 1 \in DOMAIN s
           /\ Tail(s) \in Seq(S) /\ Len(s) \in Nat
           /\ Len(Tail(s)) = Len(s) - 1
           /\ DOMAIN s = 1 .. Len(s)
           /\ DOMAIN Tail(s) = 1 .. Len(s) - 1
           /\ \A i \in DOMAIN Tail(s) : i \in Nat /\ i + 1 \in DOMAIN s /\ Tail(s)[i] = s[i + 1]
  OBVIOUS

\* A sequence is a function on its positions.
LEMMA SeqIsFunction ==
    ASSUME NEW S, NEW s \in Seq(S), NEW n, DOMAIN s = 1 .. n
    PROVE  s = [i \in 1 .. n |-> s[i]]
<1>1. s = [i \in DOMAIN s |-> s[i]]
  OBVIOUS
<1>2. QED BY <1>1

\* A sequence over a set is one over every larger set.
LEMMA LargerSeq ==
    ASSUME NEW A, NEW B, A \subseteq B, NEW s \in Seq(A)
    PROVE  s \in Seq(B)
<1>1. Len(s) \in Nat /\ s = [i \in 1 .. Len(s) |-> s[i]]
  OBVIOUS
<1>2. \A i \in 1 .. Len(s) : s[i] \in B
  OBVIOUS
<1>3. QED BY <1>1, <1>2

\* What SetToSeq makes of a finite set: its elements, each once.
LEMMA SetToSeqFacts ==
    ASSUME NEW S, IsFiniteSet(S)
    PROVE  /\ SetToSeq(S) \in [1 .. Cardinality(S) -> S]
           /\ SetToSeq(S) \in Seq(S)
           /\ NoRepeats(SetToSeq(S))
           /\ Listed(SetToSeq(S)) = S
<1> DEFINE n == Cardinality(S)
           f == SetToSeq(S)
<1>1. n \in Nat /\ ExistsBijection(1 .. n, S)
  BY FS_CardinalityType
<1>2. \E g \in [1 .. n -> S] : IsInjective(g)
  BY <1>1 DEF ExistsBijection, Bijection, Injection
<1>3. f \in [1 .. n -> S] /\ IsInjective(f)
  BY <1>2 DEF SetToSeq
<1>4. f \in Injection(1 .. n, S)
  BY <1>3 DEF Injection
<1>5. Cardinality(1 .. n) = n
  BY <1>1, FS_Interval
<1>6. f \in Surjection(1 .. n, S)
  BY <1>4, <1>5, FS_Injection
<1>7. \A x \in S : \E i \in 1 .. n : f[i] = x
  BY <1>6 DEF Surjection
<1>8. f \in Seq(S)
  BY <1>1, <1>3
<1>9. NoRepeats(f)
  BY <1>3 DEF IsInjective, NoRepeats
<1>10. Listed(f) = S
  BY <1>3, <1>7 DEF Listed
<1>11. QED BY <1>3, <1>8, <1>9, <1>10

-----------------------------------------------------------------------------
\* Sums of points.  A list that names different entries of a list of different
\* keys counts each of them once.
LEMMA SumIsOnce ==
    ASSUME NEW list \in Seq(Keys), NoRepeats(list),
           NEW indices \in Indices, NoRepeats(indices),
           Listed(indices) \subseteq 0 .. Len(list) - 1
    PROVE  SumOfNodes(list, indices) = Once({list[indices[j] + 1] : j \in DOMAIN indices})
<1> DEFINE Counted(k) == {j \in DOMAIN indices : list[indices[j] + 1] = k}
           named == {list[indices[j] + 1] : j \in DOMAIN indices}
<1>1. ASSUME NEW j \in DOMAIN indices
      PROVE  indices[j] \in Nat /\ indices[j] + 1 \in DOMAIN list
  <2>1. indices[j] \in 0 .. Len(list) - 1
    BY DEF Listed
  <2>2. Len(list) \in Nat /\ DOMAIN list = 1 .. Len(list)
    OBVIOUS
  <2>3. QED BY <2>1, <2>2
<1>2. ASSUME NEW k \in Keys
      PROVE  Cardinality(Counted(k)) = IF k \in named THEN 1 ELSE 0
  <2>1. CASE k \in named
    <3>1. PICK j \in DOMAIN indices : list[indices[j] + 1] = k
      BY <2>1
    <3>2. ASSUME NEW i \in Counted(k)
          PROVE  i = j
      <4>1. indices[i] + 1 = indices[j] + 1
        BY <1>1, <3>1 DEF NoRepeats
      <4>2. indices[i] = indices[j]
        BY <1>1, <4>1
      <4>3. QED BY <4>2 DEF NoRepeats
    <3>3. Counted(k) = {j}
      BY <3>1, <3>2
    <3>4. QED BY <2>1, <3>3, FS_Singleton
  <2>2. CASE k \notin named
    <3>1. Counted(k) = {}
      BY <2>2
    <3>2. QED BY <2>2, <3>1, FS_EmptySet
  <2>3. QED BY <2>1, <2>2
<1>3. QED BY <1>2 DEF SumOfNodes, Once

\* Once is a point.
LEMMA OnceIsPoint == \A set : Once(set) \in Points
  BY DEF Once, Points

\* Two sets of keys have the same point only if they are the same set.
LEMMA OnceDiffers ==
    ASSUME NEW A \in SUBSET Keys, NEW B \in SUBSET Keys, Once(A) = Once(B)
    PROVE  A = B
<1>1. \A k \in Keys : Once(A)[k] = Once(B)[k]
  OBVIOUS
<1>2. \A k \in Keys : k \in A <=> k \in B
  BY <1>1 DEF Once
<1>3. QED BY <1>2

\* The pairing compares two points.
LEMMA PairingCompares ==
    ASSUME NEW p \in Points, NEW q \in Points
    PROVE  Registry!PairingHolds(p, q) <=> p = q
<1>1. CASE p = q
  <2>1. \A k \in Keys : p[k] + (-q[k]) = 0
    BY <1>1 DEF Points
  <2>2. QED BY <1>1, <2>1 DEF Registry!PairingHolds, Registry!add, Registry!negate, Registry!Zero
<1>2. CASE Registry!PairingHolds(p, q)
  <2>1. Registry!add(p, Registry!negate(q)) = Registry!Zero
    BY <1>2 DEF Registry!PairingHolds
  <2>2. ASSUME NEW k \in Keys
        PROVE  p[k] = q[k]
    <3>1. Registry!add(p, Registry!negate(q))[k] = Registry!Zero[k]
      BY <2>1
    <3>2. p[k] + (-q[k]) = 0
      BY <3>1 DEF Registry!add, Registry!negate, Registry!Zero
    <3>3. QED BY <3>2 DEF Points
  <2>3. p = [k \in Keys |-> p[k]] /\ q = [k \in Keys |-> q[k]]
    BY DEF Points
  <2>4. p = q
    BY <2>2, <2>3
  <2>5. QED BY <1>2, <2>4
<1>3. QED BY <1>1, <1>2

\* Subtracting part of a set of keys leaves the rest.
LEMMA OnceLess ==
    ASSUME NEW A, NEW B, B \subseteq A
    PROVE  Registry!add(Once(A), Registry!negate(Once(B))) = Once(A \ B)
  BY DEF Registry!add, Registry!negate, Once

-----------------------------------------------------------------------------
\* The checks.  First what the loops of the contract compute, in terms of the
\* members at the given positions.
LEMMA CanSumIff ==
    ASSUME Typed, NEW indices \in Indices
    PROVE  Registry!CanSum(indices) <=> Listed(indices) \subseteq Abstract!Positions
<1>1. validators \in Seq(Keys) /\ OffCurve \notin Keys
  BY ClientsAssumption DEF Typed
<1>2. ASSUME NEW j \in DOMAIN indices, indices[j] \in 0 .. Len(validators) - 1
      PROVE  validators[indices[j] + 1] # OffCurve
  <2>1. indices[j] + 1 \in 1 .. Len(validators)
    BY <1>1, <1>2
  <2>2. QED BY <1>1, <2>1
<1>3. QED BY <1>2 DEF Registry!CanSum, Abstract!Positions, Listed

\* No key is registered twice.
LEMMA MembersDiffer ==
    ASSUME Typed, MembersOnce
    PROVE  /\ NoRepeats(validators)
           /\ \A i, j \in Abstract!Positions :
                 /\ validators[i + 1] \in Keys
                 /\ validators[i + 1] = validators[j + 1] => i = j
<1>1. validators \in Seq(Keys) /\ Len(validators) \in Nat
      /\ DOMAIN validators = 1 .. Len(validators)
  BY DEF Typed
<1>2. ASSUME NEW p \in DOMAIN validators, NEW q \in DOMAIN validators,
             validators[p] = validators[q]
      PROVE  p = q
  <2>1. /\ p \in Nat /\ q \in Nat /\ validators[p] \in Keys
        /\ Member(p, validators[p]) /\ Member(q, validators[p])
    BY <1>1, <1>2 DEF Member
  <2>2. QED BY <2>1 DEF MembersOnce
<1>3. ASSUME NEW i \in Abstract!Positions
      PROVE  i \in Nat /\ i + 1 \in DOMAIN validators /\ validators[i + 1] \in Keys
  BY <1>1 DEF Abstract!Positions
<1>4. ASSUME NEW i \in Abstract!Positions, NEW j \in Abstract!Positions,
             validators[i + 1] = validators[j + 1]
      PROVE  i = j
  <2>1. i + 1 = j + 1
    BY <1>2, <1>3, <1>4
  <2>2. QED BY <1>3, <2>1
<1>5. QED BY <1>2, <1>3, <1>4 DEF NoRepeats

\* Different positions of the registry add up to the members there.
LEMMA SumIsMembers ==
    ASSUME Typed, MembersOnce, NEW indices \in Indices, NoRepeats(indices),
           Listed(indices) \subseteq Abstract!Positions
    PROVE  Registry!SumAt(indices) = Once(Abstract!At(Listed(indices)))
<1>1. Registry!SumAt(indices) = SumOfNodes(validators, indices)
  BY DEF Registry!SumAt, SumOfNodes, Registry!Cardinality, Cardinality
<1>2. SumOfNodes(validators, indices) =
         Once({validators[indices[j] + 1] : j \in DOMAIN indices})
  BY MembersDiffer, SumIsOnce DEF Typed, Abstract!Positions
<1>3. {validators[indices[j] + 1] : j \in DOMAIN indices} = Abstract!At(Listed(indices))
  BY DEF Abstract!At, Listed
<1>4. QED BY <1>1, <1>2, <1>3

\* The loops over the whole array take every position once.
LEMMA AllIndicesFacts ==
    ASSUME Typed
    PROVE  /\ Registry!AllIndices \in Indices
           /\ NoRepeats(Registry!AllIndices)
           /\ Listed(Registry!AllIndices) = Abstract!Positions
<1> DEFINE all == Registry!AllIndices
<1>1. Len(validators) \in Nat
  BY DEF Typed
<1>2. all = [j \in 1 .. Len(validators) |-> j - 1]
  BY DEF Registry!AllIndices
<1>3. all \in Indices
  BY <1>1, <1>2 DEF Indices
<1>4. NoRepeats(all)
  BY <1>1, <1>2 DEF NoRepeats
<1>5. ASSUME NEW i \in Abstract!Positions
      PROVE  i \in Listed(all)
  <2>1. i + 1 \in 1 .. Len(validators) /\ (i + 1) - 1 = i
    BY <1>1 DEF Abstract!Positions
  <2>2. QED BY <1>2, <2>1 DEF Listed
<1>6. ASSUME NEW i \in Listed(all)
      PROVE  i \in Abstract!Positions
  BY <1>1, <1>2 DEF Listed, Abstract!Positions
<1>7. QED BY <1>3, <1>4, <1>5, <1>6

\* All positions together are the whole registry.
LEMMA AllMembers ==
    ASSUME Typed
    PROVE  Abstract!At(Abstract!Positions) = Listed(validators)
<1>1. DOMAIN validators = 1 .. Len(validators) /\ Len(validators) \in Nat
  BY DEF Typed
<1>2. \A p \in DOMAIN validators : p - 1 \in Abstract!Positions /\ (p - 1) + 1 = p
  BY <1>1 DEF Abstract!Positions
<1>3. \A i \in Abstract!Positions : i + 1 \in DOMAIN validators
  BY <1>1 DEF Abstract!Positions
<1>4. QED BY <1>2, <1>3 DEF Abstract!At, Listed

\* The members at some positions are keys; the other positions hold the others.
LEMMA AtKeys ==
    ASSUME Typed, MembersOnce, NEW X \in SUBSET Abstract!Positions
    PROVE  /\ Abstract!At(X) \in SUBSET Keys
           /\ Abstract!At(X) \subseteq Abstract!At(Abstract!Positions)
           /\ Abstract!At(Abstract!Positions \ X) =
                 Abstract!At(Abstract!Positions) \ Abstract!At(X)
  BY MembersDiffer DEF Abstract!At

\* Those who signed a check are keys.
LEMMA SignersAreKeys ==
    ASSUME NEW tx \in Transactions, tx.op \notin {"add", "clear"}, SoundCheck(tx)
    PROVE  /\ tx.op \in {"agg", "pubkey", "indices", "negate"}
           /\ tx.sum \in Points /\ tx.indices \in Indices
           /\ SignerKeys(tx) \in SUBSET Keys
<1>1. /\ tx.op \in {"agg", "pubkey", "indices", "negate"}
      /\ tx.sum \in Points /\ tx.indices \in Indices /\ tx.signers \in Indices
      /\ tx.roster \in Seq(Keys)
  BY DEF Transactions
<1>2. ASSUME NEW j \in DOMAIN tx.signers
      PROVE  tx.roster[tx.signers[j] + 1] \in Keys
  <2>1. tx.signers[j] \in 0 .. Len(tx.roster) - 1
    BY DEF SoundCheck, Listed
  <2>2. tx.signers[j] + 1 \in 1 .. Len(tx.roster)
    BY <1>1, <2>1
  <2>3. QED BY <1>1, <2>2
<1>3. QED BY <1>1, <1>2 DEF SignerKeys

\* A check that adds up the members at these positions accepts exactly if they
\* are the ones that signed.
LEMMA SumComparesSets ==
    ASSUME Typed, MembersOnce, NEW tx \in Transactions,
           tx.op \notin {"add", "clear"}, SoundCheck(tx),
           NEW X \in SUBSET Abstract!Positions
    PROVE  /\ Once(Abstract!At(X)) \in Points
           /\ Registry!PairingHolds(tx.sum, Once(Abstract!At(X)))
                 <=> SignerKeys(tx) = Abstract!At(X)
           /\ Once(Abstract!At(X)) = tx.sum <=> SignerKeys(tx) = Abstract!At(X)
<1>1. tx.sum \in Points /\ Once(Abstract!At(X)) \in Points
  BY SignersAreKeys, OnceIsPoint
<1>2. tx.sum = Once(SignerKeys(tx))
  BY DEF SoundCheck
<1>3. tx.sum = Once(Abstract!At(X)) <=> SignerKeys(tx) = Abstract!At(X)
  <2>1. SignerKeys(tx) \in SUBSET Keys
    BY SignersAreKeys
  <2>2. Abstract!At(X) \in SUBSET Keys
    BY AtKeys
  <2>3. QED BY <1>2, <2>1, <2>2, OnceDiffers
<1>4. QED BY <1>1, <1>3, PairingCompares

\* The contract accepts a check exactly if the keys that signed are the members
\* it names.
LEMMA ChecksMean ==
    ASSUME Typed, MembersOnce, AggregateIsOnce, NEW tx \in Transactions,
           tx.op \notin {"add", "clear"}, SoundCheck(tx),
           ~Abstract!LeftOpen(RequestOf(tx))
    PROVE  Accepts(tx) <=> Abstract!Holds(RequestOf(tx))
<1> DEFINE request == RequestOf(tx)
           whole == Abstract!Positions
<1>1. /\ request = [kind |-> KindOf[tx.op], positions |-> MeantBy(tx),
                     signers |-> SignerKeys(tx)]
      /\ Listed(tx.signers) \subseteq 0 .. Len(tx.roster) - 1
  BY DEF RequestOf, SoundCheck
<1> SUFFICES Accepts(tx) <=> Abstract!Holds(request)
  OBVIOUS
<1> HIDE DEF request
<1>2. CASE tx.op = "agg"
  <2>1. request.kind = "all" /\ request.positions = {}
    BY <1>1, <1>2 DEF KindOf, MeantBy
  <2>2. Accepts(tx) <=> Registry!PairingHolds(tx.sum, Once(Abstract!At(whole)))
    <3>1. Registry!CanSum(Registry!AllIndices)
      BY CanSumIff, AllIndicesFacts
    <3>2. Registry!SumAt(Registry!AllIndices) = Once(Abstract!At(whole))
      BY AllIndicesFacts, SumIsMembers
    <3>3. QED BY <1>2, <3>1, <3>2 DEF Accepts, Registry!checkSigAGG
  <2>3. Accepts(tx) <=> SignerKeys(tx) = Abstract!At(whole)
    BY <2>2, SumComparesSets
  <2>4. QED
    <3>1. Abstract!Named(request) = Abstract!At(whole)
      BY <2>1 DEF Abstract!Named
    <3>2. QED BY <1>1, <2>1, <2>3, <3>1 DEF Abstract!Holds
<1>3. CASE tx.op = "pubkey"
  <2>1. request.kind = "allOfSeveral" /\ request.positions = {}
    BY <1>1, <1>3 DEF KindOf, MeantBy
  <2>2. Accepts(tx) <=> Len(validators) > 1 /\ Once(Abstract!At(whole)) = tx.sum
    <3>1. Registry!CanSum(Registry!AllIndices)
      BY CanSumIff, AllIndicesFacts
    <3>2. Registry!SumAt(Registry!AllIndices) = Once(Abstract!At(whole))
      BY AllIndicesFacts, SumIsMembers
    <3>3. QED BY <1>3, <3>1, <3>2 DEF Accepts, Registry!checkAggPubkey
  <2>3. Accepts(tx) <=> Len(validators) > 1 /\ SignerKeys(tx) = Abstract!At(whole)
    BY <2>2, SumComparesSets
  <2>4. QED
    <3>1. Abstract!Named(request) = Abstract!At(whole)
      BY <2>1 DEF Abstract!Named
    <3>2. QED BY <1>1, <2>1, <2>3, <3>1 DEF Abstract!Holds
<1>4. CASE tx.op = "indices"
  <2>1. request.kind = "only" /\ request.positions = Listed(tx.signers)
    BY <1>1, <1>4 DEF KindOf, MeantBy, Listed
  <2>2. /\ tx.indices = tx.signers /\ NoRepeats(tx.indices)
        /\ tx.indices \in Indices
    BY <1>4, SignersAreKeys DEF SoundCheck
  <2>3. CASE Listed(tx.indices) \subseteq whole
    <3>1. Registry!SumAt(tx.indices) = Once(Abstract!At(Listed(tx.indices)))
      BY <2>2, <2>3, SumIsMembers
    <3>2. Accepts(tx) <=>
             Registry!PairingHolds(tx.sum, Once(Abstract!At(Listed(tx.indices))))
      BY <1>4, <2>2, <2>3, <3>1, CanSumIff DEF Accepts, Registry!checkSigAGGIndices
    <3>3. Accepts(tx) <=> SignerKeys(tx) = Abstract!At(Listed(tx.indices))
      BY <2>3, <3>2, SumComparesSets
    <3>4. Abstract!Named(request) = Abstract!At(Listed(tx.indices))
      <4>1. {i \in whole : i \in request.positions} = Listed(tx.indices)
        BY <2>1, <2>2, <2>3
      <4>2. QED BY <2>1, <4>1 DEF Abstract!Named
    <3>5. QED BY <1>1, <2>1, <2>2, <2>3, <3>3, <3>4 DEF Abstract!Holds
  <2>4. CASE ~(Listed(tx.indices) \subseteq whole)
    <3>1. ~Accepts(tx)
      BY <1>4, <2>2, <2>4, CanSumIff DEF Accepts, Registry!checkSigAGGIndices
    <3>2. QED BY <2>1, <2>2, <2>4, <3>1 DEF Abstract!Holds
  <2>5. QED BY <2>3, <2>4
<1>5. CASE tx.op = "negate"
  <2>1. /\ request.kind = "allBut"
        /\ request.positions = Listed(tx.indices)
    BY <1>1, <1>5 DEF KindOf, MeantBy, Listed, SoundCheck
  <2>2. tx.indices \in Indices /\ NoRepeats(tx.indices)
    BY SignersAreKeys DEF SoundCheck
  <2>3. validators # <<>>
    BY <2>1 DEF Abstract!LeftOpen, request
  <2>4. aggregate # OffCurve /\ aggregate = Once(Abstract!At(whole))
    BY <2>3, AllMembers, ClientsAssumption DEF AggregateIsOnce, Typed, Points
  <2>5. CASE Listed(tx.indices) \subseteq whole
    <3> DEFINE rest == whole \ Listed(tx.indices)
    <3>1. Registry!SumAt(tx.indices) = Once(Abstract!At(Listed(tx.indices)))
      BY <2>2, <2>5, SumIsMembers
    <3>2. Abstract!At(Listed(tx.indices)) \subseteq Abstract!At(whole)
          /\ Abstract!At(rest) = Abstract!At(whole) \ Abstract!At(Listed(tx.indices))
      BY <2>5, AtKeys
    <3>3. Registry!add(aggregate, Registry!negate(Registry!SumAt(tx.indices)))
             = Once(Abstract!At(rest))
      BY <2>4, <3>1, <3>2, OnceLess
    <3>4. Accepts(tx) <=> Registry!PairingHolds(tx.sum, Once(Abstract!At(rest)))
      BY <1>5, <2>2, <2>4, <2>5, <3>3, CanSumIff
         DEF Accepts, Registry!checkSigAGGNegateIndices
    <3>5. Accepts(tx) <=> SignerKeys(tx) = Abstract!At(rest)
      BY <3>4, SumComparesSets
    <3>6. Abstract!Named(request) = Abstract!At(rest)
      <4>1. {i \in whole : i \notin request.positions} = rest
        BY <2>1
      <4>2. QED BY <2>1, <4>1 DEF Abstract!Named
    <3>7. QED BY <1>1, <2>1, <2>5, <3>5, <3>6 DEF Abstract!Holds
  <2>6. CASE ~(Listed(tx.indices) \subseteq whole)
    <3>1. ~Accepts(tx)
      BY <1>5, <2>2, <2>6, CanSumIff DEF Accepts, Registry!checkSigAGGNegateIndices
    <3>2. QED BY <2>1, <2>6, <3>1 DEF Abstract!Holds
  <2>7. QED BY <2>5, <2>6
<1>6. QED BY <1>2, <1>3, <1>4, <1>5, SignersAreKeys

-----------------------------------------------------------------------------
\* Where keys go: the places are in range.
LEMMA PlacesTyped ==
    ASSUME Typed
    PROVE  /\ \A c \in Clients : \A i \in Nat : \A k \in Keys :
                 /\ Owns(c, i, k) => i <= Len(nodes[c])
                 /\ Asked(c, i, k) => i <= Len(pending[c])
           /\ \A p \in Nat : \A k \in Keys : Member(p, k) => p <= Len(validators)
           /\ \A c \in Clients : Len(nodes[c]) \in Nat /\ Len(pending[c]) \in Nat
                                  /\ sent[c] \in Nat /\ sent[c] <= Len(nodes[c])
           /\ Len(validators) \in Nat
<1>1. ASSUME NEW c \in Clients, NEW i \in Nat, NEW k \in Keys
      PROVE  /\ Owns(c, i, k) => i <= Len(nodes[c])
             /\ Asked(c, i, k) => i <= Len(pending[c])
  <2>1. nodes[c] \in Seq(Keys) /\ pending[c] \in Seq(Transactions)
    BY DEF Typed
  <2>2. QED BY <2>1 DEF Owns, Asked
<1>2. ASSUME NEW p \in Nat, NEW k \in Keys, Member(p, k)
      PROVE  p <= Len(validators)
  BY <1>2 DEF Member, Typed
<1>3. ASSUME NEW c \in Clients
      PROVE  Len(nodes[c]) \in Nat /\ Len(pending[c]) \in Nat
             /\ sent[c] \in Nat /\ sent[c] <= Len(nodes[c])
  <2>1. nodes[c] \in Seq(Keys) /\ pending[c] \in Seq(Transactions)
    BY DEF Typed
  <2>2. QED BY <2>1 DEF Typed
<1>4. Len(validators) \in Nat
  BY DEF Typed
<1>5. QED BY <1>1, <1>2, <1>3, <1>4

\* A new node's key is nowhere else yet.
LEMMA KeysAfterAddNode ==
    ASSUME Typed, KeysPlaced, NEW c \in Clients, addNode(c)
    PROVE  KeysPlaced'
<1>1. PICK key \in Keys :
         Fresh(key) /\ nodes' = [nodes EXCEPT ![c] = Append(@, key)]
  BY DEF addNode
<1>2. UNCHANGED <<validators, sent, pending>>
  BY DEF addNode, registryVars
<1>3. \A d \in Clients : \A i \in Nat : \A k \in Keys :
         Asked(d, i, k)' <=> Asked(d, i, k)
  BY <1>2 DEF Asked
<1>4. \A p \in Nat : \A k \in Keys : Member(p, k)' <=> Member(p, k)
  BY <1>2 DEF Member
<1>5. ASSUME NEW d \in Clients, NEW i \in Nat, NEW k \in Keys, Owns(d, i, k)'
      PROVE  \/ Owns(d, i, k)
             \/ d = c /\ i = Len(nodes[c]) + 1 /\ k = key
  <2>1. nodes[c] \in Seq(Keys) /\ nodes \in [Clients -> Seq(Keys)]
    BY DEF Typed
  <2>2. CASE d = c
    <3>1. nodes'[d] = Append(nodes[c], key)
      BY <1>1, <2>1, <2>2
    <3>2. QED BY <1>5, <2>1, <2>2, <3>1, AppendFacts DEF Owns
  <2>3. CASE d # c
    BY <1>1, <1>5, <2>1, <2>3 DEF Owns
  <2>4. QED BY <2>2, <2>3
<1>6. /\ \A d \in Clients : \A i \in Nat : ~Owns(d, i, key) /\ ~Asked(d, i, key)
      /\ \A p \in Nat : ~Member(p, key)
  BY <1>1 DEF Fresh, Owns, Asked, Member
<1>7. sent' = sent
  BY <1>2
<1>8. OneOwner'
  BY <1>5, <1>6 DEF OneOwner, KeysPlaced
<1>9. AskedOnce' /\ MembersOnce' /\ AskedIsNoMember'
  BY <1>3, <1>4 DEF AskedOnce, MembersOnce, AskedIsNoMember, KeysPlaced
<1>10. UnsentIsNowhere'
  BY <1>3, <1>4, <1>5, <1>6, <1>7 DEF UnsentIsNowhere, KeysPlaced
<1>11. OwnQueue'
  BY <1>3, <1>5, <1>6 DEF OwnQueue, KeysPlaced
<1>12. QueueInOrder'
  BY <1>3, <1>5, <1>6 DEF QueueInOrder, KeysPlaced
<1>13. EarlierFirst'
  BY <1>3, <1>4, <1>5, <1>6 DEF EarlierFirst, KeysPlaced
<1>14. MembersInOrder'
  BY <1>4, <1>5, <1>6 DEF MembersInOrder, KeysPlaced
<1>15. QED BY <1>8, <1>9, <1>10, <1>11, <1>12, <1>13, <1>14 DEF KeysPlaced

\* A list that is given up leaves its keys where they were sent to.
LEMMA KeysAfterNewList ==
    ASSUME Typed, KeysPlaced, NEW c \in Clients, NewList(c)
    PROVE  KeysPlaced'
<1>1. /\ nodes' = [nodes EXCEPT ![c] = <<>>]
      /\ sent' = [sent EXCEPT ![c] = 0]
      /\ UNCHANGED <<validators, pending>>
  BY DEF NewList, registryVars
<1>2. \A d \in Clients : \A i \in Nat : \A k \in Keys :
         Asked(d, i, k)' <=> Asked(d, i, k)
  BY <1>1 DEF Asked
<1>3. \A p \in Nat : \A k \in Keys : Member(p, k)' <=> Member(p, k)
  BY <1>1 DEF Member
<1>4. ASSUME NEW d \in Clients, NEW i \in Nat, NEW k \in Keys, Owns(d, i, k)'
      PROVE  Owns(d, i, k) /\ sent'[d] = sent[d]
  <2>1. nodes \in [Clients -> Seq(Keys)] /\ sent \in [Clients -> Nat]
    BY DEF Typed
  <2>2. d # c
    BY <1>1, <1>4, <2>1 DEF Owns
  <2>3. QED BY <1>1, <1>4, <2>1, <2>2 DEF Owns
<1>5. OneOwner'
  BY <1>4 DEF OneOwner, KeysPlaced
<1>6. AskedOnce' /\ MembersOnce' /\ AskedIsNoMember'
  BY <1>2, <1>3 DEF AskedOnce, MembersOnce, AskedIsNoMember, KeysPlaced
<1>7. UnsentIsNowhere'
  BY <1>2, <1>3, <1>4 DEF UnsentIsNowhere, KeysPlaced
<1>8. OwnQueue'
  BY <1>2, <1>4 DEF OwnQueue, KeysPlaced
<1>9. QueueInOrder'
  BY <1>2, <1>4 DEF QueueInOrder, KeysPlaced
<1>10. EarlierFirst'
  BY <1>2, <1>3, <1>4 DEF EarlierFirst, KeysPlaced
<1>11. MembersInOrder'
  BY <1>3, <1>4 DEF MembersInOrder, KeysPlaced
<1>12. QED BY <1>5, <1>6, <1>7, <1>8, <1>9, <1>10, <1>11 DEF KeysPlaced

\* Sending appends to the client's queue.
LEMMA SendEffect ==
    ASSUME Typed, NEW c \in Clients, NEW tx \in Transactions, Send(c, tx)
    PROVE  /\ pending' \in [Clients -> Seq(Transactions)]
           /\ \A d \in Clients : Len(pending'[d]) <= MaxPending
           /\ \A d \in Clients : \A i \in DOMAIN pending'[d] :
                 \/ i \in DOMAIN pending[d] /\ pending'[d][i] = pending[d][i]
                 \/ d = c /\ i = Len(pending[c]) + 1 /\ pending'[d][i] = tx
<1>1. /\ pending \in [Clients -> Seq(Transactions)]
      /\ pending[c] \in Seq(Transactions)
      /\ \A d \in Clients : Len(pending[d]) <= MaxPending
  BY DEF Typed
<1>2. /\ pending' = [pending EXCEPT ![c] = Append(@, tx)]
      /\ Len(pending[c]) < MaxPending
  BY DEF Send
<1>3. pending'[c] = Append(pending[c], tx) /\ Append(pending[c], tx) \in Seq(Transactions)
  BY <1>1, <1>2
<1>4. \A d \in Clients \ {c} : pending'[d] = pending[d]
  BY <1>1, <1>2
<1>5. pending' \in [Clients -> Seq(Transactions)]
  BY <1>1, <1>2, <1>3
<1>6. Len(pending'[c]) <= MaxPending
  BY <1>1, <1>2, <1>3, ClientsAssumption
<1>7. ASSUME NEW i \in DOMAIN pending'[c]
      PROVE  \/ i \in DOMAIN pending[c] /\ pending'[c][i] = pending[c][i]
             \/ i = Len(pending[c]) + 1 /\ pending'[c][i] = tx
  BY <1>1, <1>3, AppendFacts
<1>8. QED BY <1>1, <1>4, <1>5, <1>6, <1>7

\* A key that is asked for is the next of the client's own list.
LEMMA KeysAfterSendAddValidator ==
    ASSUME Typed, KeysPlaced, NEW c \in Clients, SendAddValidator(c)
    PROVE  KeysPlaced'
<1> DEFINE key == nodes[c][sent[c] + 1]
           next == sent[c] + 1
<1>1. /\ sent[c] < Len(nodes[c]) /\ Send(c, AddTx(key))
      /\ sent' = [sent EXCEPT ![c] = @ + 1]
      /\ UNCHANGED <<validators, nodes>>
  BY DEF SendAddValidator, registryVars
<1>2. /\ next \in Nat /\ sent[c] < next /\ key \in Keys /\ Owns(c, next, key)
      /\ sent \in [Clients -> Nat]
  <2>1. nodes[c] \in Seq(Keys) /\ sent[c] \in Nat /\ sent \in [Clients -> Nat]
    BY DEF Typed
  <2>2. next \in DOMAIN nodes[c]
    BY <1>1, <2>1
  <2>3. QED BY <2>1, <2>2 DEF Owns
<1>3. AddTx(key) \in Transactions
  BY <1>2 DEF AddTx, Transactions
<1> HIDE DEF key, next
<1>4. ASSUME NEW d \in Clients, NEW i \in Nat, NEW k \in Keys, Asked(d, i, k)'
      PROVE  \/ Asked(d, i, k)
             \/ d = c /\ i = Len(pending[c]) + 1 /\ k = key
  <2>1. i \in DOMAIN pending'[d] /\ pending'[d][i].op = "add" /\ pending'[d][i].key = k
    BY <1>4 DEF Asked
  <2>2. CASE i \in DOMAIN pending[d] /\ pending'[d][i] = pending[d][i]
    BY <2>1, <2>2 DEF Asked
  <2>3. CASE d = c /\ i = Len(pending[c]) + 1 /\ pending'[d][i] = AddTx(key)
    BY <2>1, <2>3 DEF AddTx
  <2>4. QED BY <1>1, <1>3, <2>1, <2>2, <2>3, SendEffect
<1>5. \A d \in Clients : \A i \in Nat : \A k \in Keys : Owns(d, i, k)' <=> Owns(d, i, k)
  BY <1>1 DEF Owns
<1>6. \A p \in Nat : \A k \in Keys : Member(p, k)' <=> Member(p, k)
  BY <1>1 DEF Member
<1>7. /\ \A d \in Clients : \A i \in Nat : ~Asked(d, i, key)
      /\ \A p \in Nat : ~Member(p, key)
  BY <1>2 DEF KeysPlaced, UnsentIsNowhere
<1>8. \A d \in Clients : \A i \in Nat : Owns(d, i, key) => d = c /\ i = next
  BY <1>2 DEF KeysPlaced, OneOwner
<1>9. /\ sent'[c] = next
      /\ \A d \in Clients : d # c => sent'[d] = sent[d]
  BY <1>1, <1>2 DEF next
<1>10. OneOwner' /\ MembersOnce' /\ MembersInOrder'
  BY <1>5, <1>6 DEF OneOwner, MembersOnce, MembersInOrder, KeysPlaced
<1>11. AskedOnce'
  BY <1>4, <1>7 DEF AskedOnce, KeysPlaced
<1>12. AskedIsNoMember'
  BY <1>4, <1>6, <1>7 DEF AskedIsNoMember, KeysPlaced
<1>13. UnsentIsNowhere'
  <2>1. SUFFICES ASSUME NEW d \in Clients, NEW e \in Clients, NEW i \in Nat,
                        NEW j \in Nat, NEW k \in Keys, Owns(d, i, k), sent'[d] < i
                 PROVE  ~Member(j, k) /\ ~Asked(e, j, k)'
    BY <1>5, <1>6 DEF UnsentIsNowhere
  <2>2. sent[d] < i
    BY <1>2, <1>9, <2>1, PlacesTyped
  <2>3. k # key
    BY <1>2, <1>8, <1>9, <2>1
  <2>4. QED BY <1>4, <2>1, <2>2, <2>3 DEF UnsentIsNowhere, KeysPlaced
<1>14. OwnQueue'
  BY <1>4, <1>5, <1>8 DEF OwnQueue, KeysPlaced
<1>15. ASSUME NEW i \in Nat, NEW k \in Keys, Owns(c, i, k), next < i
       PROVE  /\ \A d \in Clients : \A p \in Nat : ~Asked(d, p, k)
              /\ \A p \in Nat : ~Member(p, k)
  <2>1. sent[c] < i
    BY <1>2, <1>15, PlacesTyped
  <2>2. QED BY <1>15, <2>1 DEF KeysPlaced, UnsentIsNowhere
<1>16. QueueInOrder'
  <2>1. SUFFICES ASSUME NEW d \in Clients, NEW i \in Nat, NEW j \in Nat,
                        NEW p \in Nat, NEW q \in Nat, NEW k \in Keys, NEW l \in Keys,
                        Owns(d, i, k), Owns(d, j, l), i < j,
                        Asked(d, p, k)', Asked(d, q, l)'
                 PROVE  p < q
    BY <1>5 DEF QueueInOrder
  <2>2. CASE k = key
    <3>1. d = c /\ i = next
      BY <1>8, <2>1, <2>2
    <3>2. l # key /\ ~Asked(d, q, l)
      BY <1>8, <1>15, <2>1, <3>1
    <3>3. QED BY <1>4, <2>1, <3>2
  <2>3. CASE k # key /\ l = key
    <3>1. Asked(d, p, k) /\ d = c /\ q = Len(pending[c]) + 1
      BY <1>4, <1>7, <2>1, <2>3
    <3>2. QED BY <3>1, PlacesTyped
  <2>4. CASE k # key /\ l # key
    BY <1>4, <2>1, <2>4 DEF KeysPlaced, QueueInOrder
  <2>5. QED BY <2>2, <2>3, <2>4
<1>17. EarlierFirst'
  <2>1. SUFFICES ASSUME NEW d \in Clients, NEW i \in Nat, NEW j \in Nat,
                        NEW p \in Nat, NEW q \in Nat, NEW k \in Keys, NEW l \in Keys,
                        Owns(d, i, k), Owns(d, j, l), i < j,
                        Member(p, l), Asked(d, q, k)'
                 PROVE  FALSE
    BY <1>5, <1>6 DEF EarlierFirst
  <2>2. CASE Asked(d, q, k)
    BY <2>1, <2>2 DEF KeysPlaced, EarlierFirst
  <2>3. CASE d = c /\ k = key
    BY <1>8, <1>15, <2>1, <2>3
  <2>4. QED BY <1>4, <2>1, <2>2, <2>3
<1>18. QED BY <1>10, <1>11, <1>12, <1>13, <1>14, <1>16, <1>17 DEF KeysPlaced

\* Sending anything else leaves the keys where they are.
LEMMA KeysAfterOtherSend ==
    ASSUME Typed, KeysPlaced, NEW c \in Clients, NEW tx \in Transactions,
           Send(c, tx), tx.op # "add", UNCHANGED <<validators, nodes, sent>>
    PROVE  KeysPlaced'
<1>1. ASSUME NEW d \in Clients, NEW i \in Nat, NEW k \in Keys, Asked(d, i, k)'
      PROVE  Asked(d, i, k)
  BY <1>1, SendEffect DEF Asked
<1>2. \A d \in Clients : \A i \in Nat : \A k \in Keys : Owns(d, i, k)' <=> Owns(d, i, k)
  BY DEF Owns
<1>3. \A p \in Nat : \A k \in Keys : Member(p, k)' <=> Member(p, k)
  BY DEF Member
<1>4. OneOwner' /\ MembersOnce' /\ MembersInOrder'
  BY <1>2, <1>3 DEF OneOwner, MembersOnce, MembersInOrder, KeysPlaced
<1>5. AskedOnce' /\ AskedIsNoMember'
  BY <1>1, <1>3 DEF AskedOnce, AskedIsNoMember, KeysPlaced
<1>6. UnsentIsNowhere'
  BY <1>1, <1>2, <1>3 DEF UnsentIsNowhere, KeysPlaced
<1>7. OwnQueue' /\ QueueInOrder' /\ EarlierFirst'
  BY <1>1, <1>2, <1>3 DEF OwnQueue, QueueInOrder, EarlierFirst, KeysPlaced
<1>8. QED BY <1>4, <1>5, <1>6, <1>7 DEF KeysPlaced

\* What every execution does to the queues: the client's own moves up.
LEMMA ExecuteEffect ==
    ASSUME Typed, NEW c \in Clients, Execute(c)
    PROVE  /\ Head(pending[c]) \in Transactions /\ Head(pending[c]) = pending[c][1]
           /\ 1 \in DOMAIN pending[c]
           /\ pending' \in [Clients -> Seq(Transactions)]
           /\ \A d \in Clients : Len(pending'[d]) <= MaxPending
           /\ \A i \in DOMAIN pending'[c] :
                 /\ i \in Nat \ {0} /\ i + 1 \in DOMAIN pending[c]
                 /\ pending'[c][i] = pending[c][i + 1]
           /\ \A d \in Clients : d # c => pending'[d] = pending[d]
           /\ nodes' = nodes /\ sent' = sent
<1>1. /\ pending \in [Clients -> Seq(Transactions)]
      /\ pending[c] \in Seq(Transactions)
      /\ \A d \in Clients : Len(pending[d]) <= MaxPending
  BY DEF Typed
<1>2. /\ pending[c] # <<>> /\ pending' = [pending EXCEPT ![c] = Tail(@)]
      /\ nodes' = nodes /\ sent' = sent
  BY DEF Execute, clientVars
<1>3. pending'[c] = Tail(pending[c])
  BY <1>1, <1>2
<1>4. \A d \in Clients : d # c => pending'[d] = pending[d]
  BY <1>1, <1>2
<1>5. /\ Tail(pending[c]) \in Seq(Transactions)
      /\ Len(Tail(pending[c])) = Len(pending[c]) - 1 /\ Len(pending[c]) \in Nat
      /\ Head(pending[c]) = pending[c][1] /\ pending[c][1] \in Transactions
      /\ 1 \in DOMAIN pending[c]
      /\ \A i \in DOMAIN Tail(pending[c]) :
            /\ i \in Nat \ {0} /\ i + 1 \in DOMAIN pending[c]
            /\ Tail(pending[c])[i] = pending[c][i + 1]
  BY <1>1, <1>2, TailFacts
<1>6. pending' \in [Clients -> Seq(Transactions)]
  BY <1>1, <1>2, <1>5
<1>7. Len(pending'[c]) <= MaxPending
  BY <1>1, <1>3, <1>5, ClientsAssumption
<1>8. QED BY <1>1, <1>2, <1>3, <1>4, <1>5, <1>6, <1>7

\* What it does to the registry: it adds the key, empties it, or only checks.
LEMMA RegistryEffect ==
    ASSUME Typed, NEW c \in Clients, Execute(c)
    PROVE  \/ /\ Head(pending[c]).op = "add" /\ Head(pending[c]).key \in Keys
              /\ validators' = Append(validators, Head(pending[c]).key)
              /\ aggregate' = IF validators = <<>> THEN Registry!KeyPoint(Head(pending[c]).key)
                              ELSE Registry!add(aggregate, Registry!KeyPoint(Head(pending[c]).key))
              /\ seeded' = seeded /\ receipt' = "success"
           \/ /\ Head(pending[c]).op = "clear" /\ validators' = <<>> /\ receipt' = "success"
              /\ aggregate' = aggregate /\ seeded' = FALSE
           \/ /\ Head(pending[c]).op \notin {"add", "clear"}
              /\ receipt' = IF Accepts(Head(pending[c])) THEN "success" ELSE "failure"
              /\ UNCHANGED registryVars
<1> DEFINE tx == Head(pending[c])
<1>1. tx \in Transactions
  BY ExecuteEffect
<1>2. ExecuteAdd(tx) \/ ExecuteClear(tx) \/ ExecuteCheck(tx)
  BY DEF Execute
<1> HIDE DEF tx
<1>3. CASE ExecuteAdd(tx)
  <2>1. tx.op = "add" /\ tx.key \in Keys
    BY <1>1, <1>3 DEF ExecuteAdd, Transactions
  <2>2. tx.key # OffCurve /\ aggregate # OffCurve
    BY <2>1, ClientsAssumption DEF Typed, Points
  <2>3. Registry!CanAdd(tx.key)
    BY <2>2 DEF Registry!CanAdd
  <2>4. Registry!addValidator(tx.key) /\ receipt' = "success"
    BY <1>3, <2>3 DEF ExecuteAdd
  <2>5. QED BY <2>1, <2>2, <2>4 DEF Registry!addValidator, tx
<1>4. CASE ExecuteClear(tx)
  BY <1>4 DEF ExecuteClear, Registry!clearValidators, tx
<1>5. CASE ExecuteCheck(tx)
  BY <1>5 DEF ExecuteCheck, tx
<1>6. QED BY <1>2, <1>3, <1>4, <1>5

\* The next transaction's key goes from the queue into the registry.
LEMMA KeysAfterExecute ==
    ASSUME Typed, KeysPlaced, NEW c \in Clients, Execute(c)
    PROVE  KeysPlaced'
<1>1. ASSUME NEW d \in Clients, NEW i \in Nat, NEW k \in Keys, Asked(d, i, k)'
      PROVE  \/ d = c /\ i > 0 /\ i + 1 \in Nat /\ Asked(c, i + 1, k)
             \/ d # c /\ Asked(d, i, k)
  BY <1>1, ExecuteEffect DEF Asked
<1>2. ASSUME NEW p \in Nat, NEW k \in Keys, Member(p, k)'
      PROVE  \/ Member(p, k)
             \/ p = Len(validators) + 1 /\ Asked(c, 1, k)
  <2>1. CASE /\ Head(pending[c]).op = "add" /\ Head(pending[c]).key \in Keys
             /\ validators' = Append(validators, Head(pending[c]).key)
    <3>1. validators \in Seq(Keys)
      BY DEF Typed
    <3>2. CASE p \in DOMAIN validators
      BY <1>2, <2>1, <3>1, <3>2, AppendFacts DEF Member
    <3>3. CASE p = Len(validators) + 1
      BY <1>2, <2>1, <3>1, <3>3, AppendFacts, ExecuteEffect DEF Member, Asked
    <3>4. QED BY <1>2, <2>1, <3>1, <3>2, <3>3, AppendFacts DEF Member
  <2>2. CASE validators' = <<>>
    BY <1>2, <2>2 DEF Member
  <2>3. CASE validators' = validators
    BY <1>2, <2>3 DEF Member
  <2>4. QED BY <2>1, <2>2, <2>3, RegistryEffect DEF registryVars
<1>3. \A d \in Clients : \A i \in Nat : \A k \in Keys : Owns(d, i, k)' <=> Owns(d, i, k)
  BY ExecuteEffect DEF Owns
<1>4. sent' = sent
  BY ExecuteEffect
<1>5. \A k, l \in Keys : Asked(c, 1, k) /\ Asked(c, 1, l) => k = l
  BY DEF Asked
<1>6. OneOwner'
  BY <1>3 DEF OneOwner, KeysPlaced
<1>7. AskedOnce'
  <2>1. SUFFICES ASSUME NEW d \in Clients, NEW e \in Clients, NEW i \in Nat, NEW j \in Nat,
                        NEW k \in Keys, Asked(d, i, k)', Asked(e, j, k)'
                 PROVE  d = e /\ i = j
    BY DEF AskedOnce
  <2>2. CASE d = c /\ e = c
    <3>1. i + 1 = j + 1
      BY <1>1, <2>1, <2>2 DEF AskedOnce, KeysPlaced
    <3>2. QED BY <2>2, <3>1
  <2>3. CASE d # c \/ e # c
    BY <1>1, <2>1, <2>3 DEF AskedOnce, KeysPlaced
  <2>4. QED BY <2>2, <2>3
<1>8. MembersOnce'
  BY <1>2 DEF MembersOnce, AskedIsNoMember, KeysPlaced
<1>9. ASSUME NEW d \in Clients, NEW i \in Nat, NEW k \in Keys,
             Asked(d, i, k)', Asked(c, 1, k)
      PROVE  FALSE
  <2>1. CASE d = c
    <3>1. i + 1 = 1 /\ i > 0
      BY <1>1, <1>9, <2>1 DEF AskedOnce, KeysPlaced
    <3>2. QED BY <3>1
  <2>2. CASE d # c
    BY <1>1, <1>9, <2>2 DEF AskedOnce, KeysPlaced
  <2>3. QED BY <2>1, <2>2
<1>10. AskedIsNoMember'
  BY <1>1, <1>2, <1>9 DEF AskedIsNoMember, KeysPlaced
<1>11. UnsentIsNowhere'
  BY <1>1, <1>2, <1>3, <1>4 DEF UnsentIsNowhere, KeysPlaced
<1>12. OwnQueue'
  BY <1>1, <1>3 DEF OwnQueue, KeysPlaced
<1>13. QueueInOrder'
  <2>1. SUFFICES ASSUME NEW d \in Clients, NEW i \in Nat, NEW j \in Nat,
                        NEW p \in Nat, NEW q \in Nat, NEW k \in Keys, NEW l \in Keys,
                        Owns(d, i, k), Owns(d, j, l), i < j,
                        Asked(d, p, k)', Asked(d, q, l)'
                 PROVE  p < q
    BY <1>3 DEF QueueInOrder
  <2>2. CASE d = c
    <3>1. p + 1 < q + 1
      BY <1>1, <2>1, <2>2 DEF QueueInOrder, KeysPlaced
    <3>2. QED BY <3>1
  <2>3. CASE d # c
    BY <1>1, <2>1, <2>3 DEF QueueInOrder, KeysPlaced
  <2>4. QED BY <2>2, <2>3
<1>14. EarlierFirst'
  <2>1. SUFFICES ASSUME NEW d \in Clients, NEW i \in Nat, NEW j \in Nat,
                        NEW p \in Nat, NEW q \in Nat, NEW k \in Keys, NEW l \in Keys,
                        Owns(d, i, k), Owns(d, j, l), i < j,
                        Member(p, l)', Asked(d, q, k)'
                 PROVE  FALSE
    BY <1>3 DEF EarlierFirst
  <2>2. CASE Member(p, l)
    BY <1>1, <2>1, <2>2 DEF EarlierFirst, KeysPlaced
  <2>3. CASE Asked(c, 1, l)
    <3>1. d = c
      BY <2>1, <2>3 DEF OwnQueue, KeysPlaced
    <3>2. q + 1 \in Nat /\ q > 0 /\ Asked(c, q + 1, k)
      BY <1>1, <2>1, <3>1
    <3>3. q + 1 < 1
      BY <2>1, <2>3, <3>1, <3>2 DEF QueueInOrder, KeysPlaced
    <3>4. QED BY <3>2, <3>3
  <2>4. QED BY <1>2, <2>1, <2>2, <2>3
<1>15. MembersInOrder'
  <2>1. SUFFICES ASSUME NEW d \in Clients, NEW i \in Nat, NEW j \in Nat,
                        NEW p \in Nat, NEW q \in Nat, NEW k \in Keys, NEW l \in Keys,
                        Owns(d, i, k), Owns(d, j, l), i < j,
                        Member(p, k)', Member(q, l)'
                 PROVE  p < q
    BY <1>3 DEF MembersInOrder
  <2>2. CASE Member(p, k) /\ Member(q, l)
    BY <2>1, <2>2 DEF MembersInOrder, KeysPlaced
  <2>3. CASE Member(p, k) /\ q = Len(validators) + 1
    BY <2>3, PlacesTyped
  <2>4. CASE Asked(c, 1, k) /\ Member(q, l)
    <3>1. d = c
      BY <2>1, <2>4 DEF OwnQueue, KeysPlaced
    <3>2. QED BY <2>1, <2>4, <3>1 DEF EarlierFirst, KeysPlaced
  <2>5. CASE Asked(c, 1, k) /\ Asked(c, 1, l)
    <3>1. k = l
      BY <1>5, <2>5
    <3>2. i = j
      BY <2>1, <3>1 DEF OneOwner, KeysPlaced
    <3>3. QED BY <2>1, <3>2
  <2>6. QED BY <1>2, <2>1, <2>2, <2>3, <2>4, <2>5
<1>16. QED BY <1>6, <1>7, <1>8, <1>10, <1>11, <1>12, <1>13, <1>14, <1>15 DEF KeysPlaced

-----------------------------------------------------------------------------
\* What a client sends.
LEMMA AllNodesFacts ==
    ASSUME NEW list \in Seq(Keys)
    PROVE  /\ AllNodes(list) \in Indices /\ NoRepeats(AllNodes(list))
           /\ Listed(AllNodes(list)) \subseteq 0 .. Len(list) - 1
<1>1. Len(list) \in Nat /\ AllNodes(list) = [j \in 1 .. Len(list) |-> j - 1]
  BY DEF AllNodes
<1>2. AllNodes(list) \in Indices
  BY <1>1 DEF Indices
<1>3. NoRepeats(AllNodes(list))
  BY <1>1 DEF NoRepeats
<1>4. Listed(AllNodes(list)) \subseteq 0 .. Len(list) - 1
  BY <1>1 DEF Listed
<1>5. QED BY <1>2, <1>3, <1>4

\* A set of positions of a list, as SetToSeq lists it.
LEMMA PositionsListed ==
    ASSUME NEW n \in Nat, NEW X \in SUBSET (0 .. n - 1)
    PROVE  /\ SetToSeq(X) \in Indices /\ NoRepeats(SetToSeq(X))
           /\ Listed(SetToSeq(X)) = X
<1>1. IsFiniteSet(X)
  <2>1. IsFiniteSet(0 .. n - 1)
    BY FS_Interval
  <2>2. QED BY <2>1, FS_Subset
<1>2. SetToSeq(X) \in Seq(X) /\ NoRepeats(SetToSeq(X)) /\ Listed(SetToSeq(X)) = X
  BY <1>1, SetToSeqFacts
<1>3. X \subseteq Nat
  OBVIOUS
<1>4. SetToSeq(X) \in Seq(Nat)
  BY <1>2, <1>3, LargerSeq
<1>5. QED BY <1>2, <1>4 DEF Indices

\* The sum, the indices and the signers a client works out go together.
LEMMA CheckIsSound ==
    ASSUME NEW list \in Seq(Keys), NoRepeats(list),
           NEW op \in {"agg", "pubkey", "indices", "negate"},
           NEW signers \in Indices, NoRepeats(signers),
           Listed(signers) \subseteq 0 .. Len(list) - 1,
           NEW indices \in Indices, NoRepeats(indices),
           op = "indices" => indices = signers,
           op = "negate" => Listed(indices) = (0 .. Len(list) - 1) \ Listed(signers)
    PROVE  /\ CheckTx(op, SumOfNodes(list, signers), indices, signers, list) \in Transactions
           /\ SoundCheck(CheckTx(op, SumOfNodes(list, signers), indices, signers, list))
<1> DEFINE tx == CheckTx(op, SumOfNodes(list, signers), indices, signers, list)
<1>1. SumOfNodes(list, signers) = Once({list[signers[j] + 1] : j \in DOMAIN signers})
  BY SumIsOnce
<1>2. SumOfNodes(list, signers) \in Points
  BY <1>1, OnceIsPoint
<1>3. tx \in Transactions
  BY <1>2 DEF CheckTx, Transactions
<1>4. /\ tx.op = op /\ tx.roster = list /\ tx.signers = signers /\ tx.indices = indices
      /\ tx.sum = SumOfNodes(list, signers)
  BY DEF CheckTx
<1> HIDE DEF tx
<1>5. SignerKeys(tx) = {list[signers[j] + 1] : j \in DOMAIN signers}
  BY <1>4 DEF SignerKeys
<1>6. SoundCheck(tx)
  BY <1>1, <1>4, <1>5 DEF SoundCheck
<1>7. QED BY <1>3, <1>6 DEF tx

\* A list names no key twice.
LEMMA ListHasNoRepeats ==
    ASSUME Typed, KeysPlaced, NEW c \in Clients
    PROVE  nodes[c] \in Seq(Keys) /\ Len(nodes[c]) \in Nat /\ NoRepeats(nodes[c])
<1>1. nodes[c] \in Seq(Keys) /\ Len(nodes[c]) \in Nat
      /\ DOMAIN nodes[c] = 1 .. Len(nodes[c])
  BY DEF Typed
<1>2. ASSUME NEW i \in DOMAIN nodes[c], NEW j \in DOMAIN nodes[c], nodes[c][i] = nodes[c][j]
      PROVE  i = j
  <2>1. /\ i \in Nat /\ j \in Nat /\ nodes[c][i] \in Keys
        /\ Owns(c, i, nodes[c][i]) /\ Owns(c, j, nodes[c][i])
    BY <1>1, <1>2 DEF Owns
  <2>2. QED BY <2>1 DEF KeysPlaced, OneOwner
<1>3. QED BY <1>1, <1>2 DEF NoRepeats

\* The four checks a client sends.
Checking(c) ==
    \/ SendCheckSigAGG(c) \/ SendCheckAggPubkey(c)
    \/ SendCheckSigAGGIndices(c) \/ SendCheckSigAGGNegateIndices(c)

\* Every check a client sends is sound.
LEMMA SentChecksSound ==
    ASSUME Typed, KeysPlaced, NEW c \in Clients, Checking(c)
    PROVE  \E tx \in Transactions :
              /\ Send(c, tx) /\ tx.op \notin {"add", "clear"} /\ SoundCheck(tx)
              /\ UNCHANGED <<registryVars, clientVars, receipt>>
<1> DEFINE list == nodes[c]
<1>1. list \in Seq(Keys) /\ NoRepeats(list) /\ Len(list) \in Nat
  BY ListHasNoRepeats
<1>2. /\ AllNodes(list) \in Indices /\ NoRepeats(AllNodes(list))
      /\ Listed(AllNodes(list)) \subseteq 0 .. Len(list) - 1
  BY <1>1, AllNodesFacts
<1>3. <<>> \in Indices /\ NoRepeats(<<>>)
  BY DEF Indices, NoRepeats
<1>4. ASSUME NEW n \in 0 .. Len(list), NEW signers \in randomSigners(list, n)
      PROVE  /\ signers \in Indices /\ NoRepeats(signers)
             /\ Listed(signers) \subseteq 0 .. Len(list) - 1
  <2>1. PICK chosen \in SUBSET (0 .. Len(list) - 1) : signers = SetToSeq(chosen)
    BY DEF randomSigners
  <2>2. QED BY <1>1, <2>1, PositionsListed
<1>5. ASSUME NEW signers \in Indices
      PROVE  /\ findNonSigners(list, signers) \in Indices
             /\ NoRepeats(findNonSigners(list, signers))
             /\ Listed(findNonSigners(list, signers))
                   = (0 .. Len(list) - 1) \ Listed(signers)
  <2> DEFINE rest == {i \in 0 .. Len(list) - 1 : \A j \in DOMAIN signers : signers[j] # i}
  <2>1. rest \in SUBSET (0 .. Len(list) - 1)
    OBVIOUS
  <2>2. rest = (0 .. Len(list) - 1) \ Listed(signers)
    BY DEF Listed
  <2>3. findNonSigners(list, signers) = SetToSeq(rest)
    BY DEF findNonSigners
  <2> HIDE DEF rest
  <2>4. QED BY <1>1, <2>1, <2>2, <2>3, PositionsListed
<1>6. ASSUME NEW tx \in Transactions, SendCheck(c, tx), SoundCheck(tx),
             tx.op \notin {"add", "clear"}
      PROVE  \E t \in Transactions :
                /\ Send(c, t) /\ t.op \notin {"add", "clear"} /\ SoundCheck(t)
                /\ UNCHANGED <<registryVars, clientVars, receipt>>
  BY <1>6 DEF SendCheck
<1>7. \A op, sum, indices, signers :
         CheckTx(op, sum, indices, signers, list).op = op
  BY DEF CheckTx
<1>8. CASE SendCheckSigAGG(c)
  <2> DEFINE tx == CheckTx("agg", SumOfNodes(list, AllNodes(list)), <<>>, AllNodes(list), list)
  <2>1. SendCheck(c, tx)
    BY <1>8 DEF SendCheckSigAGG, aggregateSignatures
  <2>2. tx \in Transactions /\ SoundCheck(tx)
    BY <1>1, <1>2, <1>3, CheckIsSound
  <2>3. tx.op = "agg"
    BY <1>7
  <2> HIDE DEF tx
  <2>4. QED BY <1>6, <2>1, <2>2, <2>3
<1>9. CASE SendCheckAggPubkey(c)
  <2> DEFINE tx == CheckTx("pubkey", SumOfNodes(list, AllNodes(list)), <<>>, AllNodes(list), list)
  <2>1. SendCheck(c, tx)
    BY <1>9 DEF SendCheckAggPubkey, aggregatePubkey
  <2>2. tx \in Transactions /\ SoundCheck(tx)
    BY <1>1, <1>2, <1>3, CheckIsSound
  <2>3. tx.op = "pubkey"
    BY <1>7
  <2> HIDE DEF tx
  <2>4. QED BY <1>6, <2>1, <2>2, <2>3
<1>10. CASE SendCheckSigAGGIndices(c)
  <2>0. PICK n \in 0 .. Len(list) : \E signers \in randomSigners(list, n) :
           SendCheck(c, CheckTx("indices", SumOfNodes(list, signers), signers, signers, list))
    BY <1>10 DEF SendCheckSigAGGIndices, aggregateSignaturesFromIndices
  <2>1. PICK signers \in randomSigners(list, n) :
           SendCheck(c, CheckTx("indices", SumOfNodes(list, signers), signers, signers, list))
    BY <2>0
  <2> DEFINE tx == CheckTx("indices", SumOfNodes(list, signers), signers, signers, list)
  <2>2. tx \in Transactions /\ SoundCheck(tx)
    BY <1>1, <1>4, CheckIsSound
  <2>3. tx.op = "indices"
    BY <1>7
  <2> HIDE DEF tx
  <2>4. QED BY <1>6, <2>1, <2>2, <2>3 DEF tx
<1>11. CASE SendCheckSigAGGNegateIndices(c)
  <2>0. PICK n \in 0 .. Len(list) : \E signers \in randomSigners(list, n) :
           SendCheck(c, CheckTx("negate", SumOfNodes(list, signers),
                                findNonSigners(list, signers), signers, list))
    BY <1>11 DEF SendCheckSigAGGNegateIndices, aggregateSignaturesFromIndices
  <2>1. PICK signers \in randomSigners(list, n) :
           SendCheck(c, CheckTx("negate", SumOfNodes(list, signers),
                                findNonSigners(list, signers), signers, list))
    BY <2>0
  <2> DEFINE tx == CheckTx("negate", SumOfNodes(list, signers),
                           findNonSigners(list, signers), signers, list)
  <2>2. tx \in Transactions /\ SoundCheck(tx)
    BY <1>1, <1>4, <1>5, CheckIsSound
  <2>3. tx.op = "negate"
    BY <1>7
  <2> HIDE DEF tx
  <2>4. QED BY <1>6, <2>1, <2>2, <2>3 DEF tx
<1>12. QED BY <1>8, <1>9, <1>10, <1>11 DEF Checking

-----------------------------------------------------------------------------
\* The cached aggregate follows the registry; a clear leaves it to be overwritten.
LEMMA AggregateAfterExecute ==
    ASSUME Typed, KeysPlaced, AggregateIsOnce, NEW c \in Clients, Execute(c)
    PROVE  AggregateIsOnce' /\ aggregate' \in Points
<1>1. validators \in Seq(Keys) /\ aggregate \in Points
  BY DEF Typed
<1>2. CASE /\ Head(pending[c]).op = "add" /\ Head(pending[c]).key \in Keys
           /\ validators' = Append(validators, Head(pending[c]).key)
           /\ aggregate' = IF validators = <<>>
                           THEN Registry!KeyPoint(Head(pending[c]).key)
                           ELSE Registry!add(aggregate, Registry!KeyPoint(Head(pending[c]).key))
  <2> DEFINE key == Head(pending[c]).key
  <2>1. Asked(c, 1, key) /\ key \in Keys
    BY <1>2, ExecuteEffect DEF Asked
  <2>2. key \notin Listed(validators)
    <3>1. SUFFICES ASSUME NEW p \in DOMAIN validators, validators[p] = key
                   PROVE  FALSE
      BY DEF Listed
    <3>2. p \in Nat /\ Member(p, key)
      BY <1>1, <3>1 DEF Member
    <3>3. QED BY <2>1, <3>2 DEF AskedIsNoMember, KeysPlaced
  <2> HIDE DEF key
  <2>3. /\ validators' = Append(validators, key)
        /\ aggregate' = IF validators = <<>> THEN Registry!KeyPoint(key)
                        ELSE Registry!add(aggregate, Registry!KeyPoint(key))
        /\ Registry!KeyPoint(key) = [k \in Keys |-> IF k = key THEN 1 ELSE 0]
    <3>1. key # OffCurve
      BY <2>1, ClientsAssumption
    <3>2. QED BY <1>2, <3>1 DEF key, Registry!KeyPoint
  <2>4. Listed(validators') = Listed(validators) \cup {key}
    <3>1. /\ DOMAIN validators' = DOMAIN validators \cup {Len(validators) + 1}
          /\ validators'[Len(validators) + 1] = key
          /\ \A p \in DOMAIN validators : validators'[p] = validators[p]
      BY <1>1, <2>1, <2>3, AppendFacts
    <3>2. QED BY <3>1 DEF Listed
  <2>5. aggregate' = Once(Listed(validators'))
    <3>1. CASE validators = <<>>
      <4>1. Listed(validators') = {key}
        BY <2>4, <3>1 DEF Listed
      <4>2. QED BY <2>3, <3>1, <4>1 DEF Once
    <3>2. CASE validators # <<>>
      <4>1. aggregate = Once(Listed(validators))
        BY <3>2 DEF AggregateIsOnce
      <4>2. QED BY <2>2, <2>3, <2>4, <3>2, <4>1
                DEF Registry!add, Once
    <3>3. QED BY <3>1, <3>2
  <2>6. QED BY <2>5, OnceIsPoint DEF AggregateIsOnce
<1>3. CASE validators' = <<>> /\ aggregate' = aggregate
  BY <1>1, <1>3 DEF AggregateIsOnce
<1>4. CASE validators' = validators /\ aggregate' = aggregate
  BY <1>1, <1>4 DEF AggregateIsOnce
<1>5. QED BY <1>2, <1>3, <1>4, RegistryEffect DEF registryVars

-----------------------------------------------------------------------------
\* The invariant is preserved, action by action.
LEMMA InitIInv == Init => IInv
<1>1. SUFFICES ASSUME Init
               PROVE  IInv
  OBVIOUS
<1>2. /\ validators = <<>> /\ aggregate = Registry!Zero /\ seeded = FALSE
      /\ nodes = [c \in Clients |-> <<>>] /\ sent = [c \in Clients |-> 0]
      /\ pending = [c \in Clients |-> <<>>] /\ receipt = "none"
  BY <1>1 DEF Init, Registry!Init
<1>3. Typed
  BY <1>2, ClientsAssumption DEF Typed, Registry!Zero, Points
<1>4. /\ \A c \in Clients : \A i \in Nat : \A k \in Keys : ~Owns(c, i, k) /\ ~Asked(c, i, k)
      /\ \A p \in Nat : \A k \in Keys : ~Member(p, k)
  BY <1>2 DEF Owns, Asked, Member
<1>5. KeysPlaced
  BY <1>4 DEF KeysPlaced, OneOwner, AskedOnce, MembersOnce, AskedIsNoMember,
              UnsentIsNowhere, OwnQueue, QueueInOrder, EarlierFirst, MembersInOrder
<1>6. ChecksSound /\ AggregateIsOnce
  BY <1>2 DEF ChecksSound, AggregateIsOnce
<1>7. QED BY <1>3, <1>5, <1>6 DEF IInv

\* A new node.
LEMMA AddNodeIInv ==
    ASSUME IInv, NEW c \in Clients, addNode(c)
    PROVE  IInv'
<1>1. Typed /\ KeysPlaced /\ ChecksSound /\ AggregateIsOnce
  BY DEF IInv
<1>2. PICK key \in Keys :
         /\ Len(nodes[c]) < MaxNodes /\ nodes' = [nodes EXCEPT ![c] = Append(@, key)]
         /\ UNCHANGED <<registryVars, sent, pending, receipt>>
  BY DEF addNode
<1>3. /\ nodes \in [Clients -> Seq(Keys)] /\ nodes[c] \in Seq(Keys)
      /\ sent \in [Clients -> Nat]
  BY <1>1 DEF Typed
<1>4. nodes'[c] = Append(nodes[c], key) /\ \A d \in Clients : d # c => nodes'[d] = nodes[d]
  BY <1>2, <1>3
<1>5. nodes' \in [Clients -> Seq(Keys)]
  BY <1>2, <1>3
<1>6. \A d \in Clients : sent[d] <= Len(nodes'[d])
  <2>1. sent[c] <= Len(nodes'[c])
    BY <1>1, <1>3, <1>4 DEF Typed
  <2>2. QED BY <1>1, <1>4, <2>1 DEF Typed
<1>7. Typed'
  BY <1>1, <1>2, <1>5, <1>6 DEF Typed, registryVars
<1>8. ChecksSound' /\ AggregateIsOnce'
  BY <1>1, <1>2 DEF ChecksSound, AggregateIsOnce, registryVars
<1>9. QED BY <1>1, <1>7, <1>8, KeysAfterAddNode DEF IInv

\* A new list.
LEMMA NewListIInv ==
    ASSUME IInv, NEW c \in Clients, NewList(c)
    PROVE  IInv'
<1>1. Typed /\ KeysPlaced /\ ChecksSound /\ AggregateIsOnce
  BY DEF IInv
<1>2. /\ nodes' = [nodes EXCEPT ![c] = <<>>] /\ sent' = [sent EXCEPT ![c] = 0]
      /\ UNCHANGED <<registryVars, pending, receipt>>
  BY DEF NewList
<1>3. /\ nodes' \in [Clients -> Seq(Keys)] /\ sent' \in [Clients -> Nat]
      /\ \A d \in Clients : sent'[d] <= Len(nodes'[d])
  <2>1. nodes \in [Clients -> Seq(Keys)] /\ sent \in [Clients -> Nat]
    BY <1>1 DEF Typed
  <2>2. sent'[c] = 0 /\ nodes'[c] = <<>>
    BY <1>2, <2>1
  <2>3. \A d \in Clients : d # c => sent'[d] = sent[d] /\ nodes'[d] = nodes[d]
    BY <1>2, <2>1
  <2>4. sent'[c] <= Len(nodes'[c])
    BY <2>2
  <2>5. \A d \in Clients : sent'[d] <= Len(nodes'[d])
    BY <1>1, <2>3, <2>4 DEF Typed
  <2>6. QED BY <1>2, <2>1, <2>5
<1>4. Typed'
  BY <1>1, <1>2, <1>3 DEF Typed, registryVars
<1>5. ChecksSound' /\ AggregateIsOnce'
  BY <1>1, <1>2 DEF ChecksSound, AggregateIsOnce, registryVars
<1>6. QED BY <1>1, <1>4, <1>5, KeysAfterNewList DEF IInv

\* A sent transaction that is no check, or a sound one, keeps the checks sound.
LEMMA ChecksAfterSend ==
    ASSUME Typed, ChecksSound, NEW c \in Clients, NEW tx \in Transactions,
           Send(c, tx), tx.op \in {"add", "clear"} \/ SoundCheck(tx)
    PROVE  ChecksSound'
<1>1. SUFFICES ASSUME NEW d \in Clients, NEW i \in DOMAIN pending'[d],
                      pending'[d][i].op \notin {"add", "clear"}
               PROVE  SoundCheck(pending'[d][i])
  BY DEF ChecksSound, SoundCheck, SignerKeys, Once, NoRepeats, Listed
<1>2. CASE i \in DOMAIN pending[d] /\ pending'[d][i] = pending[d][i]
  BY <1>1, <1>2 DEF ChecksSound
<1>3. CASE pending'[d][i] = tx
  BY <1>1, <1>3
<1>4. QED BY <1>2, <1>3, SendEffect

\* A node sent for registration.
LEMMA SendAddValidatorIInv ==
    ASSUME IInv, NEW c \in Clients, SendAddValidator(c)
    PROVE  IInv'
<1> DEFINE key == nodes[c][sent[c] + 1]
<1>1. Typed /\ KeysPlaced /\ ChecksSound /\ AggregateIsOnce
  BY DEF IInv
<1>2. /\ sent[c] < Len(nodes[c]) /\ Send(c, AddTx(key))
      /\ sent' = [sent EXCEPT ![c] = @ + 1]
      /\ UNCHANGED <<registryVars, nodes, receipt>>
  BY DEF SendAddValidator
<1>3. /\ sent \in [Clients -> Nat] /\ nodes[c] \in Seq(Keys) /\ sent[c] \in Nat
      /\ key \in Keys
  <2>1. sent \in [Clients -> Nat] /\ nodes[c] \in Seq(Keys) /\ sent[c] \in Nat
    BY <1>1 DEF Typed
  <2>2. QED BY <1>2, <2>1
<1>4. AddTx(key) \in Transactions /\ AddTx(key).op = "add"
  BY <1>3 DEF AddTx, Transactions
<1>5. /\ sent' \in [Clients -> Nat]
      /\ \A d \in Clients : sent'[d] <= Len(nodes[d])
  <2>1. sent'[c] = sent[c] + 1 /\ \A d \in Clients : d # c => sent'[d] = sent[d]
    BY <1>2, <1>3
  <2>2. sent'[c] <= Len(nodes[c])
    BY <1>2, <1>3, <2>1
  <2>3. \A d \in Clients : sent'[d] <= Len(nodes[d])
    BY <1>1, <2>1, <2>2 DEF Typed
  <2>4. QED BY <1>2, <1>3, <2>3
<1> HIDE DEF key
<1>6. Typed'
  BY <1>1, <1>2, <1>4, <1>5, SendEffect DEF Typed, registryVars
<1>7. ChecksSound'
  BY <1>1, <1>2, <1>4, ChecksAfterSend
<1>8. AggregateIsOnce'
  BY <1>1, <1>2 DEF AggregateIsOnce, registryVars
<1>9. QED BY <1>1, <1>6, <1>7, <1>8, KeysAfterSendAddValidator DEF IInv

\* Clears and checks.
LEMMA OtherSendIInv ==
    ASSUME IInv, NEW c \in Clients, NEW tx \in Transactions, Send(c, tx),
           tx.op = "clear" \/ (tx.op # "add" /\ SoundCheck(tx)),
           UNCHANGED <<registryVars, clientVars, receipt>>
    PROVE  IInv'
<1>1. Typed /\ KeysPlaced /\ ChecksSound /\ AggregateIsOnce
  BY DEF IInv
<1>2. UNCHANGED <<validators, aggregate, seeded, nodes, sent, receipt>>
  BY DEF registryVars, clientVars
<1>3. Typed'
  BY <1>1, <1>2, SendEffect DEF Typed
<1>4. KeysPlaced'
  BY <1>1, <1>2, KeysAfterOtherSend
<1>5. ChecksSound'
  BY <1>1, ChecksAfterSend
<1>6. AggregateIsOnce'
  BY <1>1, <1>2 DEF AggregateIsOnce
<1>7. QED BY <1>3, <1>4, <1>5, <1>6 DEF IInv

\* The next transaction of a client.
LEMMA ExecuteIInv ==
    ASSUME IInv, NEW c \in Clients, Execute(c)
    PROVE  IInv'
<1>1. Typed /\ KeysPlaced /\ ChecksSound /\ AggregateIsOnce
  BY DEF IInv
<1>2. aggregate' \in Points /\ AggregateIsOnce'
  BY <1>1, AggregateAfterExecute
<1>3. validators' \in Seq(Keys) /\ seeded' = FALSE
      /\ receipt' \in {"none", "success", "failure"}
  <2>1. validators \in Seq(Keys) /\ seeded = FALSE
    BY <1>1 DEF Typed
  <2>2. validators' \in Seq(Keys)
    <3>1. \A k \in Keys : Append(validators, k) \in Seq(Keys)
      BY <2>1, AppendFacts
    <3>2. <<>> \in Seq(Keys)
      OBVIOUS
    <3>3. \/ /\ Head(pending[c]).key \in Keys
             /\ validators' = Append(validators, Head(pending[c]).key)
          \/ validators' = <<>>
          \/ validators' = validators
      BY <1>1, RegistryEffect DEF registryVars
    <3>4. QED BY <2>1, <3>1, <3>2, <3>3
  <2>3. seeded' = FALSE
    BY <1>1, <2>1, RegistryEffect DEF registryVars
  <2>4. receipt' \in {"none", "success", "failure"}
    <3>1. receipt' = "success" \/ receipt' = "failure"
      BY <1>1, RegistryEffect
    <3>2. QED BY <3>1
  <2>5. QED BY <2>2, <2>3, <2>4
<1>4. Typed'
  BY <1>1, <1>2, <1>3, ExecuteEffect DEF Typed
<1>5. ChecksSound'
  <2>1. SUFFICES ASSUME NEW d \in Clients, NEW i \in DOMAIN pending'[d],
                        pending'[d][i].op \notin {"add", "clear"}
                 PROVE  SoundCheck(pending'[d][i])
    BY DEF ChecksSound, SoundCheck, SignerKeys, Once, NoRepeats, Listed
  <2>2. CASE d = c
    <3>1. i + 1 \in DOMAIN pending[c] /\ pending'[d][i] = pending[c][i + 1]
      BY <1>1, <2>1, <2>2, ExecuteEffect
    <3>2. QED BY <1>1, <2>1, <3>1 DEF ChecksSound
  <2>3. CASE d # c
    BY <1>1, <2>1, <2>3, ExecuteEffect DEF ChecksSound
  <2>4. QED BY <2>2, <2>3
<1>6. QED BY <1>1, <1>2, <1>4, <1>5, KeysAfterExecute DEF IInv

\* Every step.
LEMMA NextIInv == IInv /\ [Next]_vars => IInv'
<1>1. SUFFICES ASSUME IInv, [Next]_vars
               PROVE  IInv'
  OBVIOUS
<1>2. CASE UNCHANGED vars
  <2>1. UNCHANGED <<validators, aggregate, seeded, nodes, sent, pending, receipt>>
    BY <1>2 DEF vars, registryVars, clientVars
  <2>2. Typed' /\ ChecksSound' /\ AggregateIsOnce'
    BY <1>1, <2>1 DEF IInv, Typed, ChecksSound, AggregateIsOnce
  <2>3. KeysPlaced'
    BY <1>1, <2>1 DEF IInv, KeysPlaced, OneOwner, AskedOnce, MembersOnce, AskedIsNoMember,
              UnsentIsNowhere, OwnQueue, QueueInOrder, EarlierFirst, MembersInOrder,
              Owns, Asked, Member
  <2>4. QED BY <2>2, <2>3 DEF IInv
<1>3. ASSUME NEW c \in Clients, SendClear(c)
      PROVE  IInv'
  <2>1. ClearTx \in Transactions /\ ClearTx.op = "clear"
    BY DEF ClearTx, Transactions
  <2>2. QED BY <1>1, <1>3, <2>1, OtherSendIInv DEF SendClear
<1>4. ASSUME NEW c \in Clients, Checking(c)
      PROVE  IInv'
  BY <1>1, <1>4, SentChecksSound, OtherSendIInv DEF IInv
<1>5. QED BY <1>1, <1>2, <1>3, <1>4, AddNodeIInv, NewListIInv, SendAddValidatorIInv,
             ExecuteIInv DEF Next, Checking

\* Where keys are, what checks carry and what the aggregate is, in every state of
\* every instance.
THEOREM ClientsInvariant == Spec => []IInv
  BY InitIInv, NextIInv, PTL DEF Spec

-----------------------------------------------------------------------------
\* The registry with its points and sums implements SignedRegistry.

\* What a queue of transactions asks for.
Asking(queue) == [i \in DOMAIN queue |-> RequestOf(queue[i])]
Requests == [c \in Clients |-> Asking(pending[c])]

\* A queue and what it asks for grow and shrink together.
LEMMA AskingFacts ==
    ASSUME NEW queue \in Seq(Transactions)
    PROVE  /\ \A tx \in Transactions :
                 /\ Asking(Append(queue, tx)) = Append(Asking(queue), RequestOf(tx))
                 /\ Asking(Append(queue, tx)) # <<>>
                 /\ Asking(Append(queue, tx))[Len(Asking(Append(queue, tx)))] = RequestOf(tx)
           /\ queue # <<>> =>
                 /\ Asking(queue) # <<>>
                 /\ Asking(Tail(queue)) = Tail(Asking(queue))
                 /\ Head(Asking(queue)) = RequestOf(Head(queue))
<1> DEFINE R == {RequestOf(t) : t \in Transactions}
<1>1. Len(queue) \in Nat /\ DOMAIN queue = 1 .. Len(queue)
      /\ \A i \in 1 .. Len(queue) : queue[i] \in Transactions
  OBVIOUS
<1>2. /\ Asking(queue) \in Seq(R) /\ Len(Asking(queue)) = Len(queue)
      /\ DOMAIN Asking(queue) = 1 .. Len(queue)
      /\ \A i \in 1 .. Len(queue) : Asking(queue)[i] = RequestOf(queue[i])
  <2>1. Asking(queue) = [i \in 1 .. Len(queue) |-> RequestOf(queue[i])]
    BY <1>1 DEF Asking
  <2>2. \A i \in 1 .. Len(queue) : RequestOf(queue[i]) \in R
    BY <1>1
  <2> HIDE DEF R
  <2>3. QED BY <1>1, <2>1, <2>2
<1>3. ASSUME NEW tx \in Transactions
      PROVE  /\ Asking(Append(queue, tx)) = Append(Asking(queue), RequestOf(tx))
             /\ Asking(Append(queue, tx)) # <<>>
             /\ Asking(Append(queue, tx))[Len(Asking(Append(queue, tx)))] = RequestOf(tx)
  <2>1. RequestOf(tx) \in R
    OBVIOUS
  <2> HIDE DEF R
  <2> DEFINE f == Asking(Append(queue, tx))
             g == Append(Asking(queue), RequestOf(tx))
  <2>2. /\ g \in Seq(R) /\ DOMAIN g = 1 .. Len(queue) + 1
        /\ Len(g) = Len(queue) + 1 /\ g # <<>>
        /\ g[Len(queue) + 1] = RequestOf(tx)
        /\ \A i \in 1 .. Len(queue) : g[i] = RequestOf(queue[i])
    BY <1>2, <2>1, AppendFacts
  <2>3. /\ DOMAIN Append(queue, tx) = 1 .. Len(queue) + 1
        /\ Append(queue, tx)[Len(queue) + 1] = tx
        /\ \A i \in 1 .. Len(queue) : Append(queue, tx)[i] = queue[i]
    BY <1>1, AppendFacts
  <2>4. f = [i \in 1 .. Len(queue) + 1 |-> RequestOf(Append(queue, tx)[i])]
    BY <2>3 DEF Asking
  <2>5. \A i \in 1 .. Len(queue) + 1 : i = Len(queue) + 1 \/ i \in 1 .. Len(queue)
    BY <1>1
  <2>6. \A i \in 1 .. Len(queue) + 1 : RequestOf(Append(queue, tx)[i]) = g[i]
    BY <2>2, <2>3, <2>5
  <2>7. g = [i \in 1 .. Len(queue) + 1 |-> g[i]]
    BY <2>2, SeqIsFunction
  <2> HIDE DEF g
  <2>8. f = g
    BY <2>4, <2>6, <2>7
  <2>9. QED BY <2>2, <2>8 DEF g
<1>4. ASSUME queue # <<>>
      PROVE  /\ Asking(queue) # <<>>
             /\ Asking(Tail(queue)) = Tail(Asking(queue))
             /\ Head(Asking(queue)) = RequestOf(Head(queue))
  <2> HIDE DEF R
  <2>1. Len(queue) > 0 /\ Asking(queue) # <<>>
    BY <1>1, <1>2, <1>4
  <2>2. /\ Head(queue) = queue[1] /\ 1 \in 1 .. Len(queue)
        /\ DOMAIN Tail(queue) = 1 .. Len(queue) - 1
        /\ \A i \in 1 .. Len(queue) - 1 : i + 1 \in 1 .. Len(queue) /\ Tail(queue)[i] = queue[i + 1]
    BY <1>1, <1>4, TailFacts
  <2>3. /\ Head(Asking(queue)) = Asking(queue)[1]
        /\ Tail(Asking(queue)) \in Seq(R)
        /\ DOMAIN Tail(Asking(queue)) = 1 .. Len(queue) - 1
        /\ \A i \in 1 .. Len(queue) - 1 : Tail(Asking(queue))[i] = Asking(queue)[i + 1]
    BY <1>2, <2>1, TailFacts
  <2>4. Asking(Tail(queue)) = [i \in 1 .. Len(queue) - 1 |-> RequestOf(Tail(queue)[i])]
    BY <2>2 DEF Asking
  <2>5. Tail(Asking(queue)) = [i \in 1 .. Len(queue) - 1 |-> Tail(Asking(queue))[i]]
    BY <2>3, SeqIsFunction
  <2>6. \A i \in 1 .. Len(queue) - 1 :
           RequestOf(Tail(queue)[i]) = Tail(Asking(queue))[i]
    BY <1>2, <2>2, <2>3
  <2>7. Asking(Tail(queue)) = Tail(Asking(queue))
    BY <2>4, <2>5, <2>6
  <2>8. QED BY <1>2, <2>1, <2>2, <2>3, <2>7
<1>5. QED BY <1>3, <1>4

\* The requests after a step are those of the queues after it.
LEMMA RequestsNext ==
    Requests' = [c \in Clients |-> Asking(pending'[c])]
  BY DEF Requests, Asking, RequestOf, KindOf, MeantBy, SignerKeys

\* Every transaction asks for something SignedRegistry knows.
LEMMA RequestKinds ==
    ASSUME NEW tx \in Transactions,
           tx.op \notin {"add", "clear"} => SoundCheck(tx)
    PROVE  \/ /\ tx.op = "add" /\ RequestOf(tx).kind = "join"
              /\ RequestOf(tx).key = tx.key /\ tx.key \in Keys
           \/ tx.op = "clear" /\ RequestOf(tx).kind = "dismiss"
           \/ /\ tx.op \notin {"add", "clear"}
              /\ RequestOf(tx).kind \in Abstract!Naming
              /\ RequestOf(tx).signers \subseteq Keys
<1>1. CASE tx.op = "add"
  BY <1>1 DEF Transactions, RequestOf
<1>2. CASE tx.op = "clear"
  BY <1>2 DEF RequestOf
<1>3. CASE tx.op \notin {"add", "clear"}
  <2>1. tx.op \in {"agg", "pubkey", "indices", "negate"} /\ SignerKeys(tx) \subseteq Keys
    BY <1>3, SignersAreKeys
  <2>2. KindOf[tx.op] \in Abstract!Naming
    BY <2>1 DEF KindOf, Abstract!Naming
  <2>3. RequestOf(tx) = [kind |-> KindOf[tx.op], positions |-> MeantBy(tx),
                         signers |-> SignerKeys(tx)]
    BY <1>3 DEF RequestOf
  <2>4. QED BY <1>3, <2>1, <2>2, <2>3
<1>4. QED BY <1>1, <1>2, <1>3

\* Sending a transaction is asking.
LEMMA SendAsks ==
    ASSUME Typed, NEW c \in Clients, NEW tx \in Transactions, Send(c, tx),
           tx.op \notin {"add", "clear"} => SoundCheck(tx),
           UNCHANGED <<validators, receipt>>
    PROVE  Abstract!Ask(c)
<1>1. pending \in [Clients -> Seq(Transactions)] /\ pending[c] \in Seq(Transactions)
  BY DEF Typed
<1>2. pending' = [pending EXCEPT ![c] = Append(@, tx)]
  BY DEF Send
<1>3. pending'[c] = Append(pending[c], tx) /\ \A d \in Clients : d # c => pending'[d] = pending[d]
  BY <1>1, <1>2
<1>4. /\ Requests'[c] = Append(Requests[c], RequestOf(tx))
      /\ Requests'[c] # <<>>
      /\ Requests'[c][Len(Requests'[c])] = RequestOf(tx)
  <2>1. Requests'[c] = Asking(Append(pending[c], tx)) /\ Requests[c] = Asking(pending[c])
    BY <1>3, RequestsNext DEF Requests
  <2>2. QED BY <1>1, <2>1, AskingFacts
<1>5. Requests' = [Requests EXCEPT ![c] = Append(@, RequestOf(tx))]
  <2>1. \A d \in Clients : d # c => Requests'[d] = Requests[d]
    BY <1>3, RequestsNext DEF Requests
  <2>2. Requests' = [d \in Clients |-> Requests'[d]]
    BY RequestsNext
  <2>3. Requests = [d \in Clients |-> Requests[d]]
    BY DEF Requests
  <2> DEFINE r == Requests
             s == Requests'
  <2>4. r = [d \in Clients |-> r[d]] /\ s = [d \in Clients |-> s[d]]
        /\ s[c] = Append(r[c], RequestOf(tx))
        /\ \A d \in Clients : d # c => s[d] = r[d]
    BY <1>4, <2>1, <2>2, <2>3
  <2> HIDE DEF r, s
  <2>5. s = [r EXCEPT ![c] = Append(@, RequestOf(tx))]
    BY <2>4
  <2>6. QED BY <2>5 DEF r, s
<1>6. \/ RequestOf(tx).kind = "join" /\ RequestOf(tx).key \in Keys
      \/ RequestOf(tx).kind = "dismiss"
      \/ RequestOf(tx).kind \in Abstract!Naming /\ RequestOf(tx).signers \subseteq Keys
  BY RequestKinds
<1>7. QED BY <1>4, <1>5, <1>6 DEF Abstract!Ask, Requests, Asking

\* Executing one is answering: by what the checks mean, with the right verdict.
LEMMA ExecuteAnswers ==
    ASSUME IInv, NEW c \in Clients, Execute(c)
    PROVE  Abstract!Answer(c)
<1> DEFINE tx == Head(pending[c])
<1>1. Typed /\ KeysPlaced /\ ChecksSound /\ AggregateIsOnce /\ MembersOnce
  BY DEF IInv, KeysPlaced
<1>2. /\ pending \in [Clients -> Seq(Transactions)] /\ pending[c] \in Seq(Transactions)
      /\ pending[c] # <<>> /\ pending' = [pending EXCEPT ![c] = Tail(@)]
  BY <1>1 DEF Typed, Execute
<1>3. pending'[c] = Tail(pending[c]) /\ \A d \in Clients : d # c => pending'[d] = pending[d]
  BY <1>2
<1>4. /\ Requests[c] # <<>> /\ Requests'[c] = Tail(Requests[c])
      /\ Head(Requests[c]) = RequestOf(tx)
  <2>1. Requests'[c] = Asking(Tail(pending[c])) /\ Requests[c] = Asking(pending[c])
    BY <1>3, RequestsNext DEF Requests
  <2>2. QED BY <1>2, <2>1, AskingFacts
<1>5. Requests' = [Requests EXCEPT ![c] = Tail(@)]
  <2>1. \A d \in Clients : d # c => Requests'[d] = Requests[d]
    BY <1>3, RequestsNext DEF Requests
  <2>2. Requests' = [d \in Clients |-> Requests'[d]]
    BY RequestsNext
  <2>3. Requests = [d \in Clients |-> Requests[d]]
    BY DEF Requests
  <2> DEFINE r == Requests
             s == Requests'
  <2>4. r = [d \in Clients |-> r[d]] /\ s = [d \in Clients |-> s[d]]
        /\ s[c] = Tail(r[c]) /\ \A d \in Clients : d # c => s[d] = r[d]
    BY <1>4, <2>1, <2>2, <2>3
  <2> HIDE DEF r, s
  <2>5. s = [r EXCEPT ![c] = Tail(@)]
    BY <2>4
  <2>6. QED BY <2>5 DEF r, s
<1>6. tx \in Transactions /\ (tx.op \notin {"add", "clear"} => SoundCheck(tx))
  BY <1>1, ExecuteEffect DEF ChecksSound
<1> DEFINE next == RequestOf(tx)
<1>7. \/ /\ next.kind = "join"
         /\ validators' = Append(validators, next.key)
         /\ receipt' = "success"
      \/ /\ next.kind = "dismiss"
         /\ validators' = <<>>
         /\ receipt' = "success"
      \/ /\ next.kind \in Abstract!Naming
         /\ validators' = validators
         /\ \/ receipt' = IF Abstract!Holds(next) THEN "success" ELSE "failure"
            \/ Abstract!LeftOpen(next) /\ receipt' \in {"success", "failure"}
  <2>1. CASE tx.op = "add"
    <3>1. validators' = Append(validators, tx.key) /\ receipt' = "success"
      BY <1>1, <2>1, RegistryEffect
    <3>2. next.kind = "join" /\ next.key = tx.key
      BY <1>6, <2>1, RequestKinds
    <3>3. QED BY <3>1, <3>2
  <2>2. CASE tx.op = "clear"
    <3>1. validators' = <<>> /\ receipt' = "success"
      BY <1>1, <2>2, RegistryEffect
    <3>2. next.kind = "dismiss"
      BY <1>6, <2>2, RequestKinds
    <3>3. QED BY <3>1, <3>2
  <2>3. CASE tx.op \notin {"add", "clear"}
    <3>1. /\ validators' = validators
          /\ receipt' = IF Accepts(tx) THEN "success" ELSE "failure"
      BY <1>1, <2>3, RegistryEffect DEF registryVars
    <3>2. next.kind \in Abstract!Naming
      BY <1>6, <2>3, RequestKinds
    <3>3. CASE Abstract!LeftOpen(next)
      BY <3>1, <3>2, <3>3
    <3>4. CASE ~Abstract!LeftOpen(next)
      <4>1. Accepts(tx) <=> Abstract!Holds(next)
        BY <1>1, <1>6, <2>3, <3>4, ChecksMean
      <4>2. receipt' = IF Abstract!Holds(next) THEN "success" ELSE "failure"
        BY <3>1, <4>1
      <4>3. QED BY <3>1, <3>2, <4>2
    <3>5. QED BY <3>3, <3>4
  <2>4. QED BY <2>1, <2>2, <2>3
<1> HIDE DEF tx, next
<1>8. QED BY <1>4, <1>5, <1>7 DEF Abstract!Answer, Requests, Asking, next

\* Both start empty.
LEMMA InitAbstract == Init => Abstract!Init
<1>1. SUFFICES ASSUME Init
               PROVE  Abstract!Init
  OBVIOUS
<1>2. /\ validators = <<>> /\ receipt = "none"
      /\ pending = [c \in Clients |-> <<>>]
  BY <1>1 DEF Init, Registry!Init
<1>3. [c \in Clients |-> [i \in DOMAIN pending[c] |-> RequestOf(pending[c][i])]]
         = [c \in Clients |-> <<>>]
  BY <1>2
<1>4. QED BY <1>2, <1>3 DEF Abstract!Init

\* A step of the clients or of the chain asks, answers or is not seen at all.
LEMMA NextAbstract == IInv /\ [Next]_vars => [Abstract!Next]_(Abstract!vars)
<1>1. SUFFICES ASSUME IInv, [Next]_vars
               PROVE  [Abstract!Next]_(Abstract!vars)
  OBVIOUS
<1>2. Typed /\ KeysPlaced
  BY <1>1 DEF IInv
<1>3. ASSUME UNCHANGED <<validators, pending, receipt>>
      PROVE  UNCHANGED Abstract!vars
  <2>1. Requests' = Requests
    BY <1>3, RequestsNext DEF Requests
  <2>2. QED BY <1>3, <2>1 DEF Abstract!vars, Requests, Asking
<1>4. CASE UNCHANGED vars
  BY <1>3, <1>4 DEF vars, registryVars
<1>5. ASSUME NEW c \in Clients, addNode(c) \/ NewList(c)
      PROVE  UNCHANGED Abstract!vars
  BY <1>3, <1>5 DEF addNode, NewList, registryVars
<1>6. ASSUME NEW c \in Clients, SendAddValidator(c)
      PROVE  Abstract!Ask(c)
  <2> DEFINE key == nodes[c][sent[c] + 1]
  <2>1. Send(c, AddTx(key)) /\ sent[c] < Len(nodes[c]) /\ UNCHANGED <<validators, receipt>>
    BY <1>6 DEF SendAddValidator, registryVars
  <2>2. nodes[c] \in Seq(Keys) /\ sent[c] \in Nat
    BY <1>2 DEF Typed
  <2>3. key \in Keys
    BY <2>1, <2>2
  <2>4. AddTx(key) \in Transactions /\ AddTx(key).op = "add"
    BY <2>3 DEF AddTx, Transactions
  <2> HIDE DEF key
  <2>5. QED BY <1>2, <2>1, <2>4, SendAsks
<1>7. ASSUME NEW c \in Clients, SendClear(c)
      PROVE  Abstract!Ask(c)
  <2>1. Send(c, ClearTx) /\ UNCHANGED <<validators, receipt>>
    BY <1>7 DEF SendClear, registryVars
  <2>2. ClearTx \in Transactions /\ ClearTx.op = "clear"
    BY DEF ClearTx, Transactions
  <2>3. QED BY <1>2, <2>1, <2>2, SendAsks
<1>8. ASSUME NEW c \in Clients, Checking(c)
      PROVE  Abstract!Ask(c)
  <2>1. PICK tx \in Transactions :
           /\ Send(c, tx) /\ tx.op \notin {"add", "clear"} /\ SoundCheck(tx)
           /\ UNCHANGED <<registryVars, clientVars, receipt>>
    BY <1>2, <1>8, SentChecksSound
  <2>2. UNCHANGED <<validators, receipt>>
    BY <2>1 DEF registryVars
  <2>3. QED BY <1>2, <2>1, <2>2, SendAsks
<1>9. ASSUME NEW c \in Clients, Execute(c)
      PROVE  Abstract!Answer(c)
  BY <1>1, <1>9, ExecuteAnswers
<1>10. CASE Next
  <2>1. PICK c \in Clients :
           \/ addNode(c) \/ NewList(c) \/ SendAddValidator(c) \/ SendClear(c)
           \/ Checking(c) \/ Execute(c)
    BY <1>10 DEF Next, Checking
  <2>2. CASE addNode(c) \/ NewList(c)
    BY <1>5, <2>2
  <2>3. CASE SendAddValidator(c) \/ SendClear(c) \/ Checking(c) \/ Execute(c)
    BY <1>6, <1>7, <1>8, <1>9, <2>3 DEF Abstract!Next
  <2>4. QED BY <2>1, <2>2, <2>3
<1>11. QED BY <1>1, <1>4, <1>10

\* Whatever the keys, the clients and the bounds: a check is accepted exactly if
\* the keys that signed are the members it names when it is executed.
THEOREM RegistryImplementsSigned == Spec => ImplementsSignedRegistry
  BY InitIInv, NextIInv, InitAbstract, NextAbstract, PTL
     DEF Spec, ImplementsSignedRegistry, Abstract!Spec

-----------------------------------------------------------------------------
\* A client's nodes are registered in the order of its list.
THEOREM ListsKeepTheirOrder == Spec => []ListOrderKept
<1>1. IInv => ListOrderKept
  <2>1. SUFFICES ASSUME IInv, NEW c \in Clients,
                        NEW i \in DOMAIN nodes[c], NEW j \in DOMAIN nodes[c],
                        NEW p \in DOMAIN validators, NEW q \in DOMAIN validators,
                        i < j, validators[p] = nodes[c][i], validators[q] = nodes[c][j]
                 PROVE  p < q
    BY DEF ListOrderKept
  <2>2. nodes[c] \in Seq(Keys) /\ validators \in Seq(Keys)
    BY <2>1 DEF IInv, Typed
  <2>3. /\ i \in Nat /\ j \in Nat /\ p \in Nat /\ q \in Nat
        /\ nodes[c][i] \in Keys /\ nodes[c][j] \in Keys
    BY <2>2
  <2>4. /\ Owns(c, i, nodes[c][i]) /\ Owns(c, j, nodes[c][j])
        /\ Member(p, nodes[c][i]) /\ Member(q, nodes[c][j])
    BY <2>1 DEF Owns, Member
  <2>5. QED BY <2>1, <2>3, <2>4 DEF IInv, KeysPlaced, MembersInOrder
<1>2. QED BY <1>1, ClientsInvariant, PTL

\* The registry, the clients' lists and queues and the receipts keep their types.
THEOREM ClientsKeepTypes == Spec => []TypeOK
<1>1. IInv => TypeOK
  <2>1. SUFFICES ASSUME IInv
                 PROVE  TypeOK
    OBVIOUS
  <2>2. Typed
    BY <2>1 DEF IInv
  <2>3. Registry!TypeOK
    <3>1. Keys \subseteq Registry!PubKeys
      BY DEF Registry!PubKeys
    <3>2. validators \in Seq(Registry!PubKeys)
      BY <2>2, <3>1, LargerSeq DEF Typed
    <3>3. \A i \in DOMAIN validators : validators[i] \in Keys
      BY <2>2 DEF Typed
    <3>4. Registry!MalformedKeyOnlyFirst
      BY <3>3, ClientsAssumption DEF Registry!MalformedKeyOnlyFirst
    <3>5. QED BY <2>2, <3>2, <3>4 DEF Typed, Points, Registry!TypeOK, Registry!Points
  <2>4. QED BY <2>2, <2>3 DEF Typed, TypeOK
<1>2. QED BY <1>1, ClientsInvariant, PTL

=============================================================================
