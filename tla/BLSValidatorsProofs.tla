------------------------ MODULE BLSValidatorsProofs ------------------------
(***************************************************************************)
(* What holds of the registry for every set of keys and every bound: the   *)
(* cached aggregate is the sum of the registered keys, and subtracting the *)
(* non-signers from it is adding up the signers.                           *)
(***************************************************************************)
EXTENDS BLSValidators, FiniteSetTheorems, FunctionTheorems, TLAPS

\* The positions of a list that hold the key k.
PositionsOf(list, k) == {i \in 1 .. Len(list) : list[i] = k}

\* Appending a key adds one position to that key and none to any other.
LEMMA AppendCount ==
    ASSUME NEW S, NEW list \in Seq(S), NEW pk \in S, NEW k
    PROVE  /\ Cardinality(PositionsOf(list, k)) \in Nat
           /\ Cardinality(PositionsOf(Append(list, pk), k)) =
                 Cardinality(PositionsOf(list, k)) + (IF k = pk THEN 1 ELSE 0)
<1>1. IsFiniteSet(PositionsOf(list, k))
  <2>1. IsFiniteSet(1 .. Len(list))
    BY FS_Interval
  <2>2. PositionsOf(list, k) \in SUBSET (1 .. Len(list))
    BY DEF PositionsOf
  <2>3. QED BY <2>1, <2>2, FS_Subset
<1>2. Cardinality(PositionsOf(list, k)) \in Nat
  BY <1>1, FS_CardinalityType
<1>3. Len(list) + 1 \notin PositionsOf(list, k)
  BY DEF PositionsOf
<1>4. CASE k = pk
  <2>1. PositionsOf(Append(list, pk), k) = PositionsOf(list, k) \cup {Len(list) + 1}
    BY <1>4 DEF PositionsOf
  <2>2. QED BY <1>1, <1>2, <1>3, <1>4, <2>1, FS_AddElement
<1>5. CASE k # pk
  <2>1. PositionsOf(Append(list, pk), k) = PositionsOf(list, k)
    BY <1>5 DEF PositionsOf
  <2>2. QED BY <1>2, <1>5, <2>1
<1>6. QED BY <1>2, <1>4, <1>5

\* The multiplicity of each key in a list.
Multiplicities(list) == [k \in Keys |-> Cardinality(PositionsOf(list, k))]

\* The multiplicities of a list are a point.
LEMMA MultiplicitiesType ==
    ASSUME NEW list \in Seq(PubKeys)
    PROVE  Multiplicities(list) \in Points
<1>1. ASSUME NEW k \in Keys
      PROVE  Cardinality(PositionsOf(list, k)) \in Nat
  <2>1. IsFiniteSet(1 .. Len(list))
    BY FS_Interval
  <2>2. PositionsOf(list, k) \in SUBSET (1 .. Len(list))
    BY DEF PositionsOf
  <2>3. QED BY <2>1, <2>2, FS_Subset, FS_CardinalityType
<1>2. QED BY <1>1 DEF Multiplicities, Points

\* The key the loop of checkSigAGG arrives at counts the positions of each key.
LEMMA SumAtAll ==
    validators \in Seq(PubKeys) => SumAt(AllIndices) = Multiplicities(validators)
<1>1. SUFFICES ASSUME validators \in Seq(PubKeys), NEW k \in Keys
               PROVE  SumAt(AllIndices)[k] = Multiplicities(validators)[k]
  BY DEF SumAt, Multiplicities
<1>2. {j \in DOMAIN AllIndices : validators[AllIndices[j] + 1] = k}
         = PositionsOf(validators, k)
  BY DEF AllIndices, PositionsOf
<1>3. SumAt(AllIndices)[k] =
         Cardinality({j \in DOMAIN AllIndices : validators[AllIndices[j] + 1] = k})
  BY DEF SumAt
<1>4. QED BY <1>2, <1>3 DEF Multiplicities

-----------------------------------------------------------------------------
\* The invariant.  AggregateMatches is inductive once the types are known: it
\* says itself that a well-formed registry has a well-formed aggregate.  IInv
\* states it over the list instead of the loop.
AggregateIs(list) ==
    IF list[1] = OffCurve THEN OffCurve ELSE Multiplicities(list)

IInv ==
    /\ TypeOK
    /\ ~seeded /\ validators # <<>> => aggregate = AggregateIs(validators)

\* An empty registry has nothing to agree with.
LEMMA InitIInv == Init => IInv
<1>1. <<>> \in Seq(PubKeys) /\ DOMAIN <<>> = {}
  OBVIOUS
<1>2. Zero \in Points
  BY DEF Zero, Points
<1>3. QED BY <1>1, <1>2 DEF Init, IInv, TypeOK, MalformedKeyOnlyFirst

\* The invariant says of the loop what it says of the list.
LEMMA IInvImplies == IInv => AggregateMatches
  BY SumAtAll DEF IInv, TypeOK, AggregateMatches, AggregateIs

\* The first key of a registry becomes the aggregate.
LEMMA FirstKey ==
    ASSUME IInv, NEW pk \in PubKeys, addValidator(pk), validators = <<>>
    PROVE  IInv'
<1>1. validators' = <<pk>> /\ aggregate' = KeyPoint(pk) /\ seeded' = seeded
  BY DEF addValidator
<1>2. /\ <<pk>> \in Seq(PubKeys)
      /\ Len(<<pk>>) = 1 /\ <<pk>>[1] = pk
      /\ DOMAIN <<pk>> = {1}
  OBVIOUS
<1>3. pk # OffCurve => KeyPoint(pk) = Multiplicities(<<pk>>)
  <2>1. ASSUME NEW k \in Keys
        PROVE  Cardinality(PositionsOf(<<pk>>, k)) = IF k = pk THEN 1 ELSE 0
    <3>1. CASE k = pk
      <4>1. PositionsOf(<<pk>>, k) = {1}
        BY <1>2, <3>1 DEF PositionsOf
      <4>2. QED BY <3>1, <4>1, FS_Singleton
    <3>2. CASE k # pk
      <4>1. PositionsOf(<<pk>>, k) = {}
        BY <1>2, <3>2 DEF PositionsOf
      <4>2. QED BY <3>2, <4>1, FS_EmptySet
    <3>3. QED BY <3>1, <3>2
  <2>2. QED BY <2>1 DEF KeyPoint, Multiplicities
<1>4. KeyPoint(pk) \in Points \cup {OffCurve}
  BY DEF KeyPoint, Points
<1>5. MalformedKeyOnlyFirst'
  BY <1>1, <1>2 DEF MalformedKeyOnlyFirst
<1>6. TypeOK'
  BY <1>1, <1>2, <1>4, <1>5 DEF TypeOK, IInv
<1>7. pk = OffCurve => KeyPoint(pk) = OffCurve
  BY DEF KeyPoint
<1>8. QED BY <1>1, <1>2, <1>3, <1>6, <1>7 DEF IInv, AggregateIs

\* A later key is added to the aggregate.
LEMMA LaterKey ==
    ASSUME IInv, NEW pk \in PubKeys, addValidator(pk), validators # <<>>
    PROVE  IInv'
<1>1. /\ validators' = Append(validators, pk)
      /\ aggregate' = add(aggregate, KeyPoint(pk))
      /\ seeded' = seeded
      /\ aggregate # OffCurve /\ pk \in Keys /\ pk # OffCurve
  BY DEF addValidator, CanAdd, PubKeys
<1>2. /\ validators \in Seq(PubKeys) /\ aggregate \in Points
      /\ seeded \in BOOLEAN
  BY <1>1 DEF IInv, TypeOK
<1>3. /\ Append(validators, pk) \in Seq(PubKeys)
      /\ Append(validators, pk) # <<>>
      /\ Append(validators, pk)[1] = validators[1]
      /\ DOMAIN Append(validators, pk) = 1 .. Len(validators) + 1
      /\ \A i \in 1 .. Len(validators) :
             i \in DOMAIN validators /\ Append(validators, pk)[i] = validators[i]
      /\ Append(validators, pk)[Len(validators) + 1] = pk
  BY <1>2
<1>4. KeyPoint(pk) = [k \in Keys |-> IF k = pk THEN 1 ELSE 0]
  BY <1>1 DEF KeyPoint
<1>5. MalformedKeyOnlyFirst'
  <2>1. SUFFICES ASSUME NEW i \in 1 .. Len(validators) + 1,
                        Append(validators, pk)[i] = OffCurve
                 PROVE  i = 1
    BY <1>1, <1>3 DEF MalformedKeyOnlyFirst
  <2>2. i # Len(validators) + 1
    BY <1>1, <1>3, <2>1, KeysAssumption
  <2>3. i \in 1 .. Len(validators)
    BY <1>2, <2>2
  <2>4. QED BY <1>3, <2>1, <2>3 DEF IInv, TypeOK, MalformedKeyOnlyFirst
<1>6. TypeOK'
  <2>1. add(aggregate, KeyPoint(pk)) \in Points
    BY <1>2, <1>4 DEF add, Points
  <2>2. QED BY <1>1, <1>2, <1>3, <1>5, <2>1 DEF TypeOK
<1>7. ASSUME ~seeded
      PROVE  add(aggregate, KeyPoint(pk)) = AggregateIs(Append(validators, pk))
  <2>1. validators[1] # OffCurve /\ aggregate = Multiplicities(validators)
    BY <1>1, <1>7 DEF IInv, AggregateIs
  <2>2. ASSUME NEW k \in Keys
        PROVE  aggregate[k] + KeyPoint(pk)[k] =
                  Cardinality(PositionsOf(Append(validators, pk), k))
    BY <1>2, <1>4, <2>1, AppendCount DEF Multiplicities, PubKeys
  <2>3. add(aggregate, KeyPoint(pk)) = Multiplicities(Append(validators, pk))
    BY <2>2 DEF add, Multiplicities
  <2>4. QED BY <1>3, <2>1, <2>3 DEF AggregateIs
<1>8. QED BY <1>1, <1>6, <1>7 DEF IInv

\* Seeding with keys on the curve moves no malformed key and marks the registry.
LEMMA Seeding ==
    ASSUME IInv, NEW pks \in SeedBatches, addValidatorTest(pks)
    PROVE  IInv'
<1>1. PICK n \in 0 .. MaxSeeded : pks \in [1 .. n -> Keys]
  BY DEF SeedBatches
<1>2. n \in Nat
  BY BoundsAssumption
<1>3. pks \in Seq(Keys) /\ pks \in Seq(PubKeys) /\ Len(pks) = n
  BY <1>1, <1>2 DEF PubKeys
<1>4. /\ validators \in Seq(PubKeys) /\ aggregate \in Points \cup {OffCurve}
      /\ seeded \in BOOLEAN
  BY DEF IInv, TypeOK
<1>5. /\ validators' = validators \o pks
      /\ seeded' = (seeded \/ pks # <<>>)
      /\ aggregate' = aggregate
  BY DEF addValidatorTest
<1>6. CASE pks = <<>>
  <2>1. validators' = validators /\ seeded' = seeded
    BY <1>4, <1>5, <1>6
  <2>2. QED BY <1>5, <2>1
            DEF IInv, TypeOK, MalformedKeyOnlyFirst, AggregateIs,
                Multiplicities, PositionsOf
<1>7. CASE pks # <<>>
  <2>1. seeded'
    BY <1>5, <1>7
  <2>2. MalformedKeyOnlyFirst'
    <3>1. SUFFICES ASSUME NEW i \in 1 .. Len(validators) + Len(pks),
                          (validators \o pks)[i] = OffCurve
                   PROVE  i = 1
      BY <1>3, <1>4, <1>5 DEF MalformedKeyOnlyFirst
    <3>2. CASE i \in 1 .. Len(validators)
      <4>1. validators[i] = OffCurve /\ i \in DOMAIN validators
        BY <1>3, <1>4, <3>1, <3>2
      <4>2. QED BY <4>1 DEF IInv, TypeOK, MalformedKeyOnlyFirst
    <3>3. CASE i > Len(validators)
      <4>1. /\ i - Len(validators) \in 1 .. Len(pks)
            /\ pks[i - Len(validators)] = OffCurve
        BY <1>3, <1>4, <3>1, <3>3
      <4>2. QED BY <1>3, <4>1, KeysAssumption
    <3>4. QED BY <1>4, <3>2, <3>3
  <2>3. TypeOK'
    BY <1>3, <1>4, <1>5, <2>1, <2>2 DEF TypeOK
  <2>4. QED BY <2>1, <2>3 DEF IInv
<1>8. QED BY <1>6, <1>7

\* An empty registry owes its stale aggregate nothing.
LEMMA Clearing ==
    ASSUME IInv, clearValidators
    PROVE  IInv'
<1>1. <<>> \in Seq(PubKeys) /\ DOMAIN <<>> = {}
  OBVIOUS
<1>2. QED BY <1>1 DEF clearValidators, IInv, TypeOK, MalformedKeyOnlyFirst

\* Every transaction that changes the registry preserves the invariant.
LEMMA NextIInv == IInv /\ [Next]_vars => IInv'
<1>1. SUFFICES ASSUME IInv, [Next]_vars
               PROVE  IInv'
  OBVIOUS
<1>2. ASSUME NEW pk \in PubKeys, addValidator(pk)
      PROVE  IInv'
  BY <1>1, <1>2, FirstKey, LaterKey
<1>3. ASSUME NEW pks \in SeedBatches, addValidatorTest(pks)
      PROVE  IInv'
  BY <1>1, <1>3, Seeding
<1>4. CASE clearValidators
  BY <1>1, <1>4, Clearing
<1>5. CASE UNCHANGED vars
  BY <1>1, <1>5 DEF vars, IInv, TypeOK, MalformedKeyOnlyFirst, AggregateIs,
                    Multiplicities, PositionsOf
<1>6. QED BY <1>1, <1>2, <1>3, <1>4, <1>5 DEF Next

\* The inductive invariant holds in every reachable state.
THEOREM RegistryInvariant == Spec => []IInv
  BY InitIInv, NextIInv, PTL DEF Spec

\* The registry's state keeps its types, whatever the keys and the bounds, and
\* no entry but the first is a malformed key.
THEOREM RegistryTypes == Spec => []TypeOK
<1>1. IInv => TypeOK
  BY DEF IInv
<1>2. QED BY <1>1, RegistryInvariant, PTL

\* The aggregate the contract caches is the sum of the registered keys in every
\* registry that addValidatorTest has left alone.
THEOREM CachedAggregate == Spec => []AggregateMatches
  BY IInvImplies, RegistryInvariant, PTL

\* A registry whose first key is malformed grows by seeding only.
THEOREM MalformedBlocks == Spec => MalformedFirstKeyBlocks
<1>1. IInv /\ [Next]_vars =>
         [validators # <<>> /\ validators[1] = OffCurve /\ ~seeded
             => Len(validators') <= Len(validators) \/ seeded']_vars
  <2>1. SUFFICES ASSUME IInv, Next, validators # <<>>,
                        validators[1] = OffCurve, ~seeded, ~seeded'
                 PROVE  Len(validators') <= Len(validators)
    OBVIOUS
  <2>2. validators \in Seq(PubKeys) /\ aggregate = OffCurve
    BY <2>1 DEF IInv, TypeOK, AggregateIs
  <2>3. ASSUME NEW pk \in PubKeys, addValidator(pk)
        PROVE  FALSE
    BY <2>1, <2>2, <2>3 DEF addValidator, CanAdd
  <2>4. ASSUME NEW pks \in SeedBatches, addValidatorTest(pks)
        PROVE  Len(validators') <= Len(validators)
    <3>1. seeded' = (seeded \/ pks # <<>>) /\ validators' = validators \o pks
      BY <2>4 DEF addValidatorTest
    <3>2. pks = <<>>
      BY <2>1, <3>1
    <3>3. validators' = validators
      BY <2>2, <3>1, <3>2
    <3>4. QED BY <2>2, <3>3
  <2>5. CASE clearValidators
    BY <2>2, <2>5 DEF clearValidators
  <2>6. QED BY <2>1, <2>3, <2>4, <2>5 DEF Next
<1>2. QED BY <1>1, RegistryInvariant, PTL DEF Spec, MalformedFirstKeyBlocks

-----------------------------------------------------------------------------
\* Subtracting the non-signers.

\* The positions of the registry that hold k and that a list of indices names.
NamedPositions(indices, k) ==
    {i \in 1 .. Len(validators) :
        validators[i] = k /\ \E j \in DOMAIN indices : indices[j] = i - 1}

\* No index occurs twice.
Different(indices) ==
    \A i, j \in DOMAIN indices : indices[i] = indices[j] => i = j

\* A list of indices is a finite function.
LEMMA IndexListType ==
    ASSUME NEW indices \in IndexLists
    PROVE  /\ IsFiniteSet(DOMAIN indices)
           /\ \A j \in DOMAIN indices : indices[j] \in 0 .. Len(validators) - 1
<1>1. PICK n \in 0 .. MaxNamed : indices \in [1 .. n -> 0 .. Len(validators) - 1]
  BY DEF IndexLists
<1>2. n \in Int
  OBVIOUS
<1>3. IsFiniteSet(1 .. n)
  BY <1>2, FS_Interval
<1>4. QED BY <1>1, <1>3

\* How often an index occurs is a number: zero if it does not occur, and more
\* than one if it occurs in two places.
LEMMA TimesIs ==
    ASSUME NEW indices \in IndexLists, NEW i
    PROVE  /\ Times(indices, i) \in Nat
           /\ Times(indices, i) = 0 <=> ~\E j \in DOMAIN indices : indices[j] = i
           /\ \A a, b \in DOMAIN indices :
                 indices[a] = i /\ indices[b] = i /\ a # b => Times(indices, i) > 1
<1> DEFINE At == {j \in DOMAIN indices : indices[j] = i}
<1>1. IsFiniteSet(At)
  BY IndexListType, FS_Subset
<1>2. Times(indices, i) = Cardinality(At)
  BY DEF Times
<1>3. Cardinality(At) \in Nat
  BY <1>1, FS_CardinalityType
<1>4. Cardinality(At) = 0 <=> At = {}
  BY <1>1, FS_EmptySet
<1>5. ASSUME NEW a \in At, NEW b \in At, a # b
      PROVE  Cardinality(At) > 1
  <2>1. Cardinality(At \ {a}) = Cardinality(At) - 1 /\ IsFiniteSet(At \ {a})
    BY <1>1, FS_RemoveElement
  <2>2. At \ {a} # {}
    BY <1>5
  <2>3. Cardinality(At \ {a}) # 0
    BY <2>1, <2>2, FS_EmptySet
  <2>4. Cardinality(At) # 0
    BY <1>4
  <2>5. QED BY <1>3, <2>1, <2>3, <2>4
<1>6. QED BY <1>2, <1>3, <1>4, <1>5

\* A list without repetitions counts a key once for each position it names.
LEMMA IndexListCount ==
    ASSUME validators \in Seq(PubKeys), NEW indices \in IndexLists, NEW k \in Keys,
           Different(indices)
    PROVE  /\ IsFiniteSet(NamedPositions(indices, k))
           /\ SumAt(indices)[k] = Cardinality(NamedPositions(indices, k))
<1> DEFINE Counted == {j \in DOMAIN indices : validators[indices[j] + 1] = k}
           Named   == NamedPositions(indices, k)
           F       == [j \in Counted |-> indices[j] + 1]
<1>1. /\ Len(validators) \in Nat /\ IsFiniteSet(DOMAIN indices)
      /\ \A j \in DOMAIN indices : indices[j] \in 0 .. Len(validators) - 1
  BY IndexListType
<1>2. IsFiniteSet(Counted)
  BY <1>1, FS_Subset
<1>3. F \in [Counted -> Named]
  <2>1. ASSUME NEW j \in Counted
        PROVE  indices[j] + 1 \in Named
    <3>1. j \in DOMAIN indices /\ indices[j] \in 0 .. Len(validators) - 1
      BY <1>1
    <3>2. /\ indices[j] + 1 \in 1 .. Len(validators)
          /\ indices[j] = (indices[j] + 1) - 1
      BY <1>1, <3>1
    <3>3. QED BY <3>1, <3>2 DEF NamedPositions
  <2>2. QED BY <2>1
<1>4. ASSUME NEW a \in Counted, NEW b \in Counted, F[a] = F[b]
      PROVE  a = b
  <2>1. /\ a \in DOMAIN indices /\ b \in DOMAIN indices
        /\ indices[a] \in Int /\ indices[b] \in Int
    BY <1>1
  <2>2. indices[a] = indices[b]
    BY <1>4, <2>1
  <2>3. QED BY <2>1, <2>2 DEF Different
<1>5. ASSUME NEW i \in Named
      PROVE  \E j \in Counted : F[j] = i
  <2>1. PICK j \in DOMAIN indices : indices[j] = i - 1
    BY DEF NamedPositions
  <2>2. i \in 1 .. Len(validators) /\ validators[i] = k
    BY DEF NamedPositions
  <2>3. indices[j] + 1 = i
    BY <1>1, <2>1, <2>2
  <2>4. QED BY <2>2, <2>3
<1>6. F \in Bijection(Counted, Named)
  BY <1>3, <1>4, <1>5, Fun_IsBij
<1>7. IsFiniteSet(Named) /\ Cardinality(Named) = Cardinality(Counted)
  <2>1. ExistsBijection(Counted, Named)
    BY <1>6 DEF ExistsBijection
  <2>2. QED BY <1>2, <2>1, FS_Bijection
<1>8. QED BY <1>7 DEF SumAt

\* Two lists that name every member once between them repeat nothing, and what
\* one of them names the other does not.
LEMMA NamedOnceSplits ==
    ASSUME NEW signers \in IndexLists, NEW nonSigners \in IndexLists,
           NamedOnce(signers, nonSigners)
    PROVE  /\ Different(signers) /\ Different(nonSigners)
           /\ \A i \in 0 .. Len(validators) - 1 :
                 (\E j \in DOMAIN signers : signers[j] = i)
                    <=> ~(\E j \in DOMAIN nonSigners : nonSigners[j] = i)
<1>1. ASSUME NEW i \in 0 .. Len(validators) - 1
      PROVE  /\ Times(signers, i) \in Nat /\ Times(nonSigners, i) \in Nat
             /\ Times(signers, i) + Times(nonSigners, i) = 1
  BY TimesIs DEF NamedOnce
<1>2. ASSUME NEW i \in 0 .. Len(validators) - 1
      PROVE  /\ Times(signers, i) <= 1 /\ Times(nonSigners, i) <= 1
             /\ Times(signers, i) = 0 <=> Times(nonSigners, i) # 0
  BY <1>1
<1>3. Different(signers)
  <2>1. SUFFICES ASSUME NEW a \in DOMAIN signers, NEW b \in DOMAIN signers,
                        signers[a] = signers[b], a # b
                 PROVE  FALSE
    BY DEF Different
  <2>2. signers[a] \in 0 .. Len(validators) - 1
    BY IndexListType
  <2>3. Times(signers, signers[a]) > 1 /\ Times(signers, signers[a]) \in Nat
    BY <2>1, TimesIs
  <2>4. QED BY <1>2, <2>2, <2>3
<1>4. Different(nonSigners)
  <2>1. SUFFICES ASSUME NEW a \in DOMAIN nonSigners, NEW b \in DOMAIN nonSigners,
                        nonSigners[a] = nonSigners[b], a # b
                 PROVE  FALSE
    BY DEF Different
  <2>2. nonSigners[a] \in 0 .. Len(validators) - 1
    BY IndexListType
  <2>3. Times(nonSigners, nonSigners[a]) > 1 /\ Times(nonSigners, nonSigners[a]) \in Nat
    BY <2>1, TimesIs
  <2>4. QED BY <1>2, <2>2, <2>3
<1>5. ASSUME NEW i \in 0 .. Len(validators) - 1
      PROVE  (\E j \in DOMAIN signers : signers[j] = i)
                <=> ~(\E j \in DOMAIN nonSigners : nonSigners[j] = i)
  <2>1. Times(signers, i) = 0 <=> ~\E j \in DOMAIN signers : signers[j] = i
    BY TimesIs
  <2>2. Times(nonSigners, i) = 0 <=> ~\E j \in DOMAIN nonSigners : nonSigners[j] = i
    BY TimesIs
  <2>3. QED BY <1>2, <2>1, <2>2
<1>6. QED BY <1>3, <1>4, <1>5

\* Such lists share the positions of a key out between them.
LEMMA SplitCount ==
    ASSUME validators \in Seq(PubKeys),
           NEW signers \in IndexLists, NEW nonSigners \in IndexLists,
           NamedOnce(signers, nonSigners), NEW k \in Keys
    PROVE  /\ SumAt(signers)[k] \in Nat /\ SumAt(nonSigners)[k] \in Nat
           /\ Cardinality(PositionsOf(validators, k)) =
                 SumAt(signers)[k] + SumAt(nonSigners)[k]
<1>1. ASSUME NEW i \in 1 .. Len(validators)
      PROVE  (\E j \in DOMAIN signers : signers[j] = i - 1)
                <=> ~(\E j \in DOMAIN nonSigners : nonSigners[j] = i - 1)
  <2>1. i - 1 \in 0 .. Len(validators) - 1
    OBVIOUS
  <2>2. QED BY <2>1, NamedOnceSplits
<1>2. PositionsOf(validators, k) =
         NamedPositions(signers, k) \cup NamedPositions(nonSigners, k)
  BY <1>1 DEF PositionsOf, NamedPositions
<1>3. NamedPositions(signers, k) \cap NamedPositions(nonSigners, k) = {}
  BY <1>1 DEF NamedPositions
<1>4. Different(signers) /\ Different(nonSigners)
  BY NamedOnceSplits
<1>5. IsFiniteSet(NamedPositions(signers, k)) /\ IsFiniteSet(NamedPositions(nonSigners, k))
  BY <1>4, IndexListCount
<1>6. Cardinality(NamedPositions(signers, k)) \in Nat
      /\ Cardinality(NamedPositions(nonSigners, k)) \in Nat
  BY <1>5, FS_CardinalityType
<1>7. Cardinality(PositionsOf(validators, k)) =
         Cardinality(NamedPositions(signers, k)) + Cardinality(NamedPositions(nonSigners, k))
  <2> DEFINE A == NamedPositions(signers, k)
             B == NamedPositions(nonSigners, k)
  <2> HIDE DEF A, B
  <2>1. Cardinality(A \cup B) = Cardinality(A) + Cardinality(B) - Cardinality(A \cap B)
    BY <1>5, FS_Union DEF A, B
  <2>2. Cardinality(A \cap B) = 0
    BY <1>3, FS_EmptySet DEF A, B
  <2>3. Cardinality(A) \in Nat /\ Cardinality(B) \in Nat
    BY <1>6 DEF A, B
  <2>4. Cardinality(A \cup B) = Cardinality(A) + Cardinality(B)
    BY <2>1, <2>2, <2>3
  <2>5. QED BY <1>2, <2>4 DEF A, B
<1>8. QED BY <1>4, <1>6, <1>7, IndexListCount

\* Where no key is registered twice, the key of a member is counted as often as
\* the member is named.
LEMMA MemberCount ==
    ASSUME validators \in Seq(PubKeys), KeysDiffer, NEW indices \in IndexLists,
           NEW i \in 0 .. Len(validators) - 1, validators[i + 1] \in Keys
    PROVE  /\ SumAt(indices)[validators[i + 1]] = Times(indices, i)
           /\ Cardinality(PositionsOf(validators, validators[i + 1])) = 1
<1> DEFINE k == validators[i + 1]
<1>1. /\ Len(validators) \in Nat /\ i + 1 \in 1 .. Len(validators)
      /\ DOMAIN validators = 1 .. Len(validators)
  OBVIOUS
<1>2. ASSUME NEW p \in 1 .. Len(validators)
      PROVE  validators[p] = k <=> p = i + 1
  BY <1>1 DEF KeysDiffer
<1>3. {j \in DOMAIN indices : validators[indices[j] + 1] = k}
         = {j \in DOMAIN indices : indices[j] = i}
  <2>1. ASSUME NEW j \in DOMAIN indices
        PROVE  validators[indices[j] + 1] = k <=> indices[j] = i
    <3>1. indices[j] \in 0 .. Len(validators) - 1
      BY IndexListType
    <3>2. indices[j] + 1 \in 1 .. Len(validators)
      BY <1>1, <3>1
    <3>3. indices[j] + 1 = i + 1 <=> indices[j] = i
      BY <3>1
    <3>4. QED BY <1>2, <3>2, <3>3
  <2>2. QED BY <2>1
<1>4. SumAt(indices)[k] = Times(indices, i)
  BY <1>3 DEF SumAt, Times
<1>5. PositionsOf(validators, k) = {i + 1}
  BY <1>1, <1>2 DEF PositionsOf
<1>6. QED BY <1>4, <1>5, FS_Singleton

\* In a state of the invariant the aggregate less the non-signers is the signers'
\* key for lists that name every member once, and for those only.
LEMMA IInvNegate == IInv => NegateAgrees
<1>1. SUFFICES ASSUME IInv, ~seeded, validators # <<>>, validators[1] # OffCurve,
                      NEW signers \in IndexLists, NEW nonSigners \in IndexLists
               PROVE  LET agrees == add(aggregate, negate(SumAt(nonSigners)))
                                       = SumAt(signers)
                      IN  /\ NamedOnce(signers, nonSigners) => agrees
                          /\ agrees /\ KeysDiffer => NamedOnce(signers, nonSigners)
  BY DEF NegateAgrees
<1>2. validators \in Seq(PubKeys) /\ aggregate = Multiplicities(validators)
  BY <1>1 DEF IInv, TypeOK, AggregateIs
<1>3. \A k \in Keys : aggregate[k] = Cardinality(PositionsOf(validators, k))
  BY <1>2 DEF Multiplicities
<1>4. add(aggregate, negate(SumAt(nonSigners))) =
         [k \in Keys |-> aggregate[k] + (-SumAt(nonSigners)[k])]
  BY DEF add, negate
<1>5. ASSUME NamedOnce(signers, nonSigners)
      PROVE  add(aggregate, negate(SumAt(nonSigners))) = SumAt(signers)
  <2>1. ASSUME NEW k \in Keys
        PROVE  aggregate[k] + (-SumAt(nonSigners)[k]) = SumAt(signers)[k]
    BY <1>2, <1>3, <1>5, SplitCount
  <2>2. SumAt(signers) = [k \in Keys |-> SumAt(signers)[k]]
    BY DEF SumAt
  <2>3. QED BY <1>4, <2>1, <2>2
<1>6. ASSUME add(aggregate, negate(SumAt(nonSigners))) = SumAt(signers), KeysDiffer,
             NEW i \in 0 .. Len(validators) - 1
      PROVE  Times(signers, i) + Times(nonSigners, i) = 1
  <2> DEFINE k == validators[i + 1]
  <2>1. i + 1 \in DOMAIN validators /\ k \in PubKeys
    BY <1>2
  <2>2. k \in Keys
    BY <1>1, <2>1 DEF IInv, TypeOK, MalformedKeyOnlyFirst, PubKeys
  <2>3. aggregate[k] + (-SumAt(nonSigners)[k]) = SumAt(signers)[k]
    BY <1>4, <1>6, <2>2
  <2>4. /\ aggregate[k] = 1
        /\ SumAt(signers)[k] = Times(signers, i)
        /\ SumAt(nonSigners)[k] = Times(nonSigners, i)
    BY <1>2, <1>3, <1>6, <2>2, MemberCount
  <2>5. Times(signers, i) \in Nat /\ Times(nonSigners, i) \in Nat
    BY TimesIs
  <2>6. QED BY <2>3, <2>4, <2>5
<1>7. QED BY <1>5, <1>6 DEF NamedOnce

\* In a registry that addValidatorTest has left alone, verifying against the
\* aggregate less the non-signers is verifying against the sum of the signers,
\* if and, with different keys, only if every member is named once.
THEOREM NegateVerifiesSigners == Spec => []NegateAgrees
  BY IInvNegate, RegistryInvariant, PTL

=============================================================================
