--------------------------- MODULE BLSValidators ---------------------------
(***************************************************************************)
(* The registry contract hardhat/contracts/BLSValidators.sol: the array of *)
(* registered validators, the cached aggregate of their public keys, and   *)
(* the four checks that read them.                                         *)
(*                                                                         *)
(* A G1 point is written as the multiset of key pairs it is the sum of: a  *)
(* function from Keys to Int.  Keys are drawn at random from a group of    *)
(* about 2^254 elements, so distinct ones satisfy no linear relation and   *)
(* the free abelian group over Keys tells apart what the curve tells apart.*)
(* OffCurve is a pair of coordinates that is not a point of the curve: the *)
(* precompiled contracts refuse it, and whoever passes it on reverts.      *)
(***************************************************************************)
EXTENDS Integers, Sequences, FiniteSets

CONSTANTS Keys,           \* the key pairs whose public key may be registered
          OffCurve,       \* coordinates that no precompiled contract accepts
          MaxValidators,  \* bound: the length of the registry
          MaxSeeded,      \* bound: the keys one addValidatorTest call pushes
          MaxMultiplicity, \* bound: what addValidator adds a key up to in the
                           \* aggregate (a seeded one grows from clear to clear)
          MaxNamed        \* bound: the entries of two lists of indices together

Points == [Keys -> Int]
PubKeys == Keys \cup {OffCurve}

ASSUME KeysAssumption == OffCurve \notin Keys /\ OffCurve \notin Points
ASSUME BoundsAssumption ==
    /\ MaxValidators \in Nat /\ MaxSeeded \in Nat
    /\ MaxMultiplicity \in Nat /\ MaxNamed \in Nat

VARIABLES
    validators,  \* Seq(PubKeys): the public keys of the Validator[] array
    aggregate,   \* _aggregate_pubkey
    seeded       \* history: addValidatorTest has pushed since the last clear

vars == <<validators, aggregate, seeded>>

-----------------------------------------------------------------------------
\* Points of G1 and the pairing check.

Zero == [k \in Keys |-> 0]
\* The point a public key is.
KeyPoint(pk) ==
    IF pk = OffCurve THEN OffCurve ELSE [k \in Keys |-> IF k = pk THEN 1 ELSE 0]
add(p, q) == [k \in Keys |-> p[k] + q[k]]
negate(p) == [k \in Keys |-> -p[k]]

\* e(P1, signature) * e(-pubkey, Hm) = 1, the signature being the sum of the
\* signatures of the keys of the multiset `signature' over the message of Hm.
PairingHolds(signature, pubkey) == add(signature, negate(pubkey)) = Zero

-----------------------------------------------------------------------------
\* The checks.  Indices count from 0, as the contract's do.

\* Every key of the list is there and can be added: no revert in the loop.
CanSum(indices) ==
    \A j \in DOMAIN indices :
        /\ indices[j] \in 0 .. Len(validators) - 1
        /\ validators[indices[j] + 1] # OffCurve

\* Variant: an index that has been counted is passed over.
SumAtOnce(indices) ==
    [k \in Keys |->
        Cardinality({i \in {indices[j] : j \in DOMAIN indices} : validators[i + 1] = k})]

\* What the loop over the list adds up, an index counted as often as it occurs.
SumAt(indices) ==
    [k \in Keys |->
        Cardinality({j \in DOMAIN indices : validators[indices[j] + 1] = k})]

AllIndices == [j \in 1 .. Len(validators) |-> j - 1]

checkSigAGG(sig) ==
    /\ CanSum(AllIndices)
    /\ PairingHolds(sig, SumAt(AllIndices))

checkAggPubkey(point) ==
    /\ Len(validators) > 1
    /\ CanSum(AllIndices)
    /\ SumAt(AllIndices) = point

\* Variant: what the pairing returns is not required to be true.
checkSigAGGIndicesUnrequired(sig, indices) == CanSum(indices)

checkSigAGGIndices(sig, indices) ==
    /\ CanSum(indices)
    /\ PairingHolds(sig, SumAt(indices))

checkSigAGGNegateIndices(sig, indices) ==
    /\ CanSum(indices)
    /\ aggregate # OffCurve
    /\ PairingHolds(sig, add(aggregate, negate(SumAt(indices))))

-----------------------------------------------------------------------------
\* The operations that change the registry.

Init ==
    /\ validators = <<>>
    /\ aggregate = Zero
    /\ seeded = FALSE

\* The first key of a registry is stored as it is; a later one goes through
\* the addition precompile, which reverts on coordinates off the curve.
CanAdd(pk) ==
    validators # <<>> => aggregate # OffCurve /\ pk # OffCurve

\* Variant: a failed addition leaves the aggregate alone and does not revert.
addValidatorIgnoringFailure(pk) ==
    /\ Len(validators) < MaxValidators
    /\ validators' = Append(validators, pk)
    /\ aggregate' = IF validators = <<>> THEN KeyPoint(pk)
                    ELSE IF OffCurve \in {aggregate, pk} THEN aggregate
                    ELSE add(aggregate, KeyPoint(pk))
    /\ UNCHANGED seeded

\* Variant: the first key is added to what the aggregate held before the clear.
addValidatorToStale(pk) ==
    /\ Len(validators) < MaxValidators
    /\ pk # OffCurve
    /\ aggregate[pk] < MaxMultiplicity
    /\ validators' = Append(validators, pk)
    /\ aggregate' = add(aggregate, KeyPoint(pk))
    /\ UNCHANGED seeded

addValidator(pk) ==
    /\ Len(validators) < MaxValidators
    /\ CanAdd(pk)
    /\ validators # <<>> => aggregate[pk] < MaxMultiplicity
    /\ validators' = Append(validators, pk)
    /\ aggregate' = IF validators = <<>> THEN KeyPoint(pk)
                    ELSE add(aggregate, KeyPoint(pk))
    /\ UNCHANGED seeded

\* addValidatorTest(amount, _pk, n) pushes the keys of n consecutive secrets
\* and leaves the aggregate alone.
addValidatorTest(pks) ==
    /\ Len(validators) + Len(pks) <= MaxValidators
    /\ validators' = validators \o pks
    /\ seeded' = (seeded \/ pks # <<>>)
    /\ UNCHANGED aggregate

\* `delete validators' empties the array; the aggregate keeps its value.
clearValidators ==
    /\ validators' = <<>>
    /\ seeded' = FALSE
    /\ UNCHANGED aggregate

\* The keys of n consecutive secrets are n different keys.
SeedBatches ==
    UNION {{pks \in [1 .. n -> Keys] :
               \A i, j \in 1 .. n : pks[i] = pks[j] => i = j} :
           n \in 0 .. MaxSeeded}

Next ==
    \/ \E pk \in PubKeys : addValidator(pk)
    \/ \E pks \in SeedBatches : addValidatorTest(pks)
    \/ clearValidators

Spec == Init /\ [][Next]_vars

-----------------------------------------------------------------------------
\* Properties.

\* The precompile refuses malformed coordinates on every addition but the
\* first, so only the first entry of a registry can be malformed.
MalformedKeyOnlyFirst ==
    \A i \in DOMAIN validators : validators[i] = OffCurve => i = 1

\* The registry is a list of keys, of which only the first may be malformed,
\* since a later one is pushed and then refused; and the aggregate is what a
\* G1Point holds.
TypeOK ==
    /\ validators \in Seq(PubKeys)
    /\ MalformedKeyOnlyFirst
    /\ aggregate \in Points \cup {OffCurve}
    /\ seeded \in BOOLEAN

\* The cached aggregate is the sum of the registered keys, although it is
\* never recomputed and survives a clear: as long as addValidatorTest has not
\* been used since the last clear, a registry with members has in
\* _aggregate_pubkey what checkSigAGG's loop would add up.  With a malformed
\* first key it has that key.
AggregateMatches ==
    ~seeded /\ validators # <<>> =>
        aggregate = IF validators[1] = OffCurve THEN OffCurve
                    ELSE SumAt(AllIndices)

\* Lists of indices of the registry, with repetitions.
IndexLists == UNION {[1 .. n -> 0 .. Len(validators) - 1] : n \in 0 .. MaxNamed}

Times(indices, i) == Cardinality({j \in DOMAIN indices : indices[j] = i})

\* Every member is named once by one of the two lists, and not by the other.
NamedOnce(signers, nonSigners) ==
    \A i \in 0 .. Len(validators) - 1 : Times(signers, i) + Times(nonSigners, i) = 1

KeysDiffer ==
    \A i, j \in DOMAIN validators : validators[i] = validators[j] => i = j

\* checkSigAGGNegateIndices, given the members that did not sign, verifies
\* against the very key that checkSigAGGIndices computes from the members that
\* did: subtracting from the cached aggregate is as good as adding up.  With no
\* other lists it does, in a registry without a repeated key: an index named
\* twice, or left out, gives a key that the signers' is not.
NegateAgrees ==
    ~seeded /\ validators # <<>> /\ validators[1] # OffCurve =>
        \A signers, nonSigners \in IndexLists :
            Len(signers) + Len(nonSigners) <= MaxNamed =>
                LET agrees == add(aggregate, negate(SumAt(nonSigners))) = SumAt(signers)
                IN  /\ NamedOnce(signers, nonSigners) => agrees
                    /\ agrees /\ KeysDiffer => NamedOnce(signers, nonSigners)

\* Once a malformed key is the first entry, the registry grows no more until it
\* is cleared: addValidator's addition reverts every time.  Only
\* addValidatorTest, which adds nothing up, still pushes.
MalformedFirstKeyBlocks ==
    [][validators # <<>> /\ validators[1] = OffCurve /\ ~seeded
          => Len(validators') <= Len(validators) \/ seeded']_vars

=============================================================================
