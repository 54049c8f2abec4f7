------------------------------ MODULE HashToG2 ------------------------------
(***************************************************************************)
(* Calls of the curve library and of hashToG2, step by step: the keccak    *)
(* hash is turned into a field element (hardhat/contracts/BLSValidators.sol,*)
(* hashToField), x after x is tried until one is the x of a point of the   *)
(* twist (mapToG2), and the point is multiplied into the subgroup of G2    *)
(* (BN256G2.sol, ECTwistMulByCofactor), whose multiplications are the loop *)
(* of _ECTwistMulJacobian that ECTwistMul runs for its callers.            *)
(*                                                                         *)
(* A hash is a sequence of bytes, two of them where the source has 32, and *)
(* the number of bits a field element does not fill is SpareBits, 2 in the *)
(* source.  An EVM call is deterministic and runs alone, so that there is  *)
(* one call in a behaviour and the inputs are chosen at the start.         *)
(***************************************************************************)
EXTENDS BN256G2, PowersOfTwo

CONSTANTS Calls,      \* the calls, records with a field op; what they pass is reduced
          WordBytes,  \* bytes of a hash and of a word
          SpareBits   \* bits of a word above those of a field element

Byte == 0 .. 255
Reduced == (0 .. FIELD_MODULUS - 1) \X (0 .. FIELD_MODULUS - 1)
ReducedPoint == Reduced \X Reduced

ASSUME WordAssumption ==
    /\ WordBytes \in Nat \ {0} /\ SpareBits \in 1 .. 6
    /\ FIELD_MODULUS < PowerOfTwo[8 * WordBytes]
    /\ PowerOfTwo[8 * WordBytes - SpareBits - 1] <= FIELD_MODULUS

ASSUME CallsAssumption ==
    \A c \in Calls :
       \/ c.op = "hashToG2" /\ c.hash \in [1 .. WordBytes -> Byte]
       \/ c.op = "ECTwistMul" /\ c.s \in Nat /\ c.pt \in ReducedPoint
       \/ c.op = "ECTwistAdd" /\ c.a \in ReducedPoint /\ c.b \in ReducedPoint
       \/ c.op = "rootFp2" /\ c.x \in Reduced

VARIABLES
    call,         \* what was called
    pc,           \* where the call is
    h, x1,        \* mapToG2: the argument and the x that is tried
    point,        \* the point mapToG2 found
    d, pt1, pt2,  \* the loop of _ECTwistMulJacobian
    loop,         \* history: what the loop was entered with
    T0,           \* _ECTwistMulByCofactorJacobian: u times the point
    result        \* what the call returned

vars == <<call, pc, h, x1, point, d, pt1, pt2, loop, T0, result>>

G == INSTANCE TwistGroup WITH p <- FIELD_MODULUS, b <- TWISTB

NoPoint == <<Zero2, Zero2, Zero2>>

-----------------------------------------------------------------------------
\* From a hash to a field element.

\* The words of the first i bytes, the highest byte being the first, for every
\* i; and the word of all.
Prefixes(bytes) ==
    LET prefix[i \in 0 .. WordBytes] == IF i = 0 THEN 0 ELSE prefix[i - 1] * 256 + bytes[i]
    IN  prefix

Word(bytes) == Prefixes(bytes)[WordBytes]

\* Byte i of the hash becomes byte i of the word: the source's `LE' is the
\* order the bytes had anyway.
convertArrayAsLE(src) == Word(src)

byteSwap(word) ==
    Word([i \in 1 .. WordBytes |-> (word \div PowerOfTwo[8 * (i - 1)]) % 256])

\* word & mask, the mask being zero in the upper n bits of the lowest byte.
WithoutTop(word, n) == (word - (word % 256)) + ((word % 256) % PowerOfTwo[8 - n])

\* Variant: what is still too large is not masked again.
maskBitsOnce(word) == WithoutTop(word, SpareBits)

maskBits(word) ==
    IF byteSwap(WithoutTop(word, SpareBits)) >= FIELD_MODULUS
    THEN WithoutTop(word, SpareBits + 1)
    ELSE WithoutTop(word, SpareBits)

hashToField(hash) == byteSwap(maskBits(convertArrayAsLE(hash)))

\* HashModulus on the client's side: mcl reads the hash with the lowest byte
\* first and cuts it to the bits of the modulus, and once more if need be.
LowestFirst(hash) == Word([i \in 1 .. WordBytes |-> hash[WordBytes + 1 - i]])

setArrayMask(hash) ==
    LET bits == 8 * WordBytes - SpareBits
        n == LowestFirst(hash) % PowerOfTwo[bits]
    IN  IF n >= FIELD_MODULUS THEN n % PowerOfTwo[bits - 1] ELSE n

-----------------------------------------------------------------------------
Init ==
    /\ call \in Calls
    /\ pc = call.op
    /\ h = 0 /\ x1 = 0 /\ point = G!Neutral
    /\ d = 0 /\ pt1 = NoPoint /\ pt2 = NoPoint
    /\ loop = [name |-> "none", scalar |-> 0, base |-> NoPoint]
    /\ T0 = NoPoint
    /\ result = G!Neutral

Return(value) == pc' = "done" /\ result' = value

\* _ECTwistMulJacobian(scalar, base) is entered.
EnterLoop(name, scalar, base) ==
    /\ pc' = "loop"
    /\ loop' = [name |-> name, scalar |-> scalar, base |-> base]
    /\ d' = scalar /\ pt1' = base /\ pt2' = NoPoint

\* Variant: the point is doubled before it is added.
LoopTurnDoubledFirst ==
    /\ pc = "loop" /\ d # 0
    /\ pt1' = ECTwistDoubleJacobian[pt1]
    /\ pt2' = IF d % 2 = 1 THEN ECTwistAddJacobian(pt2, pt1') ELSE pt2
    /\ d' = d \div 2
    /\ UNCHANGED <<call, pc, h, x1, point, loop, T0, result>>

\* One turn: add if the bit is set, double, halve.
LoopTurn ==
    /\ pc = "loop" /\ d # 0
    /\ pt2' = IF d % 2 = 1 THEN ECTwistAddJacobian(pt2, pt1) ELSE pt2
    /\ pt1' = ECTwistDoubleJacobian[pt1]
    /\ d' = d \div 2
    /\ UNCHANGED <<call, pc, h, x1, point, loop, T0, result>>

LoopEnds(name) == pc = "loop" /\ d = 0 /\ loop.name = name

HashToField ==
    /\ pc = "hashToG2"
    /\ h' = hashToField(call.hash)
    /\ x1' = h'
    /\ pc' = "mapToG2"
    /\ UNCHANGED <<call, point, d, pt1, pt2, loop, T0, result>>

\* The root of y^2 at x, taken if neither coordinate is zero.
Root(x) == FQ2Sqrt(Get_yy_coordinate(<<x, 0>>))
RootTaken(x) == Root(x)[1] # 0 /\ Root(x)[2] # 0 /\ IsOnCurve(<<x, 0>>, Root(x))

\* Variant: the candidate is left as it is.
TryNextSame ==
    /\ pc = "mapToG2" /\ ~RootTaken(x1)
    /\ UNCHANGED vars

\* Variant: a candidate is left out.
TryNextSkipping ==
    /\ pc = "mapToG2" /\ ~RootTaken(x1)
    /\ x1' = x1 + 2
    /\ UNCHANGED <<call, pc, h, point, d, pt1, pt2, loop, T0, result>>

\* x1 += 1, which does not reduce modulo FIELD_MODULUS.
TryNext ==
    /\ pc = "mapToG2" /\ ~RootTaken(x1)
    /\ x1' = x1 + 1
    /\ UNCHANGED <<call, pc, h, point, d, pt1, pt2, loop, T0, result>>

\* A point is found; ECTwistMulByCofactor asserts that it is on the curve.
Mapped ==
    /\ pc = "mapToG2" /\ RootTaken(x1)
    /\ point' = <<<<x1, 0>>, Root(x1)>>
    /\ EnterLoop("T0", CURVE_ORDER_FACTOR, <<<<x1, 0>>, Root(x1), One2>>)
    /\ UNCHANGED <<call, h, x1, T0, result>>

T0Multiplied ==
    /\ LoopEnds("T0")
    /\ T0' = pt2
    /\ EnterLoop("T1", 2, pt2)
    /\ UNCHANGED <<call, h, x1, point, result>>

\* Variant: the third power of the Frobenius map is not added.
CofactorSumShort(pt, t0, t1) ==
    LET threefold == ECTwistFrobeniusJacobian[ECTwistAddJacobian(t0, t1)]
        squared == ECTwistFrobeniusJacobian[ECTwistFrobeniusJacobian[t0]]
    IN  ECTwistAddJacobian(ECTwistAddJacobian(t0, threefold), squared)

\* u P + F(3u P) + F^2(u P) + F^3(P), given u P and 2u P.
CofactorSum(pt, t0, t1) ==
    LET threefold == ECTwistFrobeniusJacobian[ECTwistAddJacobian(t0, t1)]
        squared == ECTwistFrobeniusJacobian[ECTwistFrobeniusJacobian[t0]]
        cubed == ECTwistFrobeniusJacobian[ECTwistFrobeniusJacobian[ECTwistFrobeniusJacobian[pt]]]
    IN  ECTwistAddJacobian(
            ECTwistAddJacobian(ECTwistAddJacobian(t0, threefold), squared), cubed)

T1Multiplied ==
    /\ LoopEnds("T1")
    /\ Return(fromJacobian(CofactorSum(<<point[1], point[2], One2>>, T0, pt2)))
    /\ UNCHANGED <<call, h, x1, point, d, pt1, pt2, loop, T0>>

Valid(pt) == IsOnCurve(pt[1], pt[2])

\* ECTwistMul: the neutral element is given projective coordinates, any other
\* point has to be on the curve.
ECTwistMul ==
    /\ pc = "ECTwistMul"
    /\ \/ /\ call.pt = G!Neutral
          /\ EnterLoop("ECTwistMul", call.s, <<One2, One2, Zero2>>)
       \/ /\ call.pt # G!Neutral /\ Valid(call.pt)
          /\ EnterLoop("ECTwistMul", call.s, <<call.pt[1], call.pt[2], One2>>)
       \/ /\ call.pt # G!Neutral /\ ~Valid(call.pt)
          /\ pc' = "reverted"
          /\ UNCHANGED <<loop, d, pt1, pt2>>
    /\ UNCHANGED <<call, h, x1, point, T0, result>>

Multiplied ==
    /\ LoopEnds("ECTwistMul")
    /\ Return(fromJacobian(pt2))
    /\ UNCHANGED <<call, h, x1, point, d, pt1, pt2, loop, T0>>

\* ECTwistAdd: the neutral element gives the other operand back, which has to
\* be on the curve or neutral itself.
ECTwistAdd ==
    /\ pc = "ECTwistAdd"
    /\ LET a == call.a
           b == call.b
           accepted == {q \in {a, b} : q # G!Neutral}
       IN  \/ /\ \E q \in accepted : ~Valid(q)
              /\ pc' = "reverted"
              /\ UNCHANGED result
           \/ /\ \A q \in accepted : Valid(q)
              /\ Return(IF a = G!Neutral THEN b
                        ELSE IF b = G!Neutral THEN a
                        ELSE fromJacobian(ECTwistAddJacobian(
                                 <<a[1], a[2], One2>>, <<b[1], b[2], One2>>)))
    /\ UNCHANGED <<call, h, x1, point, d, pt1, pt2, loop, T0>>

rootFp2 ==
    /\ pc = "rootFp2"
    /\ Return(<<FQ2Sqrt(call.x), Zero2>>)
    /\ UNCHANGED <<call, h, x1, point, d, pt1, pt2, loop, T0>>

Next ==
    \/ HashToField \/ TryNext \/ Mapped \/ T0Multiplied \/ T1Multiplied
    \/ LoopTurn
    \/ ECTwistMul \/ Multiplied
    \/ ECTwistAdd
    \/ rootFp2

\* An EVM call runs to its end, as far as its gas goes.
Spec == Init /\ [][Next]_vars /\ WF_vars(Next)

-----------------------------------------------------------------------------
\* Properties.

Hashing == call.op = "hashToG2"
CurveOrder ==
    LET u == CURVE_ORDER_FACTOR IN 36 * u ^ 4 + 36 * u ^ 3 + 18 * u ^ 2 + 6 * u + 1

\* A field element is below the modulus, and no imaginary part exceeds it: the
\* source subtracts them from FIELD_MODULUS and would revert if one did.  What
\* a call returns is reduced, although the coordinates on the way need not be.
TypeOK ==
    /\ call \in Calls
    /\ h \in 0 .. FIELD_MODULUS - 1 /\ x1 \in Nat /\ d \in Nat
    /\ \A pt \in {pt1, pt2, T0} : \A i \in 1 .. 3 :
          pt[i][1] \in Nat /\ pt[i][2] \in 0 .. FIELD_MODULUS
    /\ \A i, j \in 1 .. 2 : result[i][j] \in 0 .. FIELD_MODULUS - 1

\* The search for a point starts at the field element the client's library
\* makes of the hash, leaves no candidate out, and stops at the first that
\* mapToG2 takes: that one is the point whose multiples are added up.
SearchInOrder ==
    Hashing /\ pc # "hashToG2" =>
        /\ h = setArrayMask(call.hash) /\ h <= x1
        /\ \A x \in h .. x1 - 1 : ~RootTaken(x)
        /\ pc # "mapToG2" => RootTaken(x1) /\ point = <<<<x1, 0>>, Root(x1)>>

\* In every turn of the loop what was added up and what is still to be added,
\* d times the doubled point, make the product: through additions of the
\* neutral element, of equal and of opposite points.
LoopKeepsProduct ==
    pc = "loop" =>
        G!Sum(G!Affine(pt2), G!Multiple(d, G!Affine(pt1)))
            = G!Multiple(loop.scalar, G!Affine(loop.base))

\* hashToG2 ends in G2: on the twist, in the subgroup of CurveOrder elements,
\* and not at its neutral element.
HashInSubgroup ==
    Hashing /\ pc = "done" =>
        /\ result # G!Neutral
        /\ G!OnCurve(result)
        /\ G!Multiple(CurveOrder, result) = G!Neutral

\* The contract maps a hash to the point the client's library signs: the first
\* x from the client's field element on that has a y at all, x being reduced.
\* Neither the byte order and the masks nor the zero coordinates that mapToG2
\* skips lead it to another one (BLSValidators.sol:88: "This matches mcl maskN").
MapsLikeMcl ==
    /\ point[1][1] >= setArrayMask(call.hash)
    /\ G!IsSquare(G!RightHandSide(point[1]))
    /\ \A x \in setArrayMask(call.hash) .. point[1][1] - 1 :
          ~G!IsSquare(G!RightHandSide(<<x % FIELD_MODULUS, 0>>))
    /\ G!OnCurve(point)

\* ECTwistAdd and ECTwistMul give what the chord and tangent rule gives, the
\* neutral element included; a root squared is the number it was taken of, and
\* only what is no square has none; and a hash is mapped as the client maps it.
AnswersRight ==
    pc = "done" =>
        CASE call.op = "ECTwistAdd" -> result = G!Sum(call.a, call.b)
          [] call.op = "ECTwistMul" -> result = G!Multiple(call.s, call.pt)
          [] call.op = "rootFp2" ->
                IF G!IsSquare(call.x) THEN G!Times(result[1], result[1]) = call.x
                ELSE result[1] = Zero2
          [] Hashing -> MapsLikeMcl

\* Every call ends: mapToG2 finds a point, and the loops run out of bits.
CallEnds == <>(pc \in {"done", "reverted"})

=============================================================================
