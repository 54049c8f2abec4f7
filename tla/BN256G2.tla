------------------------------ MODULE BN256G2 ------------------------------
(***************************************************************************)
(* hardhat/contracts/BN256G2.sol: arithmetic in the field of p^2 elements, *)
(* square roots in it, and points of the twist in projective coordinates.  *)
(*                                                                         *)
(* Every operator computes what the function of its name computes, with    *)
(* the same formulas on the same representatives: a coordinate is a number *)
(* that need not be reduced, and FIELD_MODULUS itself stands for zero      *)
(* where the source leaves it.  Only the constants are smaller: a curve of *)
(* the same family (p = 36u^4 + 36u^3 + 24u^2 + 6u + 1) has a small u.     *)
(*                                                                         *)
(* An element of the quadratic field is <<a, b>> for a + bi, a point of    *)
(* the projective plane <<x, y, z>>, a point as the callers pass it        *)
(* <<x, y>>, with <<Zero2, Zero2>> for the neutral element.                *)
(***************************************************************************)
EXTENDS Integers, Sequences

CONSTANTS CURVE_ORDER_FACTOR,  \* u
          FIELD_MODULUS,       \* p
          TWISTB,              \* y^2 = x^3 + TWISTB
          FROBENIUS_COEFF_X, FROBENIUS_COEFF_Y

ASSUME FieldAssumption ==
    /\ CURVE_ORDER_FACTOR \in Nat \ {0}
    /\ FIELD_MODULUS \in Nat /\ FIELD_MODULUS % 4 = 3
    /\ \A c \in {TWISTB, FROBENIUS_COEFF_X, FROBENIUS_COEFF_Y} :
          c \in (0 .. FIELD_MODULUS - 1) \X (0 .. FIELD_MODULUS - 1)

HALF_FIELD_MODULUS == (FIELD_MODULUS + 1) \div 2

Zero2 == <<0, 0>>
One2 == <<1, 0>>

\* Elements, two of them, points, and two of those.
Element == Nat \X Nat
Elements == Element \X Element
Projective == Element \X Element \X Element
Projectives == Projective \X Projective

-----------------------------------------------------------------------------
\* The field.  What is read more than once is the argument of a function, which
\* TLC evaluates once.

addmod(a, b) == (a + b) % FIELD_MODULUS
mulmod(a, b) == (a * b) % FIELD_MODULUS
submod(a, b) == addmod(a, FIELD_MODULUS - b)

FQ2Sum[xy \in Elements] ==
    LET x == xy[1] y == xy[2]
    IN  <<addmod(x[1], y[1]), addmod(x[2], y[2])>>

FQ2Add(x, y) == FQ2Sum[<<x, y>>]

FQ2Difference[xy \in Elements] ==
    LET x == xy[1] y == xy[2]
    IN  <<submod(x[1], y[1]), submod(x[2], y[2])>>

FQ2Sub(x, y) == FQ2Difference[<<x, y>>]

FQ2Multiple[xc \in Element \X Nat] ==
    LET x == xc[1] c == xc[2]
    IN  <<mulmod(x[1], c), mulmod(x[2], c)>>

FQ2Muc(x, c) == FQ2Multiple[<<x, c>>]

FQ2Product[xy \in Elements] ==
    LET x == xy[1] y == xy[2]
    IN  <<submod(mulmod(x[1], y[1]), mulmod(x[2], y[2])),
          addmod(mulmod(x[1], y[2]), mulmod(x[2], y[1]))>>

FQ2Mul(x, y) == FQ2Product[<<x, y>>]

Squared[a \in Nat] == mulmod(a, a)

\* The precompiled modular exponentiation.
ModExp[an \in Nat \X Nat] ==
    LET a == an[1] n == an[2]
        power[m \in 0 .. n] ==
            IF m = 0 THEN 1
            ELSE mulmod(Squared[power[m \div 2]], IF m % 2 = 1 THEN a ELSE 1)
    IN  power[n]

\* a^(p - 2): the inverse, and 0 for 0.
modInv(a) == ModExp[<<a, FIELD_MODULUS - 2>>]

\* The second component is FIELD_MODULUS where the inverse has a real value.
FQ2Inv[x \in Element] ==
    LET inv == modInv(addmod(mulmod(x[2], x[2]), mulmod(x[1], x[1])))
    IN  <<mulmod(x[1], inv), FIELD_MODULUS - mulmod(x[2], inv)>>

FQ2Frobenius[x \in Element] == <<x[1], FIELD_MODULUS - x[2]>>

-----------------------------------------------------------------------------
\* Square roots, for p = 3 mod 4.

divBy2(x) ==
    IF x % 2 = 1 THEN addmod(x \div 2, HALF_FIELD_MODULUS) ELSE x \div 2

sqrt(x) ==
    LET root == ModExp[<<x, (FIELD_MODULUS + 1) \div 4>>]
    IN  [root |-> root, hasRoot |-> x = mulmod(root, root)]

\* A real number has a real root or a purely imaginary one (the source asserts
\* it).  Zero2 says that there is no root.
FQ2SqrtOfReal(a) ==
    IF sqrt(a).hasRoot THEN <<sqrt(a).root, 0>>
    ELSE <<0, sqrt(FIELD_MODULUS - a).root>>

\* Variant: only one of the two candidates for the real part is tried.
FQ2SqrtOneTry(x) ==
    IF x[2] = 0 THEN FQ2SqrtOfReal(x[1])
    ELSE LET norm == sqrt(addmod(mulmod(x[1], x[1]), mulmod(x[2], x[2])))
             half == sqrt(divBy2(addmod(x[1], norm.root)))
         IN  IF norm.hasRoot /\ half.hasRoot
             THEN <<half.root, mulmod(x[2], modInv(addmod(half.root, half.root)))>>
             ELSE Zero2

\* The real part squared is half of a + |x| or of a - |x|.
FQ2Sqrt(x) ==
    IF x[2] = 0 THEN FQ2SqrtOfReal(x[1])
    ELSE LET norm == sqrt(addmod(mulmod(x[1], x[1]), mulmod(x[2], x[2])))
             plus == sqrt(divBy2(addmod(x[1], norm.root)))
             minus == sqrt(divBy2(submod(x[1], norm.root)))
             half == IF plus.hasRoot THEN plus ELSE minus
         IN  IF norm.hasRoot /\ half.hasRoot
             THEN <<half.root, mulmod(x[2], modInv(addmod(half.root, half.root)))>>
             ELSE Zero2

-----------------------------------------------------------------------------
\* The twist.

\* y^2 for a given x.
Get_yy_coordinate(x) == FQ2Add(FQ2Mul(FQ2Mul(x, x), x), TWISTB)

IsOnCurve(x, y) ==
    FQ2Sub(FQ2Sub(FQ2Mul(y, y), FQ2Mul(FQ2Mul(x, x), x)), TWISTB) = Zero2

\* Variant: what Jacobian coordinates would ask for, x / z^2 and y / z^3.
fromJacobianWeighted(pt) ==
    LET inv == FQ2Inv[pt[3]]
        square == FQ2Mul(inv, inv)
    IN  <<FQ2Mul(pt[1], square), FQ2Mul(pt[2], FQ2Mul(square, inv))>>

\* In spite of its name x / z and y / z.
fromJacobian(pt) ==
    <<FQ2Mul(pt[1], FQ2Inv[pt[3]]), FQ2Mul(pt[2], FQ2Inv[pt[3]])>>

ECTwistDoubleJacobian[pt \in Projective] ==
    LET W == FQ2Mul(FQ2Muc(pt[1], 3), pt[1])
        S == FQ2Mul(pt[2], pt[3])
        B == FQ2Mul(FQ2Mul(pt[1], pt[2]), S)
        H == FQ2Sub(FQ2Mul(W, W), FQ2Muc(B, 8))
        SS == FQ2Mul(S, S)
    IN  <<FQ2Mul(FQ2Muc(H, 2), S),
          FQ2Sub(FQ2Mul(FQ2Sub(FQ2Muc(B, 4), H), W),
                 FQ2Mul(FQ2Mul(FQ2Muc(pt[2], 8), pt[2]), SS)),
          FQ2Muc(FQ2Mul(S, SS), 8)>>

\* The sum of two points with different x.
AddDistinct(pt1, pt2) ==
    LET U2 == FQ2Mul(pt1[2], pt2[3])
        V2 == FQ2Mul(pt1[1], pt2[3])
        W == FQ2Mul(pt1[3], pt2[3])
        U == FQ2Sub(FQ2Mul(pt2[2], pt1[3]), U2)
        V == FQ2Sub(FQ2Mul(pt2[1], pt1[3]), V2)
        VVV2 == FQ2Mul(FQ2Mul(V, V), V2)
        VVV == FQ2Mul(FQ2Mul(V, V), V)
        A == FQ2Sub(FQ2Sub(FQ2Mul(FQ2Mul(U, U), W), VVV), FQ2Muc(VVV2, 2))
    IN  <<FQ2Mul(V, A),
          FQ2Sub(FQ2Mul(U, FQ2Sub(VVV2, A)), FQ2Mul(VVV, U2)),
          FQ2Mul(VVV, W)>>

\* The neutral element is known by z = <<0, 0>> and by nothing else.
ECTwistSum[points \in Projectives] ==
    LET pt1 == points[1] pt2 == points[2]
    IN  IF pt1[3] = Zero2 THEN pt2
        ELSE IF pt2[3] = Zero2 THEN pt1
        ELSE IF FQ2Mul(pt2[1], pt1[3]) # FQ2Mul(pt1[1], pt2[3])
        THEN AddDistinct(pt1, pt2)
        ELSE IF FQ2Mul(pt2[2], pt1[3]) = FQ2Mul(pt1[2], pt2[3])
        THEN ECTwistDoubleJacobian[pt1]
        ELSE <<One2, One2, Zero2>>

ECTwistAddJacobian(pt1, pt2) == ECTwistSum[<<pt1, pt2>>]

\* The twisted Frobenius map.  A z of <<0, 0>> becomes <<0, FIELD_MODULUS>>.
ECTwistFrobeniusJacobian[pt \in Projective] ==
    <<FQ2Mul(FQ2Frobenius[pt[1]], FROBENIUS_COEFF_X),
      FQ2Mul(FQ2Frobenius[pt[2]], FROBENIUS_COEFF_Y),
      FQ2Frobenius[pt[3]]>>

=============================================================================
