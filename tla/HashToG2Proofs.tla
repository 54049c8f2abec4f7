--------------------------- MODULE HashToG2Proofs ---------------------------
(***************************************************************************)
(* What is proved of the curve library, for every prime of the form the    *)
(* source uses, every width of a hash and every reduced input.             *)
(***************************************************************************)
EXTENDS HashToG2, SetInduction

\* What has been reduced, and what is within the bounds of the source: no
\* imaginary part exceeds the modulus.
Residue == 0 .. FIELD_MODULUS - 1
Bound == 0 .. FIELD_MODULUS
Bounded == Nat \X Bound
BoundedPoint == Bounded \X Bounded \X Bounded

-----------------------------------------------------------------------------
\* Numbers.

\* The modulus is a number above 2.
LEMMA ModulusIs == FIELD_MODULUS \in Nat /\ FIELD_MODULUS >= 3
BY FieldAssumption

\* A residue is within the bounds, and they are natural numbers.
LEMMA ResiduesAre ==
    /\ 0 \in Residue /\ 1 \in Residue
    /\ \A a \in Residue : a \in Nat /\ a \in Bound
    /\ \A a \in Bound : a \in Nat /\ FIELD_MODULUS - a \in Bound
    /\ \A a \in Int : a % FIELD_MODULUS \in Residue
    /\ \A a, b \in Nat : a * b \in Nat
BY ModulusIs DEF Residue, Bound

\* The sum of two numbers is reduced.
LEMMA SumIs == \A a, b \in Nat : addmod(a, b) \in Residue
<1>1. \A a, b \in Nat : a + b \in Int
  OBVIOUS
<1>2. QED BY <1>1, ResiduesAre, Zenon DEF addmod

\* The product of two numbers is reduced.
LEMMA ProductIs == \A a, b \in Nat : mulmod(a, b) \in Residue
BY ResiduesAre DEF mulmod

\* The subtrahend may be up to the modulus, as the source has it.
LEMMA DifferenceIs == \A a \in Nat : \A b \in Bound : submod(a, b) \in Residue
BY ResiduesAre, SumIs DEF submod

\* Elements.
LEMMA ElementsAre ==
    /\ Reduced \subseteq Bounded /\ Bounded \subseteq Element
    /\ Zero2 \in Reduced /\ One2 \in Reduced
    /\ \A x \in Element : x[1] \in Nat /\ x[2] \in Nat
    /\ \A x \in Bounded : x[1] \in Nat /\ x[2] \in Bound
    /\ \A x \in Reduced : x[1] \in Residue /\ x[2] \in Residue
    /\ \A a, b \in Residue : <<a, b>> \in Reduced
    /\ \A a \in Nat : \A b \in Bound : <<a, b>> \in Bounded
<1>1. Reduced = Residue \X Residue
  BY DEF Reduced, Residue
<1>2. QED BY <1>1, ResiduesAre DEF Bounded, Element, Zero2, One2

\* A sum of elements is reduced.
LEMMA AddIs == \A x, y \in Element : FQ2Add(x, y) \in Reduced
<1> SUFFICES ASSUME NEW x \in Element, NEW y \in Element PROVE FQ2Add(x, y) \in Reduced
  OBVIOUS
<1>1. FQ2Add(x, y) = <<addmod(x[1], y[1]), addmod(x[2], y[2])>>
  BY DEF FQ2Add, FQ2Sum, Elements
<1>2. QED BY <1>1, SumIs, ElementsAre

\* A product of elements is reduced, whatever representatives it is taken of.
LEMMA MulIs == \A x, y \in Element : FQ2Mul(x, y) \in Reduced
<1> SUFFICES ASSUME NEW x \in Element, NEW y \in Element PROVE FQ2Mul(x, y) \in Reduced
  OBVIOUS
<1>1. FQ2Mul(x, y) = <<submod(mulmod(x[1], y[1]), mulmod(x[2], y[2])),
                       addmod(mulmod(x[1], y[2]), mulmod(x[2], y[1]))>>
  BY DEF FQ2Mul, FQ2Product, Elements
<1>2. \A m \in {mulmod(x[1], y[1]), mulmod(x[2], y[2]), mulmod(x[1], y[2]), mulmod(x[2], y[1])} :
         m \in Nat /\ m \in Bound
  BY ElementsAre, ProductIs, ResiduesAre
<1>3. QED BY <1>1, <1>2, DifferenceIs, SumIs, ElementsAre

\* So is an element times a number.
LEMMA MucIs == \A x \in Element : \A c \in Nat : FQ2Muc(x, c) \in Reduced
<1> SUFFICES ASSUME NEW x \in Element, NEW c \in Nat PROVE FQ2Muc(x, c) \in Reduced
  OBVIOUS
<1>1. FQ2Muc(x, c) = <<mulmod(x[1], c), mulmod(x[2], c)>>
  BY DEF FQ2Muc, FQ2Multiple
<1>2. QED BY <1>1, ProductIs, ElementsAre

\* A difference does not need its minuend reduced.
LEMMA SubIs == \A x \in Element : \A y \in Reduced : FQ2Sub(x, y) \in Reduced
<1> SUFFICES ASSUME NEW x \in Element, NEW y \in Reduced PROVE FQ2Sub(x, y) \in Reduced
  OBVIOUS
<1>1. y \in Element
  BY ElementsAre
<1>2. FQ2Sub(x, y) = <<submod(x[1], y[1]), submod(x[2], y[2])>>
  BY <1>1 DEF FQ2Sub, FQ2Difference, Elements
<1>3. x[1] \in Nat /\ x[2] \in Nat /\ y[1] \in Bound /\ y[2] \in Bound
  BY ElementsAre, ResiduesAre
<1>4. QED BY <1>2, <1>3, DifferenceIs, ElementsAre

\* The steps of a power, unfolded.
LEMMA PowerUnfolds ==
    ASSUME NEW a \in Nat, NEW n \in Nat
    PROVE  \E f : /\ ModExp[<<a, n>>] = f[n]
                  /\ f[0] = 1
                  /\ \A m \in 1 .. n : f[m] = mulmod(Squared[f[m \div 2]], IF m % 2 = 1 THEN a ELSE 1)
<1> DEFINE Body(g, m) == IF m = 0 THEN 1
                         ELSE mulmod(Squared[g[m \div 2]], IF m % 2 = 1 THEN a ELSE 1)
           S == {k \in Nat : \E g : \A j \in 0 .. k : g[j] = Body(g, j)}
<1>1. 0 \in S
  <2>1. \A j \in 0 .. 0 : [i \in 0 .. 0 |-> 1][j] = Body([i \in 0 .. 0 |-> 1], j)
    OBVIOUS
  <2>2. QED BY <2>1
<1>2. ASSUME NEW k \in Nat, k \in S
      PROVE  k + 1 \in S
  <2>1. PICK g : \A j \in 0 .. k : g[j] = Body(g, j)
    BY <1>2
  <2> DEFINE new == Body(g, k + 1)
             e == [j \in 0 .. k + 1 |-> IF j <= k THEN g[j] ELSE new]
  <2> HIDE DEF new
  <2>2. (\A j \in 0 .. k : e[j] = g[j]) /\ e[k + 1] = new
    OBVIOUS
  <2> HIDE DEF e
  <2>3. ASSUME NEW j \in 0 .. k + 1
        PROVE  e[j] = Body(e, j)
    <3>1. CASE j <= k
      <4>1. j # 0 => j \div 2 \in 0 .. k
        BY <3>1
      <4>2. j \in 0 .. k /\ e[j] = g[j] /\ (j # 0 => e[j \div 2] = g[j \div 2])
        BY <2>2, <3>1, <4>1
      <4>3. QED BY <2>1, <4>2, Zenon
    <3>2. CASE j = k + 1
      <4>1. j # 0 /\ k + 1 # 0 /\ (k + 1) \div 2 \in 0 .. k
        BY <3>2
      <4>2. e[(k + 1) \div 2] = g[(k + 1) \div 2]
        BY <2>2, <4>1
      <4>3. QED BY <2>2, <3>2, <4>1, <4>2, Zenon DEF new
    <3>3. QED BY <3>1, <3>2
  <2>4. QED BY <2>3
<1> HIDE DEF S
<1>3. n \in S
  BY <1>1, <1>2, Induction
<1>4. PICK g : \A j \in 0 .. n : g[j] = Body(g, j)
  BY <1>3 DEF S
<1>5. [j \in 0 .. n |-> g[j]] = [j \in 0 .. n |-> Body([i \in 0 .. n |-> g[i]], j)]
  <2>1. \A j \in 0 .. n : j # 0 => j \div 2 \in 0 .. n
    OBVIOUS
  <2>2. QED BY <1>4, <2>1
<1>6. \E f : f = [j \in 0 .. n |-> Body(f, j)]
  BY <1>5, Zenon
<1> DEFINE w == CHOOSE f : f = [j \in 0 .. n |-> Body(f, j)]
<1>7. w = [j \in 0 .. n |-> Body(w, j)]
  BY <1>6, Zenon
<1>8. ModExp[<<a, n>>] = w[n]
  BY DEF ModExp
<1> HIDE DEF w
<1>9. \A j \in 0 .. n : w[j] = Body(w, j)
  BY <1>7, Zenon
<1>10. w[0] = 1 /\ \A m \in 1 .. n : w[m] = mulmod(Squared[w[m \div 2]], IF m % 2 = 1 THEN a ELSE 1)
  <2>1. 0 \in 0 .. n /\ \A m \in 1 .. n : m \in 0 .. n /\ m # 0
    OBVIOUS
  <2>2. QED BY <1>9, <2>1, Zenon
<1>11. QED BY <1>8, <1>10, Zenon

\* A power is reduced, if only something is multiplied.
LEMMA PowerIs ==
    ASSUME NEW a \in Nat, NEW n \in Nat \ {0}
    PROVE  ModExp[<<a, n>>] \in Residue
<1>1. PICK f : /\ ModExp[<<a, n>>] = f[n]
               /\ f[0] = 1
               /\ \A m \in 1 .. n : f[m] = mulmod(Squared[f[m \div 2]], IF m % 2 = 1 THEN a ELSE 1)
  BY PowerUnfolds
<1>2. \A k \in Nat : Squared[k] \in Nat
  BY ProductIs, ResiduesAre DEF Squared
<1> DEFINE S == {m \in Nat : \A k \in 0 .. m : k <= n => f[k] \in Nat}
<1>3. ASSUME NEW m \in 1 .. n, f[m \div 2] \in Nat
      PROVE  f[m] \in Residue
  <2> DEFINE factor == IF m % 2 = 1 THEN a ELSE 1
  <2>1. factor \in Nat /\ Squared[f[m \div 2]] \in Nat
    BY <1>2, <1>3
  <2>2. f[m] = mulmod(Squared[f[m \div 2]], factor)
    BY <1>1
  <2> HIDE DEF factor
  <2>3. QED BY <2>1, <2>2, ProductIs
<1>4. 0 \in S
  BY <1>1
<1>5. ASSUME NEW m \in Nat, m \in S PROVE m + 1 \in S
  <2>1. (m + 1) \div 2 \in 0 .. m
    OBVIOUS
  <2>2. ASSUME m + 1 <= n PROVE f[m + 1] \in Nat
    <3>1. m + 1 \in 1 .. n /\ f[(m + 1) \div 2] \in Nat
      BY <1>5, <2>1, <2>2
    <3>2. f[m + 1] \in Residue
      BY ONLY <1>3, <3>1, Zenon
    <3>3. QED BY <3>2, ResiduesAre
  <2>3. QED BY <1>5, <2>2
<1> HIDE DEF S
<1>6. n \in S
  BY <1>4, <1>5, Induction
<1>7. n \in 1 .. n /\ n \div 2 \in 0 .. n /\ n \div 2 <= n
  OBVIOUS
<1>8. f[n \div 2] \in Nat
  BY <1>6, <1>7 DEF S
<1>9. QED BY <1>1, <1>3, <1>7, <1>8, Zenon

\* An inverse is reduced.
LEMMA InvIs == \A a \in Nat : modInv(a) \in Residue
<1>1. FIELD_MODULUS - 2 \in Nat \ {0}
  BY ModulusIs
<1>2. QED BY <1>1, PowerIs DEF modInv

\* The conjugate is within the bounds.
LEMMA FrobeniusIs == \A x \in Bounded : FQ2Frobenius[x] \in Bounded
<1> SUFFICES ASSUME NEW x \in Bounded PROVE FQ2Frobenius[x] \in Bounded
  OBVIOUS
<1>1. x \in Element /\ x[1] \in Nat /\ x[2] \in Bound
  BY ElementsAre
<1>2. FQ2Frobenius[x] = <<x[1], FIELD_MODULUS - x[2]>>
  BY <1>1 DEF FQ2Frobenius
<1>3. QED BY <1>1, <1>2, ResiduesAre, ElementsAre

\* The inverse of an element is within the bounds.
LEMMA InverseIs == \A x \in Element : FQ2Inv[x] \in Bounded
<1> SUFFICES ASSUME NEW x \in Element PROVE FQ2Inv[x] \in Bounded
  OBVIOUS
<1> DEFINE inv == modInv(addmod(mulmod(x[2], x[2]), mulmod(x[1], x[1])))
<1>1. x[1] \in Nat /\ x[2] \in Nat
  BY ElementsAre
<1>2. mulmod(x[2], x[2]) \in Nat /\ mulmod(x[1], x[1]) \in Nat
  BY <1>1, ProductIs, ResiduesAre
<1>3. addmod(mulmod(x[2], x[2]), mulmod(x[1], x[1])) \in Nat
  BY <1>2, SumIs, ResiduesAre
<1>4. inv \in Nat
  BY <1>3, InvIs, ResiduesAre
<1>5. FQ2Inv[x] = <<mulmod(x[1], inv), FIELD_MODULUS - mulmod(x[2], inv)>>
  BY DEF FQ2Inv
<1> HIDE DEF inv
<1>6. mulmod(x[1], inv) \in Nat /\ mulmod(x[2], inv) \in Bound
  BY <1>1, <1>4, ProductIs, ResiduesAre
<1>7. QED BY <1>5, <1>6, ResiduesAre, ElementsAre

-----------------------------------------------------------------------------
\* Points.

\* The coordinates of a point, and points made of reduced ones.
LEMMA PointsAre ==
    /\ BoundedPoint \subseteq Projective
    /\ \A pt \in BoundedPoint : \A i \in 1 .. 3 : pt[i] \in Bounded /\ pt[i] \in Element
    /\ \A x, y, z \in Bounded : <<x, y, z>> \in BoundedPoint
    /\ \A x, y, z \in Reduced : <<x, y, z>> \in BoundedPoint
BY ElementsAre DEF BoundedPoint, Projective

\* The operations that reduce, in one fact.
LEMMA OperationsReduce ==
    /\ \A x \in Reduced : x \in Element
    /\ \A x, y \in Element : FQ2Add(x, y) \in Reduced /\ FQ2Mul(x, y) \in Reduced
    /\ \A x \in Element : \A y \in Reduced : FQ2Sub(x, y) \in Reduced
    /\ \A x \in Element : FQ2Muc(x, 2) \in Reduced /\ FQ2Muc(x, 3) \in Reduced
                         /\ FQ2Muc(x, 4) \in Reduced /\ FQ2Muc(x, 8) \in Reduced
BY AddIs, MulIs, SubIs, MucIs, ElementsAre

\* A point doubled stays within the bounds.
LEMMA DoubleIs == \A pt \in BoundedPoint : ECTwistDoubleJacobian[pt] \in BoundedPoint
<1> SUFFICES ASSUME NEW pt \in BoundedPoint PROVE ECTwistDoubleJacobian[pt] \in BoundedPoint
  OBVIOUS
<1> DEFINE W == FQ2Mul(FQ2Muc(pt[1], 3), pt[1])
           S == FQ2Mul(pt[2], pt[3])
           B == FQ2Mul(FQ2Mul(pt[1], pt[2]), S)
           H == FQ2Sub(FQ2Mul(W, W), FQ2Muc(B, 8))
           SS == FQ2Mul(S, S)
           X == FQ2Mul(FQ2Muc(H, 2), S)
           Y == FQ2Sub(FQ2Mul(FQ2Sub(FQ2Muc(B, 4), H), W),
                       FQ2Mul(FQ2Mul(FQ2Muc(pt[2], 8), pt[2]), SS))
           Z == FQ2Muc(FQ2Mul(S, SS), 8)
<1>1. ECTwistDoubleJacobian[pt] = <<X, Y, Z>>
  BY PointsAre, Zenon DEF ECTwistDoubleJacobian
<1>2. pt[1] \in Element /\ pt[2] \in Element /\ pt[3] \in Element
  BY PointsAre
<1>3. W \in Reduced /\ S \in Reduced
  BY <1>2, OperationsReduce, Zenon
<1> HIDE DEF W, S
<1>4. B \in Reduced /\ SS \in Reduced
  BY <1>2, <1>3, OperationsReduce, Zenon
<1> HIDE DEF B, SS
<1>5. H \in Reduced
  BY <1>3, <1>4, OperationsReduce, Zenon
<1> HIDE DEF H
<1>6. X \in Reduced /\ Z \in Reduced
  BY <1>3, <1>4, <1>5, OperationsReduce, Zenon
<1>7. Y \in Reduced
  BY <1>2, <1>3, <1>4, <1>5, OperationsReduce, Zenon
<1> HIDE DEF X, Y, Z
<1>8. QED BY <1>1, <1>6, <1>7, PointsAre

\* So does the sum of two points with different x.
LEMMA DistinctIs == \A a, b \in BoundedPoint : AddDistinct(a, b) \in BoundedPoint
<1> SUFFICES ASSUME NEW q \in BoundedPoint, NEW r \in BoundedPoint
             PROVE  AddDistinct(q, r) \in BoundedPoint
  OBVIOUS
<1> DEFINE U2 == FQ2Mul(q[2], r[3])
           V2 == FQ2Mul(q[1], r[3])
           W == FQ2Mul(q[3], r[3])
           U == FQ2Sub(FQ2Mul(r[2], q[3]), U2)
           V == FQ2Sub(FQ2Mul(r[1], q[3]), V2)
           VVV2 == FQ2Mul(FQ2Mul(V, V), V2)
           VVV == FQ2Mul(FQ2Mul(V, V), V)
           A == FQ2Sub(FQ2Sub(FQ2Mul(FQ2Mul(U, U), W), VVV), FQ2Muc(VVV2, 2))
           X == FQ2Mul(V, A)
           Y == FQ2Sub(FQ2Mul(U, FQ2Sub(VVV2, A)), FQ2Mul(VVV, U2))
           Z == FQ2Mul(VVV, W)
<1>1. AddDistinct(q, r) = <<X, Y, Z>>
  BY Zenon DEF AddDistinct
<1>2. \A i \in 1 .. 3 : q[i] \in Element /\ r[i] \in Element
  BY PointsAre
<1>3. /\ q[1] \in Element /\ q[2] \in Element /\ q[3] \in Element
      /\ r[1] \in Element /\ r[2] \in Element /\ r[3] \in Element
  BY <1>2
<1>4. U2 \in Reduced /\ V2 \in Reduced /\ W \in Reduced
  BY <1>3, OperationsReduce, Zenon
<1> HIDE DEF U2, V2, W
<1>5. U \in Reduced /\ V \in Reduced
  BY <1>3, <1>4, OperationsReduce, Zenon
<1> HIDE DEF U, V
<1>6. VVV2 \in Reduced /\ VVV \in Reduced
  BY <1>4, <1>5, OperationsReduce, Zenon
<1> HIDE DEF VVV2, VVV
<1>7. A \in Reduced
  BY <1>4, <1>5, <1>6, OperationsReduce, Zenon
<1> HIDE DEF A
<1>8. X \in Reduced /\ Z \in Reduced
  BY <1>4, <1>5, <1>6, <1>7, OperationsReduce, Zenon
<1>9. Y \in Reduced
  BY <1>4, <1>5, <1>6, <1>7, OperationsReduce, Zenon
<1> HIDE DEF X, Y, Z
<1>10. QED BY <1>1, <1>8, <1>9, PointsAre

\* And the sum of any two, whichever of the cases applies.
LEMMA PointSumIs == \A a, b \in BoundedPoint : ECTwistAddJacobian(a, b) \in BoundedPoint
<1> SUFFICES ASSUME NEW a \in BoundedPoint, NEW b \in BoundedPoint
             PROVE  ECTwistAddJacobian(a, b) \in BoundedPoint
  OBVIOUS
<1>1. <<a, b>> \in Projectives /\ <<a, b>>[1] = a /\ <<a, b>>[2] = b
  BY PointsAre DEF Projectives
<1>2. ECTwistAddJacobian(a, b) \in
          {a, b, AddDistinct(a, b), ECTwistDoubleJacobian[a], <<One2, One2, Zero2>>}
  BY <1>1, Zenon DEF ECTwistAddJacobian, ECTwistSum
<1>3. <<One2, One2, Zero2>> \in BoundedPoint
  BY ElementsAre, PointsAre
<1>4. QED BY <1>2, <1>3, DoubleIs, DistinctIs

\* And its image under the Frobenius map.
LEMMA PointFrobeniusIs ==
    \A pt \in BoundedPoint : ECTwistFrobeniusJacobian[pt] \in BoundedPoint
<1> SUFFICES ASSUME NEW pt \in BoundedPoint PROVE ECTwistFrobeniusJacobian[pt] \in BoundedPoint
  OBVIOUS
<1>1. FROBENIUS_COEFF_X \in Reduced /\ FROBENIUS_COEFF_Y \in Reduced
  BY FieldAssumption DEF Reduced
<1>2. \A i \in 1 .. 3 : FQ2Frobenius[pt[i]] \in Bounded
  BY PointsAre, FrobeniusIs
<1>3. /\ FQ2Frobenius[pt[1]] \in Element /\ FQ2Frobenius[pt[2]] \in Element
      /\ FQ2Frobenius[pt[3]] \in Bounded
      /\ FROBENIUS_COEFF_X \in Element /\ FROBENIUS_COEFF_Y \in Element
  BY <1>1, <1>2, ElementsAre
<1>4. ECTwistFrobeniusJacobian[pt] = <<FQ2Mul(FQ2Frobenius[pt[1]], FROBENIUS_COEFF_X),
                                       FQ2Mul(FQ2Frobenius[pt[2]], FROBENIUS_COEFF_Y),
                                       FQ2Frobenius[pt[3]]>>
  BY PointsAre, Zenon DEF ECTwistFrobeniusJacobian
<1>5. /\ FQ2Mul(FQ2Frobenius[pt[1]], FROBENIUS_COEFF_X) \in Bounded
      /\ FQ2Mul(FQ2Frobenius[pt[2]], FROBENIUS_COEFF_Y) \in Bounded
  BY <1>3, OperationsReduce, ElementsAre
<1>6. QED BY <1>3, <1>4, <1>5, PointsAre, Zenon

\* What the library gives back is reduced.
LEMMA FromJacobianIs == \A pt \in BoundedPoint : fromJacobian(pt) \in ReducedPoint
<1> SUFFICES ASSUME NEW pt \in BoundedPoint PROVE fromJacobian(pt) \in ReducedPoint
  OBVIOUS
<1>1. pt[1] \in Element /\ pt[2] \in Element /\ FQ2Inv[pt[3]] \in Element
  BY PointsAre, InverseIs, ElementsAre
<1>2. FQ2Mul(pt[1], FQ2Inv[pt[3]]) \in Reduced /\ FQ2Mul(pt[2], FQ2Inv[pt[3]]) \in Reduced
  BY <1>1, OperationsReduce, Zenon
<1>3. QED BY <1>2 DEF fromJacobian, ReducedPoint

\* The sum of the cofactor's multiples is within the bounds.
LEMMA CofactorSumIs ==
    \A a, b, c \in BoundedPoint : CofactorSum(a, b, c) \in BoundedPoint
<1> SUFFICES ASSUME NEW a \in BoundedPoint, NEW b \in BoundedPoint, NEW c \in BoundedPoint
             PROVE  CofactorSum(a, b, c) \in BoundedPoint
  OBVIOUS
<1> DEFINE threefold == ECTwistFrobeniusJacobian[ECTwistAddJacobian(b, c)]
           squared == ECTwistFrobeniusJacobian[ECTwistFrobeniusJacobian[b]]
           cubed == ECTwistFrobeniusJacobian[ECTwistFrobeniusJacobian[ECTwistFrobeniusJacobian[a]]]
<1>1. threefold \in BoundedPoint /\ squared \in BoundedPoint /\ cubed \in BoundedPoint
  BY PointSumIs, PointFrobeniusIs, Zenon
<1>2. CofactorSum(a, b, c)
          = ECTwistAddJacobian(
                ECTwistAddJacobian(ECTwistAddJacobian(b, threefold), squared), cubed)
  BY Zenon DEF CofactorSum
<1> HIDE DEF threefold, squared, cubed
<1>3. ECTwistAddJacobian(ECTwistAddJacobian(b, threefold), squared) \in BoundedPoint
  <2>1. ECTwistAddJacobian(b, threefold) \in BoundedPoint
    BY <1>1, PointSumIs, Zenon
  <2>2. QED BY <1>1, <2>1, PointSumIs, Zenon
<1>4. QED BY <1>1, <1>2, <1>3, PointSumIs, Zenon

-----------------------------------------------------------------------------
\* Square roots.

\* The root of a number that has been tried is reduced.
LEMMA SqrtIs == \A a \in Nat : sqrt(a).root \in Residue
<1>1. (FIELD_MODULUS + 1) \div 4 \in Nat \ {0}
  BY ModulusIs
<1>2. \A a \in Nat : ModExp[<<a, (FIELD_MODULUS + 1) \div 4>>] \in Residue
  BY <1>1, PowerIs
<1>3. QED BY <1>2 DEF sqrt

\* Half of a reduced number, modulo the modulus.
LEMMA HalfIs == \A a \in Residue : divBy2(a) \in Nat
<1>1. \A a \in Nat : a \div 2 \in Nat
  OBVIOUS
<1>2. HALF_FIELD_MODULUS \in Nat
  BY ModulusIs DEF HALF_FIELD_MODULUS
<1>3. QED BY <1>1, <1>2, SumIs, ResiduesAre DEF divBy2

\* The root of an element is reduced.
LEMMA RootIs == \A x \in Reduced : FQ2Sqrt(x) \in Reduced
<1> SUFFICES ASSUME NEW x \in Reduced PROVE FQ2Sqrt(x) \in Reduced
  OBVIOUS
<1>1. x[1] \in Residue /\ x[2] \in Residue /\ x[1] \in Nat /\ x[2] \in Nat
  BY ElementsAre, ResiduesAre
<1>2. FQ2SqrtOfReal(x[1]) \in Reduced
  <2>1. FIELD_MODULUS - x[1] \in Nat
    BY <1>1, ResiduesAre
  <2>2. sqrt(x[1]).root \in Residue /\ sqrt(FIELD_MODULUS - x[1]).root \in Residue
    BY <1>1, <2>1, SqrtIs
  <2>3. QED BY <2>2, ResiduesAre, ElementsAre DEF FQ2SqrtOfReal
<1> DEFINE norm == sqrt(addmod(mulmod(x[1], x[1]), mulmod(x[2], x[2])))
           plus == sqrt(divBy2(addmod(x[1], norm.root)))
           minus == sqrt(divBy2(submod(x[1], norm.root)))
           half == IF plus.hasRoot THEN plus ELSE minus
           im == mulmod(x[2], modInv(addmod(half.root, half.root)))
<1>3. norm.root \in Residue
  <2>1. mulmod(x[1], x[1]) \in Nat /\ mulmod(x[2], x[2]) \in Nat
    BY <1>1, ProductIs, ResiduesAre
  <2>2. addmod(mulmod(x[1], x[1]), mulmod(x[2], x[2])) \in Nat
    BY <2>1, SumIs, ResiduesAre
  <2>3. QED BY <2>2, SqrtIs
<1> HIDE DEF norm
<1>4. plus.root \in Residue /\ minus.root \in Residue
  <2>1. addmod(x[1], norm.root) \in Residue /\ submod(x[1], norm.root) \in Residue
    BY <1>1, <1>3, SumIs, DifferenceIs, ResiduesAre
  <2>2. divBy2(addmod(x[1], norm.root)) \in Nat /\ divBy2(submod(x[1], norm.root)) \in Nat
    BY <2>1, HalfIs
  <2>3. QED BY <2>2, SqrtIs
<1> HIDE DEF plus, minus
<1>5. half.root \in Residue
  BY <1>4
<1> HIDE DEF half
<1>6. im \in Residue
  <2>1. addmod(half.root, half.root) \in Nat
    BY <1>5, SumIs, ResiduesAre
  <2>2. modInv(addmod(half.root, half.root)) \in Nat
    BY <2>1, InvIs, ResiduesAre
  <2>3. QED BY <1>1, <2>2, ProductIs
<1>7. FQ2Sqrt(x) \in {FQ2SqrtOfReal(x[1]), <<half.root, im>>, Zero2}
  BY Zenon DEF FQ2Sqrt, norm, plus, minus, half
<1>8. QED BY <1>2, <1>5, <1>6, <1>7, ElementsAre

\* y^2 is reduced.
LEMMA SquareOfYIs == \A x \in Element : Get_yy_coordinate(x) \in Reduced
<1>1. TWISTB \in Element
  BY FieldAssumption, ElementsAre DEF Reduced
<1>2. QED BY <1>1, OperationsReduce, Zenon DEF Get_yy_coordinate

-----------------------------------------------------------------------------
\* Bytes and words.

Bytes == [1 .. WordBytes -> Byte]

\* Quotient and remainder, from what makes them unique.
LEMMA DivisionIs ==
    ASSUME NEW a \in Nat, NEW q \in Nat, NEW p \in Nat \ {0}, NEW r \in Nat,
           r < p, a = q * p + r
    PROVE  a \div p = q /\ a % p = r
<1> DEFINE s == a \div p
           t == a % p
<1>1. s \in Int /\ t \in Nat /\ t < p /\ a = s * p + t
  OBVIOUS
<1> HIDE DEF s, t
<1>2. s * p - q * p = r - t
  BY <1>1
<1>3. (s - q) * p = s * p - q * p
  BY <1>1
<1>4. (s - q) * p = r - t
  BY <1>1, <1>2, <1>3
<1>5. \A k \in Int : k >= 1 => k * p >= p
  OBVIOUS
<1>6. \A k \in Int : k <= -1 => k * p <= -p
  OBVIOUS
<1>7. s - q \in Int /\ r - t < p /\ r - t > -p
  BY <1>1
<1>8. ~(s - q >= 1) /\ ~(s - q <= -1)
  BY <1>4, <1>5, <1>6, <1>7
<1>9. s = q
  BY <1>1, <1>8
<1>10. r = t
  BY <1>1, <1>4, <1>9
<1>11. QED BY <1>9, <1>10 DEF s, t

\* The prefixes of a word, unfolded.
LEMMA PrefixesUnfold ==
    ASSUME NEW b
    PROVE  /\ Prefixes(b)[0] = 0
           /\ \A i \in 1 .. WordBytes : Prefixes(b)[i] = Prefixes(b)[i - 1] * 256 + b[i]
<1> DEFINE Body(g, m) == IF m = 0 THEN 0 ELSE g[m - 1] * 256 + b[m]
           S == {k \in Nat : \E g : \A j \in 0 .. k : g[j] = Body(g, j)}
           n == WordBytes
<1>0. n \in Nat
  BY WordAssumption
<1>1. 0 \in S
  <2>1. \A j \in 0 .. 0 : [i \in 0 .. 0 |-> 0][j] = Body([i \in 0 .. 0 |-> 0], j)
    OBVIOUS
  <2>2. QED BY <2>1
<1>2. ASSUME NEW k \in Nat, k \in S
      PROVE  k + 1 \in S
  <2>1. PICK g : \A j \in 0 .. k : g[j] = Body(g, j)
    BY <1>2
  <2> DEFINE e == [j \in 0 .. k + 1 |-> IF j <= k THEN g[j] ELSE g[k] * 256 + b[k + 1]]
  <2>2. (\A j \in 0 .. k : e[j] = g[j]) /\ e[k + 1] = g[k] * 256 + b[k + 1]
    OBVIOUS
  <2> HIDE DEF e
  <2>3. \A j \in 0 .. k + 1 : e[j] = Body(e, j)
    BY <2>1, <2>2
  <2>4. QED BY <2>3
<1> HIDE DEF S
<1>3. n \in S
  BY <1>0, <1>1, <1>2, Induction
<1>4. PICK g : \A j \in 0 .. n : g[j] = Body(g, j)
  BY <1>3 DEF S
<1> HIDE DEF n
<1>5. [j \in 0 .. n |-> g[j]] = [j \in 0 .. n |-> Body([i \in 0 .. n |-> g[i]], j)]
  <2>1. \A j \in 0 .. n : j # 0 => j - 1 \in 0 .. n
    BY <1>0
  <2>2. QED BY <1>4, <2>1
<1>6. \E f : f = [j \in 0 .. n |-> Body(f, j)]
  BY <1>5, Zenon
<1> DEFINE w == CHOOSE f : f = [j \in 0 .. n |-> Body(f, j)]
<1>7. w = [j \in 0 .. n |-> Body(w, j)]
  BY <1>6, Zenon
<1>8. Prefixes(b) = w
  BY DEF Prefixes, n
<1> HIDE DEF w
<1>9. \A j \in 0 .. n : w[j] = Body(w, j)
  BY <1>7, Zenon
<1>10. 0 \in 0 .. n /\ \A m \in 1 .. n : m \in 0 .. n /\ m # 0
  BY <1>0
<1>11. w[0] = 0 /\ \A m \in 1 .. n : w[m] = w[m - 1] * 256 + b[m]
  BY <1>9, <1>10
<1>12. QED BY <1>8, <1>11 DEF n

\* Every byte is worth 256 times the one below it.
LEMMA BytePowers ==
    /\ \A e \in Nat : PowerOfTwo[e + 8] = 256 * PowerOfTwo[e]
    /\ \A e \in Nat : PowerOfTwo[e] \in Nat \ {0}
    /\ \A e \in 0 .. 8 : e # 8 => PowerOfTwo[e] <= 128
    /\ PowerOfTwo[0] = 1 /\ PowerOfTwo[8] = 256
<1>1. ASSUME NEW e \in Nat
      PROVE  PowerOfTwo[e + 8] = 256 * PowerOfTwo[e]
  <2>1. /\ PowerOfTwo[e + 1] = 2 * PowerOfTwo[e]
        /\ PowerOfTwo[(e + 1) + 1] = 2 * PowerOfTwo[e + 1]
        /\ PowerOfTwo[(e + 2) + 1] = 2 * PowerOfTwo[e + 2]
        /\ PowerOfTwo[(e + 3) + 1] = 2 * PowerOfTwo[e + 3]
        /\ PowerOfTwo[(e + 4) + 1] = 2 * PowerOfTwo[e + 4]
        /\ PowerOfTwo[(e + 5) + 1] = 2 * PowerOfTwo[e + 5]
        /\ PowerOfTwo[(e + 6) + 1] = 2 * PowerOfTwo[e + 6]
        /\ PowerOfTwo[(e + 7) + 1] = 2 * PowerOfTwo[e + 7]
    BY Powers
  <2>2. PowerOfTwo[e] \in Nat
    BY PowerFacts
  <2>3. QED BY <2>1, <2>2
<1>2. PowerOfTwo[0] = 1 /\ PowerOfTwo[8] = 256
  <2>1. PowerOfTwo[0] = 1 /\ PowerOfTwo[0 + 8] = 256 * PowerOfTwo[0]
    BY <1>1, Powers
  <2>2. QED BY <2>1
<1>3. ASSUME NEW e \in 0 .. 8, e # 8
      PROVE  PowerOfTwo[e] <= 128
  <2>1. PowerOfTwo[7 + 1] = 2 * PowerOfTwo[7] /\ PowerOfTwo[7] \in Nat
    BY Powers, PowerFacts
  <2>2. PowerOfTwo[e] <= PowerOfTwo[7]
    BY <1>3, PowerFacts
  <2>3. PowerOfTwo[7] = 128
    BY <1>2, <2>1
  <2>4. QED BY <2>2, <2>3
<1>4. QED BY <1>1, <1>2, <1>3, PowerFacts

\* A prefix is a natural number.
LEMMA PrefixIs ==
    ASSUME NEW b \in Bytes, NEW i \in 0 .. WordBytes
    PROVE  Prefixes(b)[i] \in Nat
<1> DEFINE S == {k \in Nat : k <= WordBytes => Prefixes(b)[k] \in Nat}
<1>1. 0 \in S
  BY PrefixesUnfold
<1>2. ASSUME NEW k \in Nat, k \in S
      PROVE  k + 1 \in S
  <2>1. SUFFICES ASSUME k + 1 <= WordBytes PROVE Prefixes(b)[k + 1] \in Nat
    OBVIOUS
  <2>2. WordBytes \in Nat /\ k + 1 \in 1 .. WordBytes /\ (k + 1) - 1 = k
    BY <2>1, WordAssumption
  <2>3. b[k + 1] \in 0 .. 255
    BY <2>2 DEF Bytes, Byte
  <2>4. Prefixes(b)[k + 1] = Prefixes(b)[k] * 256 + b[k + 1]
    BY <2>2, PrefixesUnfold
  <2>5. Prefixes(b)[k] \in Nat
    BY <1>2, <2>2
  <2>6. QED BY <2>3, <2>4, <2>5
<1> HIDE DEF S
<1>3. i \in S
  BY <1>1, <1>2, Induction, WordAssumption
<1>4. QED BY <1>3, WordAssumption DEF S

\* What is below a prefix has the bits of the bytes that follow it.
LEMMA PrefixSplits ==
    ASSUME NEW b \in Bytes, NEW j \in 0 .. WordBytes, NEW i \in j .. WordBytes
    PROVE  \E r \in Nat : /\ r < PowerOfTwo[8 * (i - j)]
                          /\ Prefixes(b)[i] = Prefixes(b)[j] * PowerOfTwo[8 * (i - j)] + r
<1> DEFINE Split(k) == \E r \in Nat : /\ r < PowerOfTwo[8 * k]
                          /\ Prefixes(b)[j + k] = Prefixes(b)[j] * PowerOfTwo[8 * k] + r
           S == {k \in Nat : j + k <= WordBytes => Split(k)}
<1>0. WordBytes \in Nat /\ j \in Nat /\ Prefixes(b)[j] \in Nat
  BY WordAssumption, PrefixIs
<1>1. 0 \in S
  <2>1. PowerOfTwo[8 * 0] = 1 /\ j + 0 = j
    BY <1>0, BytePowers
  <2>2. 0 < PowerOfTwo[8 * 0] /\ Prefixes(b)[j + 0] = Prefixes(b)[j] * PowerOfTwo[8 * 0] + 0
    BY <1>0, <2>1
  <2>3. QED BY <2>2
<1>2. ASSUME NEW k \in Nat, k \in S
      PROVE  k + 1 \in S
  <2>1. SUFFICES ASSUME j + (k + 1) <= WordBytes PROVE Split(k + 1)
    OBVIOUS
  <2>2. j + k <= WordBytes /\ j + (k + 1) \in 1 .. WordBytes /\ (j + (k + 1)) - 1 = j + k
    BY <1>0, <2>1
  <2>3. PICK r \in Nat : /\ r < PowerOfTwo[8 * k]
                         /\ Prefixes(b)[j + k] = Prefixes(b)[j] * PowerOfTwo[8 * k] + r
    BY <1>2, <2>2
  <2>4. b[j + (k + 1)] \in 0 .. 255
    BY <2>2 DEF Bytes, Byte
  <2>5. Prefixes(b)[j + (k + 1)] = Prefixes(b)[j + k] * 256 + b[j + (k + 1)]
    BY <2>2, PrefixesUnfold
  <2>6. PowerOfTwo[8 * (k + 1)] = 256 * PowerOfTwo[8 * k] /\ PowerOfTwo[8 * k] \in Nat
    <3>1. 8 * k \in Nat /\ 8 * (k + 1) = 8 * k + 8
      OBVIOUS
    <3>2. QED BY <3>1, BytePowers
  <2> DEFINE q == Prefixes(b)[j]
             p == PowerOfTwo[8 * k]
             c == b[j + (k + 1)]
  <2>7. q \in Nat /\ p \in Nat /\ c \in 0 .. 255
    BY <1>0, <2>4, <2>6
  <2>8. Prefixes(b)[j + (k + 1)] = (q * p + r) * 256 + c
    BY <2>3, <2>5
  <2>9. PowerOfTwo[8 * (k + 1)] = 256 * p /\ r < p
    BY <2>3, <2>6
  <2> HIDE DEF q, p, c
  <2>10. q * p \in Nat /\ q * (256 * p) = 256 * (q * p)
    BY <2>7
  <2>11. (q * p + r) * 256 + c = q * (256 * p) + (256 * r + c)
    BY <2>7, <2>10
  <2>12. 256 * r + c \in Nat /\ 256 * r + c < 256 * p
    BY <2>7, <2>9
  <2>13. QED BY <2>8, <2>9, <2>11, <2>12 DEF q
<1> HIDE DEF S
<1>3. i - j \in Nat /\ j + (i - j) = i /\ i <= WordBytes
  BY <1>0
<1>4. i - j \in S
  BY <1>1, <1>2, <1>3, Induction
<1> USE DEF S
<1>5. Split(i - j)
  BY <1>3, <1>4
<1>6. QED BY <1>3, <1>5

\* The i-th byte from below, cut out of a word.
LEMMA ByteOfWord ==
    ASSUME NEW b \in Bytes, NEW i \in 1 .. WordBytes
    PROVE  (Word(b) \div PowerOfTwo[8 * (i - 1)]) % 256 = b[WordBytes + 1 - i]
<1> DEFINE j == WordBytes + 1 - i
           p == PowerOfTwo[8 * (i - 1)]
<1>1. /\ WordBytes \in Nat /\ WordBytes \in 0 .. WordBytes /\ j \in 1 .. WordBytes
      /\ j \in 0 .. WordBytes /\ j - 1 \in 0 .. WordBytes
      /\ WordBytes \in j .. WordBytes /\ WordBytes - j = i - 1 /\ 8 * (i - 1) \in Nat
  BY WordAssumption
<1>2. p \in Nat \ {0}
  BY <1>1, BytePowers
<1>3. PICK r \in Nat : /\ r < PowerOfTwo[8 * (WordBytes - j)]
                       /\ Prefixes(b)[WordBytes] = Prefixes(b)[j] * PowerOfTwo[8 * (WordBytes - j)] + r
  <2> HIDE DEF j
  <2>1. QED BY <1>1, PrefixSplits
<1>4. r < p /\ Word(b) = Prefixes(b)[j] * p + r
  BY <1>1, <1>3 DEF Word
<1>5. Prefixes(b)[j] \in Nat /\ Prefixes(b)[j - 1] \in Nat /\ Word(b) \in Nat
  BY <1>1, PrefixIs DEF Word
<1>6. Prefixes(b)[j] = Prefixes(b)[j - 1] * 256 + b[j]
  BY <1>1, PrefixesUnfold
<1>7. b[j] \in 0 .. 255
  BY <1>1 DEF Bytes, Byte
<1> HIDE DEF p
<1>8. Word(b) \div p = Prefixes(b)[j]
  BY <1>2, <1>4, <1>5, DivisionIs
<1>9. Prefixes(b)[j] % 256 = b[j]
  <2> DEFINE q == Prefixes(b)[j - 1]
             c == b[j]
             a == Prefixes(b)[j]
  <2>1. q \in Nat /\ c \in Nat /\ c < 256 /\ a \in Nat /\ a = q * 256 + c
    BY <1>5, <1>6, <1>7
  <2> HIDE DEF q, c, a
  <2>2. a % 256 = c
    BY <2>1, DivisionIs
  <2>3. QED BY <2>2 DEF a, c
<1>10. QED BY <1>8, <1>9 DEF p

\* byteSwap reads the bytes of a word from the other end.
Reversed(b) == [i \in 1 .. WordBytes |-> b[WordBytes + 1 - i]]

LEMMA SwapIs ==
    ASSUME NEW b \in Bytes
    PROVE  byteSwap(Word(b)) = Word(Reversed(b)) /\ Reversed(b) \in Bytes
<1>1. [i \in 1 .. WordBytes |-> (Word(b) \div PowerOfTwo[8 * (i - 1)]) % 256] = Reversed(b)
  BY ByteOfWord DEF Reversed
<1>2. \A i \in 1 .. WordBytes : WordBytes + 1 - i \in 1 .. WordBytes
  BY WordAssumption
<1>3. QED BY <1>1, <1>2 DEF byteSwap, Reversed, Bytes

\* A word depends on a byte through its prefixes: two byte arrays that agree up
\* to some byte have the same prefix there.
LEMMA PrefixesAgree ==
    ASSUME NEW a, NEW b, NEW n \in 0 .. WordBytes, \A i \in 1 .. n : a[i] = b[i]
    PROVE  Prefixes(a)[n] = Prefixes(b)[n]
<1> DEFINE S == {k \in Nat : k <= n => Prefixes(a)[k] = Prefixes(b)[k]}
<1>0. WordBytes \in Nat
  BY WordAssumption
<1>1. 0 \in S
  BY PrefixesUnfold
<1>2. ASSUME NEW k \in Nat, k \in S
      PROVE  k + 1 \in S
  <2>1. SUFFICES ASSUME k + 1 <= n PROVE Prefixes(a)[k + 1] = Prefixes(b)[k + 1]
    OBVIOUS
  <2>2. k + 1 \in 1 .. n /\ k + 1 \in 1 .. WordBytes /\ (k + 1) - 1 = k /\ k <= n
    BY <1>0, <2>1
  <2>3. Prefixes(a)[k] = Prefixes(b)[k] /\ a[k + 1] = b[k + 1]
    BY <1>2, <2>2
  <2>4. /\ Prefixes(a)[k + 1] = Prefixes(a)[k] * 256 + a[k + 1]
        /\ Prefixes(b)[k + 1] = Prefixes(b)[k] * 256 + b[k + 1]
    BY <2>2, PrefixesUnfold
  <2>5. QED BY <2>3, <2>4
<1> HIDE DEF S
<1>3. n \in S
  BY <1>0, <1>1, <1>2, Induction
<1>4. QED BY <1>0, <1>3 DEF S

\* The mask takes bits from the lowest byte of the word, which is the last of
\* the hash.
Masked(b, n) == [b EXCEPT ![WordBytes] = b[WordBytes] % PowerOfTwo[8 - n]]

LEMMA MaskIs ==
    ASSUME NEW b \in Bytes, NEW n \in 1 .. 7
    PROVE  WithoutTop(Word(b), n) = Word(Masked(b, n)) /\ Masked(b, n) \in Bytes
<1> DEFINE w == WordBytes
           p == PowerOfTwo[8 - n]
           q == Prefixes(b)[w - 1]
           c == b[w]
           m == c % p
<1>1. w \in Nat /\ w \in 1 .. w /\ w - 1 \in 0 .. w /\ 8 - n \in Nat
  BY WordAssumption
<1>2. q \in Nat /\ c \in 0 .. 255 /\ p \in Nat \ {0}
  <2>1. q \in Nat
    BY <1>1, PrefixIs
  <2>2. c \in 0 .. 255
    BY <1>1 DEF Bytes, Byte
  <2>3. p \in Nat \ {0}
    BY <1>1, PowerFacts
  <2>4. QED BY <2>1, <2>2, <2>3
<1>3. Word(b) = q * 256 + c
  BY <1>1, PrefixesUnfold DEF Word
<1>4. Masked(b, n)[w] = m /\ \A i \in 1 .. w - 1 : Masked(b, n)[i] = b[i]
  BY <1>1 DEF Masked, Bytes
<1>5. Word(Masked(b, n)) = q * 256 + m
  <2>1. Prefixes(Masked(b, n))[w - 1] = q
    BY <1>1, <1>4, PrefixesAgree
  <2>2. Word(Masked(b, n)) = Prefixes(Masked(b, n))[w - 1] * 256 + Masked(b, n)[w]
    BY <1>1, PrefixesUnfold DEF Word
  <2>3. QED BY <1>4, <2>1, <2>2
<1>6. m \in 0 .. 255
  <2> HIDE DEF p, c
  <2>1. m \in Nat /\ m < p
    BY <1>2
  <2>2. m <= c
    <3>1. CASE c < p
      <4>1. c = 0 * p + c
        BY <1>2
      <4>2. m = c
        BY <1>2, <3>1, <4>1, DivisionIs
      <4>3. QED BY <1>2, <4>2
    <3>2. CASE ~(c < p)
      BY <1>2, <2>1, <3>2
    <3>3. QED BY <3>1, <3>2
  <2>3. QED BY <1>2, <2>1, <2>2
<1>7. Masked(b, n) \in Bytes
  BY <1>6 DEF Masked, Bytes, Byte
<1> HIDE DEF m, q, c, p
<1>8. Word(b) % 256 = c
  <2>1. Word(b) \in Nat /\ c \in Nat /\ c < 256
    BY <1>2, <1>3
  <2>2. QED BY <1>2, <1>3, <2>1, DivisionIs
<1>9. WithoutTop(Word(b), n) = (Word(b) - c) + m
  BY <1>8 DEF WithoutTop, m, p
<1>10. QED BY <1>2, <1>3, <1>5, <1>6, <1>7, <1>9

\* Bits cut from the first byte are cut from the top of the word.
LEMMA TopByteIs ==
    ASSUME NEW b \in Bytes, NEW n \in 1 .. 7,
           NEW c \in Bytes, c = [b EXCEPT ![1] = b[1] % PowerOfTwo[8 - n]]
    PROVE  Word(c) = Word(b) % PowerOfTwo[8 * WordBytes - n]
<1> DEFINE t == PowerOfTwo[8 - n]
           q == b[1] \div t
           Cut(k) == /\ Prefixes(c)[k] < PowerOfTwo[8 * k - n]
                     /\ Prefixes(b)[k] = q * PowerOfTwo[8 * k - n] + Prefixes(c)[k]
           S == {k \in Nat : k + 1 <= WordBytes => Cut(k + 1)}
<1>0. WordBytes \in Nat \ {0} /\ 1 \in 1 .. WordBytes /\ 8 - n \in Nat
  BY WordAssumption
<1> DEFINE Steps(a) == \A i \in 1 .. WordBytes : Prefixes(a)[i] = Prefixes(a)[i - 1] * 256 + a[i]
<1>1. Prefixes(b)[0] = 0 /\ Prefixes(c)[0] = 0 /\ Steps(b) /\ Steps(c)
  <2>1. Prefixes(b)[0] = 0 /\ Steps(b)
    BY PrefixesUnfold
  <2>2. Prefixes(c)[0] = 0 /\ Steps(c)
    BY PrefixesUnfold
  <2>3. QED BY <2>1, <2>2
<1>2. t \in Nat \ {0} /\ b[1] \in 0 .. 255 /\ c[1] = b[1] % t
  BY <1>0, BytePowers DEF Bytes, Byte
<1>3. q \in Nat /\ b[1] = q * t + c[1] /\ c[1] \in Nat /\ c[1] < t
  <2> DEFINE x == b[1]
  <2>1. x \in Nat /\ t \in Nat \ {0} /\ q = x \div t /\ c[1] = x % t
    BY <1>2
  <2> HIDE DEF x, t, q
  <2>2. q \in Nat /\ x = q * t + c[1] /\ c[1] \in Nat /\ c[1] < t
    BY <2>1
  <2>3. QED BY <2>2 DEF x
<1> HIDE DEF t, q
<1>4. 0 \in S
  <2>1. 1 - 1 = 0 /\ 8 * 1 - n = 8 - n /\ 0 + 1 = 1
    OBVIOUS
  <2>2. Prefixes(b)[1] = b[1] /\ Prefixes(c)[1] = c[1]
    <3>1. /\ Prefixes(b)[1] = Prefixes(b)[1 - 1] * 256 + b[1] /\ Prefixes(b)[0] = 0
          /\ Prefixes(c)[1] = Prefixes(c)[1 - 1] * 256 + c[1] /\ Prefixes(c)[0] = 0
      BY <1>0, <1>1
    <3>2. b[1] \in Nat /\ c[1] \in Nat
      BY <1>2, <1>3
    <3>3. QED BY <2>1, <3>1, <3>2
  <2>3. Cut(1)
    BY <1>3, <2>1, <2>2 DEF t
  <2>4. QED BY <2>1, <2>3
<1>5. ASSUME NEW k \in Nat, k \in S
      PROVE  k + 1 \in S
  <2> DEFINE i == k + 1
  <2>1. SUFFICES ASSUME i + 1 <= WordBytes PROVE Cut(i + 1)
    OBVIOUS
  <2>2. i + 1 \in 1 .. WordBytes /\ i \in 0 .. WordBytes /\ (i + 1) - 1 = i /\ i + 1 # 1
    BY <1>0, <2>1
  <2>3. Cut(i)
    BY <1>5, <2>2
  <2>4. Prefixes(b)[i] \in Nat /\ Prefixes(c)[i] \in Nat
    BY <2>2, PrefixIs
  <2>5. c[i + 1] = b[i + 1] /\ b[i + 1] \in 0 .. 255
    BY <2>2 DEF Bytes, Byte
  <2>6. /\ Prefixes(b)[i + 1] = Prefixes(b)[i] * 256 + b[i + 1]
        /\ Prefixes(c)[i + 1] = Prefixes(c)[i] * 256 + c[i + 1]
    <3>1. i + 1 \in 1 .. WordBytes /\ (i + 1) - 1 = i
      BY <2>2
    <3> HIDE DEF i
    <3>2. /\ Prefixes(b)[i + 1] = Prefixes(b)[(i + 1) - 1] * 256 + b[i + 1]
          /\ Prefixes(c)[i + 1] = Prefixes(c)[(i + 1) - 1] * 256 + c[i + 1]
      BY <1>1, <3>1
    <3>3. QED BY <3>1, <3>2
  <2>7. PowerOfTwo[8 * (i + 1) - n] = 256 * PowerOfTwo[8 * i - n] /\ PowerOfTwo[8 * i - n] \in Nat
    <3>1. 8 * i - n \in Nat /\ 8 * (i + 1) - n = (8 * i - n) + 8
      OBVIOUS
    <3>2. QED BY <3>1, BytePowers
  <2> DEFINE p == PowerOfTwo[8 * i - n]
             x == b[i + 1]
             r == Prefixes(c)[i]
  <2>8. p \in Nat /\ x \in 0 .. 255 /\ r \in Nat /\ r < p
    BY <2>3, <2>4, <2>5, <2>7
  <2>9. Prefixes(b)[i + 1] = (q * p + r) * 256 + x /\ Prefixes(c)[i + 1] = r * 256 + x
    BY <2>3, <2>5, <2>6
  <2>10. PowerOfTwo[8 * (i + 1) - n] = 256 * p
    BY <2>7
  <2> HIDE DEF p, x, r, i
  <2>11. q * p \in Nat /\ q * (256 * p) = 256 * (q * p)
    BY <1>3, <2>8
  <2>12. (q * p + r) * 256 + x = q * (256 * p) + (r * 256 + x) /\ r * 256 + x < 256 * p
    BY <2>8, <2>11
  <2>13. QED BY <2>9, <2>10, <2>12
<1> HIDE DEF S
<1>6. WordBytes - 1 \in Nat /\ (WordBytes - 1) + 1 = WordBytes
  BY <1>0
<1>7. WordBytes - 1 \in S
  BY <1>4, <1>5, <1>6, Induction
<1>8. Cut(WordBytes)
  BY <1>6, <1>7 DEF S
<1>9. 8 * WordBytes - n \in Nat
  BY <1>0
<1> DEFINE p == PowerOfTwo[8 * WordBytes - n]
<1>10. p \in Nat \ {0} /\ Word(b) \in Nat /\ Word(c) \in Nat /\ Word(c) < p /\ Word(b) = q * p + Word(c)
  <2>1. WordBytes \in 0 .. WordBytes
    BY <1>0
  <2>2. QED BY <1>8, <1>9, <2>1, BytePowers, PrefixIs DEF Word
<1> HIDE DEF p
<1>11. Word(b) % p = Word(c)
  <2> DEFINE x == Word(b)
             y == Word(c)
  <2>1. q \in Nat /\ p \in Nat \ {0} /\ x \in Nat /\ y \in Nat /\ y < p /\ x = q * p + y
    BY <1>3, <1>10
  <2> HIDE DEF x, y
  <2>2. x % p = y
    BY <2>1, DivisionIs
  <2>3. QED BY <2>2 DEF x, y
<1>12. QED BY <1>11 DEF p

\* What is cut from a word twice is what is cut from it the second time.
LEMMA CutTwice ==
    ASSUME NEW a \in Nat, NEW e \in Nat
    PROVE  (a % PowerOfTwo[e + 1]) % PowerOfTwo[e] = a % PowerOfTwo[e]
<1> DEFINE p == PowerOfTwo[e]
           s == a \div (2 * p)
           n == a % (2 * p)
           t == n \div p
           r == n % p
<1>1. p \in Nat \ {0} /\ PowerOfTwo[e + 1] = 2 * p
  BY Powers, PowerFacts
<1> HIDE DEF p
<1>2. 2 * p \in Nat \ {0}
  BY <1>1
<1>3. s \in Nat /\ n \in Nat /\ a = s * (2 * p) + n
  <2> DEFINE m == 2 * p
  <2>1. m \in Nat \ {0} /\ s = a \div m /\ n = a % m
    BY <1>2
  <2> HIDE DEF m, s, n
  <2>2. s \in Nat /\ n \in Nat /\ a = s * m + n
    BY <2>1
  <2>3. QED BY <2>2 DEF m
<1> HIDE DEF s, n
<1>4. t \in Nat /\ r \in Nat /\ r < p /\ n = t * p + r
  BY <1>1, <1>3
<1> HIDE DEF t, r
<1>5. s * p \in Nat /\ s * (2 * p) = 2 * (s * p)
  BY <1>1, <1>3
<1>6. (2 * s + t) * p = 2 * (s * p) + t * p
  BY <1>1, <1>3, <1>4
<1>7. 2 * s + t \in Nat /\ a = (2 * s + t) * p + r
  <2> DEFINE u == s * p
             v == t * p
  <2>1. t * p \in Nat
    BY <1>1, <1>4
  <2>2. u \in Nat /\ v \in Nat
    BY <1>5, <2>1
  <2>3. a = 2 * u + (v + r) /\ (2 * s + t) * p = 2 * u + v
    BY <1>3, <1>4, <1>5, <1>6
  <2> HIDE DEF u, v
  <2>4. 2 * u + (v + r) = (2 * u + v) + r /\ 2 * s + t \in Nat
    BY <1>3, <1>4, <2>2
  <2>5. QED BY <2>3, <2>4
<1>8. a % p = r
  BY <1>1, <1>4, <1>7, DivisionIs
<1>9. QED BY <1>1, <1>8 DEF p, n, r

\* A word masked and swapped is the word of the hash read from the other end
\* and cut to the bits that are left.
LEMMA MaskedAndSwapped ==
    ASSUME NEW b \in Bytes, NEW n \in 1 .. 7
    PROVE  byteSwap(WithoutTop(convertArrayAsLE(b), n))
               = LowestFirst(b) % PowerOfTwo[8 * WordBytes - n]
<1> DEFINE m == Masked(b, n)
<1>1. WithoutTop(convertArrayAsLE(b), n) = Word(m) /\ m \in Bytes
  BY MaskIs DEF convertArrayAsLE
<1>2. byteSwap(Word(m)) = Word(Reversed(m)) /\ Reversed(m) \in Bytes
  <2> HIDE DEF m
  <2>1. QED BY <1>1, SwapIs
<1>3. Reversed(b) \in Bytes /\ LowestFirst(b) = Word(Reversed(b))
  BY SwapIs DEF LowestFirst, Reversed
<1>4. Reversed(m) = [Reversed(b) EXCEPT ![1] = Reversed(b)[1] % PowerOfTwo[8 - n]]
  <2>1. /\ WordBytes \in Nat \ {0} /\ 1 \in 1 .. WordBytes /\ WordBytes + 1 - 1 = WordBytes
        /\ \A i \in 1 .. WordBytes :
              /\ WordBytes + 1 - i \in 1 .. WordBytes
              /\ (WordBytes + 1 - i = WordBytes) <=> (i = 1)
    BY WordAssumption
  <2> DEFINE q == b[WordBytes] % PowerOfTwo[8 - n]
  <2>2. m = [b EXCEPT ![WordBytes] = q]
    BY DEF Masked
  <2> HIDE DEF q
  <2>3. \A i \in 1 .. WordBytes : m[i] = IF i = WordBytes THEN q ELSE b[i]
    BY <2>2 DEF Bytes
  <2> HIDE DEF m
  <2>4. Reversed(b)[1] = b[WordBytes]
    BY <2>1 DEF Reversed
  <2>5. \A i \in 1 .. WordBytes : Reversed(m)[i] = IF i = 1 THEN q ELSE Reversed(b)[i]
    BY <2>1, <2>3 DEF Reversed
  <2>6. Reversed(m) = [i \in 1 .. WordBytes |-> IF i = 1 THEN q ELSE Reversed(b)[i]]
    BY <2>5 DEF Reversed
  <2>7. [Reversed(b) EXCEPT ![1] = q] = [i \in 1 .. WordBytes |-> IF i = 1 THEN q ELSE Reversed(b)[i]]
    BY DEF Reversed
  <2>8. QED BY <2>4, <2>6, <2>7 DEF q
<1> HIDE DEF m
<1>5. Word(Reversed(m)) = Word(Reversed(b)) % PowerOfTwo[8 * WordBytes - n]
  BY <1>2, <1>3, <1>4, TopByteIs
<1>6. QED BY <1>1, <1>2, <1>3, <1>5

\* The contract's hashToField and the HashModulus of the client's library make
\* the same field element of every hash, although one masks the bytes in the
\* order they came in and swaps them, and the other reads them from the other
\* end (BLSValidators.sol:88: "This matches mcl maskN").
THEOREM SameFieldElement ==
    \A hash \in Bytes : /\ hashToField(hash) = setArrayMask(hash)
                        /\ hashToField(hash) \in 0 .. FIELD_MODULUS - 1
<1> SUFFICES ASSUME NEW hash \in Bytes
             PROVE  /\ hashToField(hash) = setArrayMask(hash)
                    /\ hashToField(hash) \in Residue
  BY DEF Residue
<1> DEFINE word == convertArrayAsLE(hash)
           bits == 8 * WordBytes - SpareBits
           low == LowestFirst(hash)
           n == low % PowerOfTwo[bits]
           m == low % PowerOfTwo[bits - 1]
<1>1. /\ SpareBits \in 1 .. 7 /\ SpareBits + 1 \in 1 .. 7
      /\ bits \in Nat /\ bits - 1 \in Nat /\ (bits - 1) + 1 = bits
      /\ 8 * WordBytes - (SpareBits + 1) = bits - 1
  BY WordAssumption
<1>2. byteSwap(WithoutTop(word, SpareBits)) = n
  BY <1>1, MaskedAndSwapped
<1>3. byteSwap(WithoutTop(word, SpareBits + 1)) = m
  <2>1. byteSwap(WithoutTop(word, SpareBits + 1)) = low % PowerOfTwo[8 * WordBytes - (SpareBits + 1)]
    BY <1>1, MaskedAndSwapped
  <2>2. QED BY <1>1, <2>1
<1>4. low \in Nat
  <2>1. Reversed(hash) \in Bytes /\ low = Word(Reversed(hash))
    BY SwapIs DEF LowestFirst, Reversed
  <2>2. WordBytes \in 0 .. WordBytes
    BY WordAssumption
  <2> HIDE DEF low
  <2>3. QED BY <2>1, <2>2, PrefixIs DEF Word
<1> HIDE DEF word, low
<1>5. n % PowerOfTwo[bits - 1] = m
  <2> HIDE DEF bits
  <2>1. \A e \in Nat : (low % PowerOfTwo[e + 1]) % PowerOfTwo[e] = low % PowerOfTwo[e]
    BY <1>4, CutTwice
  <2>2. QED BY <1>1, <2>1
<1>6. /\ n \in Nat /\ m \in Nat /\ m < FIELD_MODULUS
  <2> DEFINE P == PowerOfTwo[bits]
             Q == PowerOfTwo[bits - 1]
  <2>1. P \in Nat \ {0} /\ Q \in Nat \ {0}
    BY <1>1, PowerFacts
  <2>2. Q <= FIELD_MODULUS
    BY WordAssumption
  <2>3. n = low % P /\ m = low % Q
    OBVIOUS
  <2> HIDE DEF P, Q, n, m
  <2>4. n \in Nat /\ m \in Nat /\ m < Q
    BY <1>4, <2>1, <2>3
  <2>5. QED BY <2>1, <2>2, <2>4, ModulusIs
<1>7. hashToField(hash) = IF n >= FIELD_MODULUS THEN m ELSE n
  BY <1>2, <1>3 DEF hashToField, maskBits, word
<1>8. setArrayMask(hash) = IF n >= FIELD_MODULUS THEN n % PowerOfTwo[bits - 1] ELSE n
  BY DEF setArrayMask, low
<1> HIDE DEF n, m, bits
<1>9. QED BY <1>5, <1>6, <1>7, <1>8, ModulusIs DEF Residue

-----------------------------------------------------------------------------
\* The inductive invariant.

\* A call that has not begun is at its operation.
Starting ==
    pc \in {"hashToG2", "ECTwistMul", "ECTwistAdd", "rootFp2"} => pc = call.op

\* Every point on the way is within the bounds of the source's subtractions.
BoundsKept ==
    /\ call \in Calls
    /\ h \in Residue /\ x1 \in Nat /\ d \in Nat
    /\ pt1 \in BoundedPoint /\ pt2 \in BoundedPoint /\ T0 \in BoundedPoint
    /\ point \in Bounded \X Bounded
    /\ result \in ReducedPoint

IInv == Starting /\ BoundsKept /\ SearchInOrder

\* What is called with is what the callers pass.
LEMMA CalledWith ==
    ASSUME NEW c \in Calls
    PROVE  /\ c.op = "hashToG2" => c.hash \in Bytes
           /\ c.op = "ECTwistMul" => c.s \in Nat /\ c.pt \in ReducedPoint
           /\ c.op = "ECTwistAdd" => c.a \in ReducedPoint /\ c.b \in ReducedPoint
           /\ c.op = "rootFp2" => c.x \in Reduced
BY CallsAssumption DEF Bytes

\* The points a call is entered with.
LEMMA EntryPoints ==
    /\ NoPoint \in BoundedPoint
    /\ <<One2, One2, Zero2>> \in BoundedPoint
    /\ G!Neutral \in ReducedPoint /\ G!Neutral \in Bounded \X Bounded
    /\ \A pt \in ReducedPoint : <<pt[1], pt[2], One2>> \in BoundedPoint
    /\ \A pt \in Bounded \X Bounded : <<pt[1], pt[2], One2>> \in BoundedPoint
    /\ \A x \in Nat : /\ Root(x) \in Reduced
                      /\ <<<<x, 0>>, Root(x)>> \in Bounded \X Bounded
                      /\ <<<<x, 0>>, Root(x), One2>> \in BoundedPoint
<1>1. One2 \in Bounded /\ Zero2 \in Bounded /\ Zero2 \in Reduced
  BY ElementsAre
<1>2. /\ NoPoint \in BoundedPoint /\ <<One2, One2, Zero2>> \in BoundedPoint
      /\ G!Neutral \in ReducedPoint /\ G!Neutral \in Bounded \X Bounded
  <2>1. G!Neutral = <<Zero2, Zero2>>
    BY DEF G!Neutral, G!Zero, Zero2
  <2>2. QED BY <1>1, <2>1, PointsAre DEF NoPoint, ReducedPoint
<1>3. \A pt \in Bounded \X Bounded : <<pt[1], pt[2], One2>> \in BoundedPoint
  BY <1>1 DEF BoundedPoint
<1>4. \A pt \in ReducedPoint : pt \in Bounded \X Bounded
  BY ElementsAre DEF ReducedPoint
<1>5. ASSUME NEW x \in Nat
      PROVE  /\ Root(x) \in Reduced
             /\ <<<<x, 0>>, Root(x)>> \in Bounded \X Bounded
             /\ <<<<x, 0>>, Root(x), One2>> \in BoundedPoint
  <2>1. <<x, 0>> \in Bounded /\ <<x, 0>> \in Element
    BY ResiduesAre, ElementsAre
  <2>2. Root(x) \in Reduced /\ Root(x) \in Bounded
    BY <2>1, SquareOfYIs, RootIs, ElementsAre DEF Root
  <2>3. QED BY <1>1, <2>1, <2>2, PointsAre
<1>6. QED BY <1>2, <1>3, <1>4, <1>5

\* It holds when a call begins.
LEMMA InvariantStarts == Init => IInv
<1> SUFFICES ASSUME Init PROVE IInv
  OBVIOUS
<1>1. Starting /\ SearchInOrder
  BY DEF Init, Starting, SearchInOrder, Hashing
<1>2. BoundsKept
  BY EntryPoints, ResiduesAre DEF Init, BoundsKept
<1>3. QED BY <1>1, <1>2 DEF IInv

\* A loop is entered within the bounds.
LEMMA EnteredWithin ==
    ASSUME NEW name, NEW scalar \in Nat, NEW base \in BoundedPoint,
           EnterLoop(name, scalar, base)
    PROVE  /\ pc' = "loop" /\ d' \in Nat
           /\ pt1' \in BoundedPoint /\ pt2' \in BoundedPoint
BY EntryPoints DEF EnterLoop

\* Every step leaves the call as it is, and none goes back to its beginning.
LEMMA CallStays == [Next]_vars => /\ call' = call
                                  /\ pc' \in {pc, "mapToG2", "loop", "done", "reverted"}
<1> SUFFICES ASSUME [Next]_vars
             PROVE  call' = call /\ pc' \in {pc, "mapToG2", "loop", "done", "reverted"}
  OBVIOUS
<1>1. CASE HashToField \/ TryNext \/ Mapped \/ T0Multiplied \/ T1Multiplied
  BY <1>1 DEF HashToField, TryNext, Mapped, T0Multiplied, T1Multiplied, EnterLoop, Return
<1>2. CASE LoopTurn \/ ECTwistMul \/ Multiplied \/ ECTwistAdd \/ rootFp2
  BY <1>2 DEF LoopTurn, ECTwistMul, Multiplied, ECTwistAdd, rootFp2, EnterLoop, Return
<1>3. CASE UNCHANGED vars
  BY <1>3 DEF vars
<1>4. QED BY <1>1, <1>2, <1>3 DEF Next

\* Every step keeps the bounds.
LEMMA BoundsStep == IInv /\ [Next]_vars => BoundsKept'
<1> SUFFICES ASSUME IInv, [Next]_vars PROVE BoundsKept'
  OBVIOUS
<1>1. Starting /\ BoundsKept
  BY DEF IInv
<1>2. call' \in Calls
  BY <1>1, CallStays DEF BoundsKept
<1>3. CASE HashToField
  <2>1. call.op = "hashToG2"
    BY <1>1, <1>3 DEF Starting, HashToField
  <2>2. call.hash \in Bytes
    BY <1>1, <2>1, CalledWith DEF BoundsKept
  <2>3. h' \in Residue
    BY <1>3, <2>2, SameFieldElement DEF HashToField, Residue
  <2>4. x1' \in Nat
    BY <1>3, <2>3, ResiduesAre DEF HashToField
  <2>5. UNCHANGED <<point, d, pt1, pt2, T0, result>>
    BY <1>3 DEF HashToField
  <2>6. QED BY <1>1, <1>2, <2>3, <2>4, <2>5 DEF BoundsKept
<1>4. CASE TryNext
  BY <1>1, <1>2, <1>4 DEF TryNext, BoundsKept
<1>5. CASE Mapped
  <2>1. x1 \in Nat /\ CURVE_ORDER_FACTOR \in Nat
    BY <1>1, FieldAssumption DEF BoundsKept
  <2>2. /\ <<<<x1, 0>>, Root(x1)>> \in Bounded \X Bounded
        /\ <<<<x1, 0>>, Root(x1), One2>> \in BoundedPoint
    BY <2>1, EntryPoints
  <2>3. d' \in Nat /\ pt1' \in BoundedPoint /\ pt2' \in BoundedPoint
    BY <1>5, <2>1, <2>2, EnteredWithin DEF Mapped
  <2>4. point' \in Bounded \X Bounded
    BY <1>5, <2>2 DEF Mapped
  <2>5. UNCHANGED <<h, x1, T0, result>>
    BY <1>5 DEF Mapped
  <2>6. QED BY <1>1, <1>2, <2>3, <2>4, <2>5 DEF BoundsKept
<1>6. CASE T0Multiplied
  <2>1. pt2 \in BoundedPoint /\ 2 \in Nat
    BY <1>1 DEF BoundsKept
  <2>2. d' \in Nat /\ pt1' \in BoundedPoint /\ pt2' \in BoundedPoint
    BY <1>6, <2>1, EnteredWithin DEF T0Multiplied
  <2>3. T0' = pt2 /\ UNCHANGED <<h, x1, point, result>>
    BY <1>6 DEF T0Multiplied
  <2>4. QED BY <1>1, <1>2, <2>1, <2>2, <2>3 DEF BoundsKept
<1>7. CASE T1Multiplied
  <2> DEFINE sum == CofactorSum(<<point[1], point[2], One2>>, T0, pt2)
  <2>1. T0 \in BoundedPoint /\ pt2 \in BoundedPoint /\ point \in Bounded \X Bounded
    BY <1>1 DEF BoundsKept
  <2>2. <<point[1], point[2], One2>> \in BoundedPoint
    BY <2>1, EntryPoints
  <2>3. sum \in BoundedPoint
    BY <2>1, <2>2, CofactorSumIs
  <2>4. result' = fromJacobian(sum)
    BY <1>7 DEF T1Multiplied, Return
  <2> HIDE DEF sum
  <2>5. result' \in ReducedPoint
    BY <2>3, <2>4, FromJacobianIs
  <2>6. UNCHANGED <<h, x1, point, d, pt1, pt2, T0>>
    BY <1>7 DEF T1Multiplied
  <2>7. QED BY <1>1, <1>2, <2>5, <2>6 DEF BoundsKept
<1>8. CASE LoopTurn
  <2>1. pt1 \in BoundedPoint /\ pt2 \in BoundedPoint /\ d \in Nat
    BY <1>1 DEF BoundsKept
  <2>2. pt2' \in {pt2, ECTwistAddJacobian(pt2, pt1)} /\ pt1' = ECTwistDoubleJacobian[pt1]
    BY <1>8 DEF LoopTurn
  <2>3. pt1' \in BoundedPoint /\ pt2' \in BoundedPoint
    BY <2>1, <2>2, PointSumIs, DoubleIs
  <2>4. d' \in Nat
    BY <1>8, <2>1 DEF LoopTurn
  <2>5. UNCHANGED <<h, x1, point, T0, result>>
    BY <1>8 DEF LoopTurn
  <2>6. QED BY <1>1, <1>2, <2>3, <2>4, <2>5 DEF BoundsKept
<1>9. CASE ECTwistMul
  <2>1. call.s \in Nat /\ call.pt \in ReducedPoint
    BY <1>1, <1>9, CalledWith DEF BoundsKept, Starting, ECTwistMul
  <2>2. <<call.pt[1], call.pt[2], One2>> \in BoundedPoint /\ <<One2, One2, Zero2>> \in BoundedPoint
    BY <2>1, EntryPoints
  <2>3. \/ EnterLoop("ECTwistMul", call.s, <<One2, One2, Zero2>>)
        \/ EnterLoop("ECTwistMul", call.s, <<call.pt[1], call.pt[2], One2>>)
        \/ UNCHANGED <<loop, d, pt1, pt2>>
    BY <1>9 DEF ECTwistMul
  <2>4. UNCHANGED <<h, x1, point, T0, result>>
    BY <1>9 DEF ECTwistMul
  <2>5. d' \in Nat /\ pt1' \in BoundedPoint /\ pt2' \in BoundedPoint
    <3>1. CASE EnterLoop("ECTwistMul", call.s, <<One2, One2, Zero2>>)
      BY <2>1, <2>2, <3>1, EnteredWithin
    <3>2. CASE EnterLoop("ECTwistMul", call.s, <<call.pt[1], call.pt[2], One2>>)
      BY <2>1, <2>2, <3>2, EnteredWithin
    <3>3. CASE UNCHANGED <<loop, d, pt1, pt2>>
      BY <1>1, <3>3 DEF BoundsKept
    <3>4. QED BY <2>3, <3>1, <3>2, <3>3
  <2>6. QED BY <1>1, <1>2, <2>4, <2>5 DEF BoundsKept
<1>10. CASE Multiplied
  <2>1. result' = fromJacobian(pt2) /\ UNCHANGED <<h, x1, point, d, pt1, pt2, T0>>
    BY <1>10 DEF Multiplied, Return
  <2>2. result' \in ReducedPoint
    BY <1>1, <2>1, FromJacobianIs DEF BoundsKept
  <2>3. QED BY <1>1, <1>2, <2>1, <2>2 DEF BoundsKept
<1>11. CASE ECTwistAdd
  <2> DEFINE sum == ECTwistAddJacobian(<<call.a[1], call.a[2], One2>>, <<call.b[1], call.b[2], One2>>)
  <2>1. call.a \in ReducedPoint /\ call.b \in ReducedPoint
    BY <1>1, <1>11, CalledWith DEF BoundsKept, Starting, ECTwistAdd
  <2>2. sum \in BoundedPoint
    BY <2>1, EntryPoints, PointSumIs
  <2>3. result' \in {result, call.a, call.b, fromJacobian(sum)}
    BY <1>11, Zenon DEF ECTwistAdd, Return
  <2>4. UNCHANGED <<h, x1, point, d, pt1, pt2, T0>>
    BY <1>11 DEF ECTwistAdd
  <2> HIDE DEF sum
  <2>5. result' \in ReducedPoint
    BY <1>1, <2>1, <2>2, <2>3, FromJacobianIs DEF BoundsKept
  <2>6. QED BY <1>1, <1>2, <2>4, <2>5 DEF BoundsKept
<1>12. CASE rootFp2
  <2>1. call.x \in Reduced
    BY <1>1, <1>12, CalledWith DEF BoundsKept, Starting, rootFp2
  <2>2. result' = <<FQ2Sqrt(call.x), Zero2>> /\ UNCHANGED <<h, x1, point, d, pt1, pt2, T0>>
    BY <1>12 DEF rootFp2, Return
  <2>3. result' \in ReducedPoint
    BY <2>1, <2>2, RootIs, ElementsAre DEF ReducedPoint
  <2>4. QED BY <1>1, <1>2, <2>2, <2>3 DEF BoundsKept
<1>13. CASE UNCHANGED vars
  BY <1>1, <1>2, <1>13 DEF vars, BoundsKept
<1>14. QED
  BY <1>3, <1>4, <1>5, <1>6, <1>7, <1>8, <1>9, <1>10, <1>11, <1>12, <1>13 DEF Next

\* Every step keeps the search in order.
LEMMA SearchStep == IInv /\ [Next]_vars => SearchInOrder'
<1> SUFFICES ASSUME IInv, [Next]_vars PROVE SearchInOrder'
  OBVIOUS
<1>0. call' = call
  BY CallStays
<1> SUFFICES ASSUME Hashing', pc' # "hashToG2"
             PROVE  /\ h' = setArrayMask(call.hash) /\ h' <= x1'
                    /\ \A x \in h' .. x1' - 1 : ~RootTaken(x)
                    /\ pc' # "mapToG2" => RootTaken(x1') /\ point' = <<<<x1', 0>>, Root(x1')>>
  BY <1>0 DEF SearchInOrder
<1>1. Starting /\ SearchInOrder /\ Hashing /\ call \in Calls /\ x1 \in Nat /\ h \in Nat
  <2>1. Hashing
    BY CallStays DEF Hashing
  <2>2. QED BY <2>1, ResiduesAre DEF IInv, BoundsKept
<1>2. CASE HashToField
  <2>1. call.hash \in Bytes
    BY <1>1, CalledWith DEF Hashing
  <2>2. h' = setArrayMask(call.hash) /\ h' \in 0 .. FIELD_MODULUS - 1 /\ x1' = h' /\ pc' = "mapToG2"
    BY <1>2, <2>1, SameFieldElement DEF HashToField
  <2>3. h' \in Int
    BY <2>2
  <2>4. h' <= x1' /\ h' .. x1' - 1 = {}
    BY <2>2, <2>3
  <2>5. QED BY <2>2, <2>4
<1> DEFINE Before == /\ h = setArrayMask(call.hash) /\ h <= x1
                     /\ \A x \in h .. x1 - 1 : ~RootTaken(x)
           Found == RootTaken(x1) /\ point = <<<<x1, 0>>, Root(x1)>>
<1>3. CASE TryNext
  <2>1. Before /\ ~RootTaken(x1) /\ pc' = "mapToG2" /\ h' = h /\ x1' = x1 + 1
    BY <1>1, <1>3 DEF TryNext, SearchInOrder
  <2>2. \A x \in h .. (x1 + 1) - 1 : x \in h .. x1 - 1 \/ x = x1
    BY <1>1
  <2>3. h <= x1 + 1
    BY <1>1, <2>1
  <2>4. QED BY <2>1, <2>2, <2>3
<1>4. CASE Mapped
  <2>1. Before /\ RootTaken(x1) /\ point' = <<<<x1, 0>>, Root(x1)>> /\ h' = h /\ x1' = x1
    BY <1>1, <1>4 DEF Mapped, SearchInOrder
  <2>2. QED BY <2>1
<1>5. CASE ECTwistMul \/ ECTwistAdd \/ rootFp2
  BY <1>1, <1>5 DEF ECTwistMul, ECTwistAdd, rootFp2, Starting, Hashing
<1>6. CASE T0Multiplied \/ T1Multiplied \/ Multiplied \/ LoopTurn
  <2>1. pc = "loop" /\ UNCHANGED <<h, x1, point>>
    BY <1>6 DEF T0Multiplied, T1Multiplied, Multiplied, LoopTurn, LoopEnds
  <2>2. Before /\ Found
    BY <1>1, <2>1 DEF SearchInOrder
  <2>3. QED BY <2>1, <2>2
<1>7. CASE UNCHANGED vars
  <2>1. UNCHANGED <<h, x1, point, pc>>
    BY <1>7 DEF vars
  <2>2. Before /\ (pc # "mapToG2" => Found)
    BY <1>1, <2>1 DEF SearchInOrder
  <2>3. QED BY <2>1, <2>2
<1>8. QED BY <1>2, <1>3, <1>4, <1>5, <1>6, <1>7 DEF Next

\* The inductive invariant of the curve library: a call begins at its
\* operation, every coordinate on the way is within what the source subtracts
\* from, and the search for a point leaves out no candidate.
THEOREM HashInvariant == Spec => []IInv
<1>1. Init => IInv
  BY InvariantStarts
<1>2. IInv /\ [Next]_vars => IInv'
  <2> SUFFICES ASSUME IInv, [Next]_vars PROVE IInv'
    OBVIOUS
  <2>1. Starting'
    <3>1. call' = call /\ pc' \in {pc, "mapToG2", "loop", "done", "reverted"}
      BY CallStays
    <3>2. QED BY <3>1 DEF IInv, Starting
  <2>2. BoundsKept' /\ SearchInOrder'
    BY BoundsStep, SearchStep
  <2>3. QED BY <2>1, <2>2 DEF IInv
<1>3. QED BY <1>1, <1>2, PTL DEF Spec

\* No subtraction of the library underflows, and so no call reverts in one:
\* imaginary parts stay at most the modulus; and what a call returns is
\* reduced (BN256G2.sol, submod and _FQ2Inv).
THEOREM FieldBounds == Spec => []TypeOK
<1>1. IInv => TypeOK
  <2> SUFFICES ASSUME IInv PROVE TypeOK
    OBVIOUS
  <2>1. \A pt \in BoundedPoint : \A i \in 1 .. 3 :
           pt[i][1] \in Nat /\ pt[i][2] \in 0 .. FIELD_MODULUS
    BY PointsAre, ElementsAre DEF Bound
  <2>2. \A r \in ReducedPoint : \A i, j \in 1 .. 2 : r[i][j] \in 0 .. FIELD_MODULUS - 1
    BY DEF ReducedPoint, Reduced
  <2>3. BoundsKept
    BY DEF IInv
  <2>4. /\ call \in Calls
        /\ h \in 0 .. FIELD_MODULUS - 1 /\ x1 \in Nat /\ d \in Nat
    BY <2>3 DEF BoundsKept, Residue
  <2>5. \A pt \in {pt1, pt2, T0} : pt \in BoundedPoint
    BY <2>3 DEF BoundsKept
  <2>6. \A i, j \in 1 .. 2 : result[i][j] \in 0 .. FIELD_MODULUS - 1
    BY <2>2, <2>3 DEF BoundsKept
  <2>7. QED BY <2>1, <2>4, <2>5, <2>6 DEF TypeOK
<1>2. QED BY <1>1, HashInvariant, PTL

\* The point whose multiples hashToG2 adds up is the first candidate, counted
\* from the field element the client's library makes of the same hash, that
\* mapToG2 takes (BLSValidators.sol, hashToField and mapToG2).
THEOREM FirstCandidate == Spec => []SearchInOrder
<1>1. IInv => SearchInOrder
  BY DEF IInv
<1>2. QED BY <1>1, HashInvariant, PTL

=============================================================================
