----------------------------- MODULE TwistGroup -----------------------------
(***************************************************************************)
(* What hardhat/contracts/BN256G2.sol is measured against: the field with  *)
(* p^2 elements a + bi, i^2 = -1, and the group of the points of the curve *)
(* y^2 = x^3 + b by the chord and tangent rule.  A point is <<x, y>> with  *)
(* reduced coordinates; Neutral, which is not on the curve, is the neutral *)
(* element, as it is for the callers of the library.                       *)
(***************************************************************************)
EXTENDS Integers

CONSTANTS p,  \* the prime
          b   \* the constant of the curve

Zero == <<0, 0>>
One == <<1, 0>>
Neutral == <<Zero, Zero>>

Reduced(x) == <<x[1] % p, x[2] % p>>
Minus(x, y) == <<(x[1] - y[1]) % p, (x[2] - y[2]) % p>>
Scaled(c, x) == <<(c * x[1]) % p, (c * x[2]) % p>>
Times(x, y) == <<(x[1] * y[1] - x[2] * y[2]) % p, (x[1] * y[2] + x[2] * y[1]) % p>>

Element == Int \X Int
Point == Element \X Element

Square[x \in Element] == Times(x, x)

Powers[xn \in Element \X Nat] ==
    LET power[m \in 0 .. xn[2]] ==
            IF m = 0 THEN One
            ELSE Times(Square[power[m \div 2]], IF m % 2 = 1 THEN xn[1] ELSE One)
    IN  power[xn[2]]

Power(x, n) == Powers[<<x, n>>]

Inverse(x) == Power(x, p * p - 2)
IsSquare(x) == x = Zero \/ Power(x, (p * p - 1) \div 2) = One

RightHandSide(x) == LET c == Power(x, 3) IN <<(c[1] + b[1]) % p, (c[2] + b[2]) % p>>
OnCurve(pt) == Times(pt[2], pt[2]) = RightHandSide(pt[1])

\* The third point of the line of this slope through both points, reflected.
ThirdPoint(pt, qt, slope) ==
    LET x == Minus(Minus(Times(slope, slope), pt[1]), qt[1])
    IN  <<x, Minus(Times(slope, Minus(pt[1], x)), pt[2])>>

Chord(pt, qt) == Times(Minus(qt[2], pt[2]), Inverse(Minus(qt[1], pt[1])))
Tangent(pt) == Times(Scaled(3, Times(pt[1], pt[1])), Inverse(Scaled(2, pt[2])))

Sums[pts \in Point \X Point] ==
    LET pt == pts[1] qt == pts[2] IN
    CASE pt = Neutral -> qt
      [] qt = Neutral /\ pt # Neutral -> pt
      [] Neutral \notin {pt, qt} /\ pt[1] # qt[1] -> ThirdPoint(pt, qt, Chord(pt, qt))
      [] Neutral \notin {pt, qt} /\ pt = qt -> ThirdPoint(pt, pt, Tangent(pt))
      [] Neutral \notin {pt, qt} /\ pt # qt /\ pt[1] = qt[1] -> Neutral

Sum(pt, qt) == Sums[<<pt, qt>>]

Twice[pt \in Point] == Sum(pt, pt)

Multiples[np \in Nat \X Point] ==
    LET multiple[m \in 0 .. np[1]] ==
            IF m = 0 THEN Neutral
            ELSE Sum(Twice[multiple[m \div 2]], IF m % 2 = 1 THEN np[2] ELSE Neutral)
    IN  multiple[np[1]]

Multiple(n, pt) == Multiples[<<n, pt>>]

\* The point that projective coordinates stand for.
Affine(jt) ==
    IF Reduced(jt[3]) = Zero THEN Neutral
    ELSE <<Times(jt[1], Inverse(jt[3])), Times(jt[2], Inverse(jt[3]))>>

=============================================================================
