---------------------------- MODULE SetInduction ----------------------------
(***************************************************************************)
(* Induction over the natural numbers in a form without operator           *)
(* parameters: what is to be shown of every number is that it is in a set. *)
(* And the powers of two, which several proofs need.                       *)
(***************************************************************************)
EXTENDS PowersOfTwo, WellFoundedInduction, TLAPS

\* A set of natural numbers that is not empty has a least element.
LEMMA Smallest ==
    ASSUME NEW S \in SUBSET Nat, S # {}
    PROVE  \E n \in S : \A m \in S : n <= m
<1> DEFINE R == OpToRel(<, Nat)
<1>1. IsWellFoundedOn(R, Nat)
  BY NatLessThanWellFounded
<1>2. \A m, n \in Nat : m < n => <<m, n>> \in R
  BY DEF OpToRel
<1> HIDE DEF R
<1>3. PICK n \in S : \A m \in S : ~(<<m, n>> \in R)
  BY <1>1, WFMin
<1>4. \A m \in S : m \in Nat /\ n \in Nat /\ ~(m < n)
  BY <1>2, <1>3
<1>5. \A m \in S : n <= m
  BY <1>4
<1>6. QED BY <1>5

\* A set with 0 in it, and with every number the next one, has all of them.
LEMMA Induction ==
    ASSUME NEW S, 0 \in S, \A n \in Nat : n \in S => n + 1 \in S
    PROVE  Nat \subseteq S
<1> DEFINE T == {n \in Nat : n \notin S}
<1>1. SUFFICES ASSUME T # {} PROVE FALSE
  OBVIOUS
<1>2. PICK n \in T : \A m \in T : n <= m
  BY <1>1, Smallest
<1>3. n # 0
  BY <1>2
<1>4. n - 1 \in Nat /\ n - 1 \notin T
  BY <1>2, <1>3
<1>5. QED BY <1>2, <1>4

\* The recursive definition of the powers of two, unfolded.
LEMMA Powers ==
    /\ PowerOfTwo[0] = 1
    /\ \A e \in Nat : PowerOfTwo[e + 1] = 2 * PowerOfTwo[e]
<1> DEFINE Ok(g, n) == \A i \in 0 .. n : g[i] = IF i = 0 THEN 1 ELSE 2 * g[i - 1]
           S == {n \in Nat : \E g : Ok(g, n)}
<1>1. 0 \in S
  <2>1. Ok([i \in 0 .. 0 |-> 1], 0)
    OBVIOUS
  <2>2. QED BY <2>1
<1>2. ASSUME NEW n \in Nat, n \in S
      PROVE  n + 1 \in S
  <2>1. PICK g : Ok(g, n)
    BY <1>2
  <2> DEFINE h == [i \in 0 .. n + 1 |-> IF i <= n THEN g[i] ELSE 2 * g[n]]
  <2>2. Ok(h, n + 1)
    BY <2>1
  <2> HIDE DEF Ok, h
  <2>3. QED BY <2>2
<1> HIDE DEF S
<1>3. \A n \in Nat : n \in S
  BY <1>1, <1>2, Induction
<1> USE DEF S
<1>4. \A n \in Nat : \E g : Ok(g, n)
  BY <1>3
<1> DEFINE G(n) == CHOOSE g : Ok(g, n)
<1>5. \A n \in Nat : Ok(G(n), n)
  BY <1>4
<1>6. ASSUME NEW m \in Nat, NEW n \in Nat, m <= n
      PROVE  G(m)[m] = G(n)[m]
  <2> HIDE DEF G
  <2> DEFINE U == {i \in Nat : i <= m => G(m)[i] = G(n)[i]}
  <2>1. 0 \in U
    BY <1>5, <1>6
  <2>2. ASSUME NEW i \in Nat, i \in U PROVE i + 1 \in U
    <3>1. SUFFICES ASSUME i + 1 <= m PROVE G(m)[i + 1] = G(n)[i + 1]
      OBVIOUS
    <3>2. G(m)[i] = G(n)[i]
      BY <2>2, <3>1
    <3>3. Ok(G(m), m) /\ Ok(G(n), n)
      BY <1>5
    <3>4. QED BY <1>6, <3>1, <3>2, <3>3
  <2> HIDE DEF U
  <2>3. m \in U
    BY <2>1, <2>2, Induction
  <2>4. QED BY <2>3 DEF U
<1> DEFINE F == [n \in Nat |-> G(n)[n]]
<1>7. F = [n \in Nat |-> IF n = 0 THEN 1 ELSE 2 * F[n - 1]]
  <2>1. ASSUME NEW n \in Nat PROVE F[n] = IF n = 0 THEN 1 ELSE 2 * F[n - 1]
    <3> HIDE DEF G
    <3>1. Ok(G(n), n)
      BY <1>5
    <3>2. n # 0 => G(n - 1)[n - 1] = G(n)[n - 1]
      BY <1>6
    <3>3. QED BY <3>1, <3>2
  <2> HIDE DEF G
  <2>2. QED BY <2>1
<1>8. PowerOfTwo = [n \in Nat |-> IF n = 0 THEN 1 ELSE 2 * PowerOfTwo[n - 1]]
  <2> HIDE DEF F
  <2>1. \E g : g = [n \in Nat |-> IF n = 0 THEN 1 ELSE 2 * g[n - 1]]
    BY <1>7
  <2>2. QED BY <2>1, Zenon DEF PowerOfTwo
<1>9. ASSUME NEW f, f = [n \in Nat |-> IF n = 0 THEN 1 ELSE 2 * f[n - 1]]
      PROVE  f[0] = 1 /\ \A e \in Nat : f[e + 1] = 2 * f[e]
  <2>1. \A n \in Nat : f[n] = IF n = 0 THEN 1 ELSE 2 * f[n - 1]
    BY ONLY <1>9, Zenon
  <2>2. \A e \in Nat : e + 1 \in Nat /\ e + 1 # 0 /\ (e + 1) - 1 = e
    OBVIOUS
  <2>3. QED BY ONLY <2>1, <2>2
<1>10. QED BY ONLY <1>8, <1>9, Zenon

\* Powers of two are positive, grow, and divide the larger ones.
LEMMA PowerFacts ==
    /\ \A e \in Nat : PowerOfTwo[e] \in Nat \ {0}
    /\ \A d, e \in Nat : d <= e => PowerOfTwo[d] <= PowerOfTwo[e]
    /\ \A d, e \in Nat : d <= e => \E r \in Nat : PowerOfTwo[e] = r * PowerOfTwo[d]
<1> DEFINE S == {e \in Nat : PowerOfTwo[e] \in Nat \ {0}}
<1>1. 0 \in S /\ \A e \in Nat : e \in S => e + 1 \in S
  BY Powers
<1> HIDE DEF S
<1>2. \A e \in Nat : e \in S
  BY <1>1, Induction
<1>3. \A e \in Nat : PowerOfTwo[e] \in Nat \ {0}
  BY <1>2 DEF S
<1>4. ASSUME NEW d \in Nat
      PROVE  \A e \in Nat : d <= e => /\ PowerOfTwo[d] <= PowerOfTwo[e]
                                      /\ \E r \in Nat : PowerOfTwo[e] = r * PowerOfTwo[d]
  <2> DEFINE T == {k \in Nat : /\ PowerOfTwo[d] <= PowerOfTwo[d + k]
                               /\ \E r \in Nat : PowerOfTwo[d + k] = r * PowerOfTwo[d]}
  <2>1. 0 \in T
    <3>1. PowerOfTwo[d + 0] = 1 * PowerOfTwo[d]
      BY <1>3
    <3>2. QED BY <1>3, <3>1
  <2>2. ASSUME NEW k \in Nat, k \in T
        PROVE  k + 1 \in T
    <3>1. d + k \in Nat /\ (d + k) + 1 = d + (k + 1)
      OBVIOUS
    <3>2. PowerOfTwo[d + (k + 1)] = 2 * PowerOfTwo[d + k]
      BY <3>1, Powers
    <3>3. PICK r \in Nat : PowerOfTwo[d + k] = r * PowerOfTwo[d]
      BY <2>2
    <3>4. PowerOfTwo[d] \in Nat /\ PowerOfTwo[d + k] \in Nat
      BY <1>3
    <3>5. 2 * (r * PowerOfTwo[d]) = (2 * r) * PowerOfTwo[d] /\ 2 * r \in Nat
      BY <3>4
    <3>6. \E q \in Nat : PowerOfTwo[d + (k + 1)] = q * PowerOfTwo[d]
      BY <3>2, <3>3, <3>5
    <3>7. PowerOfTwo[d] <= PowerOfTwo[d + (k + 1)]
      BY <2>2, <3>2, <3>4
    <3>8. QED BY <3>6, <3>7
  <2> HIDE DEF T
  <2>3. \A k \in Nat : k \in T
    BY <2>1, <2>2, Induction
  <2>4. ASSUME NEW e \in Nat, d <= e
        PROVE  e - d \in T /\ d + (e - d) = e
    BY <2>3, <2>4
  <2>5. QED BY <2>4 DEF T
<1>5. QED BY <1>3, <1>4

=============================================================================
