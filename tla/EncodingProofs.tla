--------------------------- MODULE EncodingProofs ---------------------------
(***************************************************************************)
(* Theorems about Encoding: whatever the arguments of a call, the contract *)
(* decodes what was meant, the node finds what was signed, and the hashes  *)
(* made on both sides are of the same bytes.                               *)
(***************************************************************************)
EXTENDS Encoding, SetInduction

\* A digit, and a character of a text.
Digit == 0..15
Character == 0..16

\* A word is 32 bytes.
LEMMA WordIsBytes == ASSUME NEW w \in Word PROVE w \in Seq(Byte) /\ Len(w) = 32 /\ \A i \in 1..32 : w[i] \in Byte
<1>1. w = [i \in 1..32 |-> w[i]] /\ \A i \in 1..32 : w[i] \in Byte
  BY DEF Word, WordBytes
<1>2. QED BY <1>1

\* toHexString writes two digits for every byte, the high one first.
LEMMA HexDigits ==
    ASSUME NEW b \in Seq(Byte)
    PROVE  /\ toHexString(b) \in Seq(Digit)
           /\ Len(toHexString(b)) = 2 * Len(b)
           /\ \A i \in 1..Len(b) : /\ toHexString(b)[2 * i - 1] = b[i] \div 16
                                   /\ toHexString(b)[2 * i] = b[i] % 16
<1>1. Len(b) \in Nat /\ \A i \in 1..Len(b) : b[i] \in Byte
  OBVIOUS
<1>2. \A j \in 1..2 * Len(b) :
        /\ j % 2 = 1 => (j + 1) \div 2 \in 1..Len(b) 
        /\ j % 2 # 1 => j \div 2 \in 1..Len(b)
  BY <1>1
<1>3. \A c \in Byte : c \div 16 \in Digit /\ c % 16 \in Digit
  BY DEF Byte, Digit
<1>4. \A j \in 1..2 * Len(b) : 
        (IF j % 2 = 1 THEN b[(j + 1) \div 2] \div 16 ELSE b[j \div 2] % 16) \in Digit
  BY <1>1, <1>2, <1>3
<1>5. toHexString(b) = [j \in 1..2 * Len(b) |-> IF j % 2 = 1 THEN b[(j + 1) \div 2] \div 16 ELSE b[j \div 2] % 16]
  BY DEF toHexString
<1>50. 2 * Len(b) \in Nat
  BY <1>1
<1>51. toHexString(b) \in Seq(Digit) /\ Len(toHexString(b)) = 2 * Len(b)
  BY <1>50, <1>4, <1>5
<1>6. ASSUME NEW i \in 1..Len(b)
      PROVE  /\ toHexString(b)[2 * i - 1] = b[i] \div 16
             /\ toHexString(b)[2 * i] = b[i] % 16
  <2>1. 2 * i - 1 \in 1..2 * Len(b) /\ 2 * i \in 1..2 * Len(b)
        /\ (2 * i - 1) % 2 = 1 /\ (2 * i) % 2 = 0 /\ ((2 * i - 1) + 1) \div 2 = i /\ (2 * i) \div 2 = i
    BY <1>1
  <2>2. QED BY <2>1 DEF toHexString
<1>7. QED BY <1>51, <1>6

\* Sequences of one length with the same elements are the same.
LEMMA SameSeq ==
    ASSUME NEW S, NEW s \in Seq(S), NEW t \in Seq(S), Len(s) = Len(t),
           \A i \in 1..Len(s) : s[i] = t[i]
    PROVE  s = t
  OBVIOUS

\* Sequences that follow each other.
LEMMA Follow ==
    ASSUME NEW S, NEW s \in Seq(S), NEW t \in Seq(S)
    PROVE  /\ s \o t \in Seq(S) /\ Len(s \o t) = Len(s) + Len(t)
           /\ Len(s) \in Nat /\ Len(t) \in Nat
           /\ \A i \in 1..Len(s) : (s \o t)[i] = s[i]
           /\ \A i \in 1..Len(t) : (s \o t)[Len(s) + i] = t[i]
  OBVIOUS

\* What has the elements of s and then those of t is s followed by t.
LEMMA FollowIs ==
    ASSUME NEW S, NEW s \in Seq(S), NEW t \in Seq(S), NEW u \in Seq(S), Len(u) = Len(s) + Len(t),
           \A i \in 1..Len(s) : u[i] = s[i], \A i \in 1..Len(t) : u[Len(s) + i] = t[i]
    PROVE  u = s \o t
<1> DEFINE v == s \o t
<1>1. /\ v \in Seq(S) /\ Len(v) = Len(s) + Len(t) /\ Len(s) \in Nat /\ Len(t) \in Nat
      /\ \A i \in 1..Len(s) : v[i] = s[i]
      /\ \A i \in 1..Len(t) : v[Len(s) + i] = t[i]
  BY Follow
<1> HIDE DEF v
<1>2. ASSUME NEW i \in 1..Len(u)
      PROVE  u[i] = v[i]
  <2>1. CASE i <= Len(s)
    BY <1>1, <2>1
  <2>2. CASE i > Len(s)
    <3>1. i - Len(s) \in 1..Len(t) /\ Len(s) + (i - Len(s)) = i
      BY <1>1, <2>2
    <3>2. QED BY <1>1, <3>1
  <2>3. QED BY <1>1, <2>1, <2>2
<1>3. u = v
  BY <1>1, <1>2, SameSeq
<1>4. QED BY <1>3 DEF v

\* Digits in pairs, with the prefix or without.
LEMMA PrefixGoes ==
    ASSUME NEW hex \in Seq(Digit)
    PROVE  ~HasPrefix(hex) /\ WithoutPrefix(hex) = hex /\ WithoutPrefix(Prefix \o hex) = hex
<1>1. Len(hex) \in Nat /\ \A i \in 1..Len(hex) : hex[i] \in Digit
  OBVIOUS
<1>2. ~HasPrefix(hex) /\ WithoutPrefix(hex) = hex
  <2>1. Len(hex) >= 2 => hex[2] # 16
    BY <1>1 DEF Digit
  <2>2. QED BY <2>1 DEF WithoutPrefix, HasPrefix, X
<1> DEFINE p == Prefix \o hex
<1>3. /\ p \in Seq(Character) /\ Len(p) = Len(hex) + 2 /\ p[1] = 0 /\ p[2] = X
      /\ \A i \in 1..Len(hex) : p[i + 2] = hex[i]
  <2>1. hex \in Seq(Character)
    BY <1>1 DEF Digit, Character
  <2>2. Prefix \in Seq(Character) /\ Len(Prefix) = 2 /\ Prefix[1] = 0 /\ Prefix[2] = X
    BY DEF Prefix, X, Character
  <2>3. /\ p \in Seq(Character) /\ Len(p) = Len(Prefix) + Len(hex)
        /\ \A i \in 1..Len(Prefix) : p[i] = Prefix[i]
        /\ \A i \in 1..Len(hex) : p[Len(Prefix) + i] = hex[i]
    <3>1. \A s, t \in Seq(Character) : 
              /\ s \o t \in Seq(Character) /\ Len(s \o t) = Len(s) + Len(t)
              /\ \A i \in 1..Len(s) : (s \o t)[i] = s[i]
              /\ \A i \in 1..Len(t) : (s \o t)[Len(s) + i] = t[i]
      BY Follow
    <3>2. Prefix \in Seq(Character) /\ hex \in Seq(Character)
      BY <2>1, <2>2
    <3>3. QED BY <3>1, <3>2, Zenon
  <2> HIDE DEF p
  <2>4. \A i \in 1..Len(hex) : i + 2 = 2 + i
    BY <1>1
  <2>5. p[1] = Prefix[1] /\ p[2] = Prefix[2]
    BY <2>2, <2>3
  <2>6. QED BY <2>2, <2>3, <2>4, <2>5, <1>1
<1> HIDE DEF p
<1>4. WithoutPrefix(p) = hex
  <2>1. Len(p) \in Nat /\ HasPrefix(p)
    BY <1>1, <1>3 DEF HasPrefix
  <2>2. SubSeq(p, 3, Len(p)) \in Seq(Character) /\ Len(SubSeq(p, 3, Len(p))) = Len(hex)
        /\ \A i \in 1..Len(hex) : SubSeq(p, 3, Len(p))[i] = p[i + 2]
    BY <1>1, <1>3, <2>1
  <2>3. hex \in Seq(Character)
    BY <1>1 DEF Digit, Character
  <2>4. SubSeq(p, 3, Len(p)) = hex
    BY <2>2, <2>3, <1>3, SameSeq
  <2>5. QED BY <2>1, <2>4 DEF WithoutPrefix
<1>5. QED BY <1>2, <1>4 DEF p

\* The bytes that so many digits stand for.
LEMMA BytesOfDigits ==
    ASSUME NEW hex \in Seq(Digit), NEW n \in Nat, Len(hex) = 2 * n
    PROVE  /\ fromHexString(hex) = [i \in 1..n |-> 16 * hex[2 * i - 1] + hex[2 * i]]
           /\ fromHexString(Prefix \o hex) = [i \in 1..n |-> 16 * hex[2 * i - 1] + hex[2 * i]]
           /\ [i \in 1..n |-> 16 * hex[2 * i - 1] + hex[2 * i]] \in Seq(Byte)
<1>1. Len(hex) \in Nat /\ \A i \in 1..Len(hex) : hex[i] \in Digit
  OBVIOUS
<1> DEFINE p == Prefix \o hex
<1>2. WithoutPrefix(hex) = hex /\ WithoutPrefix(p) = hex
  BY PrefixGoes
<1> HIDE DEF p
<1>5. (Len(hex) + 1) \div 2 = n /\ \A i \in 1..n : 2 * i <= Len(hex) /\ 2 * i - 1 \in 1..Len(hex) /\ 2 * i \in 1..Len(hex)
  BY <1>1
<1> DEFINE b == [i \in 1..n |-> 16 * hex[2 * i - 1] + hex[2 * i]]
           c == [i \in 1..((Len(hex) + 1) \div 2) |->
            IF 2 * i <= Len(hex) THEN 16 * hex[2 * i - 1] + hex[2 * i] ELSE hex[2 * i - 1]]
<1>6. b = c
  BY <1>5
<1>7. fromHexString(hex) = c /\ fromHexString(p) = c
  BY <1>2 DEF fromHexString
<1>8. b \in Seq(Byte)
  <2>1. \A i \in 1..n : 16 * hex[2 * i - 1] + hex[2 * i] \in Byte
    <3>1. \A i \in 1..n : hex[2 * i - 1] \in Digit /\ hex[2 * i] \in Digit
      BY <1>1, <1>5
    <3>2. \A x, y \in Digit : 16 * x + y \in Byte
      BY DEF Byte, Digit
    <3>3. QED BY <3>1, <3>2
  <2>2. QED BY <2>1
<1>9. QED BY <1>6, <1>7, <1>8 DEF p

\* Reading hexadecimal text gives the bytes that were written.
LEMMA HexBack ==
    ASSUME NEW b \in Seq(Byte)
    PROVE  fromHexString(toHexString(b)) = b /\ fromHexString(Prefix \o toHexString(b)) = b
<1> DEFINE hex == toHexString(b)
<1>1. hex \in Seq(Digit) /\ Len(hex) = 2 * Len(b) /\ Len(b) \in Nat
  BY HexDigits
<1>2. ASSUME NEW i \in 1..Len(b)
      PROVE  16 * hex[2 * i - 1] + hex[2 * i] = b[i]
  <2>1. hex[2 * i - 1] = b[i] \div 16 /\ hex[2 * i] = b[i] % 16
    BY HexDigits
  <2>2. b[i] \in Byte
    OBVIOUS
  <2>3. \A x \in Byte : 16 * (x \div 16) + (x % 16) = x
    BY DEF Byte
  <2>4. QED BY <2>1, <2>2, <2>3
<1>3. [i \in 1..Len(b) |-> 16 * hex[2 * i - 1] + hex[2 * i]] = [i \in 1..Len(b) |-> b[i]]
  BY <1>2
<1>4. [i \in 1..Len(b) |-> b[i]] = b
  BY <1>1, SameSeq
<1> HIDE DEF hex
<1>5. fromHexString(hex) = b /\ fromHexString(Prefix \o hex) = b
  BY <1>1, <1>3, <1>4, BytesOfDigits
<1>6. QED BY <1>5 DEF hex

\* Text of bytes that follow each other.
LEMMA HexConcat ==
    ASSUME NEW a \in Seq(Byte), NEW b \in Seq(Byte)
    PROVE  toHexString(a \o b) = toHexString(a) \o toHexString(b)
<1> DEFINE c == a \o b
           s == toHexString(a)
           t == toHexString(b)
           u == toHexString(c)
<1>1. c \in Seq(Byte) /\ Len(c) = Len(a) + Len(b) /\ Len(a) \in Nat /\ Len(b) \in Nat
      /\ (\A i \in 1..Len(a) : c[i] = a[i]) /\ \A i \in 1..Len(b) : c[Len(a) + i] = b[i]
  OBVIOUS
<1>2. s \in Seq(Digit) /\ t \in Seq(Digit) /\ u \in Seq(Digit)
      /\ Len(s) = 2 * Len(a) /\ Len(t) = 2 * Len(b) /\ Len(u) = 2 * Len(c)
  BY <1>1, HexDigits
<1> HIDE DEF c
<1>3. /\ \A i \in 1..Len(a) : s[2 * i - 1] = a[i] \div 16 /\ s[2 * i] = a[i] % 16
      /\ \A i \in 1..Len(b) : t[2 * i - 1] = b[i] \div 16 /\ t[2 * i] = b[i] % 16
      /\ \A i \in 1..Len(c) : u[2 * i - 1] = c[i] \div 16 /\ u[2 * i] = c[i] % 16
  BY <1>1, HexDigits
<1> HIDE DEF s, t, u
<1>4. \A i \in 1..Len(a) : u[2 * i - 1] = s[2 * i - 1] /\ u[2 * i] = s[2 * i]
  BY <1>1, <1>3
<1>5. ASSUME NEW i \in 1..Len(b)
      PROVE  u[2 * Len(a) + (2 * i - 1)] = t[2 * i - 1] /\ u[2 * Len(a) + 2 * i] = t[2 * i]
  <2>1. Len(a) + i \in 1..Len(c) /\ 2 * (Len(a) + i) - 1 = 2 * Len(a) + (2 * i - 1)
        /\ 2 * (Len(a) + i) = 2 * Len(a) + 2 * i /\ c[Len(a) + i] = b[i]
    BY <1>1
  <2>2. u[2 * (Len(a) + i) - 1] = c[Len(a) + i] \div 16 /\ u[2 * (Len(a) + i)] = c[Len(a) + i] % 16
    BY <2>1, <1>3
  <2>3. t[2 * i - 1] = b[i] \div 16 /\ t[2 * i] = b[i] % 16
    BY ONLY <1>3, i \in 1..Len(b), Zenon
  <2> DEFINE k  == Len(a) + i
             p  == 2 * (Len(a) + i) - 1
             q  == 2 * (Len(a) + i)
             p1 == 2 * Len(a) + (2 * i - 1)
             q1 == 2 * Len(a) + 2 * i
             x  == 2 * i - 1
             y  == 2 * i
  <2>4. /\ p = p1 /\ q = q1 /\ c[k] = b[i]
        /\ u[p] = c[k] \div 16 /\ u[q] = c[k] % 16 /\ t[x] = b[i] \div 16 /\ t[y] = b[i] % 16
    BY ONLY <2>1, <2>2, <2>3
  <2> HIDE DEF k, p, q, p1, q1, x, y
  <2>5. u[p1] = t[x] /\ u[q1] = t[y]
    BY ONLY <2>4
  <2>6. QED BY ONLY <2>5 DEF p1, q1, x, y
<1>6. \A j \in 1..Len(s) : u[j] = s[j]
  <2>1. \A j \in 1..2 * Len(a) : \E i \in 1..Len(a) : j = 2 * i - 1 \/ j = 2 * i
    <3>1. \A j \in 1..2 * Len(a) : (j + 1) \div 2 \in 1..Len(a) /\ (j = 2 * ((j + 1) \div 2) - 1 \/ j = 2 * ((j + 1) \div 2))
      BY <1>1
    <3>2. QED BY <3>1
  <2>2. SUFFICES ASSUME NEW j \in 1..Len(s) PROVE u[j] = s[j]
    OBVIOUS
  <2>3. PICK i \in 1..Len(a) : j = 2 * i - 1 \/ j = 2 * i
    BY ONLY <2>1, <2>2, <1>2
  <2>4. u[2 * i - 1] = s[2 * i - 1] /\ u[2 * i] = s[2 * i]
    BY ONLY <1>4, <2>3, Zenon
  <2>5. QED BY ONLY <2>3, <2>4, Zenon
<1>7. \A j \in 1..Len(t) : u[Len(s) + j] = t[j]
  <2>1. \A j \in 1..2 * Len(b) : \E i \in 1..Len(b) : j = 2 * i - 1 \/ j = 2 * i
    <3>1. \A j \in 1..2 * Len(b) : (j + 1) \div 2 \in 1..Len(b) /\ (j = 2 * ((j + 1) \div 2) - 1 \/ j = 2 * ((j + 1) \div 2))
      BY <1>1
    <3>2. QED BY <3>1
  <2>2. ASSUME NEW j \in 1..Len(t)
        PROVE  u[Len(s) + j] = t[j]
    <3>1. PICK i \in 1..Len(b) : j = 2 * i - 1 \/ j = 2 * i
      BY <1>2, <2>1
    <3>2. u[Len(s) + (2 * i - 1)] = t[2 * i - 1] /\ u[Len(s) + 2 * i] = t[2 * i]
      BY <1>2, <1>5
    <3>3. QED BY <3>1, <3>2
  <2>3. QED BY <2>2
<1>8. u = s \o t
  <2>1. Len(u) = Len(s) + Len(t)
    BY <1>1, <1>2
  <2>2. QED BY <1>2, <1>6, <1>7, <2>1, FollowIs, Zenon
<1>9. QED BY <1>8 DEF c, s, t, u

-----------------------------------------------------------------------------
\* Numbers.

\* The recursive definition of Shifted, unfolded.
LEMMA ShiftedLaw ==
    ASSUME NEW n
    PROVE  /\ Shifted(n)[0] = n
           /\ \A k \in 0..63 : Shifted(n)[k + 1] = Shifted(n)[k] \div 16
<1> DEFINE Body(g, k) == IF k = 0 THEN n ELSE g[k - 1] \div 16
           S == {k \in Nat : \E g : \A d \in 0..k : g[d] = Body(g, d)}
<1>1. 0 \in S
  <2>1. \A d \in 0..0 : [i \in 0..0 |-> n][d] = Body([i \in 0..0 |-> n], d)
    OBVIOUS
  <2>2. QED BY <2>1
<1>2. ASSUME NEW k \in Nat, k \in S
      PROVE  k + 1 \in S
  <2>1. PICK g : \A d \in 0..k : g[d] = Body(g, d)
    BY <1>2
  <2> DEFINE h == [d \in 0..(k + 1) |-> IF d <= k THEN g[d] ELSE g[k] \div 16]
  <2>2. \A d \in 0..(k + 1) : h[d] = Body(h, d)
    BY <2>1
  <2> HIDE DEF h
  <2>3. QED BY <2>2
<1> HIDE DEF S
<1>3. 64 \in S
  BY <1>1, <1>2, Induction
<1>4. PICK g : \A d \in 0..64 : g[d] = Body(g, d)
  BY <1>3 DEF S
<1>5. [d \in 0..64 |-> g[d]] = [d \in 0..64 |-> Body([e \in 0..64 |-> g[e]], d)]
  BY <1>4
<1>6. \E f : f = [d \in 0..(2 * WordBytes) |-> Body(f, d)]
  <2>1. 0..(2 * WordBytes) = 0..64
    BY DEF WordBytes
  <2>2. \E f : f = [d \in 0..64 |-> Body(f, d)]
    BY <1>5, Zenon
  <2>3. QED BY <2>1, <2>2
<1>7. Shifted(n) = [d \in 0..(2 * WordBytes) |-> Body(Shifted(n), d)]
  BY <1>6, Zenon DEF Shifted
<1>8. QED BY <1>7 DEF WordBytes

\* The digits run out and stay out.
LEMMA ShiftedFacts ==
    ASSUME NEW n \in Nat
    PROVE  /\ \A k \in 0..64 : Shifted(n)[k] \in Nat /\ Shifted(n)[k] <= n
           /\ \A k \in 0..64 : \A e \in k..64 : Shifted(n)[k] = 0 => Shifted(n)[e] = 0
           /\ \A k \in 0..62 : /\ Shifted(n)[k + 2] = Shifted(n)[k] \div 256
                               /\ Shifted(n)[k] % 256 = (16 * (Shifted(n)[k + 1] % 16)) + (Shifted(n)[k] % 16)
<1> DEFINE f == Shifted(n)
<1>1. f[0] = n /\ \A k \in 0..63 : f[k + 1] = f[k] \div 16
  BY ShiftedLaw
<1> HIDE DEF f
<1> DEFINE S == {k \in Nat : k <= 64 => f[k] \in Nat /\ f[k] <= n}
<1>2. Nat \subseteq S
  <2>1. 0 \in S
    BY <1>1
  <2>2. ASSUME NEW k \in Nat, k \in S PROVE k + 1 \in S
    <3>1. SUFFICES ASSUME k + 1 <= 64 PROVE f[k + 1] \in Nat /\ f[k + 1] <= n
      OBVIOUS
    <3>2. f[k] \in Nat /\ f[k] <= n /\ f[k + 1] = f[k] \div 16
      BY <1>1, <2>2, <3>1
    <3>3. QED BY <3>2
  <2> HIDE DEF S
  <2>3. QED BY <2>1, <2>2, Induction
<1>3. \A k \in 0..64 : f[k] \in Nat /\ f[k] <= n
  BY <1>2
<1>4. ASSUME NEW k \in 0..64, f[k] = 0, NEW e \in k..64
      PROVE  f[e] = 0
  <2> DEFINE T == {d \in Nat : k + d <= 64 => f[k + d] = 0}
  <2>1. 0 \in T
    BY <1>4
  <2>2. ASSUME NEW d \in Nat, d \in T PROVE d + 1 \in T
    <3>1. SUFFICES ASSUME k + (d + 1) <= 64 PROVE f[k + (d + 1)] = 0
      OBVIOUS
    <3>2. k + d \in 0..63 /\ f[k + d] = 0 /\ k + (d + 1) = (k + d) + 1
      BY <2>2, <3>1
    <3>3. f[(k + d) + 1] = f[k + d] \div 16
      BY <1>1, <3>2
    <3>4. QED BY <3>2, <3>3
  <2> HIDE DEF T
  <2>3. Nat \subseteq T
    BY <2>1, <2>2, Induction
  <2>4. e - k \in Nat /\ k + (e - k) = e
    OBVIOUS
  <2>5. QED BY <2>3, <2>4 DEF T
<1>5. ASSUME NEW k \in 0..62
      PROVE  /\ f[k + 2] = f[k] \div 256
             /\ f[k] % 256 = (16 * (f[k + 1] % 16)) + (f[k] % 16)
  <2>1. f[k + 1] = f[k] \div 16 /\ f[(k + 1) + 1] = f[k + 1] \div 16 /\ (k + 1) + 1 = k + 2 /\ f[k] \in Nat
    BY <1>1, <1>3
  <2>2. \A x \in Nat : (x \div 16) \div 16 = x \div 256 /\ x % 256 = (16 * ((x \div 16) % 16)) + (x % 16)
    OBVIOUS
  <2> DEFINE x == f[k]
             y == f[k + 1]
             z == f[k + 2]
  <2>3. x \in Nat /\ y = x \div 16 /\ z = y \div 16
    BY ONLY <2>1, Zenon
  <2> HIDE DEF x, y, z
  <2>4. z = x \div 256 /\ x % 256 = (16 * (y % 16)) + (x % 16)
    BY ONLY <2>2, <2>3, Zenon
  <2>5. QED BY ONLY <2>4 DEF x, y, z
<1>6. QED BY <1>3, <1>4, <1>5 DEF f

\* The numbers the client writes have at most sixteen digits.
Short(n) == n \in Nat /\ Shifted(n)[MaxDigits] = 0

\* The least number of digits.
LEMMA DecimalFacts ==
    ASSUME NEW n, Short(n)
    PROVE  \E d \in 1..16 : /\ decimalToHex(n) = [i \in 1..d |-> Shifted(n)[d - i] % 16]
                            /\ Shifted(n)[d] = 0
                            /\ d > 1 => Shifted(n)[d - 1] # 0
<1> DEFINE f == Shifted(n)
           P(d) == f[d] = 0 /\ (d > 1 => f[d - 1] # 0)
           D == {d \in 1..16 : f[d] = 0}
           c == CHOOSE d \in 1..16 : P(d)
<1>1. 16 \in D
  BY DEF Short, MaxDigits
<1>2. PICK d \in D : \A e \in D : d <= e
  <2>1. D \in SUBSET Nat /\ D # {}
    BY <1>1
  <2> HIDE DEF D
  <2>2. QED BY <2>1, Smallest
<1>3. d \in 1..16 /\ P(d)
  <2>1. d > 1 => d - 1 \in 1..16 /\ ~(d <= d - 1)
    BY <1>2
  <2>2. QED BY <1>2, <2>1
<1>4. c \in 1..16 /\ P(c)
  <2> HIDE DEF P
  <2>1. QED BY <1>3
<1>5. decimalToHex(n) = [i \in 1..c |-> Shifted(n)[c - i] % 16]
  BY DEF decimalToHex, MaxDigits
<1>6. QED BY <1>4, <1>5

\* The bytes of a number, each of two of its digits.
LEMMA AsWordFacts ==
    ASSUME NEW n \in Nat
    PROVE  /\ AsWord(n) \in Word
           /\ \A i \in 1..32 : AsWord(n)[i] = Shifted(n)[2 * (32 - i)] % 256
           /\ \A j \in 1..64 : toHexString(AsWord(n))[j] = Shifted(n)[64 - j] % 16
<1> DEFINE f == Shifted(n)
           w == AsWord(n)
<1>1. \A k \in 0..64 : f[k] \in Nat
  BY ShiftedFacts
<1>2. \A k \in 0..62 : f[k] % 256 = (16 * (f[k + 1] % 16)) + (f[k] % 16)
  <2>1. \A k \in 0..62 : /\ Shifted(n)[k + 2] = Shifted(n)[k] \div 256
                        /\ Shifted(n)[k] % 256 = (16 * (Shifted(n)[k + 1] % 16)) + (Shifted(n)[k] % 16)
    BY ONLY n \in Nat, ShiftedFacts
  <2>2. QED BY ONLY <2>1
<1>3. w = [i \in 1..32 |-> f[2 * (32 - i)] % 256]
  BY DEF AsWord, WordBytes
<1> HIDE DEF f, w
<1>4. \A i \in 1..32 : w[i] = f[2 * (32 - i)] % 256 /\ w[i] \in Byte
  <2>1. \A i \in 1..32 : 2 * (32 - i) \in 0..64
    OBVIOUS
  <2>2. \A x \in Nat : x % 256 \in Byte
    BY DEF Byte
  <2>3. QED BY <1>1, <1>3, <2>1, <2>2
<1>5. w \in Word
  BY <1>3, <1>4 DEF Word, WordBytes
<1>6. w \in Seq(Byte) /\ Len(w) = 32
  BY <1>5, WordIsBytes
<1>7. ASSUME NEW i \in 1..32
      PROVE  toHexString(w)[2 * i - 1] = f[64 - (2 * i - 1)] % 16 /\ toHexString(w)[2 * i] = f[64 - 2 * i] % 16
  <2> DEFINE k == 2 * (32 - i)
  <2>1. k \in 0..62 /\ 64 - (2 * i - 1) = k + 1 /\ 64 - 2 * i = k /\ k + 1 \in 0..64
    OBVIOUS
  <2> HIDE DEF k
  <2>2. toHexString(w)[2 * i - 1] = w[i] \div 16 /\ toHexString(w)[2 * i] = w[i] % 16
    BY <1>6, HexDigits
  <2>3. w[i] = (16 * (f[k + 1] % 16)) + (f[k] % 16)
    BY <1>2, <1>4, <2>1 DEF k
  <2>4. f[k + 1] \in Nat /\ f[k] \in Nat
    BY <1>1, <2>1
  <2>5. \A x, y \in Nat : ((16 * (x % 16)) + (y % 16)) \div 16 = x % 16 /\ ((16 * (x % 16)) + (y % 16)) % 16 = y % 16
    OBVIOUS
  <2>6. QED BY <2>1, <2>2, <2>3, <2>4, <2>5
<1>8. ASSUME NEW j \in 1..64
      PROVE  toHexString(w)[j] = f[64 - j] % 16
  <2>1. (j + 1) \div 2 \in 1..32 /\ (j = 2 * ((j + 1) \div 2) - 1 \/ j = 2 * ((j + 1) \div 2))
    OBVIOUS
  <2>2. QED BY <1>7, <2>1
<1>9. QED BY <1>4, <1>5, <1>8 DEF f, w

\* A number that is padded is the text of its word.
LEMMA PaddedIs ==
    ASSUME NEW n, Short(n)
    PROVE  padded(n) = toHexString(AsWord(n))
<1> DEFINE f == Shifted(n)
           w == toHexString(AsWord(n))
           hex == decimalToHex(n)
<1>1. PICK d \in 1..16 : /\ hex = [i \in 1..d |-> f[d - i] % 16]
                         /\ f[d] = 0
  BY DecimalFacts
<1>2. /\ \A k \in 0..64 : f[k] \in Nat
      /\ \A e \in d..64 : f[e] = 0
  <2>1. n \in Nat /\ d \in 0..64
    BY DEF Short
  <2>2. \A k \in 0..64 : f[k] \in Nat
    BY <2>1, ShiftedFacts
  <2>3. \A e \in d..64 : f[d] = 0 => f[e] = 0
    BY <2>1, ShiftedFacts
  <2>4. QED BY <1>1, <2>2, <2>3
<1>3. w \in Seq(Digit) /\ Len(w) = 64 /\ \A j \in 1..64 : w[j] = f[64 - j] % 16
  <2>1. AsWord(n) \in Seq(Byte) /\ Len(AsWord(n)) = 32
    BY AsWordFacts, WordIsBytes DEF Short
  <2>2. w \in Seq(Digit) /\ Len(w) = 64
    <3>1. w \in Seq(Digit) /\ Len(w) = 2 * Len(AsWord(n))
      BY <2>1, HexDigits
    <3>2. QED BY <2>1, <3>1
  <2>3. \A j \in 1..64 : w[j] = f[64 - j] % 16
    <3>1. n \in Nat
      BY DEF Short
    <3>2. QED BY ONLY <3>1, AsWordFacts, Zenon
  <2>4. QED BY <2>2, <2>3
<1> HIDE DEF f, w, hex
<1>4. hex \in Seq(Digit) /\ Len(hex) = d
  <2>1. \A i \in 1..d : d - i \in 0..64
    OBVIOUS
  <2>2. \A x \in Nat : x % 16 \in Digit
    BY DEF Digit
  <2>3. \A i \in 1..d : f[d - i] % 16 \in Digit
    BY <1>2, <2>1, <2>2
  <2>4. QED BY <1>1, <2>3
<1> DEFINE zeros == [i \in 1..(64 - Len(hex)) |-> 0]
<1>5. zeros \in Seq(Digit) /\ Len(zeros) = 64 - d /\ \A i \in 1..(64 - d) : zeros[i] = 0
  BY <1>4 DEF Digit
<1>6. padTo32Bytes(hex) = zeros \o hex
  <2>1. ~HasPrefix(hex)
    <3>1. Len(hex) >= 2 => hex[2] \in Digit
      BY <1>4
    <3>2. QED BY <3>1 DEF HasPrefix, X, Digit
  <2>2. WithoutPrefix(hex) = hex /\ Len(hex) < 64
    BY <1>4, <2>1 DEF WithoutPrefix
  <2>3. QED BY <2>1, <2>2 DEF padTo32Bytes
<1> HIDE DEF zeros
<1>7. w = zeros \o hex
  <2>1. Len(w) = Len(zeros) + Len(hex)
    BY <1>3, <1>4, <1>5
  <2>2. ASSUME NEW i \in 1..Len(zeros) PROVE w[i] = zeros[i]
    <3>1. i \in 1..64 /\ i \in 1..(64 - d) /\ 64 - i \in d..64
      BY <1>5
    <3>0. f[64 - i] = 0
      BY <1>2, <3>1
    <3>2. w[i] = 0 % 16
      BY <1>3, <3>0, <3>1
    <3>3. QED BY <1>5, <3>1, <3>2
  <2>3. ASSUME NEW i \in 1..Len(hex) PROVE w[Len(zeros) + i] = hex[i]
    <3>1. Len(zeros) + i \in 1..64 /\ 64 - (Len(zeros) + i) = d - i /\ i \in 1..d
      BY <1>4, <1>5
    <3>0. \A j \in 1..64 : w[j] = f[64 - j] % 16
      BY <1>3
    <3>2. w[Len(zeros) + i] = f[64 - (Len(zeros) + i)] % 16
      BY ONLY <3>0, <3>1, Zenon
    <3>20. w[Len(zeros) + i] = f[d - i] % 16
      BY <3>1, <3>2, Zenon
    <3>3. QED BY <1>1, <3>1, <3>20
  <2>4. QED BY <1>3, <1>4, <1>5, <2>1, <2>2, <2>3, FollowIs, Zenon
<1>8. QED BY <1>6, <1>7 DEF padded, hex, w

\* One byte more.
Longer(high, byte) == IF high > (TooLarge - byte) \div 256 THEN TooLarge ELSE 256 * high + byte

\* The steps of NumberOf, unfolded.
LEMMA NumberUnfolds ==
    ASSUME NEW bytes, Len(bytes) \in Nat
    PROVE  \E f : /\ NumberOf(bytes) = f[Len(bytes)]
                  /\ f[0] = 0
                  /\ \A k \in 1..Len(bytes) : f[k] = Longer(f[k - 1], bytes[k])
<1> DEFINE N == Len(bytes)
           Body(g, k) == IF k = 0 THEN 0 ELSE Longer(g[k - 1], bytes[k])
           S == {k \in Nat : \E g : \A d \in 0..k : g[d] = Body(g, d)}
<1> HIDE DEF N
<1>n. N \in Nat /\ N = Len(bytes)
  BY DEF N
<1>1. 0 \in S
  <2>1. \A d \in 0..0 : [i \in 0..0 |-> 0][d] = Body([i \in 0..0 |-> 0], d)
    OBVIOUS
  <2>2. QED BY <2>1
<1>2. ASSUME NEW k \in Nat, k \in S
      PROVE  k + 1 \in S
  <2>1. PICK g : \A d \in 0..k : g[d] = Body(g, d)
    BY <1>2
  <2> DEFINE h == [d \in 0..(k + 1) |-> IF d <= k THEN g[d] ELSE Longer(g[k], bytes[(k + 1)])]
  <2>2. \A d \in 0..(k + 1) : h[d] = Body(h, d)
    BY <2>1
  <2> HIDE DEF h
  <2>3. QED BY <2>2
<1> HIDE DEF S
<1>3. N \in S
  BY <1>n, <1>1, <1>2, Induction
<1>4. PICK g : \A d \in 0..N : g[d] = Body(g, d)
  BY <1>3 DEF S
<1>5. [d \in 0..N |-> g[d]] = [d \in 0..N |-> Body([e \in 0..N |-> g[e]], d)]
  BY <1>n, <1>4
<1>6. \E f : f = [d \in 0..N |-> Body(f, d)]
  BY <1>5, Zenon
<1> DEFINE w == CHOOSE f : f = [d \in 0..Len(bytes) |-> Body(f, d)]
<1> HIDE DEF w
<1>7. w = [d \in 0..N |-> Body(w, d)]
  BY <1>6, <1>n, Zenon DEF w
<1>8. NumberOf(bytes) = w[Len(bytes)]
  BY Zenon DEF w, NumberOf, Longer
<1>9. w[0] = 0 /\ \A k \in 1..N : w[k] = Longer(w[k - 1], bytes[k])
  <2>1. \A d \in 0..N : w[d] = Body(w, d)
    BY <1>7
  <2>2. 0 \in 0..N /\ \A d \in 1..N : d \in 0..N /\ d # 0
    BY <1>n
  <2>3. QED BY <2>1, <2>2
<1>10. QED BY <1>n, <1>8, <1>9

\* Numbers are bounded, and the bound is above what the program writes of itself.
LEMMA BoundIs == TooLarge \in Nat /\ TooLarge > 30004000
BY ONLY NumbersAssumption, SMT

\* What a number is.
LEMMA NumbersAre ==
    /\ TooLarge \in Nat /\ TooLarge > 2000
    /\ \A n \in Numbers : n \in Nat /\ n < TooLarge
    /\ \A n \in Nat : n < TooLarge => n \in Numbers
BY ONLY BoundIs, SMT DEF Numbers

\* Lists are short enough for their calldata.
LEMMA IndexListsAre == \A list \in IndexLists : list \in Seq(Numbers) /\ 32 * (Len(list) + 32) < TooLarge
BY ONLY NumbersAssumption, SMT DEF WordBytes

\* Paths are short enough for their calldata.
LEMMA ProofsAre == \A path \in Proofs : path \in Seq(Word) /\ 32 * (Len(path) + 32) < TooLarge
BY ONLY NumbersAssumption, ShapesAssumption, SMT DEF WordBytes

\* Bytes are a number.
LEMMA NumberIsNat ==
    ASSUME NEW bytes \in Seq(Byte)
    PROVE  NumberOf(bytes) \in Nat
<1>0. Len(bytes) \in Nat /\ (\A k \in 1..Len(bytes) : bytes[k] \in Byte) /\ TooLarge \in Nat
  BY NumbersAre
<1>1. PICK f : /\ NumberOf(bytes) = f[Len(bytes)]
               /\ f[0] = 0
               /\ \A k \in 1..Len(bytes) : f[k] = Longer(f[k - 1], bytes[k])
  BY <1>0, NumberUnfolds
<1> DEFINE S == {k \in Nat : k <= Len(bytes) => f[k] \in Nat}
<1>2. 0 \in S
  BY <1>1
<1>3. ASSUME NEW k \in Nat, k \in S PROVE k + 1 \in S
  <2>1. SUFFICES ASSUME k + 1 <= Len(bytes) PROVE f[k + 1] \in Nat
    OBVIOUS
  <2>2. k + 1 \in 1..Len(bytes) /\ (k + 1) - 1 = k /\ f[k] \in Nat
    BY <1>0, <1>3, <2>1
  <2>3. f[k + 1] = Longer(f[k], bytes[k + 1])
    BY <1>1, <2>2
  <2>4. bytes[k + 1] \in Nat
    <3>1. bytes[k + 1] \in Byte
      BY <1>0, <2>2
    <3>2. \A x \in Byte : x \in Nat
      BY DEF Byte
    <3>3. QED BY <3>1, <3>2
  <2>5. QED BY <1>0, <2>2, <2>3, <2>4 DEF Longer
<1> HIDE DEF S
<1>4. Len(bytes) \in S
  BY <1>0, <1>2, <1>3, Induction
<1>5. QED BY <1>1, <1>4 DEF S

\* Two digits are a byte.
LEMMA ShiftedTwice == \A n \in Nat : \A k \in 0..62 : Shifted(n)[k + 2] = Shifted(n)[k] \div 256
BY ShiftedFacts

\* Bytes of two digits each are read as the number they were made of.
LEMMA NumberIs ==
    ASSUME NEW n \in Numbers, NEW bytes, Len(bytes) \in 0..32,
           Shifted(n)[2 * Len(bytes)] = 0,
           \A i \in 1..Len(bytes) : bytes[i] = Shifted(n)[2 * (Len(bytes) - i)] % 256
    PROVE  NumberOf(bytes) = n
<1> DEFINE L == Len(bytes)
           s == Shifted(n)
<1>0. n \in Nat /\ n < TooLarge /\ TooLarge \in Nat /\ L \in 0..32
  <2>1. n \in Nat /\ n < TooLarge /\ TooLarge \in Nat
    BY ONLY n \in Numbers, NumbersAre, SMT
  <2>2. QED BY <2>1, Zenon
<1>1. s[0] = n /\ (\A k \in 0..64 : s[k] \in Nat /\ s[k] <= n)
  BY ONLY <1>0, ShiftedLaw, ShiftedFacts
<1>2. \A k \in 0..62 : s[k + 2] = s[k] \div 256
  BY ONLY <1>0, ShiftedTwice
<1>3. PICK f : /\ NumberOf(bytes) = f[Len(bytes)]
               /\ f[0] = 0
               /\ \A k \in 1..Len(bytes) : f[k] = Longer(f[k - 1], bytes[k])
  <2>1. Len(bytes) \in Nat
    OBVIOUS
  <2>2. QED BY <2>1, NumberUnfolds
<1>4. s[2 * L] = 0 /\ \A i \in 1..L : bytes[i] = s[2 * (L - i)] % 256
  OBVIOUS
<1> DEFINE S == {k \in Nat : k <= L => f[k] = s[2 * (L - k)]}
<1> HIDE DEF s, L
<1>5. 0 \in S
  <2>1. 2 * (L - 0) = 2 * L
    BY <1>0
  <2>2. QED BY <1>3, <1>4, <2>1
<1>6. ASSUME NEW k \in Nat, k \in S PROVE k + 1 \in S
  <2>1. SUFFICES ASSUME k + 1 <= L PROVE f[k + 1] = s[2 * (L - (k + 1))]
    OBVIOUS
  <2> DEFINE m == 2 * (L - (k + 1))
  <2>2. k + 1 \in 1..L /\ (k + 1) - 1 = k /\ f[k] = s[2 * (L - k)] /\ m \in 0..62 /\ 2 * (L - k) = m + 2
    BY <1>0, <1>6, <2>1
  <2>3. f[k + 1] = Longer(f[k], bytes[k + 1])
    BY <1>3, <2>2 DEF L
  <2>4. bytes[k + 1] = s[m] % 256
    BY <1>4, <2>2
  <2> HIDE DEF m
  <2>5. f[k] = s[m] \div 256 /\ s[m] \in Nat /\ s[m] <= n
    <3>1. m + 2 \in 0..64 /\ m \in 0..64
      BY <2>2
    <3>2. s[m + 2] = s[m] \div 256 /\ f[k] = s[m + 2]
      BY <1>2, <2>2, Zenon
    <3>3. s[m] \in Nat /\ s[m] <= n
      BY <1>1, <3>1
    <3>4. QED BY <3>2, <3>3
  <2>6. \A x \in Nat : x <= n => Longer(x \div 256, x % 256) = x
    <3>1. SUFFICES ASSUME NEW x \in Nat, x <= n PROVE Longer(x \div 256, x % 256) = x
      OBVIOUS
    <3>2. 256 * (x \div 256) + (x % 256) = x /\ ~(x \div 256 > (TooLarge - (x % 256)) \div 256)
      BY <1>0, <3>1
    <3>3. QED BY <3>2 DEF Longer
  <2>7. f[k + 1] = s[m]
    BY <2>3, <2>4, <2>5, <2>6
  <2>8. QED BY <2>7 DEF m
<1> HIDE DEF S
<1>7. L \in S
  <2>1. Nat \subseteq S
    BY <1>5, <1>6, Induction
  <2>2. QED BY <1>0, <2>1
<1>8. f[L] = s[2 * (L - L)] /\ 2 * (L - L) = 0
  BY <1>0, <1>7 DEF S
<1>9. QED BY <1>1, <1>3, <1>8 DEF L

\* The digits of bytes are those of a number.
IsNumber(bytes, n) ==
    /\ Len(bytes) \in 0..32 /\ Shifted(n)[2 * Len(bytes)] = 0
    /\ \A i \in 1..Len(bytes) : bytes[i] = Shifted(n)[2 * (Len(bytes) - i)] % 256

\* Such bytes are read as the number.
LEMMA NumberRead == \A n \in Numbers : \A bytes : IsNumber(bytes, n) => NumberOf(bytes) = n
BY NumberIs DEF IsNumber

\* The numbers of a transaction are short.
LEMMA NumbersAreShort == \A n \in Numbers : Short(n)
<1> SUFFICES ASSUME NEW n \in Numbers PROVE Short(n)
  OBVIOUS
<1> DEFINE s == Shifted(n)
           t == Shifted(TooLarge)
           S == {k \in Nat : k <= 16 => s[k] <= t[k]}
<1>1. n \in Nat /\ n < TooLarge /\ TooLarge \in Nat /\ t[16] = 0
  <2>1. n \in Nat /\ n < TooLarge /\ TooLarge \in Nat
    BY ONLY n \in Numbers, NumbersAre, SMT
  <2>2. Shifted(TooLarge)[16] = 0
    BY ONLY NumbersAssumption, SMT DEF MaxDigits
  <2>3. QED BY ONLY <2>1, <2>2, Zenon
<1>2. /\ s[0] = n /\ \A k \in 0..63 : s[k + 1] = s[k] \div 16
      /\ t[0] = TooLarge /\ \A k \in 0..63 : t[k + 1] = t[k] \div 16
  BY ShiftedLaw
<1>3. (\A k \in 0..64 : s[k] \in Nat) /\ (\A k \in 0..64 : t[k] \in Nat)
  BY <1>1, ShiftedFacts
<1> HIDE DEF s, t
<1>4. 0 \in S
  BY <1>1, <1>2
<1>5. ASSUME NEW k \in Nat, k \in S PROVE k + 1 \in S
  <2>1. SUFFICES ASSUME k + 1 <= 16 PROVE s[k + 1] <= t[k + 1]
    OBVIOUS
  <2>2. k \in 0..63 /\ k \in 0..64 /\ s[k] <= t[k]
    BY <1>5, <2>1
  <2>3. s[k + 1] = s[k] \div 16 /\ t[k + 1] = t[k] \div 16 /\ s[k] \in Nat /\ t[k] \in Nat
    BY <1>2, <1>3, <2>2
  <2>4. QED BY <2>2, <2>3
<1> HIDE DEF S
<1>6. Nat \subseteq S
  BY <1>4, <1>5, Induction
<1>7. s[16] <= t[16] /\ s[16] \in Nat
  <2>1. 16 \in S /\ 16 \in 0..64
    BY <1>6
  <2>2. QED BY <1>3, <2>1 DEF S
<1>8. QED BY <1>1, <1>7 DEF Short, MaxDigits, s

\* A word is read as the number that was written.
LEMMA WordNumber ==
    ASSUME NEW n \in Numbers
    PROVE  NumberOf(AsWord(n)) = n
<1>1. n \in Nat /\ Short(n)
  BY NumbersAreShort DEF Short
<1>2. Shifted(n)[64] = 0
  <2>1. \A k \in 0..64 : \A e \in k..64 : Shifted(n)[k] = 0 => Shifted(n)[e] = 0
    BY <1>1, ShiftedFacts
  <2>2. Shifted(n)[16] = 0
    BY <1>1 DEF Short, MaxDigits
  <2>3. QED BY <2>1, <2>2
<1>3. AsWord(n) \in Word /\ Len(AsWord(n)) = 32
  BY <1>1, AsWordFacts, WordIsBytes
<1>4. \A i \in 1..32 : AsWord(n)[i] = Shifted(n)[2 * (32 - i)] % 256
  BY <1>1, AsWordFacts
<1> DEFINE w == AsWord(n)
<1> HIDE DEF w
<1>5. Len(w) \in 0..32 /\ Shifted(n)[2 * Len(w)] = 0
  BY <1>2, <1>3 DEF w
<1>6. \A i \in 1..Len(w) : w[i] = Shifted(n)[2 * (Len(w) - i)] % 256
  BY <1>3, <1>4 DEF w
<1>7. NumberOf(w) = n
  <2>1. IsNumber(w, n)
    BY ONLY <1>5, <1>6, Zenon DEF IsNumber
  <2>2. QED BY ONLY <2>1, n \in Numbers, NumberRead, Zenon
<1>8. QED BY <1>7 DEF w

\* The bytes of a number of a transaction: at most eight, and the first is not zero.
LEMMA IntToBytesIs ==
    ASSUME NEW n \in Numbers
    PROVE  /\ intToBytes(n) \in Seq(Byte) /\ Len(intToBytes(n)) \in 0..8
           /\ NumberOf(intToBytes(n)) = n
           /\ n # 0 => Len(intToBytes(n)) # 0
           /\ Len(intToBytes(n)) # 0 => intToBytes(n)[1] # 0
<1> DEFINE s == Shifted(n)
           b == intToBytes(n)
           hex == decimalToHex(n)
           even == IF Len(hex) % 2 = 1 THEN <<0>> \o hex ELSE hex
<1>1. n \in Nat /\ Short(n)
  BY NumbersAreShort DEF Short
<1>2. /\ s[0] = n
      /\ \A k \in 0..64 : s[k] \in Nat
      /\ \A k \in 0..64 : \A e \in k..64 : s[k] = 0 => s[e] = 0
      /\ \A k \in 0..62 : /\ s[k + 2] = s[k] \div 256
                          /\ s[k] % 256 = (16 * (s[k + 1] % 16)) + (s[k] % 16)
  <2>1. s[0] = n
    BY ShiftedLaw
  <2>2. \A k \in 0..64 : s[k] \in Nat
    BY <1>1, ShiftedFacts
  <2>3. \A k \in 0..64 : \A e \in k..64 : s[k] = 0 => s[e] = 0
    BY <1>1, ShiftedFacts
  <2>4. \A k \in 0..62 : /\ Shifted(n)[k + 2] = Shifted(n)[k] \div 256
                        /\ Shifted(n)[k] % 256 = (16 * (Shifted(n)[k + 1] % 16)) + (Shifted(n)[k] % 16)
    BY ONLY <1>1, ShiftedFacts
  <2> HIDE DEF s
  <2>5. \A k \in 0..62 : /\ s[k + 2] = s[k] \div 256
                        /\ s[k] % 256 = (16 * (s[k + 1] % 16)) + (s[k] % 16)
    BY ONLY <2>4 DEF s
  <2>6. QED BY <2>1, <2>2, <2>3, <2>5
<1>3. CASE n = 0
  <2>1. b = <<>>
    BY <1>3 DEF intToBytes
  <2>2. Len(<<>>) = 0 /\ <<>> \in Seq(Byte)
    OBVIOUS
  <2> HIDE DEF b, s
  <2>3. Len(b) = 0 /\ b \in Seq(Byte) /\ s[2 * Len(b)] = 0
    BY <1>2, <1>3, <2>1, <2>2
  <2>4. Len(b) \in 0..32 /\ \A i \in 1..Len(b) : b[i] = s[2 * (Len(b) - i)] % 256
    BY <2>3
  <2>5. NumberOf(b) = n
    BY <2>3, <2>4, NumberIs DEF s
  <2>6. QED BY <1>3, <2>3, <2>5 DEF b
<1>4. CASE n # 0
  <2>1. PICK d \in 1..16 : /\ hex = [i \in 1..d |-> s[d - i] % 16]
                           /\ s[d] = 0
                           /\ d > 1 => s[d - 1] # 0
    BY <1>1, DecimalFacts
  <2> DEFINE L == (d + 1) \div 2
  <2>2. L \in 1..8 /\ (d % 2 = 1 => 2 * L = d + 1) /\ (d % 2 # 1 => 2 * L = d) /\ d >= 2 * L - 1
    OBVIOUS
  <2> HIDE DEF s, b, hex, L
  <2>3. hex \in Seq(Digit) /\ Len(hex) = d /\ \A i \in 1..d : hex[i] = s[d - i] % 16
    <3>1. \A i \in 1..d : d - i \in 0..64
      OBVIOUS
    <3>2. \A x \in Nat : x % 16 \in Digit
      BY DEF Digit
    <3>3. \A i \in 1..d : s[d - i] % 16 \in Digit
      <4>1. \A i \in 1..d : s[d - i] \in Nat
        BY ONLY <1>2, <3>1, Zenon
      <4>2. QED BY ONLY <3>2, <4>1, Zenon
    <3>4. QED BY <2>1, <3>3
  <2>4. even \in Seq(Digit) /\ Len(even) = 2 * L /\ \A i \in 1..(2 * L) : even[i] = s[2 * L - i] % 16
    <3>1. CASE d % 2 = 1
      <4>1. even = <<0>> \o hex
        BY <2>3, <3>1
      <4>2. <<0>> \in Seq(Digit) /\ Len(<<0>>) = 1 /\ <<0>>[1] = 0
        BY DEF Digit
      <4>3. even \in Seq(Digit) /\ Len(even) = 1 + d /\ (\A i \in 1..1 : even[i] = 0) /\ \A i \in 1..d : even[1 + i] = hex[i]
        <5> DEFINE e == <<0>> \o hex
        <5>1. /\ e \in Seq(Digit) /\ Len(e) = Len(<<0>>) + Len(hex)
              /\ \A i \in 1..Len(<<0>>) : e[i] = <<0>>[i]
              /\ \A i \in 1..Len(hex) : e[Len(<<0>>) + i] = hex[i]
          <6>1. \A s1, t1 \in Seq(Digit) : 
                    /\ s1 \o t1 \in Seq(Digit) /\ Len(s1 \o t1) = Len(s1) + Len(t1)
                    /\ \A i \in 1..Len(s1) : (s1 \o t1)[i] = s1[i]
                    /\ \A i \in 1..Len(t1) : (s1 \o t1)[Len(s1) + i] = t1[i]
            BY Follow
          <6>2. <<0>> \in Seq(Digit) /\ hex \in Seq(Digit)
            BY <2>3, <4>2
          <6>3. QED BY <6>1, <6>2, Zenon
        <5>2. even = e
          BY <4>1
        <5> HIDE DEF even, e
        <5>3. e \in Seq(Digit) /\ Len(e) = 1 + d /\ e[1] = 0
          BY <2>3, <4>2, <5>1
        <5>4. \A i \in 1..d : e[1 + i] = hex[i]
          BY <2>3, <4>2, <5>1
        <5>5. QED BY <5>2, <5>3, <5>4
      <4> HIDE DEF even
      <4>4. ASSUME NEW i \in 1..(2 * L)
            PROVE  even[i] = s[2 * L - i] % 16
        <5>1. CASE i = 1
          <6>1. 2 * L - i = d
            BY <2>2, <3>1, <5>1
          <6>2. s[2 * L - i] = 0 /\ even[i] = 0
            BY <2>1, <4>3, <5>1, <6>1
          <6>3. QED BY <6>2
        <5>2. CASE i # 1
          <6>1. i - 1 \in 1..d /\ 1 + (i - 1) = i /\ d - (i - 1) = 2 * L - i
            BY <2>2, <3>1, <5>2
          <6>2. even[i] = hex[i - 1] /\ hex[i - 1] = s[d - (i - 1)] % 16
            BY <2>3, <4>3, <6>1
          <6>3. QED BY <6>1, <6>2
        <5>3. QED BY <5>1, <5>2
      <4>5. QED BY <2>2, <3>1, <4>3, <4>4
    <3>2. CASE d % 2 # 1
      <4>1. even = hex
        BY <2>3, <3>2
      <4>2. QED BY <2>2, <2>3, <3>2, <4>1
    <3>3. QED BY <3>1, <3>2
  <2>5. b = fromHexString(even)
    BY <1>4 DEF b, hex, intToBytes
  <2> HIDE DEF even
  <2>6. b = [i \in 1..L |-> 16 * even[2 * i - 1] + even[2 * i]] /\ b \in Seq(Byte)
    <3>1. L \in Nat
      BY <2>2
    <3>2. QED BY <2>4, <2>5, <3>1, BytesOfDigits, Zenon
  <2>7. ASSUME NEW i \in 1..L PROVE b[i] = s[2 * (L - i)] % 256
    <3> DEFINE k == 2 * (L - i)
    <3>1. 2 * i - 1 \in 1..(2 * L) /\ 2 * i \in 1..(2 * L) /\ 2 * L - (2 * i - 1) = k + 1 /\ 2 * L - 2 * i = k /\ k \in 0..62
      BY <2>2
    <3> HIDE DEF k
    <3>2. even[2 * i - 1] = s[k + 1] % 16 /\ even[2 * i] = s[k] % 16
      BY <2>4, <3>1
    <3>3. b[i] = (16 * even[2 * i - 1]) + even[2 * i]
      BY <2>6
    <3>4. s[k] % 256 = (16 * (s[k + 1] % 16)) + (s[k] % 16)
      BY <1>2, <3>1
    <3>5. QED BY <3>2, <3>3, <3>4 DEF k
  <2>8. Len(b) = L
    BY <2>2, <2>6
  <2>9. s[2 * L] = 0
    <3>1. \A k \in 0..64 : \A e \in k..64 : s[k] = 0 => s[e] = 0
      BY <1>2
    <3>2. d \in 0..64 /\ 2 * L \in d..64
      BY <2>2
    <3>3. QED BY ONLY <2>1, <3>1, <3>2, Zenon
  <2>10. NumberOf(b) = n
    <3>1. Len(b) \in 0..32 /\ s[2 * Len(b)] = 0 /\ \A i \in 1..Len(b) : b[i] = s[2 * (Len(b) - i)] % 256
      BY <2>2, <2>7, <2>8, <2>9
    <3>2. IsNumber(b, n)
      BY ONLY <3>1, Zenon DEF s, IsNumber
    <3>3. QED BY ONLY <3>2, n \in Numbers, NumberRead, Zenon
  <2>11. b[1] # 0
    <3>1. 1 \in 1..L /\ 2 * (L - 1) \in 0..62 /\ 2 * (L - 1) + 2 = 2 * L /\ d - 1 \in 2 * (L - 1)..64
      BY <2>2
    <3>2. b[1] = s[2 * (L - 1)] % 256 /\ s[2 * (L - 1)] \div 256 = 0 /\ s[2 * (L - 1)] \in Nat
      <4>1. s[2 * (L - 1) + 2] = s[2 * (L - 1)] \div 256
        BY <1>2, <3>1
      <4>2. 2 * (L - 1) \in 0..64
        BY <3>1
      <4>3. QED BY <1>2, <2>7, <2>9, <3>1, <4>1, <4>2
    <3>3. s[2 * (L - 1)] # 0
      <4>1. SUFFICES ASSUME s[2 * (L - 1)] = 0 PROVE FALSE
        OBVIOUS
      <4>2. s[d - 1] = 0
        <5>1. \A k \in 0..64 : \A e \in k..64 : s[k] = 0 => s[e] = 0
          BY <1>2
        <5>2. 2 * (L - 1) \in 0..64
          BY <3>1
        <5>3. QED BY ONLY <3>1, <4>1, <5>1, <5>2, Zenon
      <4>3. d = 1
        BY <2>1, <4>2
      <4>4. QED BY <1>2, <1>4, <4>2, <4>3
    <3>4. QED BY <3>2, <3>3
  <2>12. QED BY <1>4, <2>2, <2>6, <2>8, <2>10, <2>11 DEF b
<1>5. QED BY <1>3, <1>4

-----------------------------------------------------------------------------
\* Sequences of sequences, one after the other.

\* The recursive definition of FlattenSeq, unfolded.
LEMMA FlattenUnfolds ==
    ASSUME NEW seqs, Len(seqs) \in Nat, Len(seqs) # 0
    PROVE  \E f : /\ FlattenSeq(seqs) = f[Len(seqs)]
                  /\ f[1] = seqs[1]
                  /\ \A k \in 2..Len(seqs) : f[k] = f[k - 1] \o seqs[k]
<1> DEFINE N == Len(seqs)
           Body(g, k) == IF k = 1 THEN seqs[k] ELSE g[k - 1] \o seqs[k]
           S == {k \in Nat : \E g : \A d \in 1..k : g[d] = Body(g, d)}
<1> HIDE DEF N
<1>n. N \in Nat /\ N = Len(seqs) /\ N # 0
  BY DEF N
<1>1. 0 \in S
  <2>1. \A d \in 1..0 : <<>>[d] = Body(<<>>, d)
    OBVIOUS
  <2>2. QED BY <2>1
<1>2. ASSUME NEW k \in Nat, k \in S
      PROVE  k + 1 \in S
  <2>1. PICK g : \A d \in 1..k : g[d] = Body(g, d)
    BY <1>2
  <2> DEFINE new == IF k = 0 THEN seqs[1] ELSE g[k] \o seqs[k + 1]
             h == [d \in 1..(k + 1) |-> IF d <= k THEN g[d] ELSE new]
  <2>2. ASSUME NEW d \in 1..(k + 1) PROVE h[d] = Body(h, d)
    <3> DEFINE fresh == new
    <3>0. fresh = new
      OBVIOUS
    <3>1. CASE d <= k
      <4> HIDE DEF new
      <4>1. d \in 1..k /\ h[d] = g[d] /\ (d # 1 => d - 1 \in 1..(k + 1) /\ h[d - 1] = g[d - 1])
        BY <3>1
      <4> HIDE DEF h
      <4>2. g[d] = (IF d = 1 THEN seqs[d] ELSE g[d - 1] \o seqs[d])
        BY <2>1, <4>1
      <4>3. QED BY <4>1, <4>2, Zenon
    <3>2. CASE d = k + 1
      <4>1. h[d] = fresh
        <5> HIDE DEF new
        <5>1. QED BY <3>2
      <4>2. k # 0 => h[d - 1] = g[k] /\ d - 1 = k
        <5> HIDE DEF new
        <5>1. QED BY <3>2
      <4> HIDE DEF h
      <4>3. (d = 1) = (k = 0)
        BY <3>2
      <4>4. QED BY <3>2, <4>1, <4>2, <4>3, Zenon
    <3>3. QED BY <3>1, <3>2
  <2> HIDE DEF h, new
  <2>3. QED BY <2>2
<1> HIDE DEF S
<1>3. N \in S
  BY <1>n, <1>1, <1>2, Induction
<1>4. PICK g : \A d \in 1..N : g[d] = Body(g, d)
  BY <1>3 DEF S
<1>5. [d \in 1..N |-> g[d]] = [d \in 1..N |-> Body([e \in 1..N |-> g[e]], d)]
  <2> DEFINE w == [e \in 1..N |-> g[e]]
  <2>1. ASSUME NEW d \in 1..N PROVE g[d] = Body(w, d)
    <3>1. d # 1 => d - 1 \in 1..N
      BY <1>n
    <3>2. d # 1 => w[d - 1] = g[d - 1]
      BY <3>1
    <3> HIDE DEF w
    <3>3. QED BY <1>4, <3>2, Zenon
  <2> HIDE DEF Body
  <2>2. QED BY <2>1
<1>6. \E f : f = [d \in 1..N |-> Body(f, d)]
  BY <1>5, Zenon
<1> DEFINE w == CHOOSE f : f = [d \in 1..Len(seqs) |-> Body(f, d)]
<1> HIDE DEF w
<1>7. w = [d \in 1..N |-> Body(w, d)]
  BY <1>6, <1>n, Zenon DEF w
<1>8. FlattenSeq(seqs) = w[Len(seqs)]
  BY <1>n, Zenon DEF w, FlattenSeq
<1>9. w[1] = seqs[1] /\ \A k \in 2..N : w[k] = w[k - 1] \o seqs[k]
  <2>1. \A d \in 1..N : w[d] = Body(w, d)
    BY <1>7, Zenon
  <2>2. 1 \in 1..N /\ \A d \in 2..N : d \in 1..N /\ d # 1
    BY <1>n
  <2>3. QED BY <2>1, <2>2, Zenon
<1>10. QED BY <1>n, <1>8, <1>9

\* Where each of the sequences lies.
Places(flat, seqs, pos, S) ==
    /\ flat \in Seq(S) /\ Len(flat) = pos[Len(seqs)]
    /\ pos[0] = 0 /\ \A k \in 0..Len(seqs) : pos[k] \in Nat /\ pos[k] <= Len(flat)
    /\ \A k \in 1..Len(seqs) : pos[k] = pos[k - 1] + Len(seqs[k])
    /\ \A k \in 1..Len(seqs) : \A i \in 1..Len(seqs[k]) : flat[pos[k - 1] + i] = seqs[k][i]

\* Every sequence of a flattened one has a place, after those before it.
LEMMA FlattenPlaces ==
    ASSUME NEW S, NEW seqs \in Seq(Seq(S))
    PROVE  \E pos : Places(FlattenSeq(seqs), seqs, pos, S)
<1> DEFINE N == Len(seqs)
<1>0. N \in Nat /\ \A k \in 1..N : seqs[k] \in Seq(S) /\ Len(seqs[k]) \in Nat
  OBVIOUS
<1>1. CASE N = 0
  <2>1. FlattenSeq(seqs) = seqs /\ seqs = <<>>
    BY <1>1 DEF FlattenSeq
  <2> DEFINE pos == [k \in 0..0 |-> 0]
  <2>2. Len(<<>>) = 0 /\ <<>> \in Seq(S) /\ pos[0] = 0
    OBVIOUS
  <2> HIDE DEF pos
  <2>3. Places(<<>>, <<>>, pos, S)
    BY <2>2 DEF Places
  <2>4. QED BY <2>1, <2>3
<1>2. CASE N # 0
  <2>1. PICK f : /\ FlattenSeq(seqs) = f[N]
                 /\ f[1] = seqs[1]
                 /\ \A k \in 2..N : f[k] = f[k - 1] \o seqs[k]
    BY <1>0, <1>2, FlattenUnfolds
  <2> DEFINE T == {k \in Nat : k + 1 <= N => f[k + 1] \in Seq(S)}
  <2>2. Nat \subseteq T
    <3>1. 0 \in T
      BY <1>0, <2>1
    <3>2. ASSUME NEW k \in Nat, k \in T PROVE k + 1 \in T
      <4>1. SUFFICES ASSUME (k + 1) + 1 <= N PROVE f[(k + 1) + 1] \in Seq(S)
        OBVIOUS
      <4>2. f[k + 1] \in Seq(S) /\ (k + 1) + 1 \in 2..N /\ ((k + 1) + 1) - 1 = k + 1 /\ (k + 1) + 1 \in 1..N
        BY <1>0, <3>2, <4>1
      <4>3. f[(k + 1) + 1] = f[k + 1] \o seqs[(k + 1) + 1] /\ seqs[(k + 1) + 1] \in Seq(S)
        BY <1>0, <2>1, <4>2
      <4>4. \A s, t \in Seq(S) : s \o t \in Seq(S)
        OBVIOUS
      <4>5. QED BY <4>2, <4>3, <4>4, Zenon
    <3> HIDE DEF T
    <3>3. QED BY <3>1, <3>2, Induction
  <2>3. ASSUME NEW k \in 1..N PROVE f[k] \in Seq(S) /\ Len(f[k]) \in Nat
    <3>1. k - 1 \in Nat /\ (k - 1) + 1 = k
      OBVIOUS
    <3> HIDE DEF T
    <3>2. k - 1 \in T
      BY ONLY <2>2, <3>1
    <3> USE DEF T
    <3>3. f[(k - 1) + 1] \in Seq(S)
      BY ONLY <1>0, <3>1, <3>2
    <3>4. f[k] \in Seq(S)
      BY ONLY <3>1, <3>3, Zenon
    <3>5. QED BY <3>4
  <2> HIDE DEF T
  <2> DEFINE pos == [k \in 0..N |-> IF k = 0 THEN 0 ELSE Len(f[k])]
  <2>4. /\ pos[0] = 0 /\ (\A k \in 0..N : pos[k] \in Nat) /\ \A k \in 1..N : pos[k] = Len(f[k])
    BY <1>0, <2>3
  <2> HIDE DEF pos
  <2>5. ASSUME NEW k \in 2..N
        PROVE  /\ Len(f[k]) = Len(f[k - 1]) + Len(seqs[k])
               /\ \A i \in 1..Len(f[k - 1]) : f[k][i] = f[k - 1][i]
               /\ \A i \in 1..Len(seqs[k]) : f[k][Len(f[k - 1]) + i] = seqs[k][i]
    <3> DEFINE s == f[k - 1]
               t == seqs[k]
    <3>0. k - 1 \in 1..N /\ k \in 1..N
      OBVIOUS
    <3>1. f[k] = s \o t /\ s \in Seq(S) /\ t \in Seq(S)
      BY <1>0, <2>1, <2>3, <3>0, Zenon
    <3> HIDE DEF s, t
    <3>2. /\ Len(s \o t) = Len(s) + Len(t)
          /\ \A i \in 1..Len(s) : (s \o t)[i] = s[i]
          /\ \A i \in 1..Len(t) : (s \o t)[Len(s) + i] = t[i]
      BY <3>1, Follow
    <3>3. QED BY <3>1, <3>2, Zenon DEF s, t
  <2>6. \A k \in 1..N : pos[k] = pos[k - 1] + Len(seqs[k])
    <3>1. ASSUME NEW k \in 1..N PROVE pos[k] = pos[k - 1] + Len(seqs[k])
      <4>1. CASE k = 1
        BY <1>0, <2>1, <2>4, <4>1
      <4>2. CASE k # 1
        <5>1. k \in 2..N /\ k - 1 \in 1..N
          BY <4>2
        <5>2. QED BY <2>4, <2>5, <5>1
      <4>3. QED BY <4>1, <4>2
    <3>2. QED BY <3>1
  <2> DEFINE Q(k) == \A j \in 1..k : /\ pos[j] <= pos[k]
                                     /\ \A i \in 1..Len(seqs[j]) : f[k][pos[j - 1] + i] = seqs[j][i]
             U == {k \in Nat : k + 1 <= N => Q(k + 1)}
  <2>7. Nat \subseteq U
    <3>1. 0 \in U
      <4>1. Q(1)
        <5>1. ASSUME NEW j \in 1..1 PROVE /\ pos[j] <= pos[1]
                                          /\ \A i \in 1..Len(seqs[j]) : f[1][pos[j - 1] + i] = seqs[j][i]
          <6>1. j = 1 /\ pos[1] \in Nat /\ pos[1 - 1] = 0 /\ Len(seqs[1]) \in Nat
            BY <1>0, <1>2, <2>4
          <6>2. QED BY <2>1, <6>1
        <5>2. QED BY <5>1
      <4>2. QED BY <4>1
    <3>2. ASSUME NEW k \in Nat, k \in U PROVE k + 1 \in U
      <4>1. SUFFICES ASSUME (k + 1) + 1 <= N PROVE Q((k + 1) + 1)
        OBVIOUS
      <4> DEFINE m == (k + 1) + 1
      <4>2. m \in 2..N /\ m - 1 = k + 1 /\ m - 1 \in 1..N /\ m \in 1..N /\ Q(m - 1)
        BY <1>0, <3>2, <4>1
      <4> HIDE DEF m
      <4>3. pos[m] = pos[m - 1] + Len(seqs[m]) /\ pos[m - 1] = Len(f[m - 1]) /\ pos[m - 1] \in Nat /\ Len(seqs[m]) \in Nat
        BY <1>0, <2>4, <2>6, <4>2
      <4>4. ASSUME NEW j \in 1..m
            PROVE  /\ pos[j] <= pos[m]
                   /\ \A i \in 1..Len(seqs[j]) : f[m][pos[j - 1] + i] = seqs[j][i]
        <5>1. CASE j = m
          <6>1. \A i \in 1..Len(seqs[m]) : f[m][Len(f[m - 1]) + i] = seqs[m][i]
            BY <2>5, <4>2
          <6>2. pos[m] \in Nat /\ \A x \in Nat : x <= x
            BY <2>4, <4>2
          <6>3. pos[m] <= pos[m]
            BY <6>2, Zenon
          <6>4. \A i \in 1..Len(seqs[m]) : f[m][pos[m - 1] + i] = seqs[m][i]
            BY <4>3, <6>1, Zenon
          <6>5. QED BY <5>1, <6>3, <6>4, Zenon
        <5>2. CASE j # m
          <6>1. j \in 1..(m - 1) /\ j \in 1..N /\ j - 1 \in 0..N /\ j \in 0..N
            BY <4>2, <5>2
          <6>2. pos[j] <= pos[m - 1] /\ \A i \in 1..Len(seqs[j]) : f[m - 1][pos[j - 1] + i] = seqs[j][i]
            BY <4>2, <6>1
          <6>3. pos[j] \in Nat /\ pos[j - 1] \in Nat /\ pos[j] = pos[j - 1] + Len(seqs[j]) /\ Len(seqs[j]) \in Nat
            BY <1>0, <2>4, <2>6, <6>1
          <6>4. ASSUME NEW i \in 1..Len(seqs[j]) PROVE f[m][pos[j - 1] + i] = seqs[j][i]
            <7> DEFINE p == pos[j - 1]
                       q == pos[j]
                       r == pos[m - 1]
                       l == Len(seqs[j])
            <7>4. p \in Nat /\ q \in Nat /\ r \in Nat /\ l \in Nat /\ q = p + l /\ q <= r /\ i \in 1..l
              BY ONLY <4>3, <6>2, <6>3, i \in 1..Len(seqs[j])
            <7>5. Len(f[m - 1]) = r
              BY ONLY <4>3
            <7> HIDE DEF p, q, r, l
            <7>6. p + i \in 1..r
              BY ONLY <7>4
            <7>7. p + i \in 1..Len(f[m - 1])
              BY ONLY <7>5, <7>6, Zenon
            <7>1. pos[j - 1] + i \in 1..Len(f[m - 1])
              BY ONLY <7>7 DEF p
            <7>2. f[m][pos[j - 1] + i] = f[m - 1][pos[j - 1] + i]
              BY <2>5, <4>2, <7>1
            <7>3. QED BY <6>2, <7>2
          <6>5. pos[j] <= pos[m]
            <7>1. \A x, y, z, w \in Nat : x <= y /\ w = y + z => x <= w
              OBVIOUS
            <7>2. pos[m] \in Nat
              BY <2>4, <4>2
            <7>3. QED BY ONLY <4>3, <6>2, <6>3, <7>1, <7>2
          <6>6. QED BY <6>4, <6>5
        <5>3. QED BY <5>1, <5>2
      <4>5. QED BY <4>4 DEF m
    <3> HIDE DEF U
    <3>3. QED BY <3>1, <3>2, Induction
  <2>8. Q(N)
    <3>1. N - 1 \in Nat /\ (N - 1) + 1 = N
      BY <1>0, <1>2
    <3> HIDE DEF Q, N
    <3>2. Q((N - 1) + 1)
      <4>1. (N - 1) + 1 <= N
        BY <1>0, <3>1
      <4>2. N - 1 \in U
        BY ONLY <2>7, <3>1
      <4>3. QED BY <4>1, <4>2
    <3>3. QED BY <3>1, <3>2, Zenon
  <2> HIDE DEF U
  <2>9. f[N] \in Seq(S) /\ Len(f[N]) = pos[N] /\ N \in 1..N /\ N \in Nat
    BY <1>0, <1>2, <2>3, <2>4
  <2>10. \A k \in 0..N : pos[k] \in Nat /\ pos[k] <= Len(f[N])
    <3>1. \A k \in 0..N : k = 0 \/ k \in 1..N
      BY <2>9
    <3>2. pos[N] \in Nat
      BY <2>4, <2>9
    <3>3. QED BY <2>4, <2>8, <2>9, <3>1, <3>2
  <2>11. Places(f[N], seqs, pos, S)
    BY <2>4, <2>6, <2>8, <2>9, <2>10 DEF Places
  <2>12. QED BY <2>1, <2>11
<1>3. QED BY <1>1, <1>2
-----------------------------------------------------------------------------
\* Texts of calls.

\* The text of bytes.
Text(bytes) == Prefix \o toHexString(bytes)

\* The prefix is a zero and the letter.
LEMMA PrefixIs == Prefix \in Seq(Character) /\ Len(Prefix) = 2 /\ Prefix[1] = 0 /\ Prefix[2] = X
BY DEF Prefix, X, Character

\* Appending associates.
LEMMA Associates ==
    ASSUME NEW S, NEW a \in Seq(S), NEW b \in Seq(S), NEW c \in Seq(S)
    PROVE  (a \o b) \o c = a \o (b \o c)
<1> DEFINE ab == a \o b
           bc == b \o c
           u == a \o bc
<1>1. /\ ab \in Seq(S) /\ Len(ab) = Len(a) + Len(b) /\ Len(a) \in Nat /\ Len(b) \in Nat
      /\ \A i \in 1..Len(a) : ab[i] = a[i]
      /\ \A i \in 1..Len(b) : ab[Len(a) + i] = b[i]
  BY Follow
<1>2. /\ bc \in Seq(S) /\ Len(bc) = Len(b) + Len(c) /\ Len(c) \in Nat
      /\ \A i \in 1..Len(b) : bc[i] = b[i]
      /\ \A i \in 1..Len(c) : bc[Len(b) + i] = c[i]
  BY Follow
<1> HIDE DEF ab, bc
<1>3. /\ u \in Seq(S) /\ Len(u) = Len(a) + Len(bc)
      /\ \A i \in 1..Len(a) : u[i] = a[i]
      /\ \A i \in 1..Len(bc) : u[Len(a) + i] = bc[i]
  <2>1. \A s, t \in Seq(S) :
            /\ s \o t \in Seq(S) /\ Len(s \o t) = Len(s) + Len(t)
            /\ \A i \in 1..Len(s) : (s \o t)[i] = s[i]
            /\ \A i \in 1..Len(t) : (s \o t)[Len(s) + i] = t[i]
    BY Follow
  <2>2. QED BY <1>2, <2>1, Zenon
<1> HIDE DEF u
<1>4. ASSUME NEW i \in 1..Len(ab) PROVE u[i] = ab[i]
  <2>1. CASE i <= Len(a)
    BY <1>1, <1>3, <2>1
  <2>2. CASE i > Len(a)
    <3>1. i - Len(a) \in 1..Len(b) /\ i - Len(a) \in 1..Len(bc) /\ Len(a) + (i - Len(a)) = i
      BY <1>1, <1>2, <2>2
    <3>2. u[Len(a) + (i - Len(a))] = bc[i - Len(a)]
      BY ONLY <1>3, <3>1, Zenon
    <3>3. bc[i - Len(a)] = b[i - Len(a)]
      BY ONLY <1>2, <3>1, Zenon
    <3>4. ab[Len(a) + (i - Len(a))] = b[i - Len(a)]
      BY ONLY <1>1, <3>1, Zenon
    <3>5. QED BY ONLY <3>1, <3>2, <3>3, <3>4, Zenon
  <2>3. QED BY <1>1, <2>1, <2>2
<1>5. ASSUME NEW i \in 1..Len(c) PROVE u[Len(ab) + i] = c[i]
  <2>1. Len(b) + i \in 1..Len(bc) /\ Len(ab) + i = Len(a) + (Len(b) + i)
    BY <1>1, <1>2
  <2>2. QED BY <1>2, <1>3, <2>1
<1>6. Len(u) = Len(ab) + Len(c)
  BY <1>1, <1>2, <1>3
<1>7. u = ab \o c
  BY <1>1, <1>3, <1>4, <1>5, <1>6, FollowIs, Zenon
<1>8. QED BY <1>7 DEF ab, bc, u

\* Bytes are appended in any order.
LEMMA BytesAssociate == \A a, b, c \in Seq(Byte) : (a \o b) \o c = a \o (b \o c)
BY Associates

\* Text that is added to a text of bytes.
LEMMA AddText ==
    ASSUME NEW a \in Seq(Byte), NEW b \in Seq(Byte)
    PROVE  Text(a) \o toHexString(b) = Text(a \o b)
<1>1. toHexString(a) \in Seq(Digit) /\ toHexString(b) \in Seq(Digit)
  BY HexDigits
<1>2. \A s \in Seq(Digit) : s \in Seq(Character)
  <2>1. \A d \in Digit : d \in Character
    BY DEF Digit, Character
  <2>2. QED BY <2>1
<1>3. (Prefix \o toHexString(a)) \o toHexString(b) = Prefix \o (toHexString(a) \o toHexString(b))
  <2>1. toHexString(a) \in Seq(Character) /\ toHexString(b) \in Seq(Character) /\ Prefix \in Seq(Character)
    BY <1>1, <1>2, PrefixIs
  <2>2. \A s, t, u \in Seq(Character) : (s \o t) \o u = s \o (t \o u)
    BY Associates
  <2>3. QED BY <2>1, <2>2, Zenon
<1>4. QED BY <1>3, HexConcat, Zenon DEF Text

\* The same of every two byte sequences.
LEMMA AddTexts == \A a, b \in Seq(Byte) : Text(a) \o toHexString(b) = Text(a \o b) /\ a \o b \in Seq(Byte)
<1> SUFFICES ASSUME NEW a \in Seq(Byte), NEW b \in Seq(Byte)
             PROVE  Text(a) \o toHexString(b) = Text(a \o b) /\ a \o b \in Seq(Byte)
  OBVIOUS
<1>1. a \o b \in Seq(Byte)
  <2> HIDE DEF Byte
  <2>1. QED BY ONLY a \in Seq(Byte), b \in Seq(Byte)
<1>2. QED BY <1>1, AddText, Zenon

\* A text of bytes is text, and is read as the bytes.
LEMMA TextIs ==
    ASSUME NEW b \in Seq(Byte)
    PROVE  /\ Text(b) \in Seq(Character) /\ Len(Text(b)) = 2 + 2 * Len(b)
           /\ HasPrefix(Text(b)) /\ \A i \in 3..Len(Text(b)) : Text(b)[i] \in 0..15
           /\ fromHexString(Text(b)) = b
<1> DEFINE hex == toHexString(b)
           t == Prefix \o hex
<1>1. hex \in Seq(Digit) /\ Len(hex) = 2 * Len(b) /\ Len(b) \in Nat
  BY HexDigits
<1>2. fromHexString(t) = b
  BY HexBack
<1> HIDE DEF hex
<1>3. hex \in Seq(Character) /\ \A i \in 1..Len(hex) : hex[i] \in 0..15
  <2>1. \A d \in Digit : d \in Character /\ d \in 0..15
    BY DEF Digit, Character
  <2>2. QED BY <1>1, <2>1
<1>4. /\ t \in Seq(Character) /\ Len(t) = 2 + Len(hex)
      /\ t[1] = 0 /\ t[2] = X
      /\ \A i \in 1..Len(hex) : t[2 + i] = hex[i]
  <2>1. \A s, u \in Seq(Character) :
              /\ s \o u \in Seq(Character) /\ Len(s \o u) = Len(s) + Len(u)
              /\ \A i \in 1..Len(s) : (s \o u)[i] = s[i]
              /\ \A i \in 1..Len(u) : (s \o u)[Len(s) + i] = u[i]
    BY Follow
  <2>2. /\ t \in Seq(Character) /\ Len(t) = Len(Prefix) + Len(hex)
        /\ \A i \in 1..Len(Prefix) : t[i] = Prefix[i]
        /\ \A i \in 1..Len(hex) : t[Len(Prefix) + i] = hex[i]
    BY <1>3, <2>1, PrefixIs, Zenon
  <2> HIDE DEF t
  <2>3. QED BY <2>2, PrefixIs
<1> HIDE DEF t
<1>5. HasPrefix(t)
  BY <1>1, <1>4 DEF HasPrefix
<1>6. \A i \in 3..Len(t) : t[i] \in 0..15
  <2>1. ASSUME NEW i \in 3..Len(t) PROVE t[i] \in 0..15
    <3>1. i - 2 \in 1..Len(hex) /\ 2 + (i - 2) = i
      BY <1>1, <1>4
    <3>2. QED BY <1>3, <1>4, <3>1
  <2>2. QED BY <2>1
<1>7. QED BY <1>1, <1>2, <1>4, <1>5, <1>6 DEF Text, hex, t

-----------------------------------------------------------------------------
\* Bytes that hold others.

Holds(bytes, at, part) ==
    /\ at + Len(part) <= Len(bytes)
    /\ \A i \in 1..Len(part) : bytes[at + i] = part[i]

\* What bytes hold is read at its place.
LEMMA HoldsBytes ==
    ASSUME NEW bytes \in Seq(Byte), NEW at \in Nat, NEW part \in Seq(Byte), Holds(bytes, at, part)
    PROVE  Bytes(bytes, at + 1, Len(part)) = part /\ Bytes(bytes, 1 + at, Len(part)) = part
<1>1. /\ Len(bytes) \in Nat /\ Len(part) \in Nat /\ at + Len(part) <= Len(bytes)
      /\ \A i \in 1..Len(part) : bytes[at + i] = part[i]
      /\ \A i \in 1..Len(part) : part[i] \in Byte
  BY DEF Holds
<1> DEFINE s == SubSeq(bytes, at + 1, (at + 1) + Len(part) - 1)
<1>2. s = [i \in 1..(((at + 1) + Len(part) - 1) - (at + 1) + 1) |-> bytes[(at + 1) + i - 1]]
  OBVIOUS
<1>3. ((at + 1) + Len(part) - 1) - (at + 1) + 1 = Len(part) /\ \A i \in 1..Len(part) : (at + 1) + i - 1 = at + i
  BY <1>1
<1> HIDE DEF s
<1>4. s = [i \in 1..Len(part) |-> part[i]]
  BY <1>1, <1>2, <1>3
<1>5. s = part
  BY <1>1, <1>4
<1>6. Len(part) <= Len(bytes) - (at + 1) + 1 /\ at + 1 = 1 + at
  BY <1>1
<1>7. QED BY <1>5, <1>6 DEF Bytes, s

\* What is held by what is held is held.
LEMMA HoldsIn ==
    ASSUME NEW a \in Seq(Byte), NEW b \in Seq(Byte), NEW c \in Seq(Byte), NEW m \in Nat, NEW n \in Nat,
           Holds(a, m, b), Holds(b, n, c)
    PROVE  Holds(a, m + n, c)
<1>1. /\ m + Len(b) <= Len(a) /\ n + Len(c) <= Len(b) /\ Len(a) \in Nat /\ Len(b) \in Nat /\ Len(c) \in Nat
      /\ \A i \in 1..Len(b) : a[m + i] = b[i]
      /\ \A i \in 1..Len(c) : b[n + i] = c[i]
  BY DEF Holds
<1>2. \A i \in 1..Len(c) : n + i \in 1..Len(b) /\ m + (n + i) = (m + n) + i
  BY <1>1
<1>3. (m + n) + Len(c) <= Len(a)
  BY <1>1
<1>4. QED BY <1>1, <1>2, <1>3 DEF Holds

\* Two parts one after the other are both held.
LEMMA HoldsBoth ==
    ASSUME NEW a \in Seq(Byte), NEW b \in Seq(Byte)
    PROVE  a \o b \in Seq(Byte) /\ Len(a \o b) = Len(a) + Len(b) /\ Holds(a \o b, 0, a) /\ Holds(a \o b, Len(a), b)
<1> DEFINE c == a \o b
<1>1. /\ c \in Seq(Byte) /\ Len(c) = Len(a) + Len(b) /\ Len(a) \in Nat /\ Len(b) \in Nat
      /\ \A i \in 1..Len(a) : c[i] = a[i]
      /\ \A i \in 1..Len(b) : c[Len(a) + i] = b[i]
  BY Follow
<1> HIDE DEF c
<1>2. 0 + Len(a) <= Len(c) /\ Len(a) + Len(b) <= Len(c) /\ \A i \in 1..Len(a) : 0 + i = i
  BY <1>1
<1>3. Holds(c, 0, a) /\ Holds(c, Len(a), b)
  BY <1>1, <1>2 DEF Holds
<1>4. QED BY <1>1, <1>3 DEF c

\* What bytes hold they hold when others follow.
LEMMA HoldsMore ==
    ASSUME NEW a \in Seq(Byte), NEW b \in Seq(Byte), NEW c \in Seq(Byte), NEW n \in Nat, Holds(a, n, c)
    PROVE  Holds(a \o b, n, c)
<1>1. a \o b \in Seq(Byte) /\ Holds(a \o b, 0, a) /\ 0 + n = n
  BY HoldsBoth
<1>2. QED BY <1>1, HoldsIn
-----------------------------------------------------------------------------
\* The calldata of a function: its selector, then words.

Carries(data, f, n) == data \in Seq(Byte) /\ Len(data) = 4 + 32 * n /\ Holds(data, 0, Selectors[f])
HasWord(data, j, word) == Holds(data, 4 + 32 * (j - 1), word)

\* A selector alone is a call of no words.
LEMMA CallBegins ==
    ASSUME NEW f \in Functions
    PROVE  Carries(Selectors[f], f, 0) /\ getFunctionSignature(f) = Text(Selectors[f])
<1> DEFINE s == Selectors[f]
<1>1. s \in [1..4 -> Byte]
  BY ShapesAssumption
<1> HIDE DEF s
<1>2. s = [i \in 1..4 |-> s[i]] /\ \A i \in 1..4 : s[i] \in Byte
  BY <1>1
<1>3. s \in Seq(Byte) /\ Len(s) = 4
  BY <1>2
<1>4. Holds(s, 0, s)
  BY <1>3 DEF Holds
<1>5. QED BY <1>3, <1>4 DEF Carries, s, getFunctionSignature, Text

\* The decoder reads a word that is at its place.
LEMMA ReadsWord ==
    ASSUME NEW data \in Seq(Byte), NEW j \in Nat, j # 0, NEW w \in Word, HasWord(data, j, w)
    PROVE  WordAt(data, j) = w
<1> DEFINE at == 4 + 32 * (j - 1)
<1>1. at \in Nat /\ Holds(data, at, w) /\ at + 1 = 5 + 32 * (j - 1)
  BY DEF HasWord
<1> HIDE DEF at
<1>2. w \in Seq(Byte) /\ Len(w) = 32
  BY WordIsBytes
<1>3. Bytes(data, at + 1, 32) = w
  BY <1>1, <1>2, HoldsBytes
<1>4. QED BY <1>1, <1>3 DEF WordAt, WordBytes

\* The contract finds the function by its selector.
LEMMA ReadsFunction ==
    ASSUME NEW f \in Functions, NEW n \in Nat, NEW data, Carries(data, f, n)
    PROVE  Arguments(data) = ArgumentsOf(f, data)
<1>1. Selectors[f] \in Seq(Byte) /\ Len(Selectors[f]) = 4
  BY CallBegins DEF Carries
<1>2. Bytes(data, 1, 4) = Selectors[f]
  <2>1. Bytes(data, 0 + 1, Len(Selectors[f])) = Selectors[f]
    BY <1>1, HoldsBytes DEF Carries
  <2>2. QED BY <1>1, <2>1
<1>3. \A g \in Functions : Selectors[g] = Selectors[f] => g = f
  BY ShapesAssumption
<1>4. (CHOOSE g \in Functions : Selectors[g] = Bytes(data, 1, 4)) = f
  BY <1>2, <1>3
<1>5. QED BY <1>4 DEF Arguments

-----------------------------------------------------------------------------
\* Lists of words.

\* Words that follow a call are its next words, and leave the earlier ones in place.
LEMMA AddList ==
    ASSUME NEW f, NEW n \in Nat, NEW data, Carries(data, f, n), Selectors[f] \in Seq(Byte), NEW list \in Seq(Word)
    PROVE  LET all == data \o FlattenSeq(list)
           IN  /\ FlattenSeq(list) \in Seq(Byte)
               /\ Carries(all, f, n + Len(list))
               /\ \A k \in 1..Len(list) : HasWord(all, n + k, list[k])
               /\ \A j \in 1..n : \A v \in Word : HasWord(data, j, v) => HasWord(all, j, v)
<1> DEFINE flat == FlattenSeq(list)
           N == Len(list)
<1>1. N \in Nat /\ list = [k \in 1..N |-> list[k]] /\ \A k \in 1..N : list[k] \in Word
  OBVIOUS
<1>2. \A k \in 1..N : list[k] \in Seq(Byte) /\ Len(list[k]) = 32
  BY <1>1, WordIsBytes
<1>3. list \in Seq(Seq(Byte))
  <2> HIDE DEF N
  <2> DEFINE T == Seq(Byte)
  <2>1. \A k \in 1..N : list[k] \in T
    BY <1>2
  <2> HIDE DEF T
  <2>2. list \in Seq(T)
    BY <1>1, <2>1
  <2>3. QED BY <2>2 DEF T
<1>4. PICK pos : Places(flat, list, pos, Byte)
  BY <1>3, FlattenPlaces
<1> HIDE DEF flat
<1>5. /\ flat \in Seq(Byte) /\ Len(flat) = pos[N] /\ pos[0] = 0
      /\ \A k \in 0..N : pos[k] \in Nat /\ pos[k] <= Len(flat)
      /\ \A k \in 1..N : pos[k] = pos[k - 1] + Len(list[k])
      /\ \A k \in 1..N : \A i \in 1..Len(list[k]) : flat[pos[k - 1] + i] = list[k][i]
  BY <1>4, Zenon DEF Places
<1> HIDE DEF N
<1>6. \A k \in 0..N : pos[k] = 32 * k
  <2> DEFINE S == {k \in Nat : k <= N => pos[k] = 32 * k}
  <2>1. 0 \in S
    BY <1>5
  <2>2. ASSUME NEW k \in Nat, k \in S PROVE k + 1 \in S
    <3>1. SUFFICES ASSUME k + 1 <= N PROVE pos[k + 1] = 32 * (k + 1)
      OBVIOUS
    <3>2. k + 1 \in 1..N /\ (k + 1) - 1 = k /\ pos[k] = 32 * k
      BY <1>1, <2>2, <3>1
    <3>3. pos[k + 1] = pos[k] + 32
      BY <1>2, <1>5, <3>2
    <3>4. QED BY <3>2, <3>3
  <2> HIDE DEF S
  <2>3. Nat \subseteq S
    BY <2>1, <2>2, Induction
  <2>4. QED BY <1>1, <2>3 DEF S
<1>7. Len(flat) = 32 * N
  BY <1>1, <1>5, <1>6
<1>8. ASSUME NEW k \in 1..N PROVE Holds(flat, 32 * (k - 1), list[k])
  <2>1. k - 1 \in 0..N /\ 32 * (k - 1) + 32 <= 32 * N
    BY <1>1
  <2>2. pos[k - 1] = 32 * (k - 1)
    BY <1>6, <2>1
  <2>3. QED BY <1>2, <1>5, <1>7, <2>1, <2>2 DEF Holds
<1> DEFINE all == data \o flat
<1>9. data \in Seq(Byte) /\ Len(data) = 4 + 32 * n /\ Holds(data, 0, Selectors[f])
  BY DEF Carries
<1>10. all \in Seq(Byte) /\ Len(all) = Len(data) + Len(flat) /\ Holds(all, Len(data), flat) /\ Holds(all, 0, Selectors[f])
  BY <1>5, <1>9, HoldsBoth, HoldsMore
<1>11. ASSUME NEW j \in 1..n, NEW v \in Word, HasWord(data, j, v)
       PROVE  HasWord(all, j, v)
  <2> DEFINE at == 4 + 32 * (j - 1)
  <2>1. v \in Seq(Byte) /\ at \in Nat /\ Holds(data, at, v)
    BY <1>11, WordIsBytes DEF HasWord
  <2> HIDE DEF at
  <2>2. Holds(all, at, v)
    BY <1>5, <1>9, <2>1, HoldsMore
  <2>3. QED BY <2>2 DEF at, HasWord
<1> HIDE DEF all
<1>12. ASSUME NEW k \in 1..N PROVE HasWord(all, n + k, list[k])
  <2> DEFINE at == 32 * (k - 1)
             size == Len(data)
  <2>1. at \in Nat /\ size \in Nat /\ 4 + 32 * ((n + k) - 1) = size + at
    BY <1>1, <1>9
  <2>2. Holds(all, size, flat) /\ Holds(flat, at, list[k])
    BY <1>8, <1>10
  <2> HIDE DEF at, size
  <2>3. Holds(all, size + at, list[k])
    BY <1>2, <1>5, <1>10, <2>1, <2>2, HoldsIn
  <2>4. QED BY <2>1, <2>3 DEF HasWord
<1>13. Carries(all, f, n + N)
  <2>1. Len(all) = 4 + 32 * (n + N)
    BY <1>1, <1>7, <1>9, <1>10
  <2>2. QED BY <1>10, <2>1 DEF Carries
<1>14. QED BY <1>5, <1>11, <1>12, <1>13 DEF all, flat, N

\* The texts of bytes, one after the other, are the text of the bytes.
LEMMA HexFlatten ==
    ASSUME NEW list \in Seq(Seq(Byte)), NEW texts,
           texts = [k \in 1..Len(list) |-> toHexString(list[k])]
    PROVE  FlattenSeq(texts) = toHexString(FlattenSeq(list))
<1> DEFINE N == Len(list)
<1>1. N \in Nat /\ \A k \in 1..N : list[k] \in Seq(Byte)
  OBVIOUS
<1>2. Len(texts) = N
  BY <1>1
<1>3. CASE N = 0
  <2>1. list = <<>> /\ texts = <<>>
    BY <1>3
  <2>2. FlattenSeq(<<>>) = <<>>
    BY DEF FlattenSeq
  <2>3. toHexString(<<>>) = <<>>
    BY DEF toHexString
  <2>4. QED BY <2>1, <2>2, <2>3
<1>4. CASE N # 0
  <2>1. PICK f : /\ FlattenSeq(list) = f[N]
                 /\ f[1] = list[1]
                 /\ \A k \in 2..N : f[k] = f[k - 1] \o list[k]
    BY <1>1, <1>4, FlattenUnfolds
  <2>2. PICK g : /\ FlattenSeq(texts) = g[N]
                 /\ g[1] = texts[1]
                 /\ \A k \in 2..N : g[k] = g[k - 1] \o texts[k]
    <3>1. Len(texts) \in Nat /\ Len(texts) # 0 /\ Len(texts) = N
      BY <1>1, <1>2, <1>4
    <3> HIDE DEF N
    <3>2. \E g : /\ FlattenSeq(texts) = g[Len(texts)]
                 /\ g[1] = texts[1]
                 /\ \A k \in 2..Len(texts) : g[k] = g[k - 1] \o texts[k]
      BY ONLY <3>1, FlattenUnfolds
    <3>3. QED BY ONLY <3>1, <3>2
  <2>3. \A k \in 1..N : texts[k] = toHexString(list[k])
    OBVIOUS
  <2> HIDE DEF N
  <2> DEFINE S == {k \in Nat : k + 1 <= N => f[k + 1] \in Seq(Byte) /\ g[k + 1] = toHexString(f[k + 1])}
  <2>4. 0 \in S
    <3>1. 1 \in 1..N /\ 0 + 1 = 1
      BY <1>1, <1>4
    <3>2. f[1] \in Seq(Byte) /\ g[1] = toHexString(f[1])
      BY <1>1, <2>1, <2>2, <2>3, <3>1
    <3>3. QED BY <3>1, <3>2
  <2>5. ASSUME NEW k \in Nat, k \in S PROVE k + 1 \in S
    <3> DEFINE m == (k + 1) + 1
    <3>1. SUFFICES ASSUME m <= N PROVE f[m] \in Seq(Byte) /\ g[m] = toHexString(f[m])
      OBVIOUS
    <3>2. m \in 2..N /\ m - 1 = k + 1 /\ m \in 1..N /\ k + 1 <= N
      BY <1>1, <3>1
    <3> HIDE DEF m
    <3>3. f[m - 1] \in Seq(Byte) /\ g[m - 1] = toHexString(f[m - 1])
      BY <2>5, <3>2
    <3>4. f[m] = f[m - 1] \o list[m] /\ g[m] = g[m - 1] \o toHexString(list[m]) /\ list[m] \in Seq(Byte)
      BY <1>1, <2>1, <2>2, <2>3, <3>2
    <3>5. \A a, b \in Seq(Byte) : toHexString(a \o b) = toHexString(a) \o toHexString(b)
      BY HexConcat
    <3>6. \A a, b \in Seq(Byte) : a \o b \in Seq(Byte)
      OBVIOUS
    <3>7. f[m] \in Seq(Byte)
      BY ONLY <3>3, <3>4, <3>6, Zenon
    <3>8. g[m] = toHexString(f[m])
      BY ONLY <3>3, <3>4, <3>5, Zenon
    <3>9. QED BY <3>7, <3>8
  <2> HIDE DEF S
  <2>6. Nat \subseteq S
    BY <2>4, <2>5, Induction
  <2>7. N - 1 \in S /\ (N - 1) + 1 = N /\ (N - 1) + 1 <= N
    BY <1>1, <1>4, <2>6
  <2>8. g[(N - 1) + 1] = toHexString(f[(N - 1) + 1])
    BY ONLY <2>7 DEF S
  <2>9. QED BY <2>1, <2>2, <2>7, <2>8, Zenon
<1>5. QED BY <1>3, <1>4

\* The contract finds the list where its word says.
LEMMA ReadsList ==
    ASSUME NEW data \in Seq(Byte), NEW j \in Nat, j # 0, NEW m \in Nat, NEW list \in Seq(Word),
           32 * m \in Numbers, Len(list) \in Numbers,
           HasWord(data, j, AsWord(32 * m)), HasWord(data, m + 1, AsWord(Len(list))),
           \A k \in 1..Len(list) : HasWord(data, (m + 1) + k, list[k])
    PROVE  ListAt(data, j) = list
<1> DEFINE N == Len(list)
<1>1. N \in Nat /\ list = [k \in 1..N |-> list[k]] /\ \A k \in 1..N : list[k] \in Word
  OBVIOUS
<1>2. \A n \in Numbers : AsWord(n) \in Word /\ NumberOf(AsWord(n)) = n
  <2>1. \A n \in Numbers : n \in Nat
    BY ONLY NumbersAre, SMT
  <2>2. QED BY <2>1, AsWordFacts, WordNumber
<1>3. WordAt(data, j) = AsWord(32 * m)
  BY <1>2, ReadsWord
<1>4. NumberOf(WordAt(data, j)) = 32 * m
  BY <1>2, <1>3
<1>5. \A i \in Nat : \A w \in Word : i # 0 /\ HasWord(data, i, w) => Bytes(data, 5 + 32 * (i - 1), 32) = w
  BY ReadsWord DEF WordAt, WordBytes
<1>6. Bytes(data, 5 + 32 * m, 32) = AsWord(N)
  <2>1. m + 1 \in Nat /\ m + 1 # 0 /\ (m + 1) - 1 = m
    OBVIOUS
  <2>2. AsWord(N) \in Word
    BY <1>2
  <2> DEFINE i == m + 1
  <2>3. i \in Nat /\ i # 0 /\ 5 + 32 * (i - 1) = 5 + 32 * m /\ HasWord(data, i, AsWord(N))
    BY <2>1
  <2> HIDE DEF i, N
  <2>4. Bytes(data, 5 + 32 * (i - 1), 32) = AsWord(N)
    BY <1>5, <2>2, <2>3
  <2>5. QED BY <2>3, <2>4
<1>7. NumberOf(Bytes(data, 5 + 32 * m, 32)) = N
  BY <1>2, <1>6
<1>8. ASSUME NEW k \in 1..N PROVE Bytes(data, 5 + 32 * m + 32 * k, 32) = list[k]
  <2> DEFINE i == (m + 1) + k
  <2>0. k \in Nat /\ list[k] \in Word
    BY <1>1
  <2>1. i \in Nat /\ i # 0 /\ 5 + 32 * (i - 1) = 5 + 32 * m + 32 * k /\ HasWord(data, i, list[k]) /\ list[k] \in Word
    <3>1. i \in Nat /\ i # 0 /\ 5 + 32 * (i - 1) = 5 + 32 * m + 32 * k
      BY ONLY <2>0, m \in Nat
    <3>2. HasWord(data, i, list[k])
      OBVIOUS
    <3>3. QED BY <2>0, <3>1, <3>2
  <2> HIDE DEF i
  <2>2. Bytes(data, 5 + 32 * (i - 1), 32) = list[k]
    BY <1>5, <2>1
  <2>3. QED BY <2>1, <2>2
<1> HIDE DEF N
<1>9. ListAt(data, j) = [k \in 1..N |-> Bytes(data, 5 + 32 * m + 32 * k, 32)]
  BY <1>4, <1>7 DEF ListAt, WordBytes
<1>10. [k \in 1..N |-> Bytes(data, 5 + 32 * m + 32 * k, 32)] = [k \in 1..N |-> list[k]]
  BY <1>8
<1>11. QED BY <1>1, <1>9, <1>10

\* The text of a word is not padded.
LEMMA MessageIs ==
    ASSUME NEW h \in Word
    PROVE  Message(h) = toHexString(h)
<1> DEFINE hex == toHexString(h)
<1>1. hex \in Seq(Digit) /\ Len(hex) = 64
  <2>1. h \in Seq(Byte) /\ Len(h) = 32
    BY WordIsBytes
  <2>2. hex \in Seq(Digit) /\ Len(hex) = 2 * Len(h)
    BY <2>1, HexDigits
  <2>3. QED BY <2>1, <2>2
<1> HIDE DEF hex
<1>2. ~HasPrefix(hex)
  <2>1. 2 \in 1..Len(hex)
    BY <1>1
  <2>3. \A s \in Seq(Digit) : \A i \in 1..Len(s) : s[i] \in Digit
    OBVIOUS
  <2>2. hex[2] \in Digit
    BY <1>1, <2>1, <2>3, Zenon
  <2>4. QED BY <2>2 DEF HasPrefix, X, Digit
<1>3. padTo32Bytes(hex) = hex
  BY <1>1, <1>2 DEF padTo32Bytes, WithoutPrefix
<1>4. QED BY <1>3 DEF Message, hex
-----------------------------------------------------------------------------
\* What each function is given.

\* addValidator is given a key and an amount.
LEMMA GivenAddValidator ==
    ASSUME NEW d
    PROVE  ArgumentsOf("addValidator", d) = Meant("addValidator", [pkX |-> WordAt(d, 1), pkY |-> WordAt(d, 2), amount |-> WordAt(d, 3)], <<>>)
<1> DEFINE names == Parameters["addValidator"]
<1>1. names = <<"pkX", "pkY", "amount">>
  BY DEF Parameters
<1> HIDE DEF names
<1>2. /\ Place(names, "pkX") = 1
      /\ Place(names, "pkY") = 2
      /\ Place(names, "amount") = 3
  BY <1>1 DEF Place
<1>3. Plain(names) = {"pkX", "pkY", "amount"} /\ ~\E i \in DOMAIN names : names[i] \in Sigs
  BY <1>1 DEF Plain, Sigs
<1>4. Given(names, d) = [pkX |-> WordAt(d, 1), pkY |-> WordAt(d, 2), amount |-> WordAt(d, 3)]
  BY <1>2, <1>3 DEF Given, IsList
<1>5. Points(names, d) = <<>>
  BY <1>3 DEF Points
<1>6. QED BY <1>4, <1>5, Zenon DEF ArgumentsOf, Meant, names

\* clearValidators is given nothing.
LEMMA GivenClear ==
    ASSUME NEW d
    PROVE  ArgumentsOf("clearValidators", d) = Meant("clearValidators", <<>>, <<>>)
<1> DEFINE names == Parameters["clearValidators"]
<1>1. names = <<>>
  BY DEF Parameters
<1> HIDE DEF names
<1>3. Plain(names) = {} /\ ~\E i \in DOMAIN names : names[i] \in Sigs
  BY <1>1 DEF Plain, Sigs
<1>4. Given(names, d) = <<>>
  BY <1>3 DEF Given, IsList
<1>5. Points(names, d) = <<>>
  BY <1>3 DEF Points
<1>6. QED BY <1>4, <1>5, Zenon DEF ArgumentsOf, Meant, names

\* checkSigAGG is given a signature and a message.
LEMMA GivenCheckSigAGG ==
    ASSUME NEW d
    PROVE  ArgumentsOf("checkSigAGG", d) = Meant("checkSigAGG", [message |-> WordAt(d, 5)], <<<<WordAt(d, 2), WordAt(d, 1)>>, <<WordAt(d, 4), WordAt(d, 3)>>>>)
<1> DEFINE names == Parameters["checkSigAGG"]
<1>1. names = <<"sigs0", "sigs1", "sigs2", "sigs3", "message">>
  BY DEF Parameters
<1> HIDE DEF names
<1>2. /\ Place(names, "sigs0") = 1
      /\ Place(names, "sigs1") = 2
      /\ Place(names, "sigs2") = 3
      /\ Place(names, "sigs3") = 4
      /\ Place(names, "message") = 5
  BY <1>1 DEF Place
<1>3. Plain(names) = {"message"} /\ \E i \in DOMAIN names : names[i] \in Sigs
  BY <1>1 DEF Plain, Sigs
<1>4. Given(names, d) = [message |-> WordAt(d, 5)]
  BY <1>2, <1>3 DEF Given, IsList
<1>5. Points(names, d) = <<<<WordAt(d, 2), WordAt(d, 1)>>, <<WordAt(d, 4), WordAt(d, 3)>>>>
  BY <1>2, <1>3 DEF Points
<1>6. QED BY <1>4, <1>5, Zenon DEF ArgumentsOf, Meant, names

\* checkAggPubkey and calcField are given a key.
LEMMA GivenKey ==
    ASSUME NEW d, NEW f \in {"checkAggPubkey", "calcField"}
    PROVE  ArgumentsOf(f, d) = Meant(f, [pkX |-> WordAt(d, 1), pkY |-> WordAt(d, 2)], <<>>)
<1> DEFINE names == Parameters[f]
<1>1. names = <<"pkX", "pkY">>
  BY DEF Parameters
<1> HIDE DEF names
<1>2. /\ Place(names, "pkX") = 1
      /\ Place(names, "pkY") = 2
  BY <1>1 DEF Place
<1>3. Plain(names) = {"pkX", "pkY"} /\ ~\E i \in DOMAIN names : names[i] \in Sigs
  BY <1>1 DEF Plain, Sigs
<1>4. Given(names, d) = [pkX |-> WordAt(d, 1), pkY |-> WordAt(d, 2)]
  BY <1>2, <1>3 DEF Given, IsList
<1>5. Points(names, d) = <<>>
  BY <1>3 DEF Points
<1>6. QED BY <1>4, <1>5, Zenon DEF ArgumentsOf, Meant, names

\* The checks of a part of the registry are given a signature, a message and indices.
LEMMA GivenIndices ==
    ASSUME NEW d, NEW f \in {"checkSigAGGIndices", "checkSigAGGNegateIndices"}
    PROVE  ArgumentsOf(f, d) = Meant(f, [message |-> WordAt(d, 5), indices |-> ListAt(d, 6)], <<<<WordAt(d, 2), WordAt(d, 1)>>, <<WordAt(d, 4), WordAt(d, 3)>>>>)
<1> DEFINE names == Parameters[f]
<1>1. names = <<"sigs0", "sigs1", "sigs2", "sigs3", "message", "indices">>
  BY DEF Parameters
<1> HIDE DEF names
<1>2. /\ Place(names, "sigs0") = 1
      /\ Place(names, "sigs1") = 2
      /\ Place(names, "sigs2") = 3
      /\ Place(names, "sigs3") = 4
      /\ Place(names, "message") = 5
      /\ Place(names, "indices") = 6
  BY <1>1 DEF Place
<1>3. Plain(names) = {"message", "indices"} /\ \E i \in DOMAIN names : names[i] \in Sigs
  BY <1>1 DEF Plain, Sigs
<1>4. Given(names, d) = [message |-> WordAt(d, 5), indices |-> ListAt(d, 6)]
  BY <1>2, <1>3 DEF Given, IsList
<1>5. Points(names, d) = <<<<WordAt(d, 2), WordAt(d, 1)>>, <<WordAt(d, 4), WordAt(d, 3)>>>>
  BY <1>2, <1>3 DEF Points
<1>6. QED BY <1>4, <1>5, Zenon DEF ArgumentsOf, Meant, names

\* validateProofOfPossession is given a key and a signature.
LEMMA GivenProofOfPossession ==
    ASSUME NEW d
    PROVE  ArgumentsOf("validateProofOfPossession", d) = Meant("validateProofOfPossession", [pkX |-> WordAt(d, 1), pkY |-> WordAt(d, 2)], <<<<WordAt(d, 4), WordAt(d, 3)>>, <<WordAt(d, 6), WordAt(d, 5)>>>>)
<1> DEFINE names == Parameters["validateProofOfPossession"]
<1>1. names = <<"pkX", "pkY", "sigs0", "sigs1", "sigs2", "sigs3">>
  BY DEF Parameters
<1> HIDE DEF names
<1>2. /\ Place(names, "pkX") = 1
      /\ Place(names, "pkY") = 2
      /\ Place(names, "sigs0") = 3
      /\ Place(names, "sigs1") = 4
      /\ Place(names, "sigs2") = 5
      /\ Place(names, "sigs3") = 6
  BY <1>1 DEF Place
<1>3. Plain(names) = {"pkX", "pkY"} /\ \E i \in DOMAIN names : names[i] \in Sigs
  BY <1>1 DEF Plain, Sigs
<1>4. Given(names, d) = [pkX |-> WordAt(d, 1), pkY |-> WordAt(d, 2)]
  BY <1>2, <1>3 DEF Given, IsList
<1>5. Points(names, d) = <<<<WordAt(d, 4), WordAt(d, 3)>>, <<WordAt(d, 6), WordAt(d, 5)>>>>
  BY <1>2, <1>3 DEF Points
<1>6. QED BY <1>4, <1>5, Zenon DEF ArgumentsOf, Meant, names

\* updateRewardsMerkleRoot is given a root.
LEMMA GivenRoot ==
    ASSUME NEW d
    PROVE  ArgumentsOf("updateRewardsMerkleRoot", d) = Meant("updateRewardsMerkleRoot", [_merkleRoot |-> WordAt(d, 1)], <<>>)
<1> DEFINE names == Parameters["updateRewardsMerkleRoot"]
<1>1. names = <<"_merkleRoot">>
  BY DEF Parameters
<1> HIDE DEF names
<1>2. /\ Place(names, "_merkleRoot") = 1
  BY <1>1 DEF Place
<1>3. Plain(names) = {"_merkleRoot"} /\ ~\E i \in DOMAIN names : names[i] \in Sigs
  BY <1>1 DEF Plain, Sigs
<1>4. Given(names, d) = [_merkleRoot |-> WordAt(d, 1)]
  BY <1>2, <1>3 DEF Given, IsList
<1>5. Points(names, d) = <<>>
  BY <1>3 DEF Points
<1>6. QED BY <1>4, <1>5, Zenon DEF ArgumentsOf, Meant, names

\* validateProof is given a quantity and a path.
LEMMA GivenProof ==
    ASSUME NEW d
    PROVE  ArgumentsOf("validateProof", d) = Meant("validateProof", [_quantity |-> WordAt(d, 1), _merkleProof |-> ListAt(d, 2)], <<>>)
<1> DEFINE names == Parameters["validateProof"]
<1>1. names = <<"_quantity", "_merkleProof">>
  BY DEF Parameters
<1> HIDE DEF names
<1>2. /\ Place(names, "_quantity") = 1
      /\ Place(names, "_merkleProof") = 2
  BY <1>1 DEF Place
<1>3. Plain(names) = {"_quantity", "_merkleProof"} /\ ~\E i \in DOMAIN names : names[i] \in Sigs
  BY <1>1 DEF Plain, Sigs
<1>4. Given(names, d) = [_quantity |-> WordAt(d, 1), _merkleProof |-> ListAt(d, 2)]
  BY <1>2, <1>3 DEF Given, IsList
<1>5. Points(names, d) = <<>>
  BY <1>3 DEF Points
<1>6. QED BY <1>4, <1>5, Zenon DEF ArgumentsOf, Meant, names

\* hash is given an address and a balance.
LEMMA GivenHash ==
    ASSUME NEW d
    PROVE  ArgumentsOf("hash", d) = Meant("hash", [target |-> WordAt(d, 1), balance |-> WordAt(d, 2)], <<>>)
<1> DEFINE names == Parameters["hash"]
<1>1. names = <<"target", "balance">>
  BY DEF Parameters
<1> HIDE DEF names
<1>2. /\ Place(names, "target") = 1
      /\ Place(names, "balance") = 2
  BY <1>1 DEF Place
<1>3. Plain(names) = {"target", "balance"} /\ ~\E i \in DOMAIN names : names[i] \in Sigs
  BY <1>1 DEF Plain, Sigs
<1>4. Given(names, d) = [target |-> WordAt(d, 1), balance |-> WordAt(d, 2)]
  BY <1>2, <1>3 DEF Given, IsList
<1>5. Points(names, d) = <<>>
  BY <1>3 DEF Points
<1>6. QED BY <1>4, <1>5, Zenon DEF ArgumentsOf, Meant, names

-----------------------------------------------------------------------------
\* Few sequences, one after the other.

\* One sequence.
LEMMA FlattenOne ==
    ASSUME NEW s, Len(s) = 1
    PROVE  FlattenSeq(s) = s[1]
<1>1. Len(s) \in Nat /\ Len(s) # 0
  OBVIOUS
<1>2. PICK f : FlattenSeq(s) = f[Len(s)] /\ f[1] = s[1]
  BY <1>1, FlattenUnfolds
<1>3. QED BY <1>2

\* Two sequences.
LEMMA FlattenTwo ==
    ASSUME NEW s, Len(s) = 2
    PROVE  FlattenSeq(s) = s[1] \o s[2]
<1>1. Len(s) \in Nat /\ Len(s) # 0
  OBVIOUS
<1>2. PICK f : /\ FlattenSeq(s) = f[Len(s)]
               /\ f[1] = s[1]
               /\ \A k \in 2..Len(s) : f[k] = f[k - 1] \o s[k]
  BY <1>1, FlattenUnfolds
<1>3. \A k \in 2..2 : f[k] = f[k - 1] \o s[k]
  BY <1>2
<1>4. 2 \in 2..2 /\ 2 - 1 = 1
  OBVIOUS
<1>5. f[2] = f[1] \o s[2]
  BY <1>3, <1>4, Zenon
<1>6. FlattenSeq(s) = f[Len(s)] /\ f[1] = s[1]
  BY <1>2
<1>7. QED BY <1>5, <1>6

\* Three sequences.
LEMMA FlattenThree ==
    ASSUME NEW s, Len(s) = 3
    PROVE  FlattenSeq(s) = (s[1] \o s[2]) \o s[3]
<1>1. Len(s) \in Nat /\ Len(s) # 0
  OBVIOUS
<1>2. PICK f : /\ FlattenSeq(s) = f[Len(s)]
               /\ f[1] = s[1]
               /\ \A k \in 2..Len(s) : f[k] = f[k - 1] \o s[k]
  BY <1>1, FlattenUnfolds
<1>3. \A k \in 2..3 : f[k] = f[k - 1] \o s[k]
  BY <1>2
<1>4. 2 \in 2..3 /\ 2 - 1 = 1 /\ 3 \in 2..3 /\ 3 - 1 = 2
  OBVIOUS
<1>5. f[2] = f[1] \o s[2] /\ f[3] = f[2] \o s[3]
  BY <1>3, <1>4, Zenon
<1>6. FlattenSeq(s) = f[Len(s)] /\ f[1] = s[1]
  BY <1>2
<1>7. QED BY <1>5, <1>6

\* Five sequences.
LEMMA FlattenFive ==
    ASSUME NEW s, Len(s) = 5
    PROVE  FlattenSeq(s) = (((s[1] \o s[2]) \o s[3]) \o s[4]) \o s[5]
<1>1. Len(s) \in Nat /\ Len(s) # 0
  OBVIOUS
<1>2. PICK f : /\ FlattenSeq(s) = f[Len(s)]
               /\ f[1] = s[1]
               /\ \A k \in 2..Len(s) : f[k] = f[k - 1] \o s[k]
  BY <1>1, FlattenUnfolds
<1>3. \A k \in 2..5 : f[k] = f[k - 1] \o s[k]
  BY <1>2
<1>4. 2 \in 2..5 /\ 2 - 1 = 1 /\ 3 \in 2..5 /\ 3 - 1 = 2 /\ 4 \in 2..5 /\ 4 - 1 = 3 /\ 5 \in 2..5 /\ 5 - 1 = 4
  OBVIOUS
<1>5. f[2] = f[1] \o s[2] /\ f[3] = f[2] \o s[3] /\ f[4] = f[3] \o s[4] /\ f[5] = f[4] \o s[5]
  BY <1>3, <1>4, Zenon
<1>6. FlattenSeq(s) = f[Len(s)] /\ f[1] = s[1]
  BY <1>2
<1>7. QED BY <1>5, <1>6

\* Six sequences.
LEMMA FlattenSix ==
    ASSUME NEW s, Len(s) = 6
    PROVE  FlattenSeq(s) = ((((s[1] \o s[2]) \o s[3]) \o s[4]) \o s[5]) \o s[6]
<1>1. Len(s) \in Nat /\ Len(s) # 0
  OBVIOUS
<1>2. PICK f : /\ FlattenSeq(s) = f[Len(s)]
               /\ f[1] = s[1]
               /\ \A k \in 2..Len(s) : f[k] = f[k - 1] \o s[k]
  BY <1>1, FlattenUnfolds
<1>3. \A k \in 2..6 : f[k] = f[k - 1] \o s[k]
  BY <1>2
<1>4. 2 \in 2..6 /\ 2 - 1 = 1 /\ 3 \in 2..6 /\ 3 - 1 = 2 /\ 4 \in 2..6 /\ 4 - 1 = 3 /\ 5 \in 2..6 /\ 5 - 1 = 4 /\ 6 \in 2..6 /\ 6 - 1 = 5
  OBVIOUS
<1>5. f[2] = f[1] \o s[2] /\ f[3] = f[2] \o s[3] /\ f[4] = f[3] \o s[4] /\ f[5] = f[4] \o s[5] /\ f[6] = f[5] \o s[6]
  BY <1>3, <1>4, Zenon
<1>6. FlattenSeq(s) = f[Len(s)] /\ f[1] = s[1]
  BY <1>2
<1>7. QED BY <1>5, <1>6

\* Seven sequences.
LEMMA FlattenSeven ==
    ASSUME NEW s, Len(s) = 7
    PROVE  FlattenSeq(s) = (((((s[1] \o s[2]) \o s[3]) \o s[4]) \o s[5]) \o s[6]) \o s[7]
<1>1. Len(s) \in Nat /\ Len(s) # 0
  OBVIOUS
<1>2. PICK f : /\ FlattenSeq(s) = f[Len(s)]
               /\ f[1] = s[1]
               /\ \A k \in 2..Len(s) : f[k] = f[k - 1] \o s[k]
  BY <1>1, FlattenUnfolds
<1>3. \A k \in 2..7 : f[k] = f[k - 1] \o s[k]
  BY <1>2
<1>4. 2 \in 2..7 /\ 2 - 1 = 1 /\ 3 \in 2..7 /\ 3 - 1 = 2 /\ 4 \in 2..7 /\ 4 - 1 = 3 /\ 5 \in 2..7 /\ 5 - 1 = 4 /\ 6 \in 2..7 /\ 6 - 1 = 5 /\ 7 \in 2..7 /\ 7 - 1 = 6
  OBVIOUS
<1>5. f[2] = f[1] \o s[2] /\ f[3] = f[2] \o s[3] /\ f[4] = f[3] \o s[4] /\ f[5] = f[4] \o s[5] /\ f[6] = f[5] \o s[6] /\ f[7] = f[6] \o s[7]
  BY <1>3, <1>4, Zenon
<1>6. FlattenSeq(s) = f[Len(s)] /\ f[1] = s[1]
  BY <1>2
<1>7. QED BY <1>5, <1>6

-----------------------------------------------------------------------------
\* What the text of a call is to the contract.

IsCall(text, meant) ==
    LET data == fromHexString(text)
    IN  /\ data \in Seq(Byte) /\ text = Text(data)
        /\ Len(data) >= 4 /\ (Len(data) - 4) % WordBytes = 0 /\ Len(data) + 512 < TooLarge
        /\ Arguments(data) = meant

\* A selector and words are the text of a call.
LEMMA Reaches ==
    ASSUME NEW f \in Functions, NEW n \in Nat, NEW data, Carries(data, f, n), 32 * (n + 17) < TooLarge
    PROVE  IsCall(Text(data), ArgumentsOf(f, data))
<1>1. data \in Seq(Byte) /\ Len(data) = 4 + 32 * n
  BY DEF Carries
<1>2. fromHexString(Text(data)) = data
  BY <1>1, TextIs
<1>3. Arguments(data) = ArgumentsOf(f, data)
  BY ReadsFunction
<1>4. Len(data) >= 4 /\ (Len(data) - 4) % 32 = 0 /\ Len(data) + 512 < TooLarge
  BY <1>1, NumbersAre
<1>5. QED BY <1>1, <1>2, <1>3, <1>4 DEF IsCall, WordBytes

\* A call of words only.
LEMMA CallOf ==
    ASSUME NEW f \in Functions, NEW words \in Seq(Word), Len(words) <= 7,
           NEW data, data = Selectors[f] \o FlattenSeq(words)
    PROVE  /\ IsCall(Text(data), ArgumentsOf(f, data))
           /\ \A k \in 1..Len(words) : WordAt(data, k) = words[k]
<1> DEFINE n == Len(words)
           zero == 0
           s == Selectors[f]
<1>1. zero \in Nat /\ Carries(s, f, zero) /\ s \in Seq(Byte) /\ n \in Nat
  BY CallBegins DEF Carries
<1>2. zero + n = n /\ \A k \in 1..n : zero + k = k
  BY <1>1
<1>3. \A k \in 1..n : words[k] \in Word
  OBVIOUS
<1>0. Selectors[f] \in Seq(Byte) /\ data = s \o FlattenSeq(words)
  BY <1>1
<1> HIDE DEF zero, s
<1>4. /\ Carries(data, f, zero + Len(words))
      /\ \A k \in 1..Len(words) : HasWord(data, zero + k, words[k])
  BY <1>0, <1>1, AddList
<1>5. Carries(data, f, n) /\ \A k \in 1..n : HasWord(data, k, words[k])
  BY <1>2, <1>4, Zenon
<1>6. data \in Seq(Byte)
  BY <1>5 DEF Carries
<1>7. \A k \in 1..n : k \in Nat /\ k # 0
  BY <1>1
<1> HIDE DEF n
<1>8. ASSUME NEW k \in 1..n PROVE WordAt(data, k) = words[k]
  <2>1. HasWord(data, k, words[k]) /\ words[k] \in Word /\ k \in Nat /\ k # 0
    BY <1>3, <1>5, <1>7
  <2>2. QED BY <1>6, <2>1, ReadsWord
<1>9. 32 * (n + 17) < TooLarge
  <2>1. n <= 7
    BY DEF n
  <2>2. QED BY <1>1, <2>1, NumbersAre
<1>10. IsCall(Text(data), ArgumentsOf(f, data))
  BY <1>1, <1>5, <1>9, Reaches
<1>11. QED BY <1>8, <1>10 DEF n

\* A call of words and a list, which begins after the first m of them.
WithList(f, words, m, list, j, data) ==
    /\ f \in Functions /\ words \in Seq(Word) /\ Len(words) <= 7 /\ m \in Nat /\ Len(words) = m + 1
    /\ list \in Seq(Word) /\ 32 * (Len(list) + 32) < TooLarge
    /\ j \in 1..m /\ words[j] = AsWord(32 * m) /\ words[m + 1] = AsWord(Len(list))
    /\ data = (Selectors[f] \o FlattenSeq(words)) \o FlattenSeq(list)

IsRead(f, words, list, j, data) ==
    /\ IsCall(Text(data), ArgumentsOf(f, data))
    /\ \A k \in 1..Len(words) : WordAt(data, k) = words[k]
    /\ ListAt(data, j) = list

\* Every word is read, and the list where its offset says.
LEMMA CallWithList ==
    ASSUME NEW f, NEW words, NEW m, NEW list, NEW j, NEW data, WithList(f, words, m, list, j, data)
    PROVE  IsRead(f, words, list, j, data)
<1> /\ f \in Functions /\ words \in Seq(Word) /\ Len(words) <= 7 /\ m \in Nat /\ Len(words) = m + 1
    /\ list \in Seq(Word) /\ 32 * (Len(list) + 32) < TooLarge
    /\ j \in 1..m /\ words[j] = AsWord(32 * m) /\ words[m + 1] = AsWord(Len(list))
    /\ data = (Selectors[f] \o FlattenSeq(words)) \o FlattenSeq(list)
  BY DEF WithList
<1> DEFINE n == Len(words)
           zero == 0
           s == Selectors[f]
           some == s \o FlattenSeq(words)
<1>1. zero \in Nat /\ Carries(s, f, zero) /\ s \in Seq(Byte) /\ n \in Nat /\ Len(list) \in Nat
  BY CallBegins DEF Carries
<1>2. zero + n = n /\ \A k \in 1..n : zero + k = k
  BY <1>1
<1>3. \A k \in 1..n : words[k] \in Word
  OBVIOUS
<1>0. Selectors[f] \in Seq(Byte) /\ some = s \o FlattenSeq(words) /\ data = some \o FlattenSeq(list)
  BY <1>1
<1> HIDE DEF zero, s, some
<1>4. /\ Carries(some, f, zero + Len(words))
      /\ \A k \in 1..Len(words) : HasWord(some, zero + k, words[k])
  BY <1>0, <1>1, AddList
<1>5. Carries(some, f, n) /\ \A k \in 1..n : HasWord(some, k, words[k])
  BY <1>2, <1>4, Zenon
<1> HIDE DEF n
<1>6. /\ Carries(data, f, n + Len(list))
      /\ \A k \in 1..Len(list) : HasWord(data, n + k, list[k])
      /\ \A k \in 1..n : \A v \in Word : HasWord(some, k, v) => HasWord(data, k, v)
  BY <1>0, <1>1, <1>5, AddList
<1>7. data \in Seq(Byte) /\ \A k \in 1..n : HasWord(data, k, words[k])
  BY <1>3, <1>5, <1>6 DEF Carries
<1>8. \A k \in 1..n : k \in Nat /\ k # 0
  BY <1>1
<1>9. ASSUME NEW k \in 1..n PROVE WordAt(data, k) = words[k]
  <2>1. HasWord(data, k, words[k]) /\ words[k] \in Word /\ k \in Nat /\ k # 0
    BY <1>3, <1>7, <1>8
  <2>2. QED BY <1>7, <2>1, ReadsWord
<1>10. n = m + 1 /\ n <= 7 /\ j \in 1..n /\ m + 1 \in 1..n /\ j \in Nat /\ j # 0
  BY DEF n
<1>11. 32 * ((n + Len(list)) + 17) < TooLarge /\ 32 * m \in Numbers /\ Len(list) \in Numbers
  BY <1>1, <1>10, NumbersAre
<1>12. IsCall(Text(data), ArgumentsOf(f, data))
  <2> DEFINE l == n + Len(list)
  <2>1. l \in Nat /\ Carries(data, f, l) /\ 32 * (l + 17) < TooLarge
    BY <1>1, <1>6, <1>11
  <2> HIDE DEF l
  <2>2. QED BY <2>1, Reaches
<1>13. ListAt(data, j) = list
  <2>1. HasWord(data, j, AsWord(32 * m)) /\ HasWord(data, m + 1, AsWord(Len(list)))
    BY <1>7, <1>10
  <2>2. \A k \in 1..Len(list) : HasWord(data, (m + 1) + k, list[k])
    BY <1>6, <1>10
  <2>3. QED BY <1>7, <1>10, <1>11, <2>1, <2>2, ReadsList
<1>14. QED BY <1>9, <1>12, <1>13 DEF n, IsRead
-----------------------------------------------------------------------------
\* Texts put together.

\* A text of bytes goes on with the digits of others.
LEMMA AddMore ==
    ASSUME NEW a \in Seq(Byte), NEW b \in Seq(Byte), NEW c \in Seq(Byte)
    PROVE  Text(a \o b) \o toHexString(c) = Text(a \o (b \o c))
<1>1. (a \o b) \o c = a \o (b \o c)
  BY Associates
<1> DEFINE ab == a \o b
<1>2. ab \in Seq(Byte)
  OBVIOUS
<1> HIDE DEF ab
<1>3. Text(ab) \o toHexString(c) = Text(ab \o c)
  BY <1>2, AddText
<1>4. QED BY <1>1, <1>3 DEF ab

\* The bytes of a word, of a key and of a signature.
LEMMA KeyIs ==
    ASSUME NEW key \in Keys
    PROVE  /\ key.x \in Word /\ key.y \in Word
           /\ key.x \o key.y \in Seq(Byte)
           /\ PublicKeyToHex(key) = toHexString(key.x \o key.y)
<1>1. key.x \in Word /\ key.y \in Word
  BY ShapesAssumption
<1>2. key.x \in Seq(Byte) /\ key.y \in Seq(Byte)
  BY <1>1, WordIsBytes
<1>3. QED BY <1>1, <1>2 DEF PublicKeyToHex

SigBytes(sig) == ((sig.xa \o sig.xb) \o sig.ya) \o sig.yb

\* A signature as text is its four words in order.
LEMMA SignatureIs ==
    ASSUME NEW sig \in Signatures
    PROVE  /\ sig.xa \in Word /\ sig.xb \in Word /\ sig.ya \in Word /\ sig.yb \in Word
           /\ SigBytes(sig) \in Seq(Byte)
           /\ SignatureToHex(sig) = toHexString(SigBytes(sig))
<1>1. sig.xa \in Word /\ sig.xb \in Word /\ sig.ya \in Word /\ sig.yb \in Word
  BY ShapesAssumption
<1>2. sig.xa \in Seq(Byte) /\ sig.xb \in Seq(Byte) /\ sig.ya \in Seq(Byte) /\ sig.yb \in Seq(Byte)
  BY <1>1, WordIsBytes
<1>3. \A s, t \in Seq(Byte) : s \o t \in Seq(Byte)
  OBVIOUS
<1>4. SigBytes(sig) \in Seq(Byte)
  BY <1>2, <1>3, Zenon DEF SigBytes
<1>5. QED BY <1>1, <1>4 DEF SignatureToHex, SigBytes

\* A padded number is the text of its word.
LEMMA PaddedNumber ==
    ASSUME NEW m \in Numbers
    PROVE  AsWord(m) \in Word /\ AsWord(m) \in Seq(Byte) /\ padded(m) = toHexString(AsWord(m))
<1>1. m \in Nat /\ Short(m)
  BY NumbersAreShort DEF Short
<1>2. AsWord(m) \in Word /\ padded(m) = toHexString(AsWord(m))
  BY <1>1, AsWordFacts, PaddedIs
<1>3. QED BY <1>2, WordIsBytes

\* A text begins with the selector.
LEMMA Begins ==
    ASSUME NEW f \in Functions, NEW b \in Seq(Byte)
    PROVE  /\ getFunctionSignature(f) \o toHexString(b) = Text(Selectors[f] \o b)
           /\ Selectors[f] \in Seq(Byte)
<1>1. getFunctionSignature(f) = Text(Selectors[f]) /\ Selectors[f] \in Seq(Byte)
  BY CallBegins DEF Carries
<1>2. QED BY <1>1, AddText

\* The offset of the indices, which is written as text.
LEMMA OffsetIs == 192 \in Numbers /\ padTo32Bytes(<<12, 0>>) = toHexString(AsWord(192))
<1>1. 192 \in Numbers /\ 192 \in Nat
  BY NumbersAre
<1>2. Short(192)
  BY <1>1, NumbersAreShort
<1> DEFINE s == Shifted(192)
<1>3. s[0] = 192 /\ \A k \in 0..63 : s[k + 1] = s[k] \div 16
  BY ShiftedLaw
<1>4. \A k \in 0..64 : \A e \in k..64 : s[k] = 0 => s[e] = 0
  BY <1>1, ShiftedFacts
<1>5. PICK d \in 1..16 : /\ decimalToHex(192) = [i \in 1..d |-> s[d - i] % 16]
                         /\ s[d] = 0
                         /\ d > 1 => s[d - 1] # 0
  BY <1>2, DecimalFacts
<1> HIDE DEF s
<1>6. s[1] = 12 /\ s[2] = 0
  <2>1. s[0 + 1] = s[0] \div 16 /\ s[1 + 1] = s[1] \div 16
    BY <1>3
  <2>2. QED BY <1>3, <2>1
<1>7. d = 2
  <2>1. d # 1
    BY <1>5, <1>6
  <2>2. ASSUME d >= 3 PROVE FALSE
    <3>1. d - 1 \in 2..64
      BY <2>2
    <3>2. s[d - 1] = 0
      BY <1>4, <1>6, <3>1
    <3>3. QED BY <1>5, <2>2, <3>2
  <2>3. QED BY <2>1, <2>2
<1>8. decimalToHex(192) = <<12, 0>>
  <2>1. decimalToHex(192) = [i \in 1..2 |-> s[2 - i] % 16]
    BY <1>5, <1>7
  <2>2. s[2 - 1] % 16 = 12 /\ s[2 - 2] % 16 = 0
    BY <1>3, <1>6
  <2>3. QED BY <2>1, <2>2
<1>9. padded(192) = toHexString(AsWord(192))
  BY <1>1, PaddedNumber
<1>10. QED BY <1>1, <1>8, <1>9 DEF padded

\* A list of numbers, as words and as text.
LEMMA PaddedList ==
    ASSUME NEW list \in Seq(Numbers), NEW words, words = [i \in DOMAIN list |-> AsWord(list[i])]
    PROVE  /\ words \in Seq(Word) /\ Len(words) = Len(list)
           /\ FlattenSeq([i \in DOMAIN list |-> padded(list[i])]) = toHexString(FlattenSeq(words))
<1> DEFINE N == Len(list)
<1>1. N \in Nat /\ DOMAIN list = 1..N /\ \A k \in 1..N : list[k] \in Numbers
  OBVIOUS
<1>2. \A k \in 1..N : AsWord(list[k]) \in Word /\ padded(list[k]) = toHexString(AsWord(list[k]))
  BY <1>1, PaddedNumber
<1> HIDE DEF N
<1>3. words = [i \in 1..N |-> AsWord(list[i])]
  BY <1>1
<1>4. words \in Seq(Word) /\ Len(words) = N
  BY <1>1, <1>2, <1>3
<1> DEFINE texts == [i \in DOMAIN list |-> padded(list[i])]
<1>5. texts = [i \in 1..Len(words) |-> toHexString(words[i])]
  BY <1>1, <1>2, <1>3, <1>4
<1>6. words \in Seq(Seq(Byte))
  <2> DEFINE T == Seq(Byte)
  <2>1. \A w \in Word : w \in T
    BY WordIsBytes
  <2> HIDE DEF T
  <2>2. words \in Seq(T)
    BY <1>4, <2>1
  <2>3. QED BY <2>2 DEF T
<1> HIDE DEF texts
<1>7. FlattenSeq(texts) = toHexString(FlattenSeq(words))
  BY <1>5, <1>6, HexFlatten
<1>8. QED BY <1>4, <1>7 DEF texts, N
-----------------------------------------------------------------------------
\* The calls, one by one.

\* addValidator: a key of two words, and the amount.
LEMMA AddValidatorIsCall ==
    ASSUME NEW key \in Keys
    PROVE  IsCall(addValidator(key),
                  Meant("addValidator", [pkX |-> key.x, pkY |-> key.y, amount |-> AsWord(Amount)], <<>>))
<1> DEFINE f == "addValidator"
           w == AsWord(Amount)
           words == <<key.x, key.y, w>>
           data == Selectors[f] \o FlattenSeq(words)
<1>1. f \in Functions
  BY DEF Functions, Parameters
<1>2. Amount \in Numbers
  BY SMT, BoundIs DEF Amount, Numbers
<1>3. w \in Word /\ w \in Seq(Byte) /\ padded(Amount) = toHexString(w)
  BY <1>2, PaddedNumber
<1>4. words \in Seq(Word) /\ Len(words) = 3 /\ words[1] = key.x /\ words[2] = key.y /\ words[3] = w
  BY <1>3, KeyIs
<1> HIDE DEF f, w, words
<1>5. FlattenSeq(words) = (key.x \o key.y) \o w
  BY <1>4, FlattenThree, Zenon
<1>6. addValidator(key) = Text(data)
  <2> DEFINE xy == key.x \o key.y
  <2>1. xy \in Seq(Byte) /\ PublicKeyToHex(key) = toHexString(xy)
    BY KeyIs
  <2> HIDE DEF xy
  <2>2. getFunctionSignature(f) \o toHexString(xy) = Text(Selectors[f] \o xy) /\ Selectors[f] \in Seq(Byte)
    BY <1>1, <2>1, Begins
  <2>3. Text(Selectors[f] \o xy) \o toHexString(w) = Text(Selectors[f] \o (xy \o w))
    BY <1>3, <2>1, <2>2, AddMore
  <2>4. QED BY <1>3, <1>5, <2>1, <2>2, <2>3, Zenon DEF addValidator, f, xy
<1> HIDE DEF data
<1>7. data = Selectors[f] \o FlattenSeq(words)
  BY DEF data
<1>8. IsCall(Text(data), ArgumentsOf(f, data)) /\ \A k \in 1..Len(words) : WordAt(data, k) = words[k]
  <2>1. Len(words) <= 7
    BY <1>4
  <2>2. QED BY <1>1, <1>4, <1>7, <2>1, CallOf
<1>9. WordAt(data, 1) = key.x /\ WordAt(data, 2) = key.y /\ WordAt(data, 3) = w
  BY <1>4, <1>8
<1>10. QED BY <1>6, <1>8, <1>9, GivenAddValidator, Zenon DEF f, w
\* clear: nothing but the selector.
LEMMA ClearIsCall == IsCall(clear, Meant("clearValidators", <<>>, <<>>))
<1> DEFINE f == "clearValidators"
           words == <<>>
           data == Selectors[f] \o FlattenSeq(words)
<1>1. f \in Functions
  BY DEF Functions, Parameters
<1>2. words \in Seq(Word) /\ Len(words) = 0 /\ FlattenSeq(words) = <<>>
  BY DEF FlattenSeq
<1>3. Selectors[f] \in Seq(Byte) /\ getFunctionSignature(f) = Text(Selectors[f])
  BY <1>1, CallBegins DEF Carries
<1> HIDE DEF f, words
<1>4. data = Selectors[f]
  <2>1. \A s \in Seq(Byte) : s \o <<>> = s
    OBVIOUS
  <2>2. QED BY <1>2, <1>3, <2>1, Zenon
<1>5. data = Selectors[f] \o FlattenSeq(words)
  OBVIOUS
<1> HIDE DEF data
<1>6. IsCall(Text(data), ArgumentsOf(f, data))
  <2>1. Len(words) <= 7
    BY <1>2
  <2>2. QED BY <1>1, <1>2, <1>5, <2>1, CallOf
<1>7. QED BY <1>3, <1>4, <1>6, GivenClear, Zenon DEF clear, f

\* checkSigAGG: a signature of four words, and the message.
LEMMA CheckSigAGGIsCall ==
    ASSUME NEW sig \in Signatures, NEW h \in Hashes
    PROVE  IsCall(checkSigAGG(sig, h), Meant("checkSigAGG", [message |-> h], Point(sig)))
<1> DEFINE f == "checkSigAGG"
           words == <<sig.xa, sig.xb, sig.ya, sig.yb, h>>
           data == Selectors[f] \o FlattenSeq(words)
<1>1. f \in Functions
  BY DEF Functions, Parameters
<1>2. h \in Word /\ h \in Seq(Byte) /\ Message(h) = toHexString(h)
  <2>1. h \in Word
    BY ShapesAssumption
  <2>2. QED BY <2>1, WordIsBytes, MessageIs
<1>3. /\ words \in Seq(Word) /\ Len(words) = 5
      /\ words[1] = sig.xa /\ words[2] = sig.xb /\ words[3] = sig.ya /\ words[4] = sig.yb /\ words[5] = h
  BY <1>2, SignatureIs
<1> HIDE DEF f, words
<1>4. FlattenSeq(words) = SigBytes(sig) \o h
  BY <1>3, FlattenFive DEF SigBytes
<1>5. checkSigAGG(sig, h) = Text(data)
  <2>1. SigBytes(sig) \in Seq(Byte) /\ SignatureToHex(sig) = toHexString(SigBytes(sig))
    BY SignatureIs
  <2>2. getFunctionSignature(f) \o toHexString(SigBytes(sig)) = Text(Selectors[f] \o SigBytes(sig))
        /\ Selectors[f] \in Seq(Byte)
    BY <1>1, <2>1, Begins
  <2>3. Text(Selectors[f] \o SigBytes(sig)) \o toHexString(h) = Text(Selectors[f] \o (SigBytes(sig) \o h))
    BY <1>2, <2>1, <2>2, AddMore
  <2>4. QED BY <1>2, <1>4, <2>1, <2>2, <2>3, Zenon DEF checkSigAGG, f
<1> HIDE DEF data
<1>6. data = Selectors[f] \o FlattenSeq(words)
  BY DEF data
<1>7. IsCall(Text(data), ArgumentsOf(f, data)) /\ \A k \in 1..Len(words) : WordAt(data, k) = words[k]
  <2>1. Len(words) <= 7
    BY <1>3
  <2>2. QED BY <1>1, <1>3, <1>6, <2>1, CallOf
<1>8. /\ WordAt(data, 1) = sig.xa /\ WordAt(data, 2) = sig.xb /\ WordAt(data, 3) = sig.ya
      /\ WordAt(data, 4) = sig.yb /\ WordAt(data, 5) = h
  BY <1>3, <1>7
<1>9. ArgumentsOf(f, data) = Meant(f, [message |-> h], Point(sig))
  BY <1>8, GivenCheckSigAGG DEF f, Point
<1>10. QED BY <1>5, <1>7, <1>9, Zenon DEF f

\* checkAggPubkey and calcField are given a key.
LEMMA KeyIsCall ==
    ASSUME NEW key \in Keys, NEW f \in {"checkAggPubkey", "calcField"}
    PROVE  IsCall(getFunctionSignature(f) \o PublicKeyToHex(key), Meant(f, OfKey(key), <<>>))
<1> DEFINE words == <<key.x, key.y>>
           data == Selectors[f] \o FlattenSeq(words)
<1>1. f \in Functions
  BY DEF Functions, Parameters
<1>2. words \in Seq(Word) /\ Len(words) = 2 /\ words[1] = key.x /\ words[2] = key.y
  BY KeyIs
<1> HIDE DEF words
<1>3. FlattenSeq(words) = key.x \o key.y
  BY <1>2, FlattenTwo
<1>4. getFunctionSignature(f) \o PublicKeyToHex(key) = Text(data)
  <2> DEFINE xy == key.x \o key.y
  <2>1. xy \in Seq(Byte) /\ PublicKeyToHex(key) = toHexString(xy)
    BY KeyIs
  <2> HIDE DEF xy
  <2>2. getFunctionSignature(f) \o toHexString(xy) = Text(Selectors[f] \o xy)
    BY <1>1, <2>1, Begins
  <2>3. QED BY <1>3, <2>1, <2>2, Zenon DEF xy
<1> HIDE DEF data
<1>5. data = Selectors[f] \o FlattenSeq(words)
  BY DEF data
<1>6. IsCall(Text(data), ArgumentsOf(f, data)) /\ \A k \in 1..Len(words) : WordAt(data, k) = words[k]
  <2>1. Len(words) <= 7
    BY <1>2
  <2>2. QED BY <1>1, <1>2, <1>5, <2>1, CallOf
<1>7. WordAt(data, 1) = key.x /\ WordAt(data, 2) = key.y
  BY <1>2, <1>6
<1>8. ArgumentsOf(f, data) = Meant(f, OfKey(key), <<>>)
  BY <1>7, GivenKey DEF OfKey
<1>9. QED BY <1>4, <1>6, <1>8, Zenon

\* validateProofOfPossession: a key and a signature.
LEMMA ProofOfPossessionIsCall ==
    ASSUME NEW key \in Keys, NEW sig \in Signatures
    PROVE  IsCall(validateProofOfPossession(key, sig),
                  Meant("validateProofOfPossession", OfKey(key), Point(sig)))
<1> DEFINE f == "validateProofOfPossession"
           words == <<key.x, key.y, sig.xa, sig.xb, sig.ya, sig.yb>>
           data == Selectors[f] \o FlattenSeq(words)
           xy == key.x \o key.y
<1>1. f \in Functions
  BY DEF Functions, Parameters
<1>2. /\ words \in Seq(Word) /\ Len(words) = 6
      /\ words[1] = key.x /\ words[2] = key.y
      /\ words[3] = sig.xa /\ words[4] = sig.xb /\ words[5] = sig.ya /\ words[6] = sig.yb
  BY KeyIs, SignatureIs
<1>3. xy \in Seq(Byte) /\ PublicKeyToHex(key) = toHexString(xy)
  BY KeyIs
<1> HIDE DEF f, words
<1>4. FlattenSeq(words) = (((xy \o sig.xa) \o sig.xb) \o sig.ya) \o sig.yb
  BY <1>2, FlattenSix
<1> HIDE DEF xy
<1>5. (((xy \o sig.xa) \o sig.xb) \o sig.ya) \o sig.yb = xy \o SigBytes(sig)
  <2> DEFINE a == sig.xa
             b == sig.xb
             c == sig.ya
             d == sig.yb
             ab == a \o b
             abc == ab \o c
  <2>1. a \in Seq(Byte) /\ b \in Seq(Byte) /\ c \in Seq(Byte) /\ d \in Seq(Byte)
    BY SignatureIs, WordIsBytes
  <2> HIDE DEF a, b, c, d
  <2>2. ab \in Seq(Byte)
    BY <2>1
  <2>3. (xy \o a) \o b = xy \o ab
    BY ONLY <1>3, <2>1, BytesAssociate, Zenon
  <2> HIDE DEF ab
  <2>4. (xy \o ab) \o c = xy \o abc /\ abc \in Seq(Byte)
    <3>1. (xy \o ab) \o c = xy \o (ab \o c)
      BY ONLY <1>3, <2>1, <2>2, BytesAssociate, Zenon
    <3>2. ab \o c \in Seq(Byte)
      BY ONLY <2>1, <2>2, AddTexts, Zenon
    <3>3. QED BY ONLY <3>1, <3>2, Zenon
  <2> HIDE DEF abc
  <2>5. (xy \o abc) \o d = xy \o (abc \o d)
    BY ONLY <1>3, <2>1, <2>4, BytesAssociate, Zenon
  <2>6. (((xy \o a) \o b) \o c) \o d = xy \o (abc \o d)
    BY <2>3, <2>4, <2>5, Zenon
  <2>7. QED BY <2>6 DEF SigBytes, a, b, c, d, ab, abc
<1>6. validateProofOfPossession(key, sig) = Text(data)
  <2>1. SigBytes(sig) \in Seq(Byte) /\ SignatureToHex(sig) = toHexString(SigBytes(sig))
    BY SignatureIs
  <2>2. getFunctionSignature(f) \o toHexString(xy) = Text(Selectors[f] \o xy) /\ Selectors[f] \in Seq(Byte)
    BY <1>1, <1>3, Begins
  <2>3. Text(Selectors[f] \o xy) \o toHexString(SigBytes(sig)) = Text(Selectors[f] \o (xy \o SigBytes(sig)))
    BY <1>3, <2>1, <2>2, AddMore
  <2>4. QED BY <1>3, <1>4, <1>5, <2>1, <2>2, <2>3, Zenon DEF validateProofOfPossession, f
<1> HIDE DEF data
<1>7. data = Selectors[f] \o FlattenSeq(words)
  BY DEF data
<1>8. IsCall(Text(data), ArgumentsOf(f, data)) /\ \A k \in 1..Len(words) : WordAt(data, k) = words[k]
  <2>1. Len(words) <= 7
    BY <1>2
  <2>2. QED BY <1>1, <1>2, <1>7, <2>1, CallOf
<1>9. /\ WordAt(data, 1) = key.x /\ WordAt(data, 2) = key.y /\ WordAt(data, 3) = sig.xa
      /\ WordAt(data, 4) = sig.xb /\ WordAt(data, 5) = sig.ya /\ WordAt(data, 6) = sig.yb
  BY <1>2, <1>8
<1>10. ArgumentsOf(f, data) = Meant(f, OfKey(key), Point(sig))
  BY <1>9, GivenProofOfPossession DEF f, Point, OfKey
<1>11. QED BY <1>6, <1>8, <1>10, Zenon DEF f

\* updateRewardsMerkleRoot: one word.
LEMMA UpdateRootIsCall ==
    ASSUME NEW root \in Hashes
    PROVE  IsCall(updateRewardsMerkleRoot(root),
                  Meant("updateRewardsMerkleRoot", [_merkleRoot |-> root], <<>>))
<1> DEFINE f == "updateRewardsMerkleRoot"
           words == <<root>>
           data == Selectors[f] \o FlattenSeq(words)
<1>1. f \in Functions
  BY DEF Functions, Parameters
<1>2. root \in Word /\ root \in Seq(Byte)
  <2>1. root \in Word
    BY ShapesAssumption
  <2>2. QED BY <2>1, WordIsBytes
<1>3. words \in Seq(Word) /\ Len(words) = 1 /\ words[1] = root
  BY <1>2
<1> HIDE DEF f, words
<1>4. FlattenSeq(words) = root
  BY <1>3, FlattenOne
<1>5. updateRewardsMerkleRoot(root) = Text(data)
  <2>1. getFunctionSignature(f) \o toHexString(root) = Text(Selectors[f] \o root)
    BY <1>1, <1>2, Begins
  <2>2. QED BY <1>4, <2>1, Zenon DEF updateRewardsMerkleRoot, f
<1> HIDE DEF data
<1>6. data = Selectors[f] \o FlattenSeq(words)
  BY DEF data
<1>7. IsCall(Text(data), ArgumentsOf(f, data)) /\ \A k \in 1..Len(words) : WordAt(data, k) = words[k]
  <2>1. Len(words) <= 7
    BY <1>3
  <2>2. QED BY <1>1, <1>3, <1>6, <2>1, CallOf
<1>8. WordAt(data, 1) = root
  BY <1>3, <1>7
<1>9. ArgumentsOf(f, data) = Meant(f, [_merkleRoot |-> root], <<>>)
  BY <1>8, GivenRoot DEF f
<1>10. QED BY <1>5, <1>7, <1>9, Zenon DEF f
\* checkSigAGGIndices and checkSigAGGNegateIndices: the list is at byte 192, behind six words.
LEMMA CheckIndicesIsCall ==
    ASSUME NEW f \in {"checkSigAGGIndices", "checkSigAGGNegateIndices"},
           NEW sig \in Signatures, NEW h \in Hashes, NEW indices \in IndexLists
    PROVE  IsCall(checkSigAGGIndices(f, sig, h, indices),
                  Meant(f, [message |-> h, indices |-> [i \in DOMAIN indices |-> AsWord(indices[i])]], Point(sig)))
<1> DEFINE o == AsWord(192)
           l == AsWord(Len(indices))
           list == [i \in DOMAIN indices |-> AsWord(indices[i])]
           flat == FlattenSeq(list)
           words == <<sig.xa, sig.xb, sig.ya, sig.yb, h, o, l>>
           data == (Selectors[f] \o FlattenSeq(words)) \o FlattenSeq(list)
<1>1. f \in Functions
  BY DEF Functions, Parameters
<1>2. h \in Word /\ h \in Seq(Byte) /\ Message(h) = toHexString(h)
  <2>1. h \in Word
    BY ShapesAssumption
  <2>2. QED BY <2>1, WordIsBytes, MessageIs
<1>3. /\ indices \in Seq(Numbers) /\ Len(indices) \in Nat
      /\ 32 * (Len(indices) + 32) < TooLarge /\ Len(indices) \in Numbers
  <2> DEFINE n == Len(indices)
  <2>1. indices \in Seq(Numbers) /\ 32 * (n + 32) < TooLarge
    BY IndexListsAre, Zenon
  <2>2. n \in Nat
    BY ONLY <2>1
  <2> HIDE DEF n
  <2>3. n \in Numbers
    BY ONLY <2>1, <2>2, NumbersAre
  <2>4. QED BY ONLY <2>1, <2>2, <2>3 DEF n
<1>4. o \in Word /\ o \in Seq(Byte) /\ padTo32Bytes(<<12, 0>>) = toHexString(o)
  BY OffsetIs, PaddedNumber
<1>5. l \in Word /\ l \in Seq(Byte) /\ padded(Len(indices)) = toHexString(l)
  BY <1>3, PaddedNumber
<1>6. /\ list \in Seq(Word) /\ Len(list) = Len(indices)
      /\ FlattenSeq([i \in DOMAIN indices |-> padded(indices[i])]) = toHexString(flat)
  BY <1>3, PaddedList
<1>7. words \in Seq(Word) /\ Len(words) = 7
      /\ words[1] = sig.xa /\ words[2] = sig.xb /\ words[3] = sig.ya /\ words[4] = sig.yb /\ words[5] = h
      /\ words[6] = o /\ words[7] = l
  BY <1>2, <1>4, <1>5, SignatureIs
<1> HIDE DEF words, o, l, list
<1>8. FlattenSeq(words) = ((SigBytes(sig) \o h) \o o) \o l
  BY <1>7, FlattenSeven DEF SigBytes
<1>9. flat \in Seq(Byte)
  <2>1. Selectors[f] \in Seq(Byte) /\ Carries(Selectors[f], f, 0)
    BY <1>1, CallBegins DEF Carries
  <2>2. QED BY <1>6, <2>1, AddList
<1> HIDE DEF flat
<1>10. checkSigAGGIndices(f, sig, h, indices) = Text(data)
  <2> DEFINE s == Selectors[f]
             g == SigBytes(sig)
             gh == g \o h
             ol == o \o l
             olf == ol \o flat
             gho == gh \o o
             ghol == gho \o l
  <2>1. g \in Seq(Byte) /\ SignatureToHex(sig) = toHexString(g)
    BY SignatureIs
  <2> HIDE DEF g
  <2>2. getFunctionSignature(f) \o toHexString(g) = Text(s \o g) /\ s \in Seq(Byte)
    BY <1>1, <2>1, Begins
  <2> HIDE DEF s
  <2>3a. Text(s \o g) \o toHexString(h) = Text(s \o gh)
    BY <1>2, <2>1, <2>2, AddMore
  <2>3. Text(s \o g) \o toHexString(h) = Text(s \o gh) /\ gh \in Seq(Byte)
    BY <1>2, <2>1, <2>3a
  <2> HIDE DEF gh
  <2>4a. toHexString(o) \o toHexString(l) = toHexString(ol)
    BY <1>4, <1>5, HexConcat
  <2>4. toHexString(o) \o toHexString(l) = toHexString(ol) /\ ol \in Seq(Byte)
    BY <1>4, <1>5, <2>4a
  <2>5a. gho \in Seq(Byte)
    BY ONLY <1>4, <2>3
  <2>5b. gho \o l = gh \o ol
    BY ONLY <1>4, <1>5, <2>3, BytesAssociate, Zenon
  <2>5. gho \in Seq(Byte) /\ gho \o l = gh \o ol
    BY ONLY <2>5a, <2>5b, Zenon
  <2>6. ghol \in Seq(Byte)
    BY <1>5, <2>5
  <2> HIDE DEF ol, gho
  <2>7. toHexString(ol) \o toHexString(flat) = toHexString(olf) /\ olf \in Seq(Byte)
    BY <1>9, <2>4, HexConcat
  <2>8. gh \o olf = (gh \o ol) \o flat
    BY ONLY <1>9, <2>3, <2>4, BytesAssociate, Zenon
  <2> HIDE DEF olf, ghol
  <2>9. Text(s \o gh) \o toHexString(olf) = Text(s \o (gh \o olf))
    BY <2>2, <2>3, <2>7, AddMore
  <2>10. s \o (ghol \o flat) = (s \o ghol) \o flat
    BY ONLY <1>9, <2>2, <2>6, BytesAssociate, Zenon
  <2>11. Listed(<<12, 0>>, indices) = toHexString(olf)
    BY <1>4, <1>5, <1>6, <2>4, <2>7, Zenon DEF Listed
  <2>12. checkSigAGGIndices(f, sig, h, indices) = Text(s \o (gh \o olf))
    BY <1>2, <2>1, <2>2, <2>3, <2>9, <2>11, Zenon DEF checkSigAGGIndices
  <2>13. gh \o olf = ghol \o flat
    BY <2>5, <2>8, Zenon DEF ghol
  <2>14. FlattenSeq(words) = ghol
    BY <1>8, Zenon DEF ghol, gho, gh, g
  <2>15. data = (s \o ghol) \o flat
    BY <2>14, Zenon DEF s, flat
  <2>16. QED BY <2>10, <2>12, <2>13, <2>15, Zenon
<1> HIDE DEF data
<1>11. data = (Selectors[f] \o FlattenSeq(words)) \o FlattenSeq(list)
  BY DEF data
<1>12. /\ IsCall(Text(data), ArgumentsOf(f, data))
       /\ \A k \in 1..Len(words) : WordAt(data, k) = words[k]
       /\ ListAt(data, 6) = list
  <2> DEFINE m == 6
             k == 6
             m1 == m + 1
  <2>1. m \in Nat /\ Len(words) = m + 1 /\ k \in 1..m /\ Len(words) <= 7
    BY <1>7
  <2>2. words[k] = AsWord(32 * m) /\ words[m + 1] = AsWord(Len(list))
    <3>1. 32 * m = 192 /\ m + 1 = 7
      OBVIOUS
    <3>2. QED BY <1>6, <1>7, <3>1 DEF o, l
  <2>3. 32 * (Len(list) + 32) < TooLarge
    BY <1>3, <1>6
  <2> HIDE DEF m
  <2> HIDE DEF k
  <2>4. /\ IsCall(Text(data), ArgumentsOf(f, data))
        /\ \A i \in 1..Len(words) : WordAt(data, i) = words[i]
        /\ ListAt(data, k) = list
    <3>1. WithList(f, words, m, list, k, data)
      BY <1>1, <1>6, <1>7, <1>11, <2>1, <2>2, <2>3 DEF WithList
    <3>2. IsRead(f, words, list, k, data)
      BY <3>1, CallWithList, Zenon
    <3>3. QED BY <3>2 DEF IsRead
  <2>5. QED BY <2>4 DEF k
<1>13. /\ WordAt(data, 1) = sig.xa /\ WordAt(data, 2) = sig.xb /\ WordAt(data, 3) = sig.ya
       /\ WordAt(data, 4) = sig.yb /\ WordAt(data, 5) = h
  BY <1>7, <1>12
<1>14. ArgumentsOf(f, data) = Meant(f, [message |-> h, indices |-> list], Point(sig))
  BY <1>12, <1>13, GivenIndices DEF Point
<1>15. QED BY <1>10, <1>12, <1>14, Zenon DEF list

\* validateProof: the list is at byte 64, behind two words.
LEMMA ValidateProofIsCall ==
    ASSUME NEW quantity \in Quantities, NEW path \in Proofs
    PROVE  IsCall(validateProof(quantity, path),
                  Meant("validateProof", [_quantity |-> AsWord(quantity), _merkleProof |-> path], <<>>))
<1> DEFINE f == "validateProof"
           q == AsWord(quantity)
           o == AsWord(64)
           l == AsWord(Len(path))
           flat == FlattenSeq(path)
           words == <<q, o, l>>
           data == (Selectors[f] \o FlattenSeq(words)) \o FlattenSeq(path)
<1>1. f \in Functions
  BY DEF Functions, Parameters
<1>2. quantity \in Numbers /\ 64 \in Numbers
  <2>1. quantity \in Numbers
    BY NumbersAssumption, SMT
  <2>2. 64 \in Numbers
    BY ONLY NumbersAre
  <2>3. QED BY <2>1, <2>2
<1>3. /\ path \in Seq(Word) /\ Len(path) \in Nat
      /\ 32 * (Len(path) + 32) < TooLarge /\ Len(path) \in Numbers
  <2> DEFINE n == Len(path)
  <2>1. path \in Seq(Word) /\ 32 * (n + 32) < TooLarge
    BY ProofsAre, Zenon
  <2>2. n \in Nat
    BY ONLY <2>1
  <2> HIDE DEF n
  <2>3. n \in Numbers
    BY ONLY <2>1, <2>2, NumbersAre
  <2>4. QED BY ONLY <2>1, <2>2, <2>3 DEF n
<1>4. o \in Word /\ o \in Seq(Byte) /\ padded(64) = toHexString(o)
  BY <1>2, PaddedNumber
<1>5. l \in Word /\ l \in Seq(Byte) /\ padded(Len(path)) = toHexString(l)
  BY <1>3, PaddedNumber
<1>6. q \in Word /\ q \in Seq(Byte) /\ padded(quantity) = toHexString(q)
  BY <1>2, PaddedNumber
<1>7. /\ words \in Seq(Word) /\ Len(words) = 3 /\ words[1] = q /\ words[2] = o /\ words[3] = l
  BY <1>4, <1>5, <1>6
<1> HIDE DEF words, o, l, q, f
<1>8. FlattenSeq(words) = (q \o o) \o l
  BY <1>7, FlattenThree
<1>9. flat \in Seq(Byte)
  <2>1. Selectors[f] \in Seq(Byte) /\ Carries(Selectors[f], f, 0)
    BY <1>1, CallBegins DEF Carries
  <2>2. QED BY <1>3, <2>1, AddList
<1>10. FlattenSeq([i \in DOMAIN path |-> toHexString(path[i])]) = toHexString(flat)
  <2> DEFINE texts == [i \in DOMAIN path |-> toHexString(path[i])]
             T == Seq(Byte)
  <2>1. DOMAIN path = 1..Len(path)
    BY <1>3
  <2>2. texts = [k \in 1..Len(path) |-> toHexString(path[k])]
    BY <2>1
  <2>3. \A w \in Word : w \in T
    BY WordIsBytes
  <2> HIDE DEF T, texts
  <2>4. path \in Seq(T)
    BY <1>3, <2>3
  <2>5. path \in Seq(Seq(Byte))
    BY <2>4 DEF T
  <2>6. FlattenSeq(texts) = toHexString(FlattenSeq(path))
    BY <2>2, <2>5, HexFlatten
  <2>7. QED BY <2>6 DEF texts
<1> HIDE DEF flat
<1>11. validateProof(quantity, path) = Text(data)
  <2> DEFINE s == Selectors[f]
             qo == q \o o
             qol == qo \o l
  <2>1. getFunctionSignature(f) \o toHexString(q) = Text(s \o q) /\ s \in Seq(Byte)
    BY <1>1, <1>6, Begins
  <2> HIDE DEF s
  <2>2a. Text(s \o q) \o toHexString(o) = Text(s \o qo)
    BY <1>4, <1>6, <2>1, AddMore
  <2>2. Text(s \o q) \o toHexString(o) = Text(s \o qo) /\ qo \in Seq(Byte)
    BY <1>4, <1>6, <2>2a
  <2> HIDE DEF qo
  <2>3a. Text(s \o qo) \o toHexString(l) = Text(s \o qol)
    BY <1>5, <2>1, <2>2, AddMore
  <2>3. Text(s \o qo) \o toHexString(l) = Text(s \o qol) /\ qol \in Seq(Byte)
    BY <1>5, <2>2, <2>3a
  <2> HIDE DEF qol
  <2>4. Text(s \o qol) \o toHexString(flat) = Text(s \o (qol \o flat))
    BY <1>9, <2>1, <2>3, AddMore
  <2>5. s \o (qol \o flat) = (s \o qol) \o flat
    BY ONLY <1>9, <2>1, <2>3, BytesAssociate, Zenon
  <2>6. validateProof(quantity, path) = Text((s \o qol) \o flat)
    BY <1>4, <1>5, <1>6, <1>10, <2>1, <2>2, <2>3, <2>4, <2>5, Zenon DEF validateProof, f
  <2>7. FlattenSeq(words) = qol
    BY <1>8, Zenon DEF qol, qo
  <2>8. data = (s \o qol) \o flat
    BY <2>7, Zenon DEF s, flat
  <2>9. QED BY <2>6, <2>8, Zenon
<1> HIDE DEF data
<1>12. data = (Selectors[f] \o FlattenSeq(words)) \o FlattenSeq(path)
  BY DEF data
<1>13. /\ IsCall(Text(data), ArgumentsOf(f, data))
       /\ \A k \in 1..Len(words) : WordAt(data, k) = words[k]
       /\ ListAt(data, 2) = path
  <2> DEFINE m == 2
             k == 2
  <2>1. m \in Nat /\ Len(words) = m + 1 /\ k \in 1..m /\ Len(words) <= 7
    BY <1>7
  <2>2. words[k] = AsWord(32 * m) /\ words[m + 1] = AsWord(Len(path))
    <3>1. 32 * m = 64 /\ m + 1 = 3
      OBVIOUS
    <3>2. QED BY <1>7, <3>1 DEF o, l
  <2> HIDE DEF m
  <2> HIDE DEF k
  <2>4. /\ IsCall(Text(data), ArgumentsOf(f, data))
        /\ \A i \in 1..Len(words) : WordAt(data, i) = words[i]
        /\ ListAt(data, k) = path
    <3>1. WithList(f, words, m, path, k, data)
      BY <1>1, <1>3, <1>7, <1>12, <2>1, <2>2 DEF WithList
    <3>2. IsRead(f, words, path, k, data)
      BY <3>1, CallWithList, Zenon
    <3>3. QED BY <3>2 DEF IsRead
  <2>5. QED BY <2>4 DEF k
<1>14. WordAt(data, 1) = q
  BY <1>7, <1>13
<1>15. ArgumentsOf(f, data) = Meant(f, [_quantity |-> q, _merkleProof |-> path], <<>>)
  BY <1>13, <1>14, GivenProof DEF f
<1>16. QED BY <1>11, <1>13, <1>15, Zenon DEF f, q

\* An address, with a prefix or without, as a word.
AddressWord(address) == [i \in 1..12 |-> 0] \o address

\* An address with a prefix or without is padded to the same word.
LEMMA AddressIs ==
    ASSUME NEW address \in Addresses, NEW prefix \in {<<>>, Prefix}
    PROVE  /\ AddressWord(address) \in Word
           /\ padTo32Bytes(WithoutPrefix(prefix \o toHexString(address))) = toHexString(AddressWord(address))
<1> DEFINE hex == toHexString(address)
           zeros == [i \in 1..12 |-> 0]
           w == AddressWord(address)
<1>1. address \in Seq(Byte) /\ Len(address) = 20
  <2>1. address \in [1..20 -> Byte]
    BY ShapesAssumption
  <2>2. address = [i \in 1..20 |-> address[i]] /\ \A i \in 1..20 : address[i] \in Byte
    BY <2>1
  <2>3. QED BY <2>1, <2>2
<1>2. hex \in Seq(Digit) /\ Len(hex) = 40
  <2>1. hex \in Seq(Digit) /\ Len(hex) = 2 * Len(address)
    BY <1>1, HexDigits
  <2>2. QED BY <1>1, <2>1
<1>3. zeros \in Seq(Byte) /\ Len(zeros) = 12 /\ \A i \in 1..12 : zeros[i] = 0
  BY DEF Byte
<1>4. w = zeros \o address
  BY DEF AddressWord
<1>5. toHexString(zeros) = [i \in 1..24 |-> 0]
  <2> DEFINE z == toHexString(zeros)
             y == [i \in 1..24 |-> 0]
  <2> HIDE DEF zeros
  <2>1. z \in Seq(Digit) /\ Len(z) = 2 * Len(zeros)
    BY <1>3, HexDigits
  <2>2. \A i \in 1..Len(zeros) : z[2 * i - 1] = zeros[i] \div 16 /\ z[2 * i] = zeros[i] % 16
    BY <1>3, HexDigits
  <2>3. y \in Seq(Digit) /\ Len(y) = 24 /\ \A j \in 1..24 : y[j] = 0
    BY DEF Digit
  <2> HIDE DEF z, y
  <2>4. \A i \in 1..12 : z[2 * i - 1] = 0 /\ z[2 * i] = 0
    <3>1. 0 \div 16 = 0 /\ 0 % 16 = 0 /\ \A i \in 1..12 : i \in 1..12
      OBVIOUS
    <3>2. \A i \in 1..12 : zeros[i] = 0 /\ i \in 1..Len(zeros)
      BY ONLY <1>3, Zenon
    <3>3. QED BY ONLY <2>2, <3>1, <3>2, Zenon
  <2>5. \A j \in 1..24 : z[j] = 0
    <3>1. \A j \in 1..24 : \E i \in 1..12 : j = 2 * i - 1 \/ j = 2 * i
      <4>1. \A j \in 1..24 : (j + 1) \div 2 \in 1..12 /\ (j = 2 * ((j + 1) \div 2) - 1 \/ j = 2 * ((j + 1) \div 2))
        OBVIOUS
      <4>2. QED BY <4>1
    <3>2. QED BY <2>4, <3>1
  <2>6. Len(z) = Len(y) /\ \A j \in 1..Len(z) : z[j] = y[j]
    BY <1>3, <2>1, <2>3, <2>5
  <2>7. z = y
    BY <2>1, <2>3, <2>6, SameSeq
  <2>8. QED BY <2>7 DEF z, y
<1> HIDE DEF zeros, w
<1>6. w \in Seq(Byte) /\ Len(w) = 32
  <2>1. \A s, t \in Seq(Byte) : s \o t \in Seq(Byte) /\ Len(s \o t) = Len(s) + Len(t)
    OBVIOUS
  <2>2. w \in Seq(Byte) /\ Len(w) = Len(zeros) + Len(address)
    BY <1>1, <1>3, <1>4, <2>1, Zenon
  <2>3. QED BY <1>1, <1>3, <2>2
<1>7. w \in Word
  <2>0. \A s \in Seq(Byte) : s = [i \in 1..Len(s) |-> s[i]] /\ \A i \in 1..Len(s) : s[i] \in Byte
    OBVIOUS
  <2>1. \A i \in 1..32 : w[i] \in Byte
    BY <1>6, <2>0, Zenon
  <2>2. w = [i \in 1..32 |-> w[i]]
    BY <1>6, <2>0, Zenon
  <2>3. QED BY <2>1, <2>2 DEF Word, WordBytes
<1>8. toHexString(w) = toHexString(zeros) \o hex
  BY <1>1, <1>3, <1>4, HexConcat
<1> HIDE DEF hex
<1>9. ~HasPrefix(hex) /\ WithoutPrefix(hex) = hex
  BY <1>2, PrefixGoes
<1>10. WithoutPrefix(prefix \o hex) = hex
  <2>1. CASE prefix = <<>>
    <3>1. \A s \in Seq(Digit) : <<>> \o s = s
      OBVIOUS
    <3>2. QED BY <1>2, <1>9, <2>1, <3>1, Zenon
  <2>2. CASE prefix = Prefix
    BY <1>2, <2>2, PrefixGoes
  <2>3. QED BY <2>1, <2>2
<1>11. padTo32Bytes(hex) = toHexString(zeros) \o hex
  <2>1. Len(hex) < 64 /\ 64 - Len(hex) = 24
    BY <1>2
  <2>2. [i \in 1..(64 - Len(hex)) |-> 0] = [i \in 1..24 |-> 0]
    BY <2>1
  <2>3. padTo32Bytes(hex) = [i \in 1..(64 - Len(hex)) |-> 0] \o hex
    BY <1>9, <2>1, Zenon DEF padTo32Bytes
  <2>4. QED BY <1>5, <2>2, <2>3, Zenon
<1>12. padTo32Bytes(hex) = toHexString(w)
  BY <1>8, <1>11, Zenon
<1>13. QED BY <1>7, <1>10, <1>12, Zenon DEF hex, w

\* contractHash and abiEncode have the same two words.
LEMMA HashIsCall ==
    ASSUME NEW address \in Addresses, NEW balance \in Quantities, NEW prefix \in {<<>>, Prefix}
    PROVE  LET text == prefix \o toHexString(address)
           IN  /\ IsCall(contractHash(text, balance),
                         Meant("hash", [target |-> AddressWord(address), balance |-> AsWord(balance)], <<>>))
               /\ hash(abiEncode(text, balance)) = AddressWord(address) \o AsWord(balance)
<1> DEFINE text == prefix \o toHexString(address)
           f == "hash"
           a == AddressWord(address)
           b == AsWord(balance)
           words == <<a, b>>
           data == Selectors[f] \o FlattenSeq(words)
<1>1. f \in Functions
  BY DEF Functions, Parameters
<1>2. balance \in Numbers
  BY SMTT(20), NumbersAssumption
<1>3. b \in Word /\ b \in Seq(Byte) /\ padded(balance) = toHexString(b)
  BY <1>2, PaddedNumber
<1>4. a \in Word /\ a \in Seq(Byte) /\ padTo32Bytes(WithoutPrefix(text)) = toHexString(a)
  <2>1. a \in Word /\ padTo32Bytes(WithoutPrefix(text)) = toHexString(a)
    BY AddressIs
  <2>2. QED BY <2>1, WordIsBytes
<1>5. words \in Seq(Word) /\ Len(words) = 2 /\ words[1] = a /\ words[2] = b
  BY <1>3, <1>4
<1> HIDE DEF f, a, b, words
<1> HIDE DEF text
<1>6. FlattenSeq(words) = a \o b
  BY <1>5, FlattenTwo
<1>7. contractHash(text, balance) = Text(data)
  <2>1. getFunctionSignature(f) \o toHexString(a) = Text(Selectors[f] \o a) /\ Selectors[f] \in Seq(Byte)
    BY <1>1, <1>4, Begins
  <2>2. Text(Selectors[f] \o a) \o toHexString(b) = Text(Selectors[f] \o (a \o b))
    BY <1>3, <1>4, <2>1, AddMore
  <2>3. QED BY <1>3, <1>4, <1>6, <2>1, <2>2, Zenon DEF contractHash, f
<1> HIDE DEF data
<1>8. data = Selectors[f] \o FlattenSeq(words)
  BY DEF data
<1>9. IsCall(Text(data), ArgumentsOf(f, data)) /\ \A k \in 1..Len(words) : WordAt(data, k) = words[k]
  <2>1. Len(words) <= 7
    BY <1>5
  <2>2. QED BY <1>1, <1>5, <1>8, <2>1, CallOf
<1>10. WordAt(data, 1) = a /\ WordAt(data, 2) = b
  BY <1>5, <1>9
<1>11. ArgumentsOf(f, data) = Meant(f, [target |-> a, balance |-> b], <<>>)
  BY <1>10, GivenHash DEF f
<1>12. hash(abiEncode(text, balance)) = a \o b
  <2> DEFINE ab == a \o b
  <2>1. Prefix \o toHexString(a) = Text(a)
    BY DEF Text
  <2>2. Text(a) \o toHexString(b) = Text(ab) /\ ab \in Seq(Byte)
    BY ONLY <1>3, <1>4, AddTexts, Zenon
  <2> HIDE DEF ab
  <2>3. abiEncode(text, balance) = Text(ab)
    BY <1>3, <1>4, <2>1, <2>2, Zenon DEF abiEncode
  <2>4. HasPrefix(Text(ab)) /\ fromHexString(Text(ab)) = ab
    BY <2>2, TextIs
  <2>5. QED BY <2>3, <2>4 DEF hash, ab
<1>13. QED BY <1>7, <1>9, <1>11, <1>12, Zenon DEF f, a, b, text

\* What is hashed of a public key.
LEMMA PossessionIs ==
    ASSUME NEW key \in Keys
    PROVE  hash(PossessionText(key)) = key.x \o key.y
<1> DEFINE xy == key.x \o key.y
<1>1. xy \in Seq(Byte) /\ PublicKeyToHex(key) = toHexString(xy)
  BY KeyIs
<1> HIDE DEF xy
<1>2. PossessionText(key) = Text(xy)
  BY <1>1 DEF PossessionText, Text
<1>3. HasPrefix(Text(xy)) /\ fromHexString(Text(xy)) = xy
  BY <1>1, TextIs
<1>4. QED BY <1>2, <1>3 DEF hash, xy
-----------------------------------------------------------------------------
\* Items of a transaction, as they are written and read.

\* The first bytes of the shortest bytes and of the shortest list.
Forms == {128, 192}

\* A byte is a number below 256.
LEMMA BytesAre ==
    /\ \A k \in 0..255 : k \in Byte
    /\ \A k \in Byte : k \in 0..255 /\ (k < 128 => k \in 0..127)
  BY DEF Byte

\* The first byte of a short item is a byte.
LEMMA ShortIs ==
    ASSUME NEW short \in Forms
    PROVE  /\ short = 128 \/ short = 192
           /\ short \in Nat /\ short >= 128 /\ \A k \in 0..63 : short + k \in Byte
  BY DEF Byte, Forms

\* What comes before a body of so many bytes.
ShortHeader(h, b, short) ==
    Len(b) <= 55 /\ h \in Seq(Byte) /\ Len(h) = 1 /\ h[1] = short + Len(b)
LongHeader(h, b, short, n) ==
    /\ Len(b) > 55 /\ n \in Seq(Byte) /\ Len(n) \in 1..8 /\ NumberOf(n) = Len(b) /\ n[1] # 0
    /\ h \in Seq(Byte) /\ Len(h) = 1 + Len(n) /\ h[1] = (short + 55) + Len(n) /\ Holds(h, 1, n)
Header(h, b, short) == ShortHeader(h, b, short) \/ \E n : LongHeader(h, b, short, n)

\* Length writes a header, short up to 55 bytes and long above.
LEMMA HeaderIs ==
    ASSUME NEW b \in Seq(Byte), Len(b) \in Numbers, NEW short \in Forms
    PROVE  Header(Length(b, short, short + 55), b, short)
<1> DEFINE n == intToBytes(Len(b))
           h == Length(b, short, short + 55)
<1>0. short \in Nat /\ \A k \in 0..63 : short + k \in Byte
  BY ShortIs, Zenon
<1>1. CASE Len(b) <= 55
  <2> DEFINE f == short + Len(b)
  <2>2. f \in Byte
    <3> DEFINE l == Len(b)
    <3>1. l \in Nat /\ l <= 55
      BY <1>1
    <3> HIDE DEF l
    <3>2. l \in 0..63
      BY <3>1
    <3>3. short + l \in Byte
      BY ONLY <1>0, <3>2
    <3>4. QED BY <3>3 DEF l
  <2>3. h = <<f>>
    BY <1>1 DEF Length
  <2> HIDE DEF f, h
  <2>4. h \in Seq(Byte) /\ Len(h) = 1 /\ h[1] = f
    BY <2>2, <2>3
  <2>5. QED BY <1>1, <2>4 DEF Header, ShortHeader, f, h
<1>2. CASE ~(Len(b) <= 55)
  <2> DEFINE f == (short + 55) + Len(n)
             g == <<f>>
  <2>1. n \in Seq(Byte) /\ Len(n) \in 0..8 /\ NumberOf(n) = Len(b)
        /\ (Len(b) # 0 => Len(n) # 0) /\ (Len(n) # 0 => n[1] # 0)
    BY IntToBytesIs
  <2>2. h = <<f>> \o n
    BY <1>2 DEF Length
  <2> HIDE DEF n, h
  <2>3. Len(b) \in Nat /\ Len(b) > 55
    BY <1>2
  <2>4. Len(n) \in 1..8 /\ n[1] # 0
    BY <2>1, <2>3
  <2>6. f \in Byte
    <3> DEFINE l == Len(n)
               k == 55 + l
    <3>1. l \in 1..8
      BY <2>4
    <3> HIDE DEF l
    <3>2. k \in 0..63 /\ short + k = (short + 55) + l
      BY ONLY <1>0, <3>1
    <3> HIDE DEF k
    <3>3. short + k \in Byte
      BY ONLY <1>0, <3>2
    <3>4. f = (short + 55) + l
      BY DEF l
    <3> HIDE DEF f
    <3>5. QED BY <3>2, <3>3, <3>4
  <2> HIDE DEF f
  <2>7. g \in Seq(Byte) /\ Len(g) = 1 /\ g[1] = f
    BY <2>6
  <2>8. h = g \o n
    BY <2>2
  <2> HIDE DEF g
  <2>9. /\ g \o n \in Seq(Byte) /\ Len(g \o n) = Len(g) + Len(n)
        /\ Holds(g \o n, 0, g) /\ Holds(g \o n, Len(g), n)
    <3>1. \A s, t \in Seq(Byte) : /\ s \o t \in Seq(Byte) /\ Len(s \o t) = Len(s) + Len(t)
                                  /\ Holds(s \o t, 0, s) /\ Holds(s \o t, Len(s), t)
      BY HoldsBoth
    <3>2. n \in Seq(Byte) /\ g \in Seq(Byte)
      BY <2>1, <2>7
    <3>3. QED BY ONLY <3>1, <3>2, Zenon
  <2>10. h \in Seq(Byte) /\ Len(h) = 1 + Len(n) /\ Holds(h, 1, n)
    BY <2>7, <2>8, <2>9
  <2>11. h[1] = f
    <3>1. Holds(h, 0, g)
      BY <2>8, <2>9
    <3>2. 1 \in 1..Len(g) /\ 0 + 1 = 1
      BY <2>7
    <3>3. h[0 + 1] = g[1]
      BY <3>1, <3>2, Zenon DEF Holds
    <3>4. QED BY <2>7, <3>2, <3>3
  <2>12. LongHeader(h, b, short, n)
    BY <2>1, <2>3, <2>4, <2>10, <2>11 DEF LongHeader, f
  <2>13. QED BY <2>12 DEF Header, h
<1>3. QED BY <1>1, <1>2

\* A header has nine bytes at most.
LEMMA HeaderBytes ==
    ASSUME NEW h, NEW b \in Seq(Byte), NEW short \in Forms, Header(h, b, short)
    PROVE  /\ h \in Seq(Byte) /\ Len(h) \in 1..9 /\ h[1] >= short
           /\ Len(b) <= 55 => Len(h) = 1
<1>0. Len(b) \in Nat
  OBVIOUS
<1>s. short \in Nat
  BY ShortIs
<1>1. CASE ShortHeader(h, b, short)
  <2> DEFINE l == Len(b)
             first == h[1]
  <2>1. l \in Nat /\ first = short + l /\ h \in Seq(Byte) /\ Len(h) = 1
    BY <1>0, <1>1 DEF ShortHeader
  <2> HIDE DEF l, first
  <2>2. first >= short
    BY <1>s, <2>1
  <2>3. QED BY <2>1, <2>2 DEF first
<1>2. ASSUME NEW n, LongHeader(h, b, short, n)
      PROVE  h \in Seq(Byte) /\ Len(h) \in 1..9 /\ h[1] >= short /\ ~(Len(b) <= 55)
  <2>1. /\ Len(b) > 55 /\ Len(n) \in 1..8 /\ h \in Seq(Byte)
        /\ Len(h) = 1 + Len(n) /\ h[1] = (short + 55) + Len(n)
    BY <1>2 DEF LongHeader
  <2>2. short \in Nat
    BY ShortIs
  <2> DEFINE l == Len(n)
             L == Len(h)
             first == h[1]
  <2>3. l \in 1..8 /\ L = 1 + l /\ first = (short + 55) + l
    BY <2>1
  <2> HIDE DEF l, L, first
  <2>4. L \in 1..9 /\ first >= short
    BY <2>2, <2>3
  <2>5. QED BY <1>0, <2>1, <2>4 DEF L, first
<1>3. QED BY <1>1, <1>2 DEF Header

\* The same of every header.
LEMMA HeadersAre ==
    \A short \in Forms : \A h : \A b \in Seq(Byte) :
       Header(h, b, short) => h \in Seq(Byte) /\ Len(h) \in 1..9 /\ (Len(b) <= 55 => Len(h) = 1)
BY HeaderBytes, Zenon

\* Every header is bytes.
LEMMA HeadersAreBytes == \A short \in Forms : \A h : \A b \in Seq(Byte) : Header(h, b, short) => h \in Seq(Byte)
BY HeadersAre, Zenon

\* An item that is read: a header is followed by the body it is for.
Item(list, body, next) == [list |-> list, body |-> body, next |-> next, valid |-> TRUE]

\* An item of a header and its body is read as the body.
LEMMA ReadsItem ==
    ASSUME NEW bytes \in Seq(Byte), NEW start \in Nat, NEW b \in Seq(Byte), NEW h,
           NEW short \in Forms, Header(h, b, short),
           short = 128 /\ Len(b) = 1 => b[1] >= 128,
           Holds(bytes, start, h), Holds(bytes, start + Len(h), b)
    PROVE  ItemAt(bytes, start + 1) = Item(short = 192, b, ((start + Len(h)) + Len(b)) + 1)
<1> DEFINE at       == start + 1
           first    == bytes[at]
           list     == first >= 192
           sh       == IF list THEN 192 ELSE 128
           own      == first < 128
           long     == first - sh > 55
           lengths  == Bytes(bytes, at + 1, first - sh - 55)
           length   == IF own THEN 1 ELSE IF long THEN NumberOf(lengths) ELSE first - sh
           from     == IF own THEN at ELSE IF long THEN at + 1 + Len(lengths) ELSE at + 1
           fits     == length <= Len(bytes) - from + 1
           body     == IF fits THEN SubSeq(bytes, from, from + length - 1) ELSE <<>>
           next     == IF fits THEN from + length ELSE Len(bytes) + 1
           valid    == /\ fits
                       /\ long => length > 55 /\ lengths # <<>> /\ lengths[1] # 0
                       /\ ~own /\ ~list /\ length = 1 => body[1] >= 128
<1>0. short \in Nat /\ short >= 128 /\ (short = 128 \/ short = 192)
  BY ShortIs
<1>1. ItemAt(bytes, at) = [list |-> list, body |-> body, next |-> next, valid |-> valid]
  BY DEF ItemAt
<1>2. h \in Seq(Byte) /\ Len(h) \in 1..9 /\ h[1] >= short
  BY HeaderBytes
<1>3. /\ start + Len(h) <= Len(bytes) /\ bytes[start + 1] = h[1]
      /\ (start + Len(h)) + Len(b) <= Len(bytes)
      /\ Len(b) \in Nat /\ Len(h) \in Nat /\ Len(bytes) \in Nat
  BY <1>2 DEF Holds
<1>4. Bytes(bytes, (start + Len(h)) + 1, Len(b)) = b
  <2>1. start + Len(h) \in Nat
    BY <1>3
  <2>2. QED BY <2>1, HoldsBytes
<1>5. SubSeq(bytes, (start + Len(h)) + 1, (start + Len(h)) + Len(b)) = b
  <2>1. Len(b) <= Len(bytes) - ((start + Len(h)) + 1) + 1
    BY <1>3
  <2>2. ((start + Len(h)) + 1) + Len(b) - 1 = (start + Len(h)) + Len(b)
    BY <1>3
  <2>3. QED BY <1>4, <2>1, <2>2 DEF Bytes
<1> DEFINE last == (start + Len(h)) + Len(b)
<1>6. CASE ShortHeader(h, b, short)
  <2>1. Len(h) = 1 /\ h[1] = short + Len(b) /\ Len(b) <= 55
    BY <1>6 DEF ShortHeader
  <2>2. first = short + Len(b) /\ list = (short = 192) /\ sh = short /\ ~own /\ ~long
    <3> DEFINE l == Len(b)
    <3>1. first = short + l /\ l \in Nat /\ l <= 55
      BY <1>3, <2>1
    <3> HIDE DEF first, l
    <3>2. list = (short = 192) /\ sh = short
      BY <1>0, <3>1
    <3>3. ~own /\ ~long
      <4> HIDE DEF sh
      <4>1. QED BY <1>0, <3>1, <3>2
    <3>4. QED BY <3>1, <3>2, <3>3 DEF l
  <2> HIDE DEF list, own, long, first, sh
  <2>3. length = Len(b) /\ from = (start + Len(h)) + 1
    BY <1>0, <1>3, <2>1, <2>2
  <2> HIDE DEF length, from
  <2>4. fits
    BY <1>3, <2>3
  <2> HIDE DEF fits
  <2>5. body = b /\ next = last + 1
    <3>1. from + length - 1 = last /\ from + length = last + 1
      BY <1>3, <2>3
    <3>2. QED BY <1>5, <2>3, <2>4, <3>1
  <2> HIDE DEF body, next
  <2>6. ~list => short = 128
    BY <1>0, <2>2
  <2>7. valid
    BY <2>2, <2>3, <2>4, <2>5, <2>6
  <2> HIDE DEF valid
  <2>8. QED BY <1>1, <2>2, <2>5, <2>7 DEF Item
<1>7. ASSUME NEW n, LongHeader(h, b, short, n)
      PROVE  ItemAt(bytes, start + 1) = Item(short = 192, b, last + 1)
  <2>1. /\ Len(b) > 55 /\ n \in Seq(Byte) /\ Len(n) \in 1..8 /\ NumberOf(n) = Len(b) /\ n[1] # 0
        /\ Len(h) = 1 + Len(n) /\ h[1] = (short + 55) + Len(n) /\ Holds(h, 1, n)
    BY <1>7 DEF LongHeader
  <2>6. Len(n) \in Nat
    BY <2>1
  <2>7. Holds(bytes, start + 1, n)
    <3>1. 1 \in Nat
      OBVIOUS
    <3>2. QED BY <1>2, <2>1, <3>1, HoldsIn
  <2>8. Bytes(bytes, (start + 1) + 1, Len(n)) = n
    <3>1. start + 1 \in Nat
      OBVIOUS
    <3>2. QED BY <2>1, <2>7, <3>1, HoldsBytes
  <2>9. first = (short + 55) + Len(n)
    BY <1>3, <2>1
  <2>9a. list = (short = 192) /\ sh = short
    <3>1. \A k \in 1..8 : \A v \in Forms : ((v + 55) + k >= 192) = (v = 192)
      BY DEF Forms
    <3> DEFINE l == Len(n)
    <3>2. ((short + 55) + l >= 192) = (short = 192)
      <4>1. l \in 1..8
        BY <2>1
      <4> HIDE DEF l
      <4>2. QED BY <3>1, <4>1
    <3> HIDE DEF first
    <3>3. list = (short = 192)
      BY <2>9, <3>2, Zenon
    <3> HIDE DEF list
    <3>4. QED BY <1>0, <3>3
  <2>9b. ~own /\ long /\ first - sh - 55 = Len(n)
    <3> DEFINE l == Len(n)
    <3>1. l \in Nat /\ l >= 1 /\ first = (short + 55) + l
      BY <2>1, <2>9
    <3> HIDE DEF first, sh, l
    <3>2. ~own /\ long /\ first - sh - 55 = l
      BY <1>0, <2>9a, <3>1
    <3>3. QED BY <3>2 DEF l
  <2> HIDE DEF list, own, long, first, sh
  <2>10. lengths = n
    BY <2>8, <2>9b
  <2> HIDE DEF lengths
  <2>11. length = Len(b) /\ from = (start + Len(h)) + 1
    BY <1>3, <2>1, <2>6, <2>9b, <2>10
  <2> HIDE DEF length, from
  <2>12. fits
    BY <1>3, <2>11
  <2> HIDE DEF fits
  <2>13. body = b /\ next = last + 1
    <3>1. from + length - 1 = last /\ from + length = last + 1
      BY <1>3, <2>11
    <3>2. QED BY <1>5, <2>11, <2>12, <3>1
  <2> HIDE DEF body, next
  <2>14. length > 55 /\ length # 1
    BY <1>3, <2>1, <2>11
  <2>15. lengths # <<>>
    BY <2>1, <2>10
  <2>16. valid
    BY <2>1, <2>9b, <2>10, <2>12, <2>14, <2>15
  <2> HIDE DEF valid
  <2>17. QED BY <1>1, <2>9a, <2>13, <2>16 DEF Item
<1>8. QED BY <1>6, <1>7 DEF Header

\* A byte that stands for itself.
LEMMA ReadsOwn ==
    ASSUME NEW bytes \in Seq(Byte), NEW start \in Nat, NEW b \in Seq(Byte), Len(b) = 1, b[1] < 128,
           Holds(bytes, start, b)
    PROVE  ItemAt(bytes, start + 1) = Item(FALSE, b, (start + Len(b)) + 1)
<1>1. /\ start + 1 <= Len(bytes) /\ bytes[start + 1] = b[1] /\ Len(bytes) \in Nat
      /\ b[1] \in 0..127
  <2>1. \A s \in Seq(Byte) : \A i \in 1..Len(s) : s[i] \in Byte
    OBVIOUS
  <2>2. 1 \in 1..Len(b)
    OBVIOUS
  <2>3. b[1] \in Byte
    BY <2>1, <2>2, Zenon
  <2>4. b[1] \in 0..127
    BY <2>3, BytesAre, Zenon
  <2>5. QED BY <2>4 DEF Holds
<1>2. Bytes(bytes, start + 1, 1) = b
  BY HoldsBytes
<1>3. SubSeq(bytes, start + 1, (start + 1) + 1 - 1) = b
  <2>1. 1 <= Len(bytes) - (start + 1) + 1
    BY <1>1
  <2>2. QED BY <1>2, <2>1 DEF Bytes
<1> DEFINE at       == start + 1
           first    == bytes[at]
           list     == first >= 192
           sh       == IF list THEN 192 ELSE 128
           own      == first < 128
           long     == first - sh > 55
           lengths  == Bytes(bytes, at + 1, first - sh - 55)
           length   == IF own THEN 1 ELSE IF long THEN NumberOf(lengths) ELSE first - sh
           from     == IF own THEN at ELSE IF long THEN at + 1 + Len(lengths) ELSE at + 1
           fits     == length <= Len(bytes) - from + 1
           body     == IF fits THEN SubSeq(bytes, from, from + length - 1) ELSE <<>>
           next     == IF fits THEN from + length ELSE Len(bytes) + 1
           valid    == /\ fits
                       /\ long => length > 55 /\ lengths # <<>> /\ lengths[1] # 0
                       /\ ~own /\ ~list /\ length = 1 => body[1] >= 128
<1>4. ItemAt(bytes, at) = [list |-> list, body |-> body, next |-> next, valid |-> valid]
  BY DEF ItemAt
<1>5. own /\ ~list /\ ~long
  <2>1. first \in 0..127
    BY <1>1
  <2> HIDE DEF first
  <2>2. QED BY <2>1
<1> HIDE DEF own, list, long, lengths
<1>6. length = 1 /\ from = at
  BY <1>5
<1> HIDE DEF length, from
<1>7. fits
  BY <1>1, <1>6
<1> HIDE DEF fits
<1>8. body = b /\ next = (start + Len(b)) + 1
  BY <1>3, <1>6, <1>7
<1> HIDE DEF body
<1>9. valid
  BY <1>5, <1>7
<1> HIDE DEF next, valid
<1>10. list = FALSE
  BY <1>5 DEF list
<1>11. QED BY <1>4, <1>8, <1>9, <1>10 DEF Item
-----------------------------------------------------------------------------
\* Items that follow each other.

\* An element of bytes is a byte.
LEMMA ByteAt ==
    ASSUME NEW s \in Seq(Byte), NEW i \in 1..Len(s)
    PROVE  s[i] \in 0..255
<1> DEFINE v == s[i]
<1>1. v \in Byte
  OBVIOUS
<1> HIDE DEF v
<1>2. v \in 0..255
  BY <1>1, BytesAre
<1>3. QED BY <1>2 DEF v

\* Bytes that are the form of an item.
Encodes(e, list, b) ==
    \/ ~list /\ Len(b) = 1 /\ b[1] < 128 /\ e = b
    \/ /\ ~list /\ Len(b) = 1 => b[1] >= 128
       /\ \E h : Header(h, b, IF list THEN 192 ELSE 128) /\ e = h \o b

\* RLPBytes writes the form of bytes.
LEMMA BytesEncode ==
    ASSUME NEW b \in Seq(Byte), Len(b) \in Numbers
    PROVE  Encodes(RLPBytes(b), FALSE, b)
<1>1. CASE Len(b) = 1 /\ b[1] < 128
  BY <1>1 DEF RLPBytes, Encodes
<1>2. CASE ~(Len(b) = 1 /\ b[1] < 128)
  <2> DEFINE h == Length(b, 128, 183)
  <2>1. RLPBytes(b) = h \o b
    BY <1>2 DEF RLPBytes
  <2>2. Header(h, b, 128)
    <3>1. Header(Length(b, 128, 128 + 55), b, 128) /\ 128 + 55 = 183
      BY HeaderIs DEF Forms
    <3>2. QED BY <3>1
  <2>3. Len(b) = 1 => b[1] >= 128
    <3>1. SUFFICES ASSUME Len(b) = 1 PROVE b[1] >= 128
      OBVIOUS
    <3> DEFINE first == b[1]
    <3>2. first \in 0..255
      <4>1. 1 \in 1..Len(b)
        BY <3>1
      <4>2. QED BY <4>1, ByteAt, Zenon
    <3>3. ~(first < 128)
      BY <1>2, <3>1
    <3> HIDE DEF first
    <3>4. first >= 128
      BY <3>2, <3>3
    <3>5. QED BY <3>4 DEF first
  <2> HIDE DEF h
  <2>4. QED BY <2>1, <2>2, <2>3 DEF Encodes
<1>3. QED BY <1>1, <1>2

\* RLPList writes the form of a list.
LEMMA ListEncodes ==
    ASSUME NEW items, FlattenSeq(items) \in Seq(Byte), Len(FlattenSeq(items)) \in Numbers
    PROVE  Encodes(RLPList(items), TRUE, FlattenSeq(items))
<1> DEFINE b == FlattenSeq(items)
           h == Length(b, 192, 247)
<1>1. b \in Seq(Byte) /\ Len(b) \in Numbers
  OBVIOUS
<1>2. RLPList(items) = h \o b
  BY DEF RLPList
<1> HIDE DEF b
<1>3. Header(Length(b, 192, 192 + 55), b, 192) /\ 192 + 55 = 247
  BY <1>1, HeaderIs DEF Forms
<1>4. Header(h, b, 192)
  BY <1>3
<1> HIDE DEF h
<1>5. Encodes(h \o b, TRUE, b)
  BY <1>4 DEF Encodes
<1>6. QED BY <1>2, <1>5 DEF b

\* A form is not empty, and little longer than what it is the form of.
LEMMA EncodedBytes ==
    ASSUME NEW e, NEW list \in BOOLEAN, NEW b \in Seq(Byte), Encodes(e, list, b)
    PROVE  /\ e \in Seq(Byte) /\ Len(e) \in Nat /\ Len(e) >= 1 /\ Len(e) <= Len(b) + 9
           /\ Len(b) \in Nat
           /\ Len(b) <= 55 => Len(e) <= Len(b) + 1
<1> DEFINE N == Len(b)
           E == Len(e)
           short == IF list THEN 192 ELSE 128
<1>0. N \in Nat
  OBVIOUS
<1>1. CASE ~list /\ Len(b) = 1 /\ b[1] < 128 /\ e = b
  <2>1. E = N /\ N = 1 /\ e \in Seq(Byte)
    BY <1>1
  <2> HIDE DEF E, N
  <2>2. E \in Nat /\ E >= 1 /\ E <= N + 9 /\ (N <= 55 => E <= N + 1)
    BY <2>1
  <2>3. QED BY <1>0, <2>1, <2>2 DEF E, N
<1>2. ASSUME NEW h, Header(h, b, short), e = h \o b
      PROVE  e \in Seq(Byte) /\ E \in Nat /\ E >= 1 /\ E <= N + 9 /\ (N <= 55 => E <= N + 1)
  <2> DEFINE H == Len(h)
  <2>1. short \in Forms
    BY DEF Forms
  <2> HIDE DEF short
  <2>2. h \in Seq(Byte) /\ H \in 1..9 /\ (N <= 55 => H = 1)
    BY ONLY <1>2, <2>1, b \in Seq(Byte), HeadersAre, Zenon
  <2>3. e \in Seq(Byte) /\ E = H + N
    BY <1>2, <2>2, HoldsBoth
  <2> HIDE DEF H, E, N
  <2>4. QED BY <1>0, <2>2, <2>3
<1>3. QED BY <1>0, <1>1, <1>2 DEF Encodes

\* The reader finds the item a form is of, and where it ends.
LEMMA ReadsEncoded ==
    ASSUME NEW bytes \in Seq(Byte), NEW start \in Nat, NEW e, NEW list \in BOOLEAN, NEW b \in Seq(Byte),
           Encodes(e, list, b), Holds(bytes, start, e)
    PROVE  ItemAt(bytes, start + 1) = Item(list, b, (start + Len(e)) + 1)
<1> DEFINE short == IF list THEN 192 ELSE 128
<1>1. CASE ~list /\ Len(b) = 1 /\ b[1] < 128 /\ e = b
  <2>1. ItemAt(bytes, start + 1) = Item(FALSE, b, (start + Len(b)) + 1)
    BY <1>1, ReadsOwn
  <2>2. list = FALSE
    BY <1>1
  <2>3. QED BY <1>1, <2>1, <2>2
<1>2. ASSUME NEW h, Header(h, b, short), e = h \o b, ~list /\ Len(b) = 1 => b[1] >= 128
      PROVE  ItemAt(bytes, start + 1) = Item(list, b, (start + Len(e)) + 1)
  <2>1. short \in Forms /\ (short = 128) = ~list /\ (short = 192) = list
    <3>1. (list => short = 192) /\ (~list => short = 128)
      BY ONLY Zenon
    <3>2. 192 # 128 /\ 192 \in Forms /\ 128 \in Forms
      BY ONLY SMT DEF Forms
    <3> HIDE DEF short
    <3>3. QED BY ONLY <3>1, <3>2, list \in BOOLEAN
  <2> HIDE DEF short
  <2>2. h \in Seq(Byte)
    <3>1. Header(h, b, short)
      BY ONLY Header(h, b, short), Zenon
    <3>2. QED BY ONLY <3>1, <2>1, b \in Seq(Byte), HeadersAreBytes, Zenon
  <2>3. e \in Seq(Byte) /\ Len(e) = Len(h) + Len(b) /\ Holds(e, 0, h) /\ Holds(e, Len(h), b)
    BY <1>2, <2>2, HoldsBoth
  <2>4. Len(h) \in Nat /\ Len(b) \in Nat /\ Len(e) \in Nat
    BY <2>2, <2>3
  <2>5. Holds(bytes, start, h) /\ Holds(bytes, start + Len(h), b)
    <3>1. Holds(bytes, start + 0, h)
      <4> DEFINE zero == 0
      <4>1. zero \in Nat /\ Holds(e, zero, h)
        BY <2>3
      <4> HIDE DEF zero
      <4>2. Holds(bytes, start + zero, h)
        BY <2>2, <2>3, <4>1, HoldsIn
      <4>3. QED BY <4>2 DEF zero
    <3>2. Holds(bytes, start + Len(h), b)
      BY <2>3, <2>4, HoldsIn
    <3>3. start + 0 = start
      OBVIOUS
    <3>4. QED BY <3>1, <3>2, <3>3
  <2>6. short = 128 /\ Len(b) = 1 => b[1] >= 128
    BY <1>2, <2>1
  <2>7. ItemAt(bytes, start + 1) = Item(short = 192, b, ((start + Len(h)) + Len(b)) + 1)
    BY <1>2, <2>1, <2>5, <2>6, ReadsItem
  <2>8. (start + Len(h)) + Len(b) = start + Len(e)
    BY <2>3, <2>4
  <2>9. QED BY <2>1, <2>7, <2>8
<1>3. QED BY <1>1, <1>2 DEF Encodes

\* Reading goes on.
LEMMA GoesOn ==
    ASSUME NEW bytes \in Seq(Byte), NEW at \in 1..Len(bytes)
    PROVE  ItemAt(bytes, at).next \in (at + 1)..(Len(bytes) + 1)
<1> DEFINE first    == bytes[at]
           list     == first >= 192
           sh       == IF list THEN 192 ELSE 128
           own      == first < 128
           long     == first - sh > 55
           lengths  == Bytes(bytes, at + 1, first - sh - 55)
           length   == IF own THEN 1 ELSE IF long THEN NumberOf(lengths) ELSE first - sh
           from     == IF own THEN at ELSE IF long THEN at + 1 + Len(lengths) ELSE at + 1
           fits     == length <= Len(bytes) - from + 1
           next     == IF fits THEN from + length ELSE Len(bytes) + 1
           L        == Len(bytes)
<1>1. ItemAt(bytes, at).next = next
  BY DEF ItemAt
<1>2. L \in Nat /\ at \in 1..L /\ at \in Nat
  OBVIOUS
<1>3. first \in 0..255
  BY ByteAt
<1> HIDE DEF first, L
<1>4. sh \in Nat /\ (~own => sh <= first)
  BY <1>3
<1> HIDE DEF sh, list
<1>5. lengths \in Seq(Byte)
  <2> DEFINE size == first - sh - 55
  <2>1. \A s \in Seq(Byte) : \A i \in 1..Len(s) : s[i] \in Byte
    OBVIOUS
  <2>2. size \in Int /\ at + 1 \in Nat
    BY <1>2, <1>3, <1>4
  <2> HIDE DEF size
  <2>3. CASE size <= L - (at + 1) + 1
    <3>1. \A i \in (at + 1)..((at + 1) + size - 1) : bytes[i] \in Byte
      <4>1. \A i \in (at + 1)..((at + 1) + size - 1) : i \in 1..L
        BY <1>2, <2>2, <2>3
      <4>2. QED BY <2>1, <4>1, Zenon DEF L
    <3>2. SubSeq(bytes, at + 1, (at + 1) + size - 1) \in Seq(Byte)
      BY <1>2, <2>2, <3>1
    <3>3. QED BY <2>3, <3>2 DEF Bytes, L, size
  <2>4. CASE ~(size <= L - (at + 1) + 1)
    BY <2>4 DEF Bytes, L, size
  <2>5. QED BY <2>3, <2>4
<1>6. NumberOf(lengths) \in Nat /\ Len(lengths) \in Nat
  BY <1>5, NumberIsNat
<1> HIDE DEF lengths, own, long
<1>7. length \in Nat
  <2>1. first - sh \in Int /\ (~own => first - sh \in Nat)
    BY <1>3, <1>4
  <2>2. QED BY <1>6, <2>1
<1>8. from \in Nat /\ from >= at /\ (own => from = at /\ length = 1) /\ (~own => from >= at + 1)
  BY <1>2, <1>6
<1> HIDE DEF length, from
<1>9. fits => from + length <= L + 1
  BY <1>2, <1>7, <1>8 DEF L
<1>10. from + length >= at + 1
  BY <1>2, <1>7, <1>8
<1> HIDE DEF fits
<1>11. next \in (at + 1)..(L + 1)
  BY <1>2, <1>7, <1>8, <1>9, <1>10 DEF L
<1>12. QED BY <1>1, <1>11 DEF L

\* The recursive definition of Items, unfolded.
LEMMA ItemsUnfold ==
    ASSUME NEW bytes \in Seq(Byte)
    PROVE  \E f : /\ Items(bytes) = f[1]
                  /\ f[Len(bytes) + 1] = <<>>
                  /\ \A at \in 1..Len(bytes) : f[at] = <<ItemAt(bytes, at)>> \o f[ItemAt(bytes, at).next]
<1> DEFINE L == Len(bytes)
           Goes(at) == ItemAt(bytes, at).next
           One(at) == <<ItemAt(bytes, at)>>
           Body(g, at) == IF at > L THEN <<>> ELSE One(at) \o g[Goes(at)]
           S == {k \in Nat : \E g : \A at \in 1..(L + 1) : at + k >= L + 1 => g[at] = Body(g, at)}
<1>0. L \in Nat
  OBVIOUS
<1>1. \A at \in 1..L : Goes(at) \in (at + 1)..(L + 1)
  BY GoesOn
<1> HIDE DEF L, Goes, One
<1>2. \A at \in 1..(L + 1) : ~(at > L) => Goes(at) \in 1..(L + 1) /\ Goes(at) > at
  BY <1>0, <1>1
<1>3. 0 \in S
  <2> DEFINE g == [at \in 1..(L + 1) |-> <<>>]
  <2>1. \A at \in 1..(L + 1) : at + 0 >= L + 1 => g[at] = Body(g, at)
    BY <1>0
  <2> HIDE DEF g, Body
  <2>2. QED BY <2>1
<1>4. ASSUME NEW k \in Nat, k \in S
      PROVE  k + 1 \in S
  <2>1. PICK g : \A at \in 1..(L + 1) : at + k >= L + 1 => g[at] = Body(g, at)
    BY <1>4
  <2> DEFINE h == [at \in 1..(L + 1) |-> IF at + k >= L + 1 THEN g[at] ELSE One(at) \o g[Goes(at)]]
  <2>2. ASSUME NEW at \in 1..(L + 1), at + (k + 1) >= L + 1 PROVE h[at] = Body(h, at)
    <3>1. ~(at > L) => /\ Goes(at) \in 1..(L + 1) /\ Goes(at) + k >= L + 1
                       /\ h[Goes(at)] = g[Goes(at)]
      <4>1. ~(at > L) => Goes(at) \in 1..(L + 1) /\ Goes(at) + k >= L + 1
        BY <1>0, <1>2, <2>2
      <4>2. QED BY <4>1
    <3>2. CASE at > L
      <4>1. at + k >= L + 1
        BY <1>0, <3>2
      <4>2. h[at] = g[at]
        BY <4>1
      <4> HIDE DEF h
      <4>3. QED BY <2>1, <3>2, <4>1, <4>2
    <3>3. CASE ~(at > L)
      <4>1. h[at] = One(at) \o g[Goes(at)]
        <5>1. CASE at + k >= L + 1
          <6>1. g[at] = One(at) \o g[Goes(at)]
            BY <2>1, <3>3, <5>1, Zenon
          <6>2. h[at] = g[at]
            BY <5>1
          <6> HIDE DEF h
          <6>3. QED BY <6>1, <6>2, Zenon
        <5>2. CASE ~(at + k >= L + 1)
          BY <5>2
        <5>3. QED BY <5>1, <5>2
      <4> HIDE DEF h
      <4>2. QED BY <3>1, <3>3, <4>1, Zenon
    <3>4. QED BY <3>2, <3>3
  <2> HIDE DEF h, Body
  <2>3. QED BY <2>2
<1> HIDE DEF S
<1>5. L + 1 \in S
  <2>1. Nat \subseteq S
    BY <1>3, <1>4, Induction
  <2>2. L + 1 \in Nat
    BY <1>0
  <2>3. QED BY <2>1, <2>2
<1>6. PICK g : \A at \in 1..(L + 1) : g[at] = Body(g, at)
  <2>1. PICK g : \A at \in 1..(L + 1) : at + (L + 1) >= L + 1 => g[at] = Body(g, at)
    <3> HIDE DEF Body
    <3>1. QED BY <1>5 DEF S
  <2>2. \A at \in 1..(L + 1) : at + (L + 1) >= L + 1
    BY <1>0
  <2> HIDE DEF Body
  <2>3. QED BY <2>1, <2>2
<1>7. [at \in 1..(L + 1) |-> g[at]] = [at \in 1..(L + 1) |-> Body([e \in 1..(L + 1) |-> g[e]], at)]
  <2> DEFINE w == [e \in 1..(L + 1) |-> g[e]]
  <2>1. ASSUME NEW at \in 1..(L + 1) PROVE g[at] = Body(w, at)
    <3>1. ~(at > L) => w[Goes(at)] = g[Goes(at)]
      BY <1>2
    <3> HIDE DEF w
    <3>2. QED BY <1>6, <3>1, Zenon
  <2> HIDE DEF Body
  <2>2. QED BY <2>1
<1>8. \E f : f = [at \in 1..(L + 1) |-> Body(f, at)]
  BY <1>7, Zenon
<1> DEFINE w == CHOOSE f : f = [at \in 1..(Len(bytes) + 1) |->
                   IF at > Len(bytes) THEN <<>> ELSE <<ItemAt(bytes, at)>> \o f[ItemAt(bytes, at).next]]
<1>9. Items(bytes) = w[1]
  BY DEF Items
<1>10. w = CHOOSE f : f = [at \in 1..(L + 1) |-> Body(f, at)]
  BY DEF L, One, Goes
<1> HIDE DEF w
<1>11. w = [at \in 1..(L + 1) |-> Body(w, at)]
  BY <1>8, <1>10, Zenon
<1>12. \A at \in 1..(L + 1) : w[at] = Body(w, at)
  <2> HIDE DEF Body
  <2>1. QED BY <1>11
<1>13. w[L + 1] = <<>>
  <2>1. L + 1 \in 1..(L + 1) /\ L + 1 > L
    BY <1>0
  <2>2. QED BY <1>12, <2>1, Zenon
<1>14. \A at \in 1..L : w[at] = One(at) \o w[Goes(at)]
  <2>1. \A at \in 1..L : at \in 1..(L + 1) /\ ~(at > L)
    BY <1>0
  <2>2. QED BY <1>12, <2>1, Zenon
<1>15. QED BY <1>9, <1>13, <1>14 DEF L, One, Goes
\* An item before others.
LEMMA Prepend ==
    ASSUME NEW x, NEW k \in Nat, NEW t, t = [i \in 1..k |-> t[i]]
    PROVE  <<x>> \o t = [i \in 1..(k + 1) |-> IF i = 1 THEN x ELSE t[i - 1]]
<1> DEFINE S == {x} \cup {t[i] : i \in 1..k}
           one == <<x>>
           u == [i \in 1..(k + 1) |-> IF i = 1 THEN x ELSE t[i - 1]]
<1>1. x \in S /\ \A i \in 1..k : t[i] \in S
  OBVIOUS
<1> HIDE DEF S
<1>2. t \in Seq(S) /\ Len(t) = k
  BY <1>1
<1>3. one \in Seq(S) /\ Len(one) = 1 /\ one[1] = x
  BY <1>1
<1>4. u \in Seq(S) /\ Len(u) = k + 1 /\ u[1] = x /\ \A i \in 1..k : u[i + 1] = t[i]
  <2>1. \A i \in 1..(k + 1) : (IF i = 1 THEN x ELSE t[i - 1]) \in S
    <3>1. \A i \in 1..(k + 1) : i # 1 => i - 1 \in 1..k
      OBVIOUS
    <3>2. QED BY <1>1, <3>1
  <2>2. \A i \in 1..k : i + 1 \in 1..(k + 1) /\ i + 1 # 1 /\ (i + 1) - 1 = i
    OBVIOUS
  <2>3. u \in Seq(S) /\ Len(u) = k + 1
    <3> DEFINE n == k + 1
               v(i) == IF i = 1 THEN x ELSE t[i - 1]
    <3>0. n \in Nat
      OBVIOUS
    <3>1. \A i \in 1..n : v(i) \in S
      BY <2>1, Zenon
    <3>2. u = [i \in 1..n |-> v(i)]
      OBVIOUS
    <3> HIDE DEF n, v, u
    <3>3. u \in Seq(S) /\ Len(u) = n
      BY <3>0, <3>1, <3>2
    <3>4. QED BY <3>3 DEF n
  <2>4. u[1] = x
    BY <1>1
  <2>5. \A i \in 1..k : u[i + 1] = t[i]
    BY <2>2
  <2> HIDE DEF u
  <2>6. QED BY <2>3, <2>4, <2>5
<1> HIDE DEF u, one
<1>5. \A i \in 1..Len(one) : u[i] = one[i]
  BY <1>3, <1>4
<1>6. \A i \in 1..Len(t) : u[Len(one) + i] = t[i]
  <2>1. \A i \in 1..k : u[1 + i] = t[i]
    BY <1>4
  <2>2. QED BY <1>2, <1>3, <2>1
<1>7. Len(u) = Len(one) + Len(t)
  BY <1>2, <1>3, <1>4
<1>8. u = one \o t
  BY <1>2, <1>3, <1>4, <1>5, <1>6, <1>7, FollowIs
<1>9. QED BY <1>8 DEF u, one

\* Items that end where the next one begins are all the items.
Row(bytes, N, pos, its) ==
    /\ N \in Nat /\ pos[0] = 0 /\ pos[N] = Len(bytes)
    /\ \A k \in 0..N : pos[k] \in Nat /\ pos[k] <= Len(bytes)
    /\ \A k \in 1..N : pos[k] > pos[k - 1] /\ ItemAt(bytes, pos[k - 1] + 1) = its[k] /\ its[k].next = pos[k] + 1

\* Items reads a row, item by item.
LEMMA ItemsAre ==
    ASSUME NEW bytes \in Seq(Byte), NEW N, NEW pos, NEW its, Row(bytes, N, pos, its)
    PROVE  Items(bytes) = [k \in 1..N |-> its[k]]
<1> DEFINE L == Len(bytes)
<1>0. L \in Nat
  OBVIOUS
<1>1. /\ N \in Nat /\ pos[0] = 0 /\ pos[N] = L
      /\ \A k \in 0..N : pos[k] \in Nat /\ pos[k] <= L
      /\ \A k \in 1..N : pos[k] > pos[k - 1] /\ ItemAt(bytes, pos[k - 1] + 1) = its[k] /\ its[k].next = pos[k] + 1
  BY DEF Row
<1>2. PICK f : /\ Items(bytes) = f[1]
               /\ f[L + 1] = <<>>
               /\ \A at \in 1..L : f[at] = <<ItemAt(bytes, at)>> \o f[ItemAt(bytes, at).next]
  BY ItemsUnfold
<1> HIDE DEF L
<1> DEFINE T == {k \in Nat : k <= N => f[pos[N - k] + 1] = [i \in 1..k |-> its[(N - k) + i]]}
<1>3. 0 \in T
  <2>1. N - 0 = N
    BY <1>1
  <2>2. f[pos[N - 0] + 1] = <<>>
    BY <1>1, <1>2, <2>1
  <2>3. [i \in 1..0 |-> its[(N - 0) + i]] = <<>>
    OBVIOUS
  <2>4. QED BY <2>2, <2>3
<1>4. ASSUME NEW k \in Nat, k \in T PROVE k + 1 \in T
  <2>1. SUFFICES ASSUME k + 1 <= N
                 PROVE  f[pos[N - (k + 1)] + 1] = [i \in 1..(k + 1) |-> its[(N - (k + 1)) + i]]
    OBVIOUS
  <2> DEFINE m == N - k
             p == N - (k + 1)
             at == pos[p] + 1
             t == [i \in 1..k |-> its[m + i]]
  <2>2. m \in 1..N /\ p \in 0..N /\ m - 1 = p /\ m \in Nat /\ m = p + 1
    BY <1>1, <2>1
  <2>3. f[pos[m] + 1] = t
    BY <1>1, <1>4, <2>1
  <2> HIDE DEF T, m, p
  <2>4. at \in 1..L /\ ItemAt(bytes, at) = its[m] /\ its[m].next = pos[m] + 1
    <3>1. pos[m] > pos[p] /\ pos[m] \in Nat /\ pos[p] \in Nat /\ pos[m] <= L
      BY <1>1, <2>2
    <3>2. QED BY <1>0, <1>1, <2>2, <3>1
  <2> HIDE DEF at
  <2>5. f[at] = <<its[m]>> \o t
    <3> HIDE DEF t
    <3>1. f[at] = <<ItemAt(bytes, at)>> \o f[ItemAt(bytes, at).next]
      BY <1>2, <2>4
    <3>2. f[ItemAt(bytes, at).next] = t
      BY <2>3, <2>4, Zenon
    <3>3. <<ItemAt(bytes, at)>> = <<its[m]>>
      BY <2>4, Zenon
    <3>4. QED BY <3>1, <3>2, <3>3, Zenon
  <2>6. t = [i \in 1..k |-> t[i]]
    OBVIOUS
  <2>7. \A i \in 1..k : t[i] = its[m + i]
    OBVIOUS
  <2> HIDE DEF t
  <2>8. <<its[m]>> \o t = [i \in 1..(k + 1) |-> IF i = 1 THEN its[m] ELSE t[i - 1]]
    BY <2>6, Prepend
  <2>9. \A i \in 1..(k + 1) : (IF i = 1 THEN its[m] ELSE t[i - 1]) = its[p + i]
    <3>1. \A i \in 1..(k + 1) : (i # 1 => i - 1 \in 1..k /\ m + (i - 1) = p + i) /\ (i = 1 => p + i = m)
      BY <2>2
    <3>2. QED BY <2>7, <3>1, Zenon
  <2>10. [i \in 1..(k + 1) |-> IF i = 1 THEN its[m] ELSE t[i - 1]] = [i \in 1..(k + 1) |-> its[p + i]]
    BY <2>9
  <2>11. QED BY <2>5, <2>8, <2>10, Zenon DEF at, p
<1> HIDE DEF T
<1>5. Nat \subseteq T
  BY <1>3, <1>4, Induction
<1>6. N \in T
  BY ONLY <1>1, <1>5
<1>7. N - N = 0 /\ N <= N /\ 0 + 1 = 1
  BY <1>1
<1>8. f[pos[N - N] + 1] = [i \in 1..N |-> its[(N - N) + i]]
  BY <1>6, <1>7 DEF T
<1>9. f[1] = [i \in 1..N |-> its[0 + i]]
  BY <1>1, <1>7, <1>8
<1>10. [i \in 1..N |-> its[0 + i]] = [i \in 1..N |-> its[i]]
  <2>1. \A i \in 1..N : 0 + i = i
    OBVIOUS
  <2>2. QED BY <2>1
<1>11. QED BY <1>2, <1>9, <1>10, Zenon

\* Forms of items one after the other are read as those items.
AreForms(es, lists, bodies) ==
    /\ es \in Seq(Seq(Byte))
    /\ \A k \in 1..Len(es) : lists[k] \in BOOLEAN /\ bodies[k] \in Seq(Byte) /\ Encodes(es[k], lists[k], bodies[k])
AreItems(items, n, lists, bodies) ==
    /\ items = [k \in 1..n |-> items[k]]
    /\ \A k \in 1..n : items[k].list = lists[k] /\ items[k].body = bodies[k] /\ items[k].valid = TRUE

\* Of forms one after the other the reader makes their items.
LEMMA ItemsOf ==
    ASSUME NEW es, NEW lists, NEW bodies, AreForms(es, lists, bodies)
    PROVE  /\ FlattenSeq(es) \in Seq(Byte)
           /\ AreItems(Items(FlattenSeq(es)), Len(es), lists, bodies)
<1> DEFINE flat == FlattenSeq(es)
           N == Len(es)
<1>1. /\ es \in Seq(Seq(Byte))
      /\ \A k \in 1..N : lists[k] \in BOOLEAN /\ bodies[k] \in Seq(Byte) /\ Encodes(es[k], lists[k], bodies[k])
  BY DEF AreForms
<1>2. N \in Nat
  BY <1>1
<1>3. PICK pos : Places(flat, es, pos, Byte)
  BY <1>1, FlattenPlaces
<1> HIDE DEF flat
<1>4. /\ flat \in Seq(Byte) /\ Len(flat) = pos[N]
      /\ pos[0] = 0 /\ \A k \in 0..N : pos[k] \in Nat /\ pos[k] <= Len(flat)
      /\ \A k \in 1..N : pos[k] = pos[k - 1] + Len(es[k])
      /\ \A k \in 1..N : \A i \in 1..Len(es[k]) : flat[pos[k - 1] + i] = es[k][i]
  BY <1>3 DEF Places
<1> DEFINE its == [k \in 1..N |-> Item(lists[k], bodies[k], pos[k] + 1)]
<1>5. \A k \in 1..N : its[k] = Item(lists[k], bodies[k], pos[k] + 1)
  OBVIOUS
<1> HIDE DEF its, N
<1>6. ASSUME NEW k \in 1..N
      PROVE  pos[k] > pos[k - 1] /\ ItemAt(flat, pos[k - 1] + 1) = its[k] /\ its[k].next = pos[k] + 1
  <2> DEFINE start == pos[k - 1]
             e == es[k]
             E == Len(e)
             last == pos[k]
  <2>1. lists[k] \in BOOLEAN /\ bodies[k] \in Seq(Byte) /\ Encodes(e, lists[k], bodies[k])
    BY <1>1
  <2>2. e \in Seq(Byte) /\ E \in Nat /\ E >= 1
    BY <2>1, EncodedBytes
  <2>3. k - 1 \in 0..N /\ k \in 0..N
    BY <1>2
  <2>4. start \in Nat /\ last \in Nat /\ last <= Len(flat) /\ last = start + E
    BY <1>4, <2>3
  <2>5. \A i \in 1..Len(e) : flat[start + i] = e[i]
    BY <1>4
  <2> HIDE DEF start, e, last
  <2>6. Holds(flat, start, e)
    BY <2>4, <2>5 DEF Holds
  <2>7. ItemAt(flat, start + 1) = Item(lists[k], bodies[k], (start + Len(e)) + 1)
    BY <1>4, <2>1, <2>4, <2>6, ReadsEncoded
  <2>8. ItemAt(flat, start + 1) = Item(lists[k], bodies[k], last + 1)
    BY <2>4, <2>7
  <2> HIDE DEF E
  <2>9. last > start
    BY <2>2, <2>4
  <2>10. its[k] = Item(lists[k], bodies[k], last + 1)
    BY <1>5 DEF last
  <2>11. QED BY <2>8, <2>9, <2>10 DEF start, last, Item
<1>7. Row(flat, N, pos, its)
  BY <1>2, <1>4, <1>6 DEF Row
<1>8. Items(flat) = [k \in 1..N |-> its[k]]
  BY <1>4, <1>7, ItemsAre
<1>9. AreItems(Items(flat), N, lists, bodies)
  <2> DEFINE items == Items(flat)
  <2>1. items = [k \in 1..N |-> its[k]]
    BY <1>8
  <2> HIDE DEF items
  <2>2. items = [k \in 1..N |-> items[k]] /\ \A k \in 1..N : items[k] = its[k]
    BY <2>1
  <2>3. \A k \in 1..N : items[k].list = lists[k] /\ items[k].body = bodies[k] /\ items[k].valid = TRUE
    <3> TAKE k \in 1..N
    <3>1. items[k] = Item(lists[k], bodies[k], pos[k] + 1)
      BY <1>5, <2>2, Zenon
    <3>2. QED BY <3>1 DEF Item
  <2>4. QED BY <2>2, <2>3 DEF AreItems, items
<1>10. QED BY <1>4, <1>9 DEF flat, N
-----------------------------------------------------------------------------
\* What the node reads of a transaction.

\* The type byte is the first, and the list what is behind it.
LEMMA TypeThen ==
    ASSUME NEW r \in Seq(Byte)
    PROVE  LET bytes == <<TypeByte>> \o r
           IN  bytes \in Seq(Byte) /\ bytes[1] = TypeByte /\ Tail(bytes) = r
<1> DEFINE one == <<TypeByte>>
           bytes == one \o r
           tail == Tail(bytes)
<1>1. one \in Seq(Byte) /\ Len(one) = 1 /\ one[1] = TypeByte
  BY DEF TypeByte, Byte
<1> HIDE DEF one
<1>2. /\ bytes \in Seq(Byte) /\ Len(bytes) = Len(one) + Len(r)
      /\ \A i \in 1..Len(one) : bytes[i] = one[i]
      /\ \A i \in 1..Len(r) : bytes[Len(one) + i] = r[i]
  <2>1. \A s, t \in Seq(Byte) :
            /\ s \o t \in Seq(Byte) /\ Len(s \o t) = Len(s) + Len(t)
            /\ \A i \in 1..Len(s) : (s \o t)[i] = s[i]
            /\ \A i \in 1..Len(t) : (s \o t)[Len(s) + i] = t[i]
    BY Follow
  <2>2. QED BY <1>1, <2>1, Zenon
<1>3. Len(r) \in Nat
  OBVIOUS
<1> HIDE DEF bytes
<1>4. /\ tail \in Seq(Byte) /\ Len(tail) = Len(bytes) - 1
      /\ \A i \in 1..(Len(bytes) - 1) : tail[i] = bytes[i + 1]
  <2>1. Len(bytes) \in Nat /\ Len(bytes) # 0
    BY <1>1, <1>2, <1>3
  <2>2. \A s \in Seq(Byte) : Len(s) # 0 =>
            /\ Tail(s) \in Seq(Byte) /\ Len(Tail(s)) = Len(s) - 1
            /\ \A i \in 1..(Len(s) - 1) : Tail(s)[i] = s[i + 1]
    OBVIOUS
  <2>3. QED BY <1>2, <2>1, <2>2, Zenon
<1> HIDE DEF tail
<1>5. Len(tail) = Len(r) /\ \A i \in 1..Len(tail) : tail[i] = r[i]
  <2>1. \A i \in 1..Len(r) : bytes[i + 1] = r[i]
    <3>1. \A i \in 1..Len(r) : Len(one) + i = i + 1
      BY <1>1, <1>3
    <3>2. QED BY <1>2, <3>1
  <2>2. Len(bytes) - 1 = Len(r)
    BY <1>1, <1>2, <1>3
  <2>3. QED BY <1>4, <2>1, <2>2
<1>6. tail = r
  BY <1>4, <1>5, SameSeq
<1>7. bytes[1] = TypeByte
  BY <1>1, <1>2
<1>8. QED BY <1>2, <1>6, <1>7 DEF bytes, one, tail

\* The nine items that are signed, of their bodies.
Entries(bodies) == [i \in 1..9 |-> IF i = 9 THEN RLPList(<<>>) ELSE RLPBytes(bodies[i])]

\* What is read of twelve items.
Reading(bodies) ==
    [accepted |-> TRUE, chainId |-> NumberOf(bodies[1]), nonce |-> NumberOf(bodies[2]),
     maxPriorityFeePerGas |-> NumberOf(bodies[3]), maxFeePerGas |-> NumberOf(bodies[4]),
     gasLimit |-> NumberOf(bodies[5]), to |-> bodies[6], value |-> NumberOf(bodies[7]),
     call |-> Arguments(bodies[8]), recid |-> NumberOf(bodies[10]),
     r |-> bodies[11], s |-> bodies[12],
     payload |-> <<TypeByte>> \o RLPList(Entries(bodies))]

Numeric == {1, 2, 3, 4, 5, 7, 10, 11, 12}

\* Twelve forms of the right kinds in a list are accepted, and read as their bodies.
LEMMA NodeReadsIs ==
    ASSUME NEW es, NEW lists, NEW bodies, AreForms(es, lists, bodies), Len(es) = 12,
           \A k \in 1..12 : lists[k] = (k = 9),
           Len(FlattenSeq(es)) \in Numbers,
           \A k \in Numeric : Canonical(bodies[k]),
           Len(bodies[6]) = Len(Contract), bodies[9] = <<>>
    PROVE  NodeReads(Text(<<TypeByte>> \o RLPList(es))) = Reading(bodies)
<1> DEFINE R == RLPList(es)
           flat == FlattenSeq(es)
           ones == <<R>>
           yes == <<TRUE>>
           flats == <<flat>>
           text == Text(<<TypeByte>> \o R)
           bytes == fromHexString(text)
           outer == Items(Tail(bytes))
           items == Items(outer[1].body)
<1>1. flat \in Seq(Byte) /\ AreItems(Items(flat), Len(es), lists, bodies)
  BY ItemsOf
<1>2. Encodes(R, TRUE, flat)
  BY <1>1, ListEncodes
<1> HIDE DEF R, flat
<1>3. R \in Seq(Byte)
  <2>1. TRUE \in BOOLEAN
    OBVIOUS
  <2>2. QED BY <1>1, <1>2, <2>1, EncodedBytes
<1>4. bytes = <<TypeByte>> \o R /\ bytes[1] = TypeByte /\ Tail(bytes) = R
  <2> DEFINE all == <<TypeByte>> \o R
  <2>1. all \in Seq(Byte) /\ all[1] = TypeByte /\ Tail(all) = R
    BY <1>3, TypeThen
  <2> HIDE DEF all
  <2>2. fromHexString(Text(all)) = all
    BY <2>1, TextIs
  <2>3. bytes = all
    BY <2>2 DEF all
  <2> HIDE DEF bytes
  <2>4. QED BY <2>1, <2>3 DEF all
<1> HIDE DEF bytes, text
<1>5. AreForms(ones, yes, flats) /\ Len(ones) = 1 /\ FlattenSeq(ones) = R /\ flats[1] = flat /\ yes[1] = TRUE
  <2>1. Len(ones) = 1 /\ ones[1] = R /\ flats[1] = flat /\ yes[1] = TRUE
    OBVIOUS
  <2>2. ones \in Seq(Seq(Byte))
    <3> DEFINE S == Seq(Byte)
    <3>1. R \in S
      BY <1>3
    <3> HIDE DEF S
    <3>2. ones \in Seq(S)
      BY <3>1
    <3>3. QED BY <3>2 DEF S
  <2> HIDE DEF ones, yes, flats
  <2>3. FlattenSeq(ones) = R
    BY <2>1, FlattenOne
  <2>4. ASSUME NEW k \in 1..Len(ones)
        PROVE  yes[k] \in BOOLEAN /\ flats[k] \in Seq(Byte) /\ Encodes(ones[k], yes[k], flats[k])
    <3>1. k = 1
      BY <2>1
    <3>2. QED BY <1>1, <1>2, <2>1, <3>1
  <2>5. QED BY <2>1, <2>2, <2>3, <2>4 DEF AreForms
<1> HIDE DEF ones, yes, flats
<1>6. AreItems(outer, 1, yes, flats)
  <2>1. AreItems(Items(FlattenSeq(ones)), Len(ones), yes, flats)
    BY <1>5, ItemsOf
  <2>2. QED BY <1>4, <1>5, <2>1, Zenon
<1> HIDE DEF outer
<1>7. Len(outer) = 1 /\ outer[1].list = TRUE /\ outer[1].valid = TRUE /\ outer[1].body = flat
  <2>1. outer = [k \in 1..1 |-> outer[k]] /\ 1 \in 1..1
    BY <1>6 DEF AreItems
  <2>2. Len(outer) = 1
    BY <2>1
  <2>3. QED BY <1>5, <1>6, <2>1, <2>2 DEF AreItems
<1>8. AreItems(items, 12, lists, bodies)
  BY <1>1, <1>7
<1> HIDE DEF items
<1>9. /\ Len(items) = 12
      /\ \A k \in 1..12 : items[k].list = (k = 9) /\ items[k].body = bodies[k] /\ items[k].valid = TRUE
  <2>1. items = [k \in 1..12 |-> items[k]]
        /\ \A k \in 1..12 : items[k].list = lists[k] /\ items[k].body = bodies[k] /\ items[k].valid = TRUE
    BY <1>8 DEF AreItems
  <2>2. Len(items) = 12
    BY <2>1
  <2>3. QED BY <2>1, <2>2
<1>10. /\ \A k \in Numeric : Canonical(items[k].body)
       /\ Len(items[6].body) = Len(Contract) /\ items[9].body = <<>>
       /\ \A k \in 1..12 : items[k].valid /\ items[k].list = (k = 9)
  <2>1. \A k \in Numeric : k \in 1..12
    BY DEF Numeric
  <2>2. 6 \in 1..12 /\ 9 \in 1..12
    OBVIOUS
  <2>3. items[6].body = bodies[6] /\ items[9].body = bodies[9]
    BY <1>9, <2>2
  <2>4. \A k \in Numeric : items[k].body = bodies[k]
    BY <1>9, <2>1
  <2>5. \A k \in Numeric : Canonical(items[k].body)
    BY <2>4
  <2>6. QED BY <1>9, <2>3, <2>5
<1> DEFINE body(i) == items[i].body
           number(i) == NumberOf(body(i))
           Out == [accepted |-> TRUE, chainId |-> number(1), nonce |-> number(2),
              maxPriorityFeePerGas |-> number(3), maxFeePerGas |-> number(4),
              gasLimit |-> number(5), to |-> body(6), value |-> number(7),
              call |-> Arguments(body(8)), recid |-> number(10),
              r |-> body(11), s |-> body(12),
              payload |-> <<TypeByte>> \o RLPList([i \in 1..9 |->
                  IF i = 9 THEN RLPList(<<>>) ELSE RLPBytes(body(i))])]
           Accepts ==
           /\ bytes[1] = TypeByte
           /\ Len(outer) = 1 /\ outer[1].list /\ outer[1].valid
           /\ Len(items) = 12
           /\ \A i \in 1..12 : items[i].valid /\ items[i].list = (i = 9)
           /\ \A i \in {1, 2, 3, 4, 5, 7, 10, 11, 12} : Canonical(body(i))
           /\ Len(body(6)) = Len(Contract) /\ body(9) = <<>>
<1>11. NodeReads(text) = IF Accepts THEN Out ELSE Rejected
  BY DEF NodeReads, items, outer, bytes
<1>12. Accepts
  <2>1. \A i \in {1, 2, 3, 4, 5, 7, 10, 11, 12} : Canonical(body(i))
    BY <1>10 DEF Numeric
  <2>2. QED BY <1>4, <1>7, <1>9, <1>10, <2>1
<1>13. Out = Reading(bodies)
  <2>1. \A k \in 1..12 : body(k) = bodies[k]
    BY <1>9
  <2>2. [i \in 1..9 |-> IF i = 9 THEN RLPList(<<>>) ELSE RLPBytes(body(i))] = Entries(bodies)
    <3>1. \A i \in 1..9 : i \in 1..12
      OBVIOUS
    <3>2. \A i \in 1..9 : body(i) = bodies[i]
      BY <2>1, <3>1
    <3> HIDE DEF body
    <3>3. QED BY <3>2 DEF Entries
  <2>3. /\ body(1) = bodies[1] /\ body(2) = bodies[2] /\ body(3) = bodies[3] /\ body(4) = bodies[4]
        /\ body(5) = bodies[5] /\ body(6) = bodies[6] /\ body(7) = bodies[7] /\ body(8) = bodies[8]
        /\ body(10) = bodies[10] /\ body(11) = bodies[11] /\ body(12) = bodies[12]
    BY <2>1
  <2> HIDE DEF body
  <2>4. QED BY <2>2, <2>3 DEF Reading
<1> HIDE DEF Accepts, Out
<1>14. NodeReads(text) = Reading(bodies)
  BY <1>11, <1>12, <1>13
<1>15. QED BY <1>14 DEF text, R

\* Forms of the right kinds.
AreRead(es, lists, bodies) ==
    /\ AreForms(es, lists, bodies) /\ Len(es) = 12
    /\ \A k \in 1..12 : lists[k] = (k = 9)
    /\ Len(FlattenSeq(es)) \in Numbers
    /\ \A k \in Numeric : Canonical(bodies[k])
    /\ Len(bodies[6]) = Len(Contract) /\ bodies[9] = <<>>

\* Such forms are read.
LEMMA FormsRead ==
    \A es, lists, bodies : AreRead(es, lists, bodies) =>
        NodeReads(Text(<<TypeByte>> \o RLPList(es))) = Reading(bodies)
BY NodeReadsIs DEF AreRead
-----------------------------------------------------------------------------
\* The numbers of a signature.

\* A word without its leading zeros has none, and is the word when they are filled in.
LEMMA SignificantIs ==
    ASSUME NEW w \in Word
    PROVE  LET b == removeLeadingZeros(w)
           IN  b \in Seq(Byte) /\ Len(b) \in 0..32 /\ Canonical(b) /\ Filled(b) = w
<1> DEFINE N == {i \in DOMAIN w : w[i] # 0}
           b == removeLeadingZeros(w)
<1>1. w \in Seq(Byte) /\ Len(w) = 32 /\ DOMAIN w = 1..32 /\ \A i \in 1..32 : w[i] \in Byte
  BY WordIsBytes DEF Word, WordBytes
<1>2. CASE N = {}
  <2> DEFINE z == [i \in 1..32 |-> 0]
  <2>1. b = <<>>
    BY <1>2 DEF removeLeadingZeros
  <2>2. \A i \in 1..32 : w[i] = 0
    BY <1>1, <1>2
  <2>3. z = w
    BY <1>1, <2>2 DEF Word, WordBytes
  <2>4. WordBytes - Len(b) = 32
    BY <2>1 DEF WordBytes
  <2>5. Filled(b) = z \o <<>>
    BY <2>1, <2>4 DEF Filled
  <2>6. \A s \in Seq(Byte) : s \o <<>> = s
    OBVIOUS
  <2>7. Filled(b) = w
    BY <1>1, <2>3, <2>5, <2>6, Zenon
  <2> HIDE DEF b
  <2>8. QED BY <2>1, <2>7 DEF b, Canonical
<1>3. CASE N # {}
  <2> DEFINE m == Min(N)
             size == 33 - m
  <2>1. N \in SUBSET Nat
    <3>1. \A i \in 1..32 : i \in Nat
      OBVIOUS
    <3>2. \A i \in N : i \in 1..32
      BY <1>1
    <3>3. QED BY <3>1, <3>2
  <2>2. m \in N /\ \A i \in N : m <= i
    <3>1. \E n \in N : \A i \in N : n <= i
      BY <1>3, <2>1, Smallest
    <3>2. m = CHOOSE n \in N : \A i \in N : n <= i
      BY DEF Min
    <3> HIDE DEF m, N
    <3>3. QED BY <3>1, <3>2
  <2>3. b = SubSeq(w, m, 32)
    BY <1>1, <1>3 DEF removeLeadingZeros
  <2> HIDE DEF m, b
  <2>4. m \in 1..32 /\ w[m] # 0 /\ \A i \in 1..32 : i < m => w[i] = 0
    <3>1. m \in 1..32 /\ w[m] # 0
      BY <1>1, <2>2
    <3>2. ASSUME NEW i \in 1..32, i < m PROVE w[i] = 0
      <4>1. ~(m <= i)
        BY <3>1, <3>2
      <4>2. i \notin N
        BY <2>2, <4>1
      <4> QED BY <1>1, <4>2
    <3>3. QED BY <3>1, <3>2
  <2> HIDE DEF N
  <2>5. size \in 1..32 /\ size \in Nat /\ m + size - 1 = 32 /\ 32 - size = m - 1
    BY <2>4
  <2> HIDE DEF size
  <2>6. b = [i \in 1..size |-> w[m + i - 1]]
    <3>1. SubSeq(w, m, 32) = [i \in 1..(32 - m + 1) |-> w[m + i - 1]]
      BY <1>1, <2>4
    <3>2. 32 - m + 1 = size
      BY <2>4 DEF size
    <3>3. QED BY <2>3, <3>1, <3>2
  <2>7. \A i \in 1..size : m + i - 1 \in 1..32
    BY <2>4, <2>5
  <2>8. b \in Seq(Byte) /\ Len(b) = size /\ \A i \in 1..size : b[i] = w[m + i - 1]
    <3>1. \A i \in 1..size : w[m + i - 1] \in Byte
      BY <1>1, <2>7
    <3>2. b \in [1..size -> Byte]
      BY <2>6, <3>1
    <3>3. b \in Seq(Byte) /\ Len(b) = size
      BY <2>5, <3>2
    <3>4. QED BY <2>6, <3>3
  <2>9. b[1] # 0
    <3>1. 1 \in 1..size /\ m + 1 - 1 = m
      BY <2>4, <2>5
    <3>2. QED BY <2>4, <2>8, <3>1
  <2> DEFINE z == [i \in 1..(m - 1) |-> 0]
  <2>10. Filled(b) = z \o b
    <3>1. WordBytes - Len(b) = m - 1
      BY <2>5, <2>8 DEF WordBytes
    <3>2. QED BY <3>1 DEF Filled
  <2>11. z \in Seq(Byte) /\ Len(z) = m - 1 /\ \A i \in 1..(m - 1) : z[i] = 0
    <3>1. m - 1 \in Nat /\ 0 \in Byte
      BY <2>4 DEF Byte
    <3>2. QED BY <3>1
  <2> HIDE DEF z
  <2>12. w = z \o b
    <3>1. \A i \in 1..Len(z) : w[i] = z[i]
      <4>1. \A i \in 1..(m - 1) : i \in 1..32 /\ i < m
        BY <2>4
      <4>2. QED BY <2>4, <2>11, <4>1
    <3>2. \A i \in 1..Len(b) : w[Len(z) + i] = b[i]
      <4>1. \A i \in 1..size : (m - 1) + i = m + i - 1
        BY <2>4, <2>5
      <4>2. QED BY <2>8, <2>11, <4>1
    <3>3. Len(w) = Len(z) + Len(b)
      BY <1>1, <2>4, <2>5, <2>8, <2>11
    <3>4. QED BY <1>1, <2>8, <2>11, <3>1, <3>2, <3>3, FollowIs
  <2>13. Len(b) \in 0..32
    BY <2>5, <2>8
  <2>14. QED BY <2>8, <2>9, <2>10, <2>12, <2>13 DEF Canonical, b
<1>4. QED BY <1>2, <1>3

\* The signature as it is put into the transaction.
SignedBy(sig) == [signatureR |-> sig.r, signatureS |-> sig.s, signatureYParity |-> sig.recid]

\* fromHex takes the digits of r, s and the recovery number apart.
LEMMA SecpIs ==
    ASSUME NEW sig \in Secp
    PROVE  /\ sig.r \in Word /\ sig.s \in Word /\ sig.recid \in 0..3
           /\ fromHex(toHexString(sig.r \o sig.s \o <<sig.recid>>)) = SignedBy(sig)
<1> DEFINE r == sig.r
           s == sig.s
           v == sig.recid
           last == <<v>>
           hr == toHexString(r)
           hs == toHexString(s)
           hl == toHexString(last)
           rs == r \o s
           hrs == hr \o hs
           t == hrs \o hl
<1>1. r \in Word /\ s \in Word /\ v \in 0..3
  BY ShapesAssumption
<1>2. r \in Seq(Byte) /\ s \in Seq(Byte) /\ Len(r) = 32 /\ Len(s) = 32
  BY <1>1, WordIsBytes
<1> HIDE DEF r, s, v
<1>3. last \in Seq(Byte) /\ Len(last) = 1 /\ last[1] = v
  <2>1. v \in 0..255
    BY <1>1
  <2>2. v \in Byte
    BY <2>1, BytesAre
  <2>3. QED BY <2>2
<1> HIDE DEF last
<1>4. toHexString(rs \o last) = t
  <2>1. toHexString(rs) = hrs
    BY <1>2, HexConcat
  <2>2. rs \in Seq(Byte)
    BY <1>2
  <2> HIDE DEF rs
  <2>3. toHexString(rs \o last) = toHexString(rs) \o hl
    BY <1>3, <2>2, HexConcat
  <2>4. QED BY <2>1, <2>3, Zenon
<1>5. \A d \in Digit : d \in Byte
  BY DEF Digit, Byte
<1>6. hr \in Seq(Byte) /\ Len(hr) = 64
  <2>1. hr \in Seq(Digit) /\ Len(hr) = 2 * Len(r)
    BY <1>2, HexDigits
  <2> HIDE DEF hr
  <2>2. QED BY <1>2, <1>5, <2>1
<1>7. hs \in Seq(Byte) /\ Len(hs) = 64
  <2>1. hs \in Seq(Digit) /\ Len(hs) = 2 * Len(s)
    BY <1>2, HexDigits
  <2> HIDE DEF hs
  <2>2. QED BY <1>2, <1>5, <2>1
<1>8. hl \in Seq(Byte) /\ Len(hl) = 2 /\ hl[1] = v \div 16 /\ hl[2] = v % 16
  <2>1. /\ hl \in Seq(Digit) /\ Len(hl) = 2 * Len(last)
        /\ \A i \in 1..Len(last) : hl[2 * i - 1] = last[i] \div 16 /\ hl[2 * i] = last[i] % 16
    BY <1>3, HexDigits
  <2> HIDE DEF hl
  <2>2. 1 \in 1..Len(last) /\ 2 * 1 - 1 = 1 /\ 2 * 1 = 2
    BY <1>3
  <2>3. hl[1] = v \div 16 /\ hl[2] = v % 16
    BY <1>3, <2>1, <2>2
  <2>4. QED BY <1>3, <1>5, <2>1, <2>3
<1> HIDE DEF hr, hs, hl
<1> DEFINE zero == 0
           half == 64
           end == 128
<1>9. zero \in Nat /\ half \in Nat /\ end \in Nat /\ zero + half = half /\ half + half = end
  OBVIOUS
<1>half. Len(hr) = half /\ Len(hs) = half
  BY <1>6, <1>7
<1> HIDE DEF zero, half, end
<1>both. \A x, y \in Seq(Byte) : Holds(x \o y, 0, x) /\ Holds(x \o y, Len(x), y)
  BY HoldsBoth
<1>joined. \A x, y \in Seq(Byte) : x \o y \in Seq(Byte) /\ Len(x \o y) = Len(x) + Len(y)
  OBVIOUS
<1>zero. zero = 0
  BY DEF zero
<1>10. hrs \in Seq(Byte) /\ Len(hrs) = end /\ Holds(hrs, zero, hr) /\ Holds(hrs, half, hs)
  <2>1. hrs \in Seq(Byte) /\ Len(hrs) = Len(hr) + Len(hs)
    BY ONLY <1>6, <1>7, <1>joined, Zenon
  <2>2. Holds(hrs, 0, hr) /\ Holds(hrs, Len(hr), hs)
    BY ONLY <1>6, <1>7, <1>both, Zenon
  <2>3. Holds(hrs, zero, hr) /\ Holds(hrs, half, hs)
    BY ONLY <2>2, <1>half, <1>zero, Zenon
  <2>4. Len(hrs) = end
    BY ONLY <2>1, <1>half, <1>9, Zenon
  <2>5. QED BY ONLY <2>1, <2>3, <2>4, Zenon
<1> HIDE DEF hrs
<1>11. /\ t \in Seq(Byte) /\ Len(t) = 130
       /\ Holds(t, end, hl)
  <2>1. t \in Seq(Byte) /\ Len(t) = Len(hrs) + Len(hl)
    BY ONLY <1>8, <1>10, <1>joined, Zenon
  <2>2. Holds(t, Len(hrs), hl)
    BY ONLY <1>8, <1>10, <1>both, Zenon
  <2>3. Holds(t, end, hl)
    BY ONLY <2>2, <1>10, Zenon
  <2>4. Len(t) = end + 2
    BY ONLY <2>1, <1>8, <1>10, Zenon
  <2>5. Len(t) = 130
    BY ONLY <2>4 DEF end
  <2>6. QED BY ONLY <2>1, <2>3, <2>5, Zenon
<1>12. Holds(t, zero, hr) /\ Holds(t, half, hs)
  BY <1>6, <1>7, <1>8, <1>9, <1>10, HoldsMore
<1> HIDE DEF t
<1>13. SubSeq(t, 1, 64) = hr /\ SubSeq(t, 65, 128) = hs
  <2>1. Bytes(t, zero + 1, Len(hr)) = hr /\ Bytes(t, half + 1, Len(hs)) = hs
    <3>1. \A x, y \in Seq(Byte) : \A n \in Nat : Holds(x, n, y) => Bytes(x, n + 1, Len(y)) = y
      BY HoldsBytes
    <3>2. QED BY ONLY <1>6, <1>7, <1>9, <1>11, <1>12, <3>1, Zenon
  <2>2. Bytes(t, 1, 64) = hr /\ Bytes(t, 65, 64) = hs
    BY <1>6, <1>7, <2>1 DEF zero, half
  <2>3. 64 <= 130 - 1 + 1 /\ 64 <= 130 - 65 + 1 /\ 1 + 64 - 1 = 64 /\ 65 + 64 - 1 = 128
    OBVIOUS
  <2>4. QED BY <1>11, <2>2, <2>3 DEF Bytes
<1>14. 16 * t[129] + t[130] = v
  <2>1. t[128 + 1] = hl[1] /\ t[128 + 2] = hl[2]
    BY <1>8, <1>11 DEF Holds, end
  <2>2. t[129] = v \div 16 /\ t[130] = v % 16
    BY <1>8, <2>1
  <2>3. 16 * (v \div 16) + (v % 16) = v
    BY <1>1
  <2>4. QED BY <2>2, <2>3
<1>15. fromHexString(hr) = r /\ fromHexString(hs) = s
  BY <1>2, HexBack DEF hr, hs
<1>16. fromHex(t) = [signatureR |-> r, signatureS |-> s, signatureYParity |-> v]
  BY <1>13, <1>14, <1>15 DEF fromHex
<1>17. sig.r \o sig.s \o <<sig.recid>> = rs \o last
  BY DEF rs, last, r, s, v
<1>18. QED BY <1>1, <1>4, <1>16, <1>17 DEF SignedBy, r, s, v
-----------------------------------------------------------------------------
\* The transaction, as it is signed and as it is sent.

Number(n) == RLPBytes(intToBytes(n))

\* A form that is no longer than a word's.
Small(e, list, b) ==
    list \in BOOLEAN /\ b \in Seq(Byte) /\ Encodes(e, list, b) /\ e \in Seq(Byte) /\ Len(e) <= 41

\* Up to 32 bytes have a small form.
LEMMA SmallBytes ==
    ASSUME NEW b \in Seq(Byte), Len(b) <= 32
    PROVE  Small(RLPBytes(b), FALSE, b)
<1> DEFINE l == Len(b)
           e == RLPBytes(b)
           no == FALSE
<1>1. l \in Numbers /\ l \in Nat
  <2>1. l \in Nat /\ l <= 32
    OBVIOUS
  <2> HIDE DEF l
  <2>2. QED BY <2>1, NumbersAre
<1>2. Encodes(e, no, b)
  BY <1>1, BytesEncode
<1>3. no \in BOOLEAN
  OBVIOUS
<1> HIDE DEF e, no
<1>4. e \in Seq(Byte) /\ Len(e) \in Nat /\ Len(e) <= l + 9
  BY <1>2, <1>3, EncodedBytes
<1> DEFINE m == Len(e)
<1>5. l <= 32 /\ m \in Nat /\ m <= l + 9
  BY <1>4
<1> HIDE DEF l, m
<1>6. m <= 41
  BY <1>1, <1>5
<1>7. QED BY <1>2, <1>3, <1>4, <1>6 DEF Small, e, no, m

\* A number is written without leading zeros and read as it was.
LEMMA NumberForm ==
    ASSUME NEW n \in Numbers
    PROVE  /\ Small(Number(n), FALSE, intToBytes(n))
           /\ Canonical(intToBytes(n)) /\ NumberOf(intToBytes(n)) = n
<1> DEFINE b == intToBytes(n)
<1>1. /\ b \in Seq(Byte) /\ Len(b) \in 0..8 /\ NumberOf(b) = n
      /\ Len(b) # 0 => b[1] # 0
  BY IntToBytesIs
<1> HIDE DEF b
<1>2. Len(b) <= 32
  <2> DEFINE l == Len(b)
  <2>1. l \in 0..8
    BY <1>1
  <2> HIDE DEF l
  <2>2. l <= 32
    BY <2>1
  <2>3. QED BY <2>2 DEF l
<1>3. Small(RLPBytes(b), FALSE, b)
  BY <1>1, <1>2, SmallBytes
<1>4. Canonical(b)
  <2>1. Len(b) = 0 => b = <<>>
    BY <1>1
  <2>2. QED BY <1>1, <2>1 DEF Canonical
<1>5. QED BY <1>1, <1>3, <1>4 DEF Number, b

\* The empty list has a small form.
LEMMA EmptyList == Small(RLPList(<<>>), TRUE, <<>>)
<1> DEFINE none == <<>>
           yes == TRUE
           e == RLPList(none)
<1>1. none \in Seq(Byte) /\ Len(none) = 0 /\ FlattenSeq(none) = none /\ yes \in BOOLEAN
  BY DEF FlattenSeq
<1> HIDE DEF none
<1>2. Len(none) \in Numbers
  BY <1>1, NumbersAre
<1>3. Encodes(e, yes, none)
  BY <1>1, <1>2, ListEncodes
<1> HIDE DEF e, yes
<1>4. e \in Seq(Byte) /\ Len(e) \in Nat /\ Len(e) <= Len(none) + 9
  BY <1>1, <1>3, EncodedBytes
<1>5. Len(e) <= 41
  BY <1>1, <1>4
<1>6. QED BY <1>1, <1>3, <1>4, <1>5 DEF Small, e, yes, none

\* The address of the contract is 20 bytes.
LEMMA ContractIs == Contract \in Seq(Byte) /\ Len(Contract) = 20
<1>1. Contract \in [1..20 -> Byte]
  BY ShapesAssumption
<1>2. Contract = [i \in 1..20 |-> Contract[i]] /\ \A i \in 1..20 : Contract[i] \in Byte
  BY <1>1
<1>3. QED BY <1>1, <1>2

\* Forms one after the other are not too long.
LEMMA FlattenFits ==
    ASSUME NEW es \in Seq(Seq(Byte)), Len(es) \in 9..12, NEW n \in Nat, n + 512 < TooLarge,
           \A k \in 1..Len(es) : Len(es[k]) <= (IF k = 8 THEN n + 9 ELSE 41)
    PROVE  FlattenSeq(es) \in Seq(Byte) /\ Len(FlattenSeq(es)) \in Numbers
<1> DEFINE N == Len(es)
           flat == FlattenSeq(es)
           size(k) == Len(es[k])
<1>1. PICK pos : Places(flat, es, pos, Byte)
  BY FlattenPlaces
<1>2. /\ flat \in Seq(Byte) /\ Len(flat) = pos[N] /\ pos[0] = 0
      /\ \A k \in 0..N : pos[k] \in Nat
      /\ \A k \in 1..N : pos[k] = pos[k - 1] + size(k)
  BY <1>1 DEF Places
<1>3. \A k \in 1..N : size(k) \in Nat /\ size(k) <= (IF k = 8 THEN n + 9 ELSE 41)
  OBVIOUS
<1> HIDE DEF size, flat
<1> DEFINE S == {k \in Nat : k <= N => pos[k] <= 41 * k + (IF k >= 8 THEN n ELSE 0)}
<1>4. N \in 9..12
  OBVIOUS
<1> HIDE DEF N
<1>5. 0 \in S
  BY <1>2
<1>6. ASSUME NEW k \in Nat, k \in S PROVE k + 1 \in S
  <2>1. SUFFICES ASSUME k + 1 <= N PROVE pos[k + 1] <= 41 * (k + 1) + (IF k + 1 >= 8 THEN n ELSE 0)
    OBVIOUS
  <2>2. k + 1 \in 1..N /\ k \in 0..N /\ k + 1 \in 0..N /\ (k + 1) - 1 = k
    BY <1>4, <2>1
  <2> DEFINE now == pos[k]
             next == pos[k + 1]
             more == size(k + 1)
  <2>3. /\ now \in Nat /\ next = now + more /\ more \in Nat
        /\ more <= (IF k + 1 = 8 THEN n + 9 ELSE 41)
        /\ now <= 41 * k + (IF k >= 8 THEN n ELSE 0)
    <3>1. now \in Nat /\ next = pos[(k + 1) - 1] + more
      BY <1>2, <2>2
    <3>2. more \in Nat /\ more <= (IF k + 1 = 8 THEN n + 9 ELSE 41)
      BY <1>3, <2>2
    <3>3. now <= 41 * k + (IF k >= 8 THEN n ELSE 0)
      <4>1. k <= N
        BY <1>4, <2>2
      <4>2. QED BY <1>6, <4>1
    <3>4. pos[(k + 1) - 1] = now
      BY <2>2
    <3>5. QED BY <3>1, <3>2, <3>3, <3>4
  <2> HIDE DEF now, next, more
  <2>4. next <= 41 * (k + 1) + (IF k + 1 >= 8 THEN n ELSE 0)
    BY <2>3
  <2>5. QED BY <2>4 DEF next
<1> HIDE DEF S
<1>7. Nat \subseteq S
  BY <1>5, <1>6, Induction
<1>8. N \in S /\ N \in 0..N /\ N <= N
  BY <1>4, <1>7
<1> DEFINE end == pos[N]
<1>9. end \in Nat /\ end <= 41 * N + n /\ Len(flat) = end
  BY <1>2, <1>4, <1>8 DEF S
<1> HIDE DEF end
<1>10. end \in Numbers
  BY <1>4, <1>9, NumbersAre
<1>11. QED BY <1>2, <1>9, <1>10 DEF flat

IsTx(t, data) ==
    /\ data \in Seq(Byte) /\ Len(data) + 512 < TooLarge
    /\ t.data = Text(data) /\ t.to = Text(Contract)
    /\ t.chainId \in Numbers /\ t.nonce \in Numbers /\ t.maxPriorityFeePerGas \in Numbers
    /\ t.maxFeePerGas \in Numbers /\ t.gasLimit \in Numbers /\ t.value \in Numbers

Fields(t) ==
    <<Number(t.chainId), Number(t.nonce), Number(t.maxPriorityFeePerGas),
      Number(t.maxFeePerGas), Number(t.gasLimit), RLPBytes(fromHexString(t.to)),
      Number(t.value), RLPBytes(fromHexString(t.data)), RLPList(<<>>)>>
Signs(sig) ==
    <<Number(sig.recid), RLPBytes(removeLeadingZeros(sig.r)), RLPBytes(removeLeadingZeros(sig.s))>>
Payload(t) == <<TypeByte>> \o RLPList(Fields(t))
Signed(t, sig) == <<TypeByte>> \o RLPList(Fields(t) \o Signs(sig))

Bodies(t, data, sig) ==
    <<intToBytes(t.chainId), intToBytes(t.nonce), intToBytes(t.maxPriorityFeePerGas),
      intToBytes(t.maxFeePerGas), intToBytes(t.gasLimit), Contract, intToBytes(t.value), data, <<>>,
      intToBytes(sig.recid), removeLeadingZeros(sig.r), removeLeadingZeros(sig.s)>>

\* Nine elements.
LEMMA Nine ==
    ASSUME NEW S, NEW a1 \in S, NEW a2 \in S, NEW a3 \in S, NEW a4 \in S, NEW a5 \in S, NEW a6 \in S,
           NEW a7 \in S, NEW a8 \in S, NEW a9 \in S
    PROVE  LET s == <<a1, a2, a3, a4, a5, a6, a7, a8, a9>>
           IN  /\ s \in Seq(S) /\ Len(s) = 9 /\ s[1] = a1 /\ s[2] = a2 /\ s[3] = a3 /\ s[4] = a4 /\ s[5] = a5
               /\ s[6] = a6 /\ s[7] = a7 /\ s[8] = a8 /\ s[9] = a9
OBVIOUS

\* Three elements.
LEMMA Three ==
    ASSUME NEW S, NEW a1 \in S, NEW a2 \in S, NEW a3 \in S
    PROVE  LET s == <<a1, a2, a3>>
           IN  s \in Seq(S) /\ Len(s) = 3 /\ s[1] = a1 /\ s[2] = a2 /\ s[3] = a3
OBVIOUS

\* Twelve elements.
LEMMA Twelve ==
    ASSUME NEW a1, NEW a2, NEW a3, NEW a4, NEW a5, NEW a6, NEW a7, NEW a8, NEW a9, NEW a10, NEW a11, NEW a12
    PROVE  LET s == <<a1, a2, a3, a4, a5, a6, a7, a8, a9, a10, a11, a12>>
           IN  /\ s[1] = a1 /\ s[2] = a2 /\ s[3] = a3 /\ s[4] = a4 /\ s[5] = a5 /\ s[6] = a6
               /\ s[7] = a7 /\ s[8] = a8 /\ s[9] = a9 /\ s[10] = a10 /\ s[11] = a11 /\ s[12] = a12
OBVIOUS

\* What the forms and the bodies of a transaction's items are.
ItemForms(e, b, data) ==
    /\ Small(e[1], FALSE, b[1]) /\ Small(e[2], FALSE, b[2]) /\ Small(e[3], FALSE, b[3])
    /\ Small(e[4], FALSE, b[4]) /\ Small(e[5], FALSE, b[5]) /\ Small(e[6], FALSE, b[6])
    /\ Small(e[7], FALSE, b[7]) /\ Small(e[9], TRUE, b[9])
    /\ b[8] = data /\ data \in Seq(Byte) /\ Encodes(e[8], FALSE, data)
    /\ e[8] \in Seq(Byte) /\ Len(e[8]) <= Len(data) + 9

FieldsOf(e, b) ==
    /\ e[1] = RLPBytes(b[1]) /\ e[2] = RLPBytes(b[2]) /\ e[3] = RLPBytes(b[3]) /\ e[4] = RLPBytes(b[4])
    /\ e[5] = RLPBytes(b[5]) /\ e[6] = RLPBytes(b[6]) /\ e[7] = RLPBytes(b[7]) /\ e[8] = RLPBytes(b[8])
    /\ e[9] = RLPList(<<>>)

BodiesOf(b, t, data) ==
    /\ b[1] = intToBytes(t.chainId) /\ b[2] = intToBytes(t.nonce)
    /\ b[3] = intToBytes(t.maxPriorityFeePerGas) /\ b[4] = intToBytes(t.maxFeePerGas)
    /\ b[5] = intToBytes(t.gasLimit) /\ b[6] = Contract /\ b[7] = intToBytes(t.value)
    /\ b[8] = data /\ b[9] = <<>>

\* The fields of a transaction are the forms of what they say.
LEMMA FieldsAre ==
    ASSUME NEW t, NEW data, IsTx(t, data), NEW b, BodiesOf(b, t, data)
    PROVE  /\ Fields(t) \in Seq(Seq(Byte)) /\ Len(Fields(t)) = 9
           /\ ItemForms(Fields(t), b, data) /\ FieldsOf(Fields(t), b)
<1> DEFINE S == Seq(Byte)
           e == Fields(t)
           no == FALSE
           yes == TRUE
<1>1. /\ Small(Number(t.chainId), no, intToBytes(t.chainId))
      /\ Small(Number(t.nonce), no, intToBytes(t.nonce))
      /\ Small(Number(t.maxPriorityFeePerGas), no, intToBytes(t.maxPriorityFeePerGas))
      /\ Small(Number(t.maxFeePerGas), no, intToBytes(t.maxFeePerGas))
      /\ Small(Number(t.gasLimit), no, intToBytes(t.gasLimit))
      /\ Small(Number(t.value), no, intToBytes(t.value))
  BY NumberForm DEF IsTx
<1>2. fromHexString(t.to) = Contract /\ Small(RLPBytes(Contract), no, Contract)
  <2>1. Contract \in Seq(Byte) /\ Len(Contract) <= 32
    BY ContractIs
  <2>2. fromHexString(Text(Contract)) = Contract
    BY <2>1, TextIs
  <2>3. Small(RLPBytes(Contract), FALSE, Contract)
    BY <2>1, SmallBytes
  <2>4. QED BY <2>2, <2>3 DEF IsTx
<1>3. /\ data \in S /\ fromHexString(t.data) = data /\ Encodes(RLPBytes(data), no, data)
      /\ RLPBytes(data) \in S /\ Len(RLPBytes(data)) <= Len(data) + 9
  <2>1. data \in Seq(Byte) /\ Len(data) + 512 < TooLarge
    BY DEF IsTx
  <2>2. fromHexString(Text(data)) = data
    BY <2>1, TextIs
  <2>3. Len(data) \in Numbers
    <3> DEFINE l == Len(data)
    <3>1. l \in Nat /\ l + 512 < TooLarge
      BY <2>1
    <3> HIDE DEF l
    <3>2. l \in Numbers
      BY <3>1, NumbersAre
    <3>3. QED BY <3>2 DEF l
  <2>4. Encodes(RLPBytes(data), no, data) /\ no \in BOOLEAN
    BY <2>1, <2>3, BytesEncode
  <2> DEFINE form == RLPBytes(data)
  <2> HIDE DEF no, form
  <2>5. form \in Seq(Byte) /\ Len(form) <= Len(data) + 9
    BY <2>1, <2>4, EncodedBytes DEF form
  <2>6. QED BY <2>1, <2>2, <2>4, <2>5 DEF IsTx, form
<1>4. Small(RLPList(<<>>), yes, <<>>)
  BY EmptyList
<1> HIDE DEF no, yes
<1>5. \A x, y, list : Small(x, list, y) => x \in S
  BY DEF Small
<1>6. e = <<Number(t.chainId), Number(t.nonce), Number(t.maxPriorityFeePerGas),
            Number(t.maxFeePerGas), Number(t.gasLimit), RLPBytes(Contract),
            Number(t.value), RLPBytes(data), RLPList(<<>>)>>
  BY <1>2, <1>3 DEF Fields
<1> HIDE DEF S, e
<1>7. /\ e \in Seq(S) /\ Len(e) = 9
      /\ e[1] = Number(t.chainId) /\ e[2] = Number(t.nonce) /\ e[3] = Number(t.maxPriorityFeePerGas)
      /\ e[4] = Number(t.maxFeePerGas) /\ e[5] = Number(t.gasLimit) /\ e[6] = RLPBytes(Contract)
      /\ e[7] = Number(t.value) /\ e[8] = RLPBytes(data) /\ e[9] = RLPList(<<>>)
  <2>1. /\ Number(t.chainId) \in S /\ Number(t.nonce) \in S /\ Number(t.maxPriorityFeePerGas) \in S
        /\ Number(t.maxFeePerGas) \in S /\ Number(t.gasLimit) \in S /\ RLPBytes(Contract) \in S
        /\ Number(t.value) \in S /\ RLPBytes(data) \in S /\ RLPList(<<>>) \in S
    BY <1>1, <1>2, <1>3, <1>4, <1>5
  <2>2. QED BY <1>6, <2>1, Nine
<1>8. ItemForms(e, b, data)
  BY <1>1, <1>2, <1>3, <1>4, <1>7, Zenon DEF ItemForms, BodiesOf, S, no, yes
<1>9. FieldsOf(e, b)
  BY <1>7 DEF FieldsOf, BodiesOf, Number
<1>10. QED BY <1>7, <1>8, <1>9 DEF S, e

\* The payload is what is hashed before there is a signature.
LEMMA PayloadIs ==
    ASSUME NEW t, NEW data, IsTx(t, data), t.sig = NoSignature
    PROVE  hash(serialized(t)) = Payload(t)
<1> DEFINE e == Fields(t)
           R == RLPList(e)
           b == [k \in 1..9 |-> CASE k = 1 -> intToBytes(t.chainId) [] k = 2 -> intToBytes(t.nonce)
                    [] k = 3 -> intToBytes(t.maxPriorityFeePerGas) [] k = 4 -> intToBytes(t.maxFeePerGas)
                    [] k = 5 -> intToBytes(t.gasLimit) [] k = 6 -> Contract [] k = 7 -> intToBytes(t.value)
                    [] k = 8 -> data [] OTHER -> <<>>]
<1>1. BodiesOf(b, t, data)
  BY DEF BodiesOf
<1> HIDE DEF b
<1>2. e \in Seq(Seq(Byte)) /\ Len(e) = 9 /\ ItemForms(e, b, data)
  BY <1>1, FieldsAre
<1>3. serialized(t) = Text(<<TypeByte>> \o R)
  <2>1. e \o <<>> = e
    <3> DEFINE S == Seq(Byte)
    <3>1. \A s \in Seq(S) : s \o <<>> = s
      OBVIOUS
    <3>2. e \in Seq(S)
      BY <1>2
    <3> HIDE DEF S, e
    <3>3. QED BY <3>1, <3>2, Zenon
  <2>2. isEmpty(t.sig)
    BY DEF isEmpty
  <2>3. serialized(t) = Prefix \o toHexString(<<TypeByte>> \o RLPList(e \o <<>>))
    BY <2>2, Zenon DEF serialized, Fields, Number
  <2>4. QED BY <2>1, <2>3, Zenon DEF Text
<1> HIDE DEF e
<1>4. FlattenSeq(e) \in Seq(Byte) /\ Len(FlattenSeq(e)) \in Numbers
  <2> DEFINE n == Len(data)
  <2>1. n \in Nat /\ n + 512 < TooLarge
    BY DEF IsTx
  <2> HIDE DEF n
  <2>2. ASSUME NEW k \in 1..9 PROVE Len(e[k]) <= (IF k = 8 THEN n + 9 ELSE 41)
    <3>1. k # 8 => Len(e[k]) <= 41
      <4>1. \A x, y, list : Small(x, list, y) => Len(x) <= 41
        BY DEF Small
      <4>2. /\ Len(e[1]) <= 41 /\ Len(e[2]) <= 41 /\ Len(e[3]) <= 41 /\ Len(e[4]) <= 41
            /\ Len(e[5]) <= 41 /\ Len(e[6]) <= 41 /\ Len(e[7]) <= 41 /\ Len(e[9]) <= 41
        BY ONLY <1>2, <4>1, Zenon DEF ItemForms
      <4>3. k = 1 \/ k = 2 \/ k = 3 \/ k = 4 \/ k = 5 \/ k = 6 \/ k = 7 \/ k = 8 \/ k = 9
        OBVIOUS
      <4>4. QED BY ONLY <4>2, <4>3, Zenon
    <3>2. Len(e[8]) <= n + 9
      BY <1>2 DEF ItemForms, n
    <3>3. QED BY <3>1, <3>2
  <2>3. Len(e) \in 9..12 /\ \A k \in 1..Len(e) : Len(e[k]) <= (IF k = 8 THEN n + 9 ELSE 41)
    BY <1>2, <2>2
  <2>4. QED BY <1>2, <2>1, <2>3, FlattenFits
<1>5. R \in Seq(Byte)
  <2> DEFINE yes == TRUE
  <2>1. Encodes(R, yes, FlattenSeq(e)) /\ yes \in BOOLEAN
    BY <1>4, ListEncodes
  <2> HIDE DEF yes, R
  <2>2. QED BY <1>4, <2>1, EncodedBytes
<1> DEFINE all == <<TypeByte>> \o R
<1> HIDE DEF R
<1>6. all \in Seq(Byte)
  BY <1>5, TypeThen
<1> HIDE DEF all
<1>7. HasPrefix(Text(all)) /\ fromHexString(Text(all)) = all
  BY <1>6, TextIs
<1>8. hash(Text(all)) = all
  BY <1>7 DEF hash
<1>9. Payload(t) = all
  BY DEF Payload, all, R, e
<1>10. serialized(t) = Text(all)
  BY <1>3 DEF all
<1>11. QED BY <1>8, <1>9, <1>10, Zenon

\* The three items of a signature.
SignForms(e, b, sig) ==
    /\ Small(e[10], FALSE, b[10]) /\ Small(e[11], FALSE, b[11]) /\ Small(e[12], FALSE, b[12])
    /\ Canonical(b[10]) /\ Canonical(b[11]) /\ Canonical(b[12])
    /\ NumberOf(b[10]) = sig.recid /\ Filled(b[11]) = sig.r /\ Filled(b[12]) = sig.s

\* The three items of a signature are forms, and its numbers are read as they were made.
LEMMA SignsAre ==
    ASSUME NEW sig \in Secp
    PROVE  LET v == intToBytes(sig.recid)
               r == removeLeadingZeros(sig.r)
               s == removeLeadingZeros(sig.s)
           IN  /\ Signs(sig) \in Seq(Seq(Byte)) /\ Len(Signs(sig)) = 3
               /\ Small(Signs(sig)[1], FALSE, v) /\ Small(Signs(sig)[2], FALSE, r)
               /\ Small(Signs(sig)[3], FALSE, s)
               /\ Canonical(v) /\ Canonical(r) /\ Canonical(s)
               /\ NumberOf(v) = sig.recid /\ Filled(r) = sig.r /\ Filled(s) = sig.s
<1> DEFINE S == Seq(Byte)
           no == FALSE
           v == intToBytes(sig.recid)
           r == removeLeadingZeros(sig.r)
           s == removeLeadingZeros(sig.s)
           a == Number(sig.recid)
           b == RLPBytes(r)
           c == RLPBytes(s)
           g == Signs(sig)
<1>1. Small(a, no, v) /\ Canonical(v) /\ NumberOf(v) = sig.recid
  <2>1. sig.recid \in Numbers
    <3> DEFINE n == sig.recid
    <3>1. n \in 0..3
      BY SecpIs
    <3> HIDE DEF n
    <3>2. n \in Numbers
      BY <3>1, NumbersAre
    <3>3. QED BY <3>2 DEF n
  <2>2. QED BY <2>1, NumberForm
<1>2. \A w \in Word : LET z == removeLeadingZeros(w)
                      IN  Small(RLPBytes(z), no, z) /\ Canonical(z) /\ Filled(z) = w
  <2> SUFFICES ASSUME NEW w \in Word
               PROVE  LET z == removeLeadingZeros(w)
                      IN  Small(RLPBytes(z), no, z) /\ Canonical(z) /\ Filled(z) = w
    OBVIOUS
  <2> DEFINE z == removeLeadingZeros(w)
  <2>1. z \in Seq(Byte) /\ Len(z) \in 0..32 /\ Canonical(z) /\ Filled(z) = w
    BY SignificantIs
  <2> HIDE DEF z
  <2> DEFINE l == Len(z)
  <2>2. l \in 0..32
    BY <2>1
  <2> HIDE DEF l
  <2>3. l <= 32
    BY <2>2
  <2>4. Small(RLPBytes(z), no, z)
    BY <2>1, <2>3, SmallBytes DEF l
  <2>5. QED BY <2>1, <2>4 DEF z
<1>3. sig.r \in Word /\ sig.s \in Word
  BY SecpIs
<1>4. Small(b, no, r) /\ Canonical(r) /\ Filled(r) = sig.r
  BY ONLY <1>2, <1>3, Zenon
<1>5. Small(c, no, s) /\ Canonical(s) /\ Filled(s) = sig.s
  BY ONLY <1>2, <1>3, Zenon
<1>6. \A x, y, list : Small(x, list, y) => x \in S
  BY DEF Small
<1>7. g = <<a, b, c>>
  BY DEF Signs
<1>8. no = FALSE
  OBVIOUS
<1> HIDE DEF no, v, r, s, a, b, c, g, S
<1>9. a \in S /\ b \in S /\ c \in S
  BY <1>1, <1>4, <1>5, <1>6
<1>10. g \in Seq(S) /\ Len(g) = 3 /\ g[1] = a /\ g[2] = b /\ g[3] = c
  BY <1>7, <1>9, Three
<1>11. Small(g[1], FALSE, v) /\ Small(g[2], FALSE, r) /\ Small(g[3], FALSE, s)
  BY <1>1, <1>4, <1>5, <1>8, <1>10, Zenon
<1>12. g \in Seq(Seq(Byte))
  BY <1>10 DEF S
<1>13. QED BY <1>1, <1>4, <1>5, <1>10, <1>11, <1>12 DEF v, r, s, g

\* What is put together for the node, item by item.
LEMMA SentItems ==
    ASSUME NEW t, NEW data, IsTx(t, data), NEW sig \in Secp
    PROVE  LET e == Fields(t) \o Signs(sig)
               b == Bodies(t, data, sig)
           IN  /\ e \in Seq(Seq(Byte)) /\ Len(e) = 12
               /\ ItemForms(e, b, data) /\ FieldsOf(Fields(t), b)
               /\ SignForms(e, b, sig) /\ BodiesOf(b, t, data)
<1> DEFINE S == Seq(Byte)
           f == Fields(t)
           g == Signs(sig)
           e == f \o g
           b == Bodies(t, data, sig)
<1>1. BodiesOf(b, t, data)
  BY Twelve DEF Bodies, BodiesOf
<1>2. b[10] = intToBytes(sig.recid) /\ b[11] = removeLeadingZeros(sig.r) /\ b[12] = removeLeadingZeros(sig.s)
  BY Twelve DEF Bodies
<1> HIDE DEF b
<1>3. f \in Seq(Seq(Byte)) /\ Len(f) = 9 /\ ItemForms(f, b, data) /\ FieldsOf(f, b)
  BY <1>1, FieldsAre
<1>4. g \in Seq(Seq(Byte)) /\ Len(g) = 3
      /\ Small(g[1], FALSE, b[10]) /\ Small(g[2], FALSE, b[11]) /\ Small(g[3], FALSE, b[12])
      /\ Canonical(b[10]) /\ Canonical(b[11]) /\ Canonical(b[12])
      /\ NumberOf(b[10]) = sig.recid /\ Filled(b[11]) = sig.r /\ Filled(b[12]) = sig.s
  BY <1>2, SignsAre, Zenon
<1>5. f \in Seq(S) /\ g \in Seq(S) /\ Len(f) = 9 /\ Len(g) = 3
  BY <1>3, <1>4
<1> HIDE DEF S, f, g
<1>6. /\ e \in Seq(S) /\ Len(e) = Len(f) + Len(g)
      /\ \A i \in 1..Len(f) : e[i] = f[i]
      /\ \A i \in 1..Len(g) : e[Len(f) + i] = g[i]
  <2>1. \A x, y \in Seq(S) :
            /\ x \o y \in Seq(S) /\ Len(x \o y) = Len(x) + Len(y)
            /\ \A i \in 1..Len(x) : (x \o y)[i] = x[i]
            /\ \A i \in 1..Len(y) : (x \o y)[Len(x) + i] = y[i]
    BY Follow
  <2>2. QED BY ONLY <1>5, <2>1, Zenon
<1> HIDE DEF e
<1>7. Len(e) = 12 /\ (\A i \in 1..9 : e[i] = f[i]) /\ \A i \in 1..3 : e[9 + i] = g[i]
  BY <1>5, <1>6
<1>8. /\ e[1] = f[1] /\ e[2] = f[2] /\ e[3] = f[3] /\ e[4] = f[4] /\ e[5] = f[5] /\ e[6] = f[6]
      /\ e[7] = f[7] /\ e[8] = f[8] /\ e[9] = f[9]
  BY <1>7
<1>9. e[10] = g[1] /\ e[11] = g[2] /\ e[12] = g[3]
  <2>1. e[9 + 1] = g[1] /\ e[9 + 2] = g[2] /\ e[9 + 3] = g[3]
    BY <1>7
  <2>2. QED BY <2>1
<1>10. ItemForms(e, b, data)
  BY <1>3, <1>8, Zenon DEF ItemForms
<1>11. SignForms(e, b, sig)
  BY <1>4, <1>9, Zenon DEF SignForms
<1>12. e \in Seq(Seq(Byte))
  BY <1>6 DEF S
<1>13. QED BY <1>1, <1>3, <1>7, <1>10, <1>11, <1>12 DEF e, f, g, b

\* The node takes what is sent, and reads out of it what was put in.
LEMMA SentIs ==
    ASSUME NEW t, NEW data, IsTx(t, data), NEW sig \in Secp, t.sig = SignedBy(sig)
    PROVE  LET sent == Signed(t, sig)
           IN  /\ serialized(t) = Text(sent) /\ sent \in Seq(Byte) /\ Len(sent) # 0
               /\ NodeReads(serialized(t)) = Reading(Bodies(t, data, sig))
<1> DEFINE e == Fields(t) \o Signs(sig)
           b == Bodies(t, data, sig)
           R == RLPList(e)
           lists == [k \in 1..12 |-> k = 9]
<1>1. /\ e \in Seq(Seq(Byte)) /\ Len(e) = 12
      /\ ItemForms(e, b, data) /\ SignForms(e, b, sig) /\ BodiesOf(b, t, data)
  BY SentItems
<1>2. serialized(t) = Text(<<TypeByte>> \o R)
  <2>1. t.sig # NoSignature
    <3>1. sig.r \in Seq(Byte) /\ Len(sig.r) = 32
      BY SecpIs, WordIsBytes
    <3>2. sig.r # <<>>
      <4>1. Len(<<>>) = 0 /\ 0 # 32
        OBVIOUS
      <4>2. QED BY ONLY <3>1, <4>1, Zenon
    <3>3. NoSignature.signatureR = <<>> /\ t.sig.signatureR = sig.r
      BY DEF NoSignature, SignedBy
    <3>4. QED BY ONLY <3>2, <3>3, Zenon
  <2>2. ~isEmpty(t.sig)
    BY <2>1 DEF isEmpty
  <2>3. t.sig.signatureYParity = sig.recid /\ t.sig.signatureR = sig.r /\ t.sig.signatureS = sig.s
    BY DEF SignedBy
  <2>4. serialized(t) = Prefix \o toHexString(<<TypeByte>> \o RLPList(Fields(t) \o
             <<Number(t.sig.signatureYParity), RLPBytes(removeLeadingZeros(t.sig.signatureR)),
               RLPBytes(removeLeadingZeros(t.sig.signatureS))>>))
    BY <2>2, Zenon DEF serialized, Fields, Number
  <2>5. <<Number(t.sig.signatureYParity), RLPBytes(removeLeadingZeros(t.sig.signatureR)),
          RLPBytes(removeLeadingZeros(t.sig.signatureS))>> = Signs(sig)
    BY <2>3, Zenon DEF Signs
  <2>6. QED BY <2>4, <2>5, Zenon DEF Text
<1> HIDE DEF e, b
<1>3. lists = [k \in 1..12 |-> lists[k]] /\ \A k \in 1..12 : lists[k] = (k = 9) /\ lists[k] \in BOOLEAN
  OBVIOUS
<1>4. lists[8] = FALSE /\ lists[9] = TRUE /\ \A k \in 1..12 : k # 9 => lists[k] = FALSE
  <2>1. 8 \in 1..12 /\ 9 \in 1..12 /\ 8 # 9
    OBVIOUS
  <2>2. \A k \in 1..12 : lists[k] = (k = 9)
    OBVIOUS
  <2> HIDE DEF lists
  <2>3. \A k \in 1..12 : k # 9 => lists[k] = FALSE
    BY ONLY <2>2, Zenon
  <2>4. lists[9] = TRUE
    BY ONLY <2>1, <2>2, Zenon
  <2>5. QED BY ONLY <2>1, <2>3, <2>4, Zenon
<1> HIDE DEF lists
<1>5. \A k \in 1..12 : k = 1 \/ k = 2 \/ k = 3 \/ k = 4 \/ k = 5 \/ k = 6 \/ k = 7 \/ k = 8 \/ k = 9
                       \/ k = 10 \/ k = 11 \/ k = 12
  OBVIOUS
<1>6. \A k \in 1..12 : k # 8 /\ k # 9 => Small(e[k], FALSE, b[k])
  BY <1>1, <1>5, Zenon DEF ItemForms, SignForms
<1>7. Small(e[9], TRUE, b[9]) /\ b[8] = data /\ data \in Seq(Byte) /\ Encodes(e[8], FALSE, data)
      /\ Len(e[8]) <= Len(data) + 9
  BY <1>1, Zenon DEF ItemForms
<1>8. \A k \in 1..12 : k # 8 => Small(e[k], lists[k], b[k])
  BY <1>4, <1>6, <1>7, Zenon
<1>9. AreForms(e, lists, b)
  <2>1. ASSUME NEW k \in 1..12 PROVE b[k] \in Seq(Byte) /\ Encodes(e[k], lists[k], b[k])
    <3>1. CASE k = 8
      BY ONLY <1>4, <1>7, <3>1, Zenon
    <3>2. CASE k # 8
      BY ONLY <1>8, <3>2, Zenon DEF Small
    <3>3. QED BY <3>1, <3>2
  <2>2. \A k \in 1..Len(e) : lists[k] \in BOOLEAN /\ b[k] \in Seq(Byte) /\ Encodes(e[k], lists[k], b[k])
    BY <1>1, <1>3, <2>1
  <2>3. QED BY <1>1, <2>2, Zenon DEF AreForms
<1>10. FlattenSeq(e) \in Seq(Byte) /\ Len(FlattenSeq(e)) \in Numbers
  <2> DEFINE n == Len(data)
  <2>1. n \in Nat /\ n + 512 < TooLarge
    BY DEF IsTx
  <2>2. Len(e[8]) <= n + 9
    BY <1>7
  <2> HIDE DEF n
  <2>3. \A k \in 1..12 : k # 8 => Len(e[k]) <= 41
    BY ONLY <1>8, Zenon DEF Small
  <2>4. ASSUME NEW k \in 1..12 PROVE Len(e[k]) <= (IF k = 8 THEN n + 9 ELSE 41)
    BY <2>2, <2>3
  <2>5. Len(e) \in 9..12 /\ \A k \in 1..Len(e) : Len(e[k]) <= (IF k = 8 THEN n + 9 ELSE 41)
    BY <1>1, <2>4
  <2>6. QED BY <1>1, <2>1, <2>5, FlattenFits
<1>11. /\ \A k \in Numeric : Canonical(b[k])
       /\ Len(b[6]) = Len(Contract) /\ b[9] = <<>>
  <2>1. /\ Canonical(b[1]) /\ Canonical(b[2]) /\ Canonical(b[3]) /\ Canonical(b[4]) /\ Canonical(b[5])
        /\ Canonical(b[7])
    BY <1>1, NumberForm DEF BodiesOf, IsTx
  <2>2. Canonical(b[10]) /\ Canonical(b[11]) /\ Canonical(b[12])
    BY <1>1, Zenon DEF SignForms
  <2>3. b[6] = Contract /\ b[9] = <<>>
    BY <1>1 DEF BodiesOf
  <2>4. \A k \in Numeric : k = 1 \/ k = 2 \/ k = 3 \/ k = 4 \/ k = 5 \/ k = 7 \/ k = 10 \/ k = 11 \/ k = 12
    BY DEF Numeric
  <2>5. \A k \in Numeric : Canonical(b[k])
    BY ONLY <2>1, <2>2, <2>4, Zenon
  <2>6. QED BY <2>3, <2>5
<1>12. \A k \in 1..12 : lists[k] = (k = 9)
  BY <1>3
<1>13. NodeReads(Text(<<TypeByte>> \o R)) = Reading(b)
  <2>1. AreRead(e, lists, b)
    BY ONLY <1>1, <1>9, <1>10, <1>11, <1>12, Zenon DEF AreRead
  <2>2. QED BY ONLY <2>1, FormsRead, Zenon
<1>14. R \in Seq(Byte)
  <2> DEFINE yes == TRUE
  <2>1. Encodes(R, yes, FlattenSeq(e)) /\ yes \in BOOLEAN
    BY <1>10, ListEncodes
  <2> HIDE DEF yes, R
  <2>2. QED BY <1>10, <2>1, EncodedBytes
<1> DEFINE all == <<TypeByte>> \o R
<1> HIDE DEF R
<1>15. all \in Seq(Byte) /\ Len(all) # 0
  <2>1. all \in Seq(Byte) /\ all[1] = TypeByte /\ Tail(all) = R
    BY <1>14, TypeThen
  <2>2. Len(all) # 0
    <3> DEFINE one == <<TypeByte>>
    <3>1. one \in Seq(Byte) /\ Len(one) = 1
      BY DEF TypeByte, Byte
    <3> HIDE DEF one
    <3>2. Len(one \o R) = Len(one) + Len(R) /\ Len(R) \in Nat
      <4>1. \A x, y \in Seq(Byte) : Len(x \o y) = Len(x) + Len(y) /\ Len(y) \in Nat
        OBVIOUS
      <4>2. QED BY ONLY <1>14, <3>1, <4>1, Zenon
    <3>3. QED BY <3>1, <3>2 DEF one
  <2>3. QED BY <2>1, <2>2
<1>16. Signed(t, sig) = all
  BY DEF Signed, all, R, e
<1>17. QED BY <1>2, <1>13, <1>15, <1>16, Zenon DEF all, b
-----------------------------------------------------------------------------
\* The invariant.

\* What the client hashes itself is of the arguments that are meant.
OfMeant(own, meant) ==
    own # <<>> => own = IF meant.function = "hash" THEN meant.given.target \o meant.given.balance
                        ELSE meant.given.pkX \o meant.given.pkY

\* A transaction object has its fields, and its data is the call that is meant.
Whole(t) ==
    t = [chainId |-> t.chainId, nonce |-> t.nonce, maxPriorityFeePerGas |-> t.maxPriorityFeePerGas,
         maxFeePerGas |-> t.maxFeePerGas, gasLimit |-> t.gasLimit, to |-> t.to, value |-> t.value,
         data |-> t.data, sig |-> t.sig]
Carried(t) == Whole(t) /\ IsTx(t, fromHexString(t.data)) /\ IsCall(t.data, call)

\* What was signed is the object as it is now.
IsSigned(t) == signed.by \in Secp /\ t.sig = SignedBy(signed.by) /\ signed.payload = Payload(t)

Sent == Carried(tx) /\ IsSigned(tx) /\ raw = serialized(tx)
Answered == tx = <<>> /\ signed = <<>> /\ IsCall(raw, call) /\ received.accepted /\ received.call = call

IInv ==
    /\ pc \in {"idle", "built", "populated", "signed", "sent", "received"}
    /\ pc = "idle" => tx = <<>> /\ signed = <<>> /\ raw = <<>>
    /\ pc # "idle" => OfMeant(hashed, call)
    /\ pc \in {"built", "populated"} =>
        Carried(tx) /\ tx.sig = NoSignature /\ signed = <<>> /\ raw = <<>>
    /\ pc = "signed" => Carried(tx) /\ IsSigned(tx) /\ raw = <<>>
    /\ pc = "sent" => Sent
    /\ pc = "received" => Answered \/ (Sent /\ received = NodeReads(raw))

\* The invariant holds at the start.
LEMMA InitIInv == Init => IInv
BY DEF Init, IInv

\* A step that builds a transaction of the call that is meant.
LEMMA BuildIInv ==
    ASSUME IInv, NEW meant, NEW own, NEW gas \in Numbers, NEW data, Build(meant, own, gas, data),
           IsCall(data, meant), OfMeant(own, meant)
    PROVE  IInv'
<1> DEFINE t == Transaction(gas, data)
           bytes == fromHexString(data)
<1>1. /\ pc = "idle" /\ pc' = "built" /\ call' = meant /\ hashed' = own /\ tx' = t
      /\ signed' = signed /\ raw' = raw
  BY DEF Build
<1>2. signed = <<>> /\ raw = <<>>
  BY <1>1 DEF IInv
<1>3. bytes \in Seq(Byte) /\ data = Text(bytes) /\ Len(bytes) + 512 < TooLarge
  BY DEF IsCall
<1>4. /\ t = [chainId |-> 0, nonce |-> 0, maxPriorityFeePerGas |-> 0, maxFeePerGas |-> 0,
               gasLimit |-> gas, to |-> Text(Contract), value |-> 0, data |-> data, sig |-> NoSignature]
      /\ t.data = data /\ t.to = Text(Contract) /\ t.sig = NoSignature
      /\ t.chainId = 0 /\ t.nonce = 0 /\ t.maxPriorityFeePerGas = 0 /\ t.maxFeePerGas = 0
      /\ t.gasLimit = gas /\ t.value = 0
  BY DEF Transaction, Text
<1> HIDE DEF t, bytes
<1>5. 0 \in Numbers
  BY ONLY NumbersAre
<1>6. IsTx(t, bytes)
  BY <1>3, <1>4, <1>5, Zenon DEF IsTx
<1>7. Whole(t)
  BY ONLY <1>4, Zenon DEF Whole
<1>8. Carried(tx)'
  <2>1. fromHexString(t.data) = bytes
    BY <1>4 DEF bytes
  <2>2. Whole(t) /\ IsTx(t, fromHexString(t.data)) /\ IsCall(t.data, meant)
    BY ONLY <1>4, <1>6, <1>7, <2>1, IsCall(data, meant), Zenon
  <2>3. QED BY ONLY <1>1, <2>2, Zenon DEF Carried
<1>9. QED BY ONLY <1>1, <1>2, <1>4, <1>8, OfMeant(own, meant), Zenon DEF IInv

\* A call that is read at once.
LEMMA ReadIInv ==
    ASSUME IInv, NEW meant, NEW own, NEW data, Read(meant, own, data), IsCall(data, meant), OfMeant(own, meant)
    PROVE  IInv'
<1>1. /\ pc = "idle" /\ pc' = "received" /\ call' = meant /\ hashed' = own /\ raw' = data
      /\ received' = [accepted |-> TRUE, call |-> Arguments(fromHexString(data))]
      /\ signed' = signed /\ tx' = tx
  BY DEF Read
<1>2. signed = <<>> /\ tx = <<>>
  BY <1>1 DEF IInv
<1>3. Arguments(fromHexString(data)) = meant
  BY DEF IsCall
<1>4. received'.accepted /\ received'.call = meant
  BY <1>1, <1>3
<1>5. Answered'
  BY ONLY <1>1, <1>2, <1>4, IsCall(data, meant), Zenon DEF Answered
<1>6. QED BY ONLY <1>1, <1>5, OfMeant(own, meant), Zenon DEF IInv

\* Each call is built as it is meant.
LEMMA CallIInv ==
    ASSUME IInv,
           \/ BuildAddValidator \/ BuildClear \/ BuildCheckSigAGG \/ BuildCheckAggPubkey
           \/ BuildCheckIndices \/ BuildProofOfPossession \/ BuildUpdateRoot \/ BuildValidateProof
           \/ ReadField \/ ReadHash
    PROVE  IInv'
<1>1. \A m : OfMeant(<<>>, m)
  BY DEF OfMeant
<1>2. /\ 300000 \in Numbers /\ MaxGas \in Numbers /\ 800000 \in Numbers /\ 1500000 \in Numbers
      /\ \A gas \in AdditionalGas : MaxGas + gas \in Numbers
  BY ONLY BoundIs, SMT DEF Numbers, AdditionalGas, MaxGas
<1>3. CASE BuildAddValidator
  <2>1. PICK key \in Keys :
            Build(Meant("addValidator", [pkX |-> key.x, pkY |-> key.y, amount |-> AsWord(Amount)], <<>>),
                  <<>>, 300000, addValidator(key))
    BY SMTT(20), <1>3 DEF BuildAddValidator
  <2> DEFINE m == Meant("addValidator", [pkX |-> key.x, pkY |-> key.y, amount |-> AsWord(Amount)], <<>>)
             own == <<>>
             gas == 300000
             data == addValidator(key)
  <2>2. Build(m, own, gas, data) /\ IsCall(data, m)
    BY SMTT(20), <2>1, AddValidatorIsCall
  <2>3. OfMeant(own, m)
    BY <1>1
  <2>4. gas \in Numbers
    BY SMTT(20), <1>2
  <2> HIDE DEF m, own, gas, data
  <2>5. QED BY <2>2, <2>3, <2>4, BuildIInv
<1>4. CASE BuildClear
  <2>1. PICK more \in AdditionalGas :
            Build(Meant("clearValidators", <<>>, <<>>),
            <<>>, MaxGas + more, clear)
    BY SMTT(20), <1>4 DEF BuildClear
  <2> DEFINE m == Meant("clearValidators", <<>>, <<>>)
             own == <<>>
             gas == MaxGas + more
             data == clear
  <2>2. Build(m, own, gas, data) /\ IsCall(data, m)
    BY SMTT(20), <2>1, ClearIsCall
  <2>3. OfMeant(own, m)
    BY <1>1
  <2>4. gas \in Numbers
    BY SMTT(20), <1>2
  <2> HIDE DEF m, own, gas, data
  <2>5. QED BY <2>2, <2>3, <2>4, BuildIInv
<1>5. CASE BuildCheckSigAGG
  <2>1. PICK sig \in Signatures, h \in Hashes :
            Build(Meant("checkSigAGG", [message |-> h], Point(sig)),
            <<>>, MaxGas, checkSigAGG(sig, h))
    BY SMTT(20), <1>5 DEF BuildCheckSigAGG
  <2> DEFINE m == Meant("checkSigAGG", [message |-> h], Point(sig))
             own == <<>>
             gas == MaxGas
             data == checkSigAGG(sig, h)
  <2>2. Build(m, own, gas, data) /\ IsCall(data, m)
    BY SMTT(20), <2>1, CheckSigAGGIsCall
  <2>3. OfMeant(own, m)
    BY <1>1
  <2>4. gas \in Numbers
    BY SMTT(20), <1>2
  <2> HIDE DEF m, own, gas, data
  <2>5. QED BY <2>2, <2>3, <2>4, BuildIInv
<1>6. CASE BuildCheckAggPubkey
  <2>1. PICK key \in Keys :
            Build(Meant("checkAggPubkey", OfKey(key), <<>>),
            <<>>, 800000, checkAggPubkey(key))
    BY SMTT(20), <1>6 DEF BuildCheckAggPubkey
  <2> DEFINE m == Meant("checkAggPubkey", OfKey(key), <<>>)
             own == <<>>
             gas == 800000
             data == checkAggPubkey(key)
  <2>2. Build(m, own, gas, data) /\ IsCall(data, m)
    BY SMTT(20), <2>1, KeyIsCall DEF checkAggPubkey
  <2>3. OfMeant(own, m)
    BY <1>1
  <2>4. gas \in Numbers
    BY SMTT(20), <1>2
  <2> HIDE DEF m, own, gas, data
  <2>5. QED BY <2>2, <2>3, <2>4, BuildIInv
<1>7. CASE BuildCheckIndices
  <2>1. PICK f \in {"checkSigAGGIndices", "checkSigAGGNegateIndices"},
             sig \in Signatures, h \in Hashes, indices \in IndexLists :
            Build(Meant(f, [message |-> h, indices |-> [i \in DOMAIN indices |-> AsWord(indices[i])]], Point(sig)),
            <<>>, MaxGas, checkSigAGGIndices(f, sig, h, indices))
    BY ONLY <1>7, Zenon DEF BuildCheckIndices
  <2> DEFINE m == Meant(f, [message |-> h, indices |-> [i \in DOMAIN indices |-> AsWord(indices[i])]], Point(sig))
             own == <<>>
             gas == MaxGas
             data == checkSigAGGIndices(f, sig, h, indices)
  <2>2. Build(m, own, gas, data) /\ IsCall(data, m)
    BY SMTT(20), <2>1, CheckIndicesIsCall
  <2>3. OfMeant(own, m)
    BY <1>1
  <2>4. gas \in Numbers
    BY SMTT(20), <1>2
  <2> HIDE DEF m, own, gas, data
  <2>5. QED BY <2>2, <2>3, <2>4, BuildIInv
<1>8. CASE BuildProofOfPossession
  <2>1. PICK key \in Keys, sig \in Signatures :
            Build(Meant("validateProofOfPossession", OfKey(key), Point(sig)),
            hash(PossessionText(key)), 1500000, validateProofOfPossession(key, sig))
    BY SMTT(20), <1>8 DEF BuildProofOfPossession
  <2> DEFINE m == Meant("validateProofOfPossession", OfKey(key), Point(sig))
             own == hash(PossessionText(key))
             gas == 1500000
             data == validateProofOfPossession(key, sig)
  <2>2. Build(m, own, gas, data) /\ IsCall(data, m)
    BY SMTT(20), <2>1, ProofOfPossessionIsCall
  <2>3. OfMeant(own, m)
    <3>1. own = key.x \o key.y
      BY PossessionIs
    <3>2. m.function # "hash" /\ m.given.pkX = key.x /\ m.given.pkY = key.y
      BY DEF Meant, OfKey
    <3> HIDE DEF m, own
    <3>3. QED BY ONLY <3>1, <3>2, Zenon DEF OfMeant
  <2>4. gas \in Numbers
    BY SMTT(20), <1>2
  <2> HIDE DEF m, own, gas, data
  <2>5. QED BY <2>2, <2>3, <2>4, BuildIInv
<1>9. CASE BuildUpdateRoot
  <2>1. PICK root \in Hashes :
            Build(Meant("updateRewardsMerkleRoot", [_merkleRoot |-> root], <<>>),
            <<>>, 300000, updateRewardsMerkleRoot(root))
    BY SMTT(20), <1>9 DEF BuildUpdateRoot
  <2> DEFINE m == Meant("updateRewardsMerkleRoot", [_merkleRoot |-> root], <<>>)
             own == <<>>
             gas == 300000
             data == updateRewardsMerkleRoot(root)
  <2>2. Build(m, own, gas, data) /\ IsCall(data, m)
    BY SMTT(20), <2>1, UpdateRootIsCall
  <2>3. OfMeant(own, m)
    BY <1>1
  <2>4. gas \in Numbers
    BY SMTT(20), <1>2
  <2> HIDE DEF m, own, gas, data
  <2>5. QED BY <2>2, <2>3, <2>4, BuildIInv
<1>10. CASE BuildValidateProof
  <2>1. PICK quantity \in Quantities, path \in Proofs :
            Build(Meant("validateProof", [_quantity |-> AsWord(quantity), _merkleProof |-> path], <<>>),
            <<>>, 300000, validateProof(quantity, path))
    BY SMTT(20), <1>10 DEF BuildValidateProof
  <2> DEFINE m == Meant("validateProof", [_quantity |-> AsWord(quantity), _merkleProof |-> path], <<>>)
             own == <<>>
             gas == 300000
             data == validateProof(quantity, path)
  <2>2. Build(m, own, gas, data) /\ IsCall(data, m)
    BY SMTT(20), <2>1, ValidateProofIsCall
  <2>3. OfMeant(own, m)
    BY <1>1
  <2>4. gas \in Numbers
    BY SMTT(20), <1>2
  <2> HIDE DEF m, own, gas, data
  <2>5. QED BY <2>2, <2>3, <2>4, BuildIInv
<1>11. CASE ReadField
  <2>1. PICK key \in Keys :
            Read(Meant("calcField", OfKey(key), <<>>),
            hash(PossessionText(key)), calcField(key))
    BY <1>11 DEF ReadField
  <2> DEFINE m == Meant("calcField", OfKey(key), <<>>)
             own == hash(PossessionText(key))
             data == calcField(key)
  <2>2. Read(m, own, data) /\ IsCall(data, m)
    BY SMTT(20), <2>1, KeyIsCall DEF calcField
  <2>3. OfMeant(own, m)
    <3>1. own = key.x \o key.y
      BY PossessionIs
    <3>2. m.function # "hash" /\ m.given.pkX = key.x /\ m.given.pkY = key.y
      BY DEF Meant, OfKey
    <3> HIDE DEF m, own
    <3>3. QED BY ONLY <3>1, <3>2, Zenon DEF OfMeant
  <2> HIDE DEF m, own, data
  <2>4. QED BY <2>2, <2>3, ReadIInv
<1>12. CASE ReadHash
  <2>1. PICK address \in Addresses, balance \in Quantities, prefix \in {<<>>, Prefix} :
            Read(Meant("hash", [target |-> AddressWord(address), balance |-> AsWord(balance)], <<>>),
            hash(abiEncode(prefix \o toHexString(address), balance)), contractHash(prefix \o toHexString(address), balance))
    BY <1>12 DEF ReadHash, AddressWord
  <2> DEFINE m == Meant("hash", [target |-> AddressWord(address), balance |-> AsWord(balance)], <<>>)
             own == hash(abiEncode(prefix \o toHexString(address), balance))
             data == contractHash(prefix \o toHexString(address), balance)
  <2>2. Read(m, own, data) /\ IsCall(data, m)
    BY <2>1, HashIsCall
  <2>3. OfMeant(own, m)
    <3>1. own = AddressWord(address) \o AsWord(balance)
      BY HashIsCall
    <3>2. /\ m.function = "hash" /\ m.given.target = AddressWord(address)
          /\ m.given.balance = AsWord(balance)
      BY DEF Meant
    <3> HIDE DEF m, own
    <3>3. QED BY ONLY <3>1, <3>2, Zenon DEF OfMeant
  <2> HIDE DEF m, own, data
  <2>4. QED BY <2>2, <2>3, ReadIInv
<1>13. QED BY <1>3, <1>4, <1>5, <1>6, <1>7, <1>8, <1>9, <1>10, <1>11, <1>12

\* populateTransaction fills in numbers and leaves address and data.
LEMMA PopulateIInv ==
    ASSUME IInv, populateTransaction
    PROVE  IInv'
<1>1. /\ pc = "built" /\ pc' = "populated"
      /\ call' = call /\ hashed' = hashed /\ signed' = signed /\ raw' = raw
  BY DEF populateTransaction
<1>2. PICK found \in Populations :
          tx' = [tx EXCEPT !.chainId = found.chainId, !.nonce = found.nonce,
                           !.maxPriorityFeePerGas = found.maxPriorityFeePerGas,
                           !.maxFeePerGas = found.maxFeePerGas]
  BY DEF populateTransaction
<1>3. /\ found.chainId \in Numbers /\ found.nonce \in Numbers
      /\ found.maxPriorityFeePerGas \in Numbers /\ found.maxFeePerGas \in Numbers
  BY SMTT(20), NumbersAssumption
<1>4. /\ Carried(tx) /\ tx.sig = NoSignature /\ signed = <<>> /\ raw = <<>> /\ OfMeant(hashed, call)
  BY <1>1 DEF IInv
<1>5. /\ Whole(tx) /\ IsTx(tx, fromHexString(tx.data)) /\ IsCall(tx.data, call)
  BY <1>4 DEF Carried
<1> DEFINE t == tx'
<1>6. /\ Whole(t) /\ t.chainId = found.chainId /\ t.nonce = found.nonce
      /\ t.maxPriorityFeePerGas = found.maxPriorityFeePerGas /\ t.maxFeePerGas = found.maxFeePerGas
      /\ t.gasLimit = tx.gasLimit /\ t.to = tx.to /\ t.value = tx.value /\ t.data = tx.data
      /\ t.sig = tx.sig
  BY <1>2, <1>5 DEF Whole
<1> DEFINE data == fromHexString(tx.data)
<1>7. IsTx(t, data)
  <2> HIDE DEF data, t
  <2>1. IsTx(tx, data)
    BY <1>5 DEF data
  <2>2. QED BY ONLY <1>3, <1>6, <2>1, Zenon DEF IsTx
<1>8. Carried(tx)'
  <2>1. Whole(t) /\ IsTx(t, fromHexString(t.data)) /\ IsCall(t.data, call')
    BY ONLY <1>1, <1>5, <1>6, <1>7, Zenon
  <2>2. QED BY ONLY <2>1, Zenon DEF Carried
<1>9. (tx.sig = NoSignature)'
  BY ONLY <1>4, <1>6, Zenon
<1>10. QED BY ONLY <1>1, <1>4, <1>8, <1>9, Zenon DEF IInv

\* signTransaction signs the payload without a signature, and puts the signature in.
LEMMA SignIInv ==
    ASSUME IInv, signTransaction
    PROVE  IInv'
<1>1. /\ pc = "populated" /\ pc' = "signed"
      /\ call' = call /\ hashed' = hashed /\ raw' = raw
  BY DEF signTransaction
<1>2. PICK sig \in Secp :
          /\ signed' = [payload |-> hash(serialized(tx)), by |-> sig]
          /\ tx' = [tx EXCEPT !.sig = fromHex(toHexString(sig.r \o sig.s \o <<sig.recid>>))]
  BY DEF signTransaction
<1>3. fromHex(toHexString(sig.r \o sig.s \o <<sig.recid>>)) = SignedBy(sig)
  BY SecpIs
<1>4. Carried(tx) /\ tx.sig = NoSignature /\ raw = <<>> /\ OfMeant(hashed, call)
  BY <1>1 DEF IInv
<1>5. Whole(tx) /\ IsTx(tx, fromHexString(tx.data)) /\ IsCall(tx.data, call)
  BY <1>4 DEF Carried
<1> DEFINE t == tx'
           form == SignedBy(sig)
<1>6. /\ Whole(t) /\ t.chainId = tx.chainId /\ t.nonce = tx.nonce
      /\ t.maxPriorityFeePerGas = tx.maxPriorityFeePerGas /\ t.maxFeePerGas = tx.maxFeePerGas
      /\ t.gasLimit = tx.gasLimit /\ t.to = tx.to /\ t.value = tx.value /\ t.data = tx.data
      /\ t.sig = form
  <2>1. t = [tx EXCEPT !.sig = form]
    BY ONLY <1>2, <1>3, Zenon
  <2> HIDE DEF t, form
  <2>2. QED BY <1>5, <2>1 DEF Whole
<1> DEFINE data == fromHexString(tx.data)
<1>7. IsTx(t, data)
  <2> HIDE DEF data, t
  <2>1. IsTx(tx, data)
    BY <1>5 DEF data
  <2>2. QED BY ONLY <1>6, <2>1, Zenon DEF IsTx
<1>8. Carried(tx)'
  <2>1. Whole(t) /\ IsTx(t, fromHexString(t.data)) /\ IsCall(t.data, call')
    BY ONLY <1>1, <1>5, <1>6, <1>7, Zenon
  <2>2. QED BY ONLY <2>1, Zenon DEF Carried
<1>9. Payload(t) = Payload(tx)
  BY ONLY <1>6, Zenon DEF Payload, Fields
<1>10. hash(serialized(tx)) = Payload(tx)
  BY <1>4, <1>5, PayloadIs
<1>11. IsSigned(tx)'
  <2>1. signed'.by = sig /\ signed'.payload = Payload(t)
    <3>1. signed' = [payload |-> Payload(t), by |-> sig]
      BY ONLY <1>2, <1>9, <1>10, Zenon
    <3> DEFINE p == Payload(t)
    <3> HIDE DEF p
    <3>2. signed' = [payload |-> p, by |-> sig]
      BY <3>1 DEF p
    <3>3. signed'.by = sig /\ signed'.payload = p
      BY ONLY <3>2
    <3>4. QED BY <3>3 DEF p
  <2>2. t.sig = SignedBy(signed'.by) /\ signed'.by \in Secp
    BY ONLY <1>6, <2>1, sig \in Secp, Zenon
  <2>3. QED BY ONLY <2>1, <2>2, Zenon DEF IsSigned
<1>12. QED BY ONLY <1>1, <1>4, <1>8, <1>11, Zenon DEF IInv

\* sendUncheckedTransaction writes what was signed, with the signature.
LEMMA SendIInv ==
    ASSUME IInv, sendUncheckedTransaction
    PROVE  IInv'
<1>1. /\ pc = "signed" /\ pc' = "sent" /\ raw' = serialized(tx)
      /\ call' = call /\ hashed' = hashed /\ tx' = tx /\ signed' = signed
  BY DEF sendUncheckedTransaction
<1>2. Carried(tx) /\ IsSigned(tx) /\ OfMeant(hashed, call)
  BY <1>1 DEF IInv
<1>3. Sent'
  BY ONLY <1>1, <1>2, Zenon DEF Sent, Carried, IsSigned
<1>4. QED BY ONLY <1>1, <1>2, <1>3, Zenon DEF IInv

\* Execute reads what was sent.
LEMMA ExecuteIInv ==
    ASSUME IInv, Execute
    PROVE  IInv'
<1>1. /\ pc = "sent" /\ pc' = "received" /\ received' = NodeReads(raw)
      /\ call' = call /\ hashed' = hashed /\ tx' = tx /\ signed' = signed /\ raw' = raw
  BY DEF Execute
<1>2. Sent /\ OfMeant(hashed, call)
  BY <1>1 DEF IInv
<1>3. Sent' /\ (received = NodeReads(raw))'
  BY ONLY <1>1, <1>2, Zenon DEF Sent, Carried, IsSigned
<1>4. QED BY ONLY <1>1, <1>2, <1>3, Zenon DEF IInv

\* A step that changes nothing.
LEMMA StutterIInv ==
    ASSUME IInv, UNCHANGED vars
    PROVE  IInv'
<1>1. /\ pc' = pc /\ call' = call /\ hashed' = hashed /\ tx' = tx /\ signed' = signed
      /\ raw' = raw /\ received' = received
  BY DEF vars
<1>2. QED BY ONLY IInv, <1>1, Zenon DEF IInv, Sent, Answered, Carried, IsSigned

\* The invariant holds in every state.
THEOREM Invariant == Spec => []IInv
<1>1. IInv /\ [Next]_vars => IInv'
  BY CallIInv, PopulateIInv, SignIInv, SendIInv, ExecuteIInv, StutterIInv DEF Next
<1>2. QED BY <1>1, InitIInv, PTL DEF Spec

-----------------------------------------------------------------------------
\* What the invariant says of texts, arguments and signatures.

\* The text of some bytes is text, in pairs of digits.
LEMMA BytesAreText ==
    ASSUME NEW b \in Seq(Byte), Len(b) # 0
    PROVE  IsText(Text(b)) /\ Len(Text(b)) % 2 = 0 /\ Len(Text(b)) = 2 + 2 * Len(b)
<1> DEFINE t == Text(b)
           l == Len(b)
<1>1. l \in Nat /\ l # 0
  OBVIOUS
<1>2. Len(t) = 2 + 2 * l /\ HasPrefix(t) /\ \A i \in 3..Len(t) : t[i] \in 0..15
  BY TextIs
<1> HIDE DEF l, t
<1> DEFINE m == Len(t)
<1>3. m = 2 + 2 * l
  BY <1>2
<1> HIDE DEF m
<1>4. m > 2 /\ m % 2 = 0
  BY <1>1, <1>3
<1>5. IsText(t)
  BY <1>2, <1>4 DEF IsText, m
<1>6. QED BY <1>2, <1>4, <1>5 DEF t, l, m

\* The text of a call is a text, of a selector and whole words.
LEMMA CallIsText ==
    ASSUME NEW text, NEW meant, IsCall(text, meant)
    PROVE  IsText(text) /\ Len(text) % 2 = 0 /\ (Len(text) - Overhead) % (2 * WordBytes) = 0
<1> DEFINE b == fromHexString(text)
           l == Len(b)
<1>1. b \in Seq(Byte) /\ text = Text(b) /\ l \in Nat /\ l >= 4 /\ (l - 4) % 32 = 0
  BY DEF IsCall, WordBytes
<1> HIDE DEF b
<1>2. l # 0
  <2> HIDE DEF l
  <2>1. QED BY <1>1
<1>3. IsText(text) /\ Len(text) % 2 = 0 /\ Len(text) = 2 + 2 * l
  <2>1. IsText(Text(b)) /\ Len(Text(b)) % 2 = 0 /\ Len(Text(b)) = 2 + 2 * Len(b)
    BY <1>1, <1>2, BytesAreText
  <2>2. QED BY ONLY <1>1, <2>1, Zenon DEF l
<1> DEFINE m == Len(text)
<1>4. m = 2 + 2 * l
  BY <1>3
<1> HIDE DEF l, m
<1>5. (m - 10) % 64 = 0
  <2> DEFINE k == l - 4
  <2>1. k \in Nat /\ k % 32 = 0 /\ m - 10 = 2 * k
    BY <1>1, <1>4
  <2> HIDE DEF k
  <2>2. k = 32 * (k \div 32)
    BY <2>1
  <2> DEFINE q == k \div 32
  <2>3. q \in Nat /\ k = 32 * q
    BY <2>1, <2>2
  <2> HIDE DEF q
  <2>4. m - 10 = 64 * q
    BY <2>1, <2>3
  <2>5. (64 * q) % 64 = 0
    BY <2>3
  <2>6. QED BY <2>4, <2>5, Zenon
<1>6. Overhead = 10 /\ 2 * WordBytes = 64
  BY PrefixIs DEF Overhead, WordBytes
<1>7. QED BY ONLY <1>3, <1>5, <1>6, Zenon DEF m

\* What is sent is text, and the node takes it for what it is.
LEMMA SentIsRead ==
    ASSUME Sent
    PROVE  /\ IsText(raw) /\ Len(raw) % 2 = 0
           /\ LET b == Bodies(tx, fromHexString(tx.data), signed.by)
              IN  /\ NodeReads(raw) = Reading(b)
                  /\ BodiesOf(b, tx, fromHexString(tx.data)) /\ FieldsOf(Fields(tx), b)
                  /\ NumberOf(b[10]) = signed.by.recid
                  /\ Filled(b[11]) = signed.by.r /\ Filled(b[12]) = signed.by.s
<1> DEFINE data == fromHexString(tx.data)
           sig == signed.by
           b == Bodies(tx, data, sig)
           sent == Signed(tx, sig)
<1>1. IsTx(tx, data) /\ sig \in Secp /\ tx.sig = SignedBy(sig) /\ raw = serialized(tx)
  BY DEF Sent, Carried, IsSigned
<1>2. /\ serialized(tx) = Text(sent) /\ sent \in Seq(Byte) /\ Len(sent) # 0
      /\ NodeReads(serialized(tx)) = Reading(b)
  BY <1>1, SentIs
<1>3. FieldsOf(Fields(tx), b) /\ SignForms(Fields(tx) \o Signs(sig), b, sig) /\ BodiesOf(b, tx, data)
  BY <1>1, SentItems
<1> HIDE DEF sent, b
<1>4. IsText(Text(sent)) /\ Len(Text(sent)) % 2 = 0
  BY <1>2, BytesAreText
<1>5. NumberOf(b[10]) = sig.recid /\ Filled(b[11]) = sig.r /\ Filled(b[12]) = sig.s
  BY <1>3, Zenon DEF SignForms
<1>6. QED BY <1>1, <1>2, <1>3, <1>4, <1>5, Zenon DEF b, data, sig

\* The entries the node puts together are the fields that were signed.
LEMMA EntriesAre ==
    ASSUME NEW t, NEW data, IsTx(t, data), NEW b, BodiesOf(b, t, data), FieldsOf(Fields(t), b)
    PROVE  Entries(b) = Fields(t)
<1> DEFINE S == Seq(Byte)
           e == Fields(t)
           x == Entries(b)
<1>1. e \in Seq(Seq(Byte)) /\ Len(e) = 9
  BY FieldsAre
<1>2. e \in Seq(S) /\ Len(e) = 9
  BY <1>1
<1> HIDE DEF S, e
<1>3. e = [i \in 1..9 |-> e[i]]
  BY <1>2
<1>4. /\ e[1] = RLPBytes(b[1]) /\ e[2] = RLPBytes(b[2]) /\ e[3] = RLPBytes(b[3]) /\ e[4] = RLPBytes(b[4])
      /\ e[5] = RLPBytes(b[5]) /\ e[6] = RLPBytes(b[6]) /\ e[7] = RLPBytes(b[7]) /\ e[8] = RLPBytes(b[8])
      /\ e[9] = RLPList(<<>>)
  BY Zenon DEF FieldsOf, e
<1>5. ASSUME NEW i \in 1..9 PROVE e[i] = IF i = 9 THEN RLPList(<<>>) ELSE RLPBytes(b[i])
  <2>1. i = 1 \/ i = 2 \/ i = 3 \/ i = 4 \/ i = 5 \/ i = 6 \/ i = 7 \/ i = 8 \/ i = 9
    OBVIOUS
  <2>2. CASE i = 9
    BY ONLY <1>4, <2>2, Zenon
  <2>3. CASE i # 9
    <3>1. e[i] = RLPBytes(b[i])
      BY ONLY <1>4, <2>1, <2>3, Zenon
    <3>2. QED BY ONLY <2>3, <3>1, Zenon
  <2>4. QED BY <2>2, <2>3
<1>6. x = [i \in 1..9 |-> e[i]]
  BY <1>5 DEF Entries
<1>7. QED BY <1>3, <1>6 DEF e

\* Every field of what the node reads.
LEMMA ReadingIs ==
    ASSUME Sent
    PROVE  LET got == NodeReads(raw)
           IN  /\ got.accepted = TRUE /\ got.call = call /\ got.to = Contract
               /\ got.chainId = tx.chainId /\ got.nonce = tx.nonce
               /\ got.maxPriorityFeePerGas = tx.maxPriorityFeePerGas
               /\ got.maxFeePerGas = tx.maxFeePerGas /\ got.gasLimit = tx.gasLimit
               /\ got.value = tx.value /\ got.payload = signed.payload
               /\ got.recid = signed.by.recid
               /\ Filled(got.r) = signed.by.r /\ Filled(got.s) = signed.by.s
<1> DEFINE data == fromHexString(tx.data)
           b == Bodies(tx, data, signed.by)
           got == NodeReads(raw)
<1>1. /\ got = Reading(b) /\ BodiesOf(b, tx, data) /\ FieldsOf(Fields(tx), b)
      /\ NumberOf(b[10]) = signed.by.recid
      /\ Filled(b[11]) = signed.by.r /\ Filled(b[12]) = signed.by.s
  BY SentIsRead
<1>2. IsTx(tx, data) /\ Arguments(data) = call /\ signed.payload = Payload(tx)
  BY DEF Sent, Carried, IsSigned, IsCall
<1> HIDE DEF b, got, data
<1>3. /\ b[1] = intToBytes(tx.chainId) /\ b[2] = intToBytes(tx.nonce)
      /\ b[3] = intToBytes(tx.maxPriorityFeePerGas) /\ b[4] = intToBytes(tx.maxFeePerGas)
      /\ b[5] = intToBytes(tx.gasLimit) /\ b[6] = Contract /\ b[7] = intToBytes(tx.value)
      /\ b[8] = data
  BY ONLY <1>1, Zenon DEF BodiesOf
<1>4. \A n \in Numbers : NumberOf(intToBytes(n)) = n
  BY NumberForm
<1>5. /\ tx.chainId \in Numbers /\ tx.nonce \in Numbers /\ tx.maxPriorityFeePerGas \in Numbers
      /\ tx.maxFeePerGas \in Numbers /\ tx.gasLimit \in Numbers /\ tx.value \in Numbers
  BY <1>2 DEF IsTx
<1>6. /\ NumberOf(b[1]) = tx.chainId /\ NumberOf(b[2]) = tx.nonce
      /\ NumberOf(b[3]) = tx.maxPriorityFeePerGas /\ NumberOf(b[4]) = tx.maxFeePerGas
      /\ NumberOf(b[5]) = tx.gasLimit /\ NumberOf(b[7]) = tx.value
  BY ONLY <1>3, <1>4, <1>5, Zenon
<1>7. Entries(b) = Fields(tx)
  BY <1>1, <1>2, EntriesAre
<1>8. /\ got.accepted = TRUE /\ got.chainId = NumberOf(b[1]) /\ got.nonce = NumberOf(b[2])
      /\ got.maxPriorityFeePerGas = NumberOf(b[3]) /\ got.maxFeePerGas = NumberOf(b[4])
      /\ got.gasLimit = NumberOf(b[5]) /\ got.to = b[6] /\ got.value = NumberOf(b[7])
      /\ got.call = Arguments(b[8]) /\ got.recid = NumberOf(b[10]) /\ got.r = b[11] /\ got.s = b[12]
      /\ got.payload = <<TypeByte>> \o RLPList(Entries(b))
  BY <1>1 DEF Reading
<1>9. got.payload = signed.payload
  BY ONLY <1>2, <1>7, <1>8, Zenon DEF Payload
<1>10. QED BY ONLY <1>1, <1>2, <1>3, <1>6, <1>8, <1>9, Zenon DEF got

-----------------------------------------------------------------------------
\* Every text that is handed on is a prefix and digits in pairs, and calldata is a
\* selector and whole words (TypeOK).
THEOREM TypeCorrect == Spec => []TypeOK
<1>1. IInv => TypeOK
  <2> SUFFICES ASSUME IInv PROVE TypeOK
    OBVIOUS
  <2>1. pc \in {"idle", "built", "populated", "signed", "sent", "received"}
    BY DEF IInv
  <2>2. ASSUME pc \in {"built", "populated", "signed", "sent"}
        PROVE  IsText(tx.data) /\ (Len(tx.data) - Overhead) % (2 * WordBytes) = 0
    <3>1. Carried(tx)
      BY <2>2 DEF IInv, Sent
    <3>2. IsCall(tx.data, call)
      BY <3>1 DEF Carried
    <3>3. QED BY <3>2, CallIsText
  <2>3. ASSUME raw # <<>> PROVE IsText(raw) /\ Len(raw) % 2 = 0
    <3>1. Sent \/ Answered
      BY <2>1, <2>3, Zenon DEF IInv
    <3>2. CASE Sent
      BY <3>2, SentIsRead
    <3>3. CASE Answered
      <4>1. IsCall(raw, call)
        BY <3>3 DEF Answered
      <4>2. QED BY <4>1, CallIsText
    <3>4. QED BY <3>1, <3>2, <3>3
  <2>4. QED BY ONLY <2>1, <2>2, <2>3, Zenon DEF TypeOK
<1>2. QED BY <1>1, Invariant, PTL

\* What the contract reads is what the caller meant, for every key, signature, hash,
\* list, path, amount and address, and the transaction's address, gas and fees are
\* read as they went in (ArgumentsArrive).
THEOREM CallsArrive == Spec => []ArgumentsArrive
<1>1. IInv => ArgumentsArrive
  <2> SUFFICES ASSUME IInv, pc = "received"
               PROVE  /\ received.accepted
                      /\ received.call = call
                      /\ tx # <<>> =>
                            /\ received.to = Contract
                            /\ \A field \in {"chainId", "nonce", "maxPriorityFeePerGas", "maxFeePerGas",
                                             "gasLimit", "value"} : received[field] = tx[field]
    BY DEF ArgumentsArrive
  <2>1. Answered \/ (Sent /\ received = NodeReads(raw))
    BY DEF IInv
  <2>2. CASE Answered
    BY ONLY <2>2, Zenon DEF Answered
  <2>3. CASE Sent /\ received = NodeReads(raw)
    <3>1. /\ received.accepted = TRUE /\ received.call = call /\ received.to = Contract
          /\ received.chainId = tx.chainId /\ received.nonce = tx.nonce
          /\ received.maxPriorityFeePerGas = tx.maxPriorityFeePerGas
          /\ received.maxFeePerGas = tx.maxFeePerGas /\ received.gasLimit = tx.gasLimit
          /\ received.value = tx.value
      BY ONLY <2>3, ReadingIs, Zenon
    <3>2. QED BY ONLY <3>1, Zenon
  <2>4. QED BY ONLY <2>1, <2>2, <2>3, Zenon
<1>2. QED BY <1>1, Invariant, PTL

\* The payload the node puts together is the one that was signed, and it reads the
\* signature as it was made (SignedIsSent).
THEOREM SignatureArrives == Spec => []SignedIsSent
<1>1. IInv => SignedIsSent
  <2> SUFFICES ASSUME IInv, pc = "received", signed # <<>>
               PROVE  /\ received.accepted
                      /\ received.payload = signed.payload
                      /\ received.recid = signed.by.recid
                      /\ Filled(received.r) = signed.by.r /\ Filled(received.s) = signed.by.s
    BY DEF SignedIsSent
  <2>1. Answered \/ (Sent /\ received = NodeReads(raw))
    BY DEF IInv
  <2>2. ~Answered
    BY DEF Answered
  <2>3. Sent /\ received = NodeReads(raw)
    BY ONLY <2>1, <2>2, Zenon
  <2>4. QED BY ONLY <2>3, ReadingIs, Zenon
<1>2. QED BY <1>1, Invariant, PTL

\* What the client hashes itself is what the contract hashes (HashesAgree).
THEOREM HashesMeet == Spec => []HashesAgree
<1>1. IInv => HashesAgree
  <2> SUFFICES ASSUME IInv, pc = "received", hashed # <<>>
               PROVE  hashed = IF call.function = "hash"
                               THEN received.call.given.target \o received.call.given.balance
                               ELSE received.call.given.pkX \o received.call.given.pkY
    BY DEF HashesAgree
  <2>1. Answered \/ (Sent /\ received = NodeReads(raw))
    BY DEF IInv
  <2>2. received.call = call
    <3>1. CASE Answered
      BY ONLY <3>1, Zenon DEF Answered
    <3>2. CASE Sent /\ received = NodeReads(raw)
      BY ONLY <3>2, ReadingIs, Zenon
    <3>3. QED BY ONLY <2>1, <3>1, <3>2, Zenon
  <2>3. OfMeant(hashed, call)
    BY DEF IInv
  <2>4. QED BY ONLY <2>2, <2>3, hashed # <<>>, Zenon DEF OfMeant
<1>2. QED BY <1>1, Invariant, PTL
=============================================================================
