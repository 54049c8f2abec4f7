-------------------------- MODULE MerkleTreeProofs --------------------------
(***************************************************************************)
(* What is proved of the Merkle tree, for all leaf hashes, compression     *)
(* functions and bounds: the state is well typed, the sizes add up however *)
(* the insertion is interrupted, the children of a computed tree are in    *)
(* order, every walk verifies, until a hashed tree grows the leaves have   *)
(* the order of their indices, so that their proofs convince, and in a     *)
(* tree without exchanged children past roots and paths are what they were.*)
(*                                                                         *)
(* The recursive functions of MerkleTree are unfolded once each (the Laws  *)
(* and Unfolds lemmas).  IsTree says that a node and all nodes below it    *)
(* are right; then come the actions' parts, from the bottom up: hash,      *)
(* the way up the stack, one leaf, many leaves; IInv, the inductive        *)
(* invariant of the shape; Fresh, Regular and Listing, the order of the    *)
(* leaves, once more from the bottom up, and OInv, the invariant of the    *)
(* order; SInv, the same order where no children were exchanged; the       *)
(* walks; and at the end the past of a plain tree, one without exchanged   *)
(* children, node by node and level by level.                              *)
(***************************************************************************)
EXTENDS MerklePast, SetInduction, FiniteSetTheorems, SequenceTheorems

\* The steps of the way up, unfolded.
LEMMA WayUpUnfolds ==
    ASSUME NEW stack, NEW below, Len(stack) \in Nat
    PROVE  /\ WayUp(stack, below)[0] = below
           /\ \A d \in 1 .. Len(stack) :
                 WayUp(stack, below)[d] =
                     Attach(stack[Len(stack) + 1 - d], WayUp(stack, below)[d - 1])
<1> DEFINE N == Len(stack)
           Body(g, d) == IF d = 0 THEN below ELSE Attach(stack[N + 1 - d], g[d - 1])
           S == {k \in Nat : \E g : \A d \in 0 .. k : g[d] = Body(g, d)}
<1> HIDE DEF N
<1>n. N \in Nat /\ N = Len(stack)
  BY DEF N
<1>1. 0 \in S
  <2>1. \A d \in 0 .. 0 : [i \in 0 .. 0 |-> below][d] = Body([i \in 0 .. 0 |-> below], d)
    OBVIOUS
  <2>2. QED BY <2>1
<1>2. ASSUME NEW k \in Nat, k \in S
      PROVE  k + 1 \in S
  <2>1. PICK g : \A d \in 0 .. k : g[d] = Body(g, d)
    BY <1>2
  <2> DEFINE h == [d \in 0 .. k + 1 |-> IF d <= k THEN g[d] ELSE Attach(stack[N + 1 - d], g[k])]
  <2>2. \A d \in 0 .. k + 1 : h[d] = Body(h, d)
    BY <2>1
  <2> HIDE DEF h
  <2>3. QED BY <2>2
<1> HIDE DEF S
<1>3. N \in S
  BY <1>n, <1>1, <1>2, Induction
<1>4. PICK g : \A d \in 0 .. N : g[d] = Body(g, d)
  BY <1>3 DEF S
<1>5. [d \in 0 .. N |-> g[d]] = [d \in 0 .. N |-> Body([e \in 0 .. N |-> g[e]], d)]
  BY <1>n, <1>4
<1>6. \E f : f = [d \in 0 .. N |-> Body(f, d)]
  BY <1>5, Zenon
<1>7. WayUp(stack, below) = [d \in 0 .. N |-> Body(WayUp(stack, below), d)]
  BY <1>6, <1>n, Zenon DEF WayUp
<1>8. ASSUME NEW w, w = [d \in 0 .. N |-> Body(w, d)]
      PROVE  w[0] = below /\ \A d \in 1 .. N : w[d] = Attach(stack[N + 1 - d], w[d - 1])
  <2>1. \A d \in 0 .. N : w[d] = Body(w, d)
    BY <1>8
  <2>2. 0 \in 0 .. N /\ \A d \in 1 .. N : d \in 0 .. N /\ d # 0
    BY <1>n
  <2>3. QED BY <2>1, <2>2
<1>9. QED BY <1>n, <1>7, <1>8

-----------------------------------------------------------------------------
\* Nodes.

\* Compress, with the salt as a parameter.
Mixed(z, l, r) == 1 + ((l * z + r * 17 + 11) % (HashModulus - 1))

\* A node that is not dirty has clean children in order, and their hash.
Settled(m, z) ==
    /\ ~m.sub[1].dirty /\ ~m.sub[2].dirty
    /\ m.sub[1].hash <= m.sub[2].hash
    /\ m.hash = Mixed(z, m.sub[1].hash, m.sub[2].hash)

\* What every node is: a leaf, or an inner node whose sizes add up.
NodeOK(m, z) ==
    /\ m = [hash |-> m.hash, sub |-> m.sub, size |-> m.size, height |-> m.height,
            dirty |-> m.dirty, swapped |-> m.swapped]
    /\ m.hash \in Hashes /\ m.size \in Nat \ {0} /\ m.height \in Nat \ {0}
    /\ m.dirty \in BOOLEAN /\ m.swapped \in BOOLEAN
    /\ m.size <= PowerOfTwo[m.height] - 1
    /\ m.sub = <<>> => m = MakeLeaf(m.hash) /\ m.hash \in LeafHashes
    /\ m.sub # <<>> =>
          /\ m.sub = <<m.sub[1], m.sub[2]>>
          /\ m.sub[1].size \in Nat \ {0} /\ m.sub[2].size \in Nat \ {0}
          /\ m.sub[1].height \in Nat \ {0} /\ m.sub[2].height \in Nat \ {0}
          /\ m.size = m.sub[1].size + m.sub[2].size + 1
          /\ m.height = Larger(m.sub[1].height, m.sub[2].height) + 1
          /\ ~m.dirty => Settled(m, z)

Sound(n, z) == \A m \in NodesOf(n) : NodeOK(m, z)

\* A set of nodes that has the children of its nodes.
Closed(T) ==
    \A m \in T :
        \/ m.sub = <<>>
        \/ /\ m.sub = <<m.sub[1], m.sub[2]>>
           /\ m.sub[1] \in T /\ m.sub[2] \in T

\* The children of a set of nodes.
Below(T) == UNION {{m.sub[i] : i \in DOMAIN m.sub} : m \in T}

Widened(T) == LET above == T IN above \cup UNION {{m.sub[i] : i \in DOMAIN m.sub} : m \in above}

\* The levels that NodesOf unites.
LEMMA NodesByLevel ==
    ASSUME NEW n, n.height \in Nat \ {0}
    PROVE  \E w : /\ NodesOf(n) = w[n.height - 1]
                  /\ w[0] = {n}
                  /\ \A d \in 1 .. n.height - 1 : w[d] = w[d - 1] \cup Below(w[d - 1])
<1> DEFINE N == n.height - 1
           Base == {n}
           Body(g, d) == IF d = 0 THEN Base ELSE Widened(g[d - 1])
           S == {k \in Nat : \E g : \A d \in 0 .. k : g[d] = Body(g, d)}
<1> HIDE DEF N, Base
<1>n. N \in Nat /\ N = n.height - 1
  BY DEF N
<1>1. 0 \in S
  <2>1. \A d \in 0 .. 0 : [i \in 0 .. 0 |-> Base][d] = Body([i \in 0 .. 0 |-> Base], d)
    OBVIOUS
  <2>2. QED BY <2>1
<1>2. ASSUME NEW k \in Nat, k \in S
      PROVE  k + 1 \in S
  <2>1. PICK g : \A d \in 0 .. k : g[d] = Body(g, d)
    BY <1>2
  <2> DEFINE h == [d \in 0 .. k + 1 |-> IF d <= k THEN g[d] ELSE Widened(g[k])]
  <2>2. \A d \in 0 .. k + 1 : h[d] = Body(h, d)
    BY <2>1
  <2> HIDE DEF h
  <2>3. QED BY <2>2
<1> HIDE DEF S
<1>3. N \in S
  BY <1>n, <1>1, <1>2, Induction
<1>4. PICK g : \A d \in 0 .. N : g[d] = Body(g, d)
  BY <1>3 DEF S
<1>5. [d \in 0 .. N |-> g[d]] = [d \in 0 .. N |-> Body([e \in 0 .. N |-> g[e]], d)]
  BY <1>n, <1>4
<1>6. \E f : f = [d \in 0 .. N |-> Body(f, d)]
  BY <1>5, Zenon
<1> DEFINE w == CHOOSE f : f = [d \in 0 .. n.height - 1 |-> Body(f, d)]
<1> HIDE DEF w
<1>7. w = [d \in 0 .. N |-> Body(w, d)]
  BY <1>6, <1>n, Zenon DEF w
<1>8. NodesOf(n) = w[n.height - 1]
  BY Zenon DEF w, NodesOf, Widened, Base
<1>9. w[0] = Base /\ \A d \in 1 .. N : w[d] = Widened(w[d - 1])
  <2>1. \A d \in 0 .. N : w[d] = Body(w, d)
    BY <1>7
  <2>2. 0 \in 0 .. N /\ \A d \in 1 .. N : d \in 0 .. N /\ d # 0
    BY <1>n
  <2>3. QED BY <2>1, <2>2
<1>10. QED BY <1>n, <1>8, <1>9, Zenon DEF Widened, Below, Base

\* What is below a set of nodes.
LEMMA BelowMembers ==
    ASSUME NEW T, \A m \in T : m.sub = <<>> \/ m.sub = <<m.sub[1], m.sub[2]>>
    PROVE  \A x : x \in Below(T) <=> \E m \in T : m.sub # <<>> /\ (x = m.sub[1] \/ x = m.sub[2])
<1>1. ASSUME NEW m \in T
      PROVE  {m.sub[i] : i \in DOMAIN m.sub} =
                 IF m.sub = <<>> THEN {} ELSE {m.sub[1], m.sub[2]}
  <2>1. CASE m.sub = <<>>
    <3>1. DOMAIN m.sub = {}
      BY <2>1
    <3>2. QED BY <2>1, <3>1
  <2>2. CASE m.sub # <<>>
    <3>1. m.sub = <<m.sub[1], m.sub[2]>>
      BY <2>2
    <3>2. DOMAIN <<m.sub[1], m.sub[2]>> = {1, 2}
      OBVIOUS
    <3>3. QED BY <2>2, <3>1, <3>2
  <2>3. QED BY <2>1, <2>2
<1> DEFINE C(m) == {m.sub[i] : i \in DOMAIN m.sub}
<1>2. Below(T) = UNION {C(m) : m \in T}
  BY DEF Below
<1>3. \A m \in T : C(m) = IF m.sub = <<>> THEN {} ELSE {m.sub[1], m.sub[2]}
  BY <1>1
<1> HIDE DEF C
<1>4. \A x : x \in Below(T) <=> \E m \in T : x \in C(m)
  BY <1>2
<1>5. QED BY <1>3, <1>4

\* A closed set with a node in it has all nodes of its tree.
LEMMA NodesAreLeast ==
    ASSUME NEW n, n.height \in Nat \ {0}, NEW T, Closed(T), n \in T
    PROVE  NodesOf(n) \subseteq T
<1>1. PICK w : /\ NodesOf(n) = w[n.height - 1]
               /\ w[0] = {n}
               /\ \A d \in 1 .. n.height - 1 : w[d] = w[d - 1] \cup Below(w[d - 1])
  BY NodesByLevel
<1> DEFINE S == {d \in Nat : d <= n.height - 1 => w[d] \subseteq T}
<1>2. 0 \in S
  BY <1>1
<1>3. ASSUME NEW d \in Nat, d \in S, d + 1 <= n.height - 1
      PROVE  w[d + 1] \subseteq T
  <2>1. w[d] \subseteq T /\ w[d + 1] = w[d] \cup Below(w[d])
    BY <1>1, <1>3
  <2>2. \A m \in w[d] : m.sub = <<>> \/ m.sub = <<m.sub[1], m.sub[2]>>
    BY <2>1 DEF Closed
  <2>3. \A x \in Below(w[d]) : x \in T
    BY <2>1, <2>2, BelowMembers DEF Closed
  <2>4. QED BY <2>1, <2>3
<1>4. \A d \in Nat : d \in S => d + 1 \in S
  BY <1>3
<1> HIDE DEF S
<1>5. n.height - 1 \in S
  BY <1>2, <1>4, Induction
<1>6. QED BY <1>1, <1>5 DEF S

\* A node is a node of its own tree.
LEMMA NodesHaveRoot ==
    ASSUME NEW n, n.height \in Nat \ {0}
    PROVE  n \in NodesOf(n)
<1>1. PICK w : /\ NodesOf(n) = w[n.height - 1]
               /\ w[0] = {n}
               /\ \A d \in 1 .. n.height - 1 : w[d] = w[d - 1] \cup Below(w[d - 1])
  BY NodesByLevel
<1> DEFINE S == {d \in Nat : d <= n.height - 1 => n \in w[d]}
<1>2. 0 \in S
  BY <1>1
<1>3. \A d \in Nat : d \in S => d + 1 \in S
  BY <1>1
<1> HIDE DEF S
<1>4. n.height - 1 \in S
  BY <1>2, <1>3, Induction
<1>5. QED BY <1>1, <1>4 DEF S

\* The levels are as many as the nodes of a sound tree need.
LEMMA NodesAreClosed ==
    ASSUME NEW n, n.height \in Nat \ {0}, NEW z, Sound(n, z)
    PROVE  Closed(NodesOf(n))
<1>1. PICK w : /\ NodesOf(n) = w[n.height - 1]
               /\ w[0] = {n}
               /\ \A d \in 1 .. n.height - 1 : w[d] = w[d - 1] \cup Below(w[d - 1])
  BY NodesByLevel
<1> DEFINE Ends(d) == \A m \in w[d] :
                         \/ m.height <= n.height - d
                         \/ m.sub # <<>> => m.sub[1] \in w[d] /\ m.sub[2] \in w[d]
           N == n.height - 1
           Up == {d \in Nat : d <= N => w[N - d] \subseteq NodesOf(n)}
           S == {d \in Nat : d <= N => Ends(d)}
<1>2. \A d \in 0 .. N : w[d] \subseteq NodesOf(n)
  <2>1. 0 \in Up
    BY <1>1
  <2>2. ASSUME NEW d \in Nat, d \in Up, d + 1 <= N
        PROVE  w[N - (d + 1)] \subseteq NodesOf(n)
    <3>1. N - d \in 1 .. N /\ (N - d) - 1 = N - (d + 1)
      BY <2>2
    <3>2. w[N - d] = w[(N - d) - 1] \cup Below(w[(N - d) - 1])
      BY <1>1, <3>1
    <3>3. QED BY <2>2, <3>1, <3>2
  <2>3. \A d \in Nat : d \in Up => d + 1 \in Up
    BY <2>2
  <2> HIDE DEF Up
  <2>4. \A d \in Nat : d \in Up
    BY <2>1, <2>3, Induction
  <2>5. ASSUME NEW d \in 0 .. N PROVE w[d] \subseteq NodesOf(n)
    <3>1. N - d \in Nat /\ N - d <= N /\ N - (N - d) = d
      OBVIOUS
    <3>2. N - d \in Up
      BY <2>4, <3>1
    <3>3. QED BY <3>1, <3>2 DEF Up
  <2>6. QED BY <2>5
<1>3. \A d \in 0 .. N : \A m \in w[d] :
          /\ m.sub = <<>> \/ m.sub = <<m.sub[1], m.sub[2]>>
          /\ m.height \in Nat \ {0}
          /\ m.sub # <<>> => m.sub[1].height < m.height /\ m.sub[2].height < m.height
  BY <1>2 DEF Sound, NodeOK, Larger
<1>4. 0 \in S
  BY <1>1
<1>5. ASSUME NEW d \in Nat, d \in S, d + 1 <= N
      PROVE  Ends(d + 1)
  <2>1. w[d + 1] = w[d] \cup Below(w[d])
    BY <1>1, <1>5
  <2>2. \A x : x \in Below(w[d]) <=> \E m \in w[d] : m.sub # <<>> /\ (x = m.sub[1] \/ x = m.sub[2])
    BY <1>3, <1>5, BelowMembers
  <2>3. ASSUME NEW m \in w[d], m.sub # <<>>
        PROVE  m.sub[1] \in w[d + 1] /\ m.sub[2] \in w[d + 1]
    BY <2>1, <2>2, <2>3
  <2>4. ASSUME NEW x \in Below(w[d]), x \notin w[d]
        PROVE  x.height <= n.height - (d + 1)
    <3>1. PICK m \in w[d] : m.sub # <<>> /\ (x = m.sub[1] \/ x = m.sub[2])
      BY <2>2, <2>4
    <3>2. m.height <= n.height - d
      BY <1>5, <2>4, <3>1
    <3>3. m.sub[1].height < m.height /\ m.sub[2].height < m.height /\ m.height \in Nat
      BY <1>3, <1>5, <3>1
    <3>4. m.sub[1].height \in Nat /\ m.sub[2].height \in Nat
      BY <1>2, <1>5, <3>1 DEF Sound, NodeOK
    <3>5. QED BY <3>1, <3>2, <3>3, <3>4
  <2>5. QED BY <2>1, <2>3, <2>4
<1>6. \A d \in Nat : d \in S => d + 1 \in S
  BY <1>5
<1> HIDE DEF S, Ends
<1>7. N \in S
  BY <1>4, <1>6, Induction
<1> USE DEF S, Ends
<1>8. ASSUME NEW m \in NodesOf(n), m.sub # <<>>
      PROVE  m.sub[1] \in NodesOf(n) /\ m.sub[2] \in NodesOf(n)
  <2>1. m \in w[N] /\ N \in 0 .. N
    BY <1>1, <1>8
  <2>2. CASE m.sub[1] \in w[N] /\ m.sub[2] \in w[N]
    BY <1>1, <2>2
  <2>3. CASE m.height <= n.height - N
    <3>1. m.height <= 1 /\ m.height \in Nat
      BY <1>3, <2>1, <2>3
    <3>2. m.sub[1].height < m.height /\ m.sub[1].height \in Nat \ {0}
      BY <1>3, <1>8, <2>1 DEF Sound, NodeOK
    <3>3. QED BY <3>1, <3>2
  <2>4. QED BY <1>7, <1>8, <2>1, <2>2, <2>3
<1>9. QED BY <1>8 DEF Closed, Sound, NodeOK

\* The children of a sound inner node are sound, and their nodes are its nodes.
LEMMA SoundParts ==
    ASSUME NEW n, NEW z, n.height \in Nat \ {0}, Sound(n, z)
    PROVE  /\ NodeOK(n, z)
           /\ n.sub = <<>> => NodesOf(n) = {n}
           /\ n.sub # <<>> =>
                 /\ Sound(n.sub[1], z) /\ Sound(n.sub[2], z)
                 /\ NodesOf(n) = {n} \cup NodesOf(n.sub[1]) \cup NodesOf(n.sub[2])
<1>1. n \in NodesOf(n) /\ Closed(NodesOf(n)) /\ NodeOK(n, z)
  BY NodesHaveRoot, NodesAreClosed DEF Sound
<1>2. CASE n.sub = <<>>
  <2>1. Closed({n})
    BY <1>2 DEF Closed
  <2>2. NodesOf(n) \subseteq {n}
    BY <2>1, NodesAreLeast
  <2>3. QED BY <1>1, <1>2, <2>2
<1>3. CASE n.sub # <<>>
  <2>1. n.sub[1] \in NodesOf(n) /\ n.sub[2] \in NodesOf(n)
    BY <1>1, <1>3 DEF Closed
  <2>2. n.sub[1].height \in Nat \ {0} /\ n.sub[2].height \in Nat \ {0}
    BY <1>1, <1>3 DEF NodeOK
  <2>3. NodesOf(n.sub[1]) \subseteq NodesOf(n) /\ NodesOf(n.sub[2]) \subseteq NodesOf(n)
    BY <1>1, <2>1, <2>2, NodesAreLeast
  <2>4. Sound(n.sub[1], z) /\ Sound(n.sub[2], z)
    BY <2>3 DEF Sound
  <2>5. /\ Closed(NodesOf(n.sub[1])) /\ n.sub[1] \in NodesOf(n.sub[1])
        /\ Closed(NodesOf(n.sub[2])) /\ n.sub[2] \in NodesOf(n.sub[2])
    BY <2>2, <2>4, NodesHaveRoot, NodesAreClosed
  <2>6. n.sub = <<n.sub[1], n.sub[2]>>
    BY <1>1, <1>3 DEF NodeOK
  <2>7. Closed({n} \cup NodesOf(n.sub[1]) \cup NodesOf(n.sub[2]))
    BY <2>5, <2>6 DEF Closed
  <2>8. NodesOf(n) \subseteq {n} \cup NodesOf(n.sub[1]) \cup NodesOf(n.sub[2])
    BY <2>7, NodesAreLeast
  <2>9. QED BY <1>1, <1>3, <2>3, <2>4, <2>8
<1>4. QED BY <1>2, <1>3

\* A node that is right, with sound children or none, is sound.
LEMMA SoundWhole ==
    ASSUME NEW n, NEW z, NodeOK(n, z),
           n.sub # <<>> => Sound(n.sub[1], z) /\ Sound(n.sub[2], z)
    PROVE  Sound(n, z)
<1>1. n.height \in Nat \ {0}
  BY DEF NodeOK
<1>2. CASE n.sub = <<>>
  <2>1. Closed({n})
    BY <1>2 DEF Closed
  <2>2. NodesOf(n) \subseteq {n}
    BY <1>1, <2>1, NodesAreLeast
  <2>3. QED BY <2>2 DEF Sound
<1>3. CASE n.sub # <<>>
  <2>1. n.sub[1].height \in Nat \ {0} /\ n.sub[2].height \in Nat \ {0}
    BY <1>3 DEF NodeOK
  <2>2. /\ Closed(NodesOf(n.sub[1])) /\ n.sub[1] \in NodesOf(n.sub[1])
        /\ Closed(NodesOf(n.sub[2])) /\ n.sub[2] \in NodesOf(n.sub[2])
    BY <1>3, <2>1, NodesHaveRoot, NodesAreClosed
  <2>3. n.sub = <<n.sub[1], n.sub[2]>>
    BY <1>3 DEF NodeOK
  <2>4. Closed({n} \cup NodesOf(n.sub[1]) \cup NodesOf(n.sub[2]))
    BY <2>2, <2>3 DEF Closed
  <2>5. NodesOf(n) \subseteq {n} \cup NodesOf(n.sub[1]) \cup NodesOf(n.sub[2])
    BY <1>1, <2>4, NodesAreLeast
  <2>6. QED BY <1>3, <2>5 DEF Sound
<1>4. QED BY <1>2, <1>3

\* Every node of a sound tree is the root of a sound tree.
LEMMA SoundBelow ==
    ASSUME NEW n, NEW z, n.height \in Nat \ {0}, Sound(n, z), NEW m \in NodesOf(n)
    PROVE  /\ m.height \in Nat \ {0} /\ Sound(m, z) /\ NodesOf(m) \subseteq NodesOf(n)
           /\ m.sub # <<>> => m.sub[1] \in NodesOf(n) /\ m.sub[2] \in NodesOf(n)
<1>1. Closed(NodesOf(n))
  BY NodesAreClosed
<1>2. m.height \in Nat \ {0}
  BY DEF Sound, NodeOK
<1>3. NodesOf(m) \subseteq NodesOf(n)
  BY <1>1, <1>2, NodesAreLeast
<1>4. QED BY <1>1, <1>2, <1>3 DEF Sound, Closed

\* What holds of a node whenever it holds of its children holds of all nodes of
\* a sound tree.
LEMMA TreeInduction ==
    ASSUME NEW n, NEW z, n.height \in Nat \ {0}, Sound(n, z), NEW S,
           \A m \in NodesOf(n) : (m.sub # <<>> => m.sub[1] \in S /\ m.sub[2] \in S) => m \in S
    PROVE  NodesOf(n) \subseteq S
<1> DEFINE U == {k \in Nat : \A m \in NodesOf(n) : m.height <= k => m \in S}
<1>1. \A m \in NodesOf(n) :
         /\ m.height \in Nat \ {0}
         /\ m.sub # <<>> => /\ m.sub[1].height < m.height /\ m.sub[2].height < m.height
                            /\ m.sub[1].height \in Nat /\ m.sub[2].height \in Nat
                            /\ m.sub[1] \in NodesOf(n) /\ m.sub[2] \in NodesOf(n)
  <2>1. Closed(NodesOf(n))
    BY NodesAreClosed
  <2>2. QED BY <2>1 DEF Sound, NodeOK, Closed, Larger
<1>2. 0 \in U
  BY <1>1
<1>3. ASSUME NEW k \in Nat, k \in U, NEW m \in NodesOf(n), m.height <= k + 1
      PROVE  m \in S
  <2>1. m.sub # <<>> => m.sub[1].height <= k /\ m.sub[2].height <= k
    BY <1>1, <1>3
  <2>2. m.sub # <<>> => m.sub[1] \in S /\ m.sub[2] \in S
    BY <1>1, <1>3, <2>1
  <2>3. QED BY <2>2
<1>4. \A k \in Nat : k \in U => k + 1 \in U
  BY <1>3
<1> HIDE DEF U
<1>5. \A k \in Nat : k \in U
  BY <1>2, <1>4, Induction
<1>6. \A m \in NodesOf(n) : m \in S
  BY <1>1, <1>5 DEF U
<1>7. QED BY <1>6

\* The recursive function of hash exists on a sound tree.
LEMMA HashUnfolds ==
    ASSUME NEW n, NEW z, n.height \in Nat \ {0}, Sound(n, z)
    PROVE  \E f : /\ hash(n) = f[n]
                  /\ \A m \in NodesOf(n) : f[m] = (IF ~m.dirty THEN m ELSE Rehashed(m, f[m.sub[1]], f[m.sub[2]]))
<1> DEFINE D == NodesOf(n)
           Body(f, m) == (IF ~m.dirty THEN m ELSE Rehashed(m, f[m.sub[1]], f[m.sub[2]]))
           S == {k \in Nat : \E g : \A m \in D : m.height <= k => g[m] = Body(g, m)}
<1> HIDE DEF D
<1>n. D = NodesOf(n) /\ n \in D
  BY NodesHaveRoot DEF D
<1>1. \A m \in D :
         /\ m.height \in Nat \ {0}
         /\ ~m.dirty \/ /\ m.sub[1].height < m.height /\ m.sub[1].height \in Nat /\ m.sub[1] \in D
                            /\ m.sub[2].height < m.height /\ m.sub[2].height \in Nat /\ m.sub[2] \in D
  <2>1. Closed(D)
    BY <1>n, NodesAreClosed
  <2>2. \A m \in D : m.sub = <<>> => ~m.dirty
    BY <1>n DEF Sound, NodeOK, MakeLeaf, is_full
  <2>3. QED BY <1>n, <2>1, <2>2 DEF Sound, NodeOK, Closed, Larger
<1>2. 0 \in S
  <2>1. \A g : \A m \in D : m.height <= 0 => g[m] = Body(g, m)
    BY <1>1
  <2>2. QED BY <2>1
<1>3. ASSUME NEW k \in Nat, k \in S
      PROVE  k + 1 \in S
  <2>1. PICK g : \A m \in D : m.height <= k => g[m] = Body(g, m)
    BY <1>3
  <2> DEFINE h == [m \in D |-> IF m.height <= k THEN g[m] ELSE Body(g, m)]
  <2>2. \A m \in D : m.height <= k + 1 => h[m] = Body(g, m)
    BY <1>1, <2>1
  <2>3. \A m \in D : m.height <= k + 1 => ~m.dirty \/ (h[m.sub[1]] = g[m.sub[1]] /\ h[m.sub[2]] = g[m.sub[2]])
    BY <1>1
  <2> HIDE DEF h
  <2>4. \A m \in D : m.height <= k + 1 => h[m] = Body(h, m)
    BY <1>1, <2>2, <2>3
  <2> HIDE DEF Body
  <2>5. QED BY <2>4
<1> HIDE DEF S
<1>4. n.height \in S /\ \A k \in Nat : k \in S
  BY <1>2, <1>3, Induction
<1>5. n.height \in S /\ \A m \in D : m.height <= n.height
  <2> DEFINE T == {m \in D : m.height <= n.height}
  <2>1. Closed(T)
    <3>1. Closed(D)
      BY <1>n, NodesAreClosed
    <3>2. ASSUME NEW m \in T, m.sub # <<>>
          PROVE  m.sub[1].height <= n.height /\ m.sub[2].height <= n.height
      BY <1>n, <3>2 DEF Sound, NodeOK, Larger
    <3>3. QED BY <3>1, <3>2 DEF Closed
  <2>2. n \in T
    BY <1>n
  <2> HIDE DEF T
  <2>3. D \subseteq T
    BY <1>n, <2>1, <2>2, NodesAreLeast
  <2>4. QED BY <1>4, <2>3 DEF T
<1>6. PICK g : \A m \in D : g[m] = Body(g, m)
  BY <1>5 DEF S
<1>7. \E f : f = [m \in D |-> Body(f, m)]
  <2> DEFINE h == [m \in D |-> g[m]]
  <2>1. \A m \in D : h[m] = Body(g, m)
    BY <1>6
  <2>2. \A m \in D : ~m.dirty \/ (h[m.sub[1]] = g[m.sub[1]] /\ h[m.sub[2]] = g[m.sub[2]])
    BY <1>1
  <2>3. h = [m \in D |-> h[m]]
    OBVIOUS
  <2> HIDE DEF h
  <2>4. \A m \in D : h[m] = Body(h, m)
    BY <1>1, <2>1, <2>2
  <2>5. h = [m \in D |-> Body(h, m)]
    BY <2>3, <2>4
  <2>6. QED BY <2>5, Zenon
<1> DEFINE w == CHOOSE f : f = [m \in NodesOf(n) |-> Body(f, m)]
<1> HIDE DEF w
<1>8. w = [m \in D |-> Body(w, m)]
  BY <1>7, <1>n, Zenon DEF w
<1>9. hash(n) = w[n]
  BY Zenon DEF w, hash
<1>10. \A m \in D : w[m] = Body(w, m)
  BY <1>8
<1>11. QED BY <1>n, <1>9, <1>10

\* hash, unfolded.
LEMMA HashLaw ==
    ASSUME NEW n, NEW z, n.height \in Nat \ {0}, Sound(n, z)
    PROVE  hash(n) = IF ~n.dirty THEN n ELSE Rehashed(n, hash(n.sub[1]), hash(n.sub[2]))
<1>1. PICK f : /\ hash(n) = f[n]
               /\ \A m \in NodesOf(n) : f[m] = (IF ~m.dirty THEN m ELSE Rehashed(m, f[m.sub[1]], f[m.sub[2]]))
  BY HashUnfolds
<1>2. ASSUME NEW m \in NodesOf(n)
      PROVE  hash(m) = f[m]
  <2>1. m.height \in Nat \ {0} /\ Sound(m, z) /\ NodesOf(m) \subseteq NodesOf(n)
    BY SoundBelow
  <2>2. PICK g : /\ hash(m) = g[m]
                 /\ \A x \in NodesOf(m) : g[x] = (IF ~x.dirty THEN x ELSE Rehashed(x, g[x.sub[1]], g[x.sub[2]]))
    BY <2>1, HashUnfolds
  <2> DEFINE S == {x \in NodesOf(m) : g[x] = f[x]}
  <2>3. ASSUME NEW x \in NodesOf(m), x.sub # <<>> => x.sub[1] \in S /\ x.sub[2] \in S
        PROVE  x \in S
    <3>1. ~x.dirty \/ (g[x.sub[1]] = f[x.sub[1]] /\ g[x.sub[2]] = f[x.sub[2]])
      BY <2>1, <2>3 DEF Sound, NodeOK, MakeLeaf, is_full
    <3>2. g[x] = (IF ~x.dirty THEN x ELSE Rehashed(x, g[x.sub[1]], g[x.sub[2]])) /\ f[x] = (IF ~x.dirty THEN x ELSE Rehashed(x, f[x.sub[1]], f[x.sub[2]]))
      BY <1>1, <2>1, <2>2
    <3>3. QED BY <3>1, <3>2
  <2> HIDE DEF S
  <2>4. m \in S
    BY <2>1, <2>3, TreeInduction, NodesHaveRoot
  <2>5. QED BY <2>2, <2>4 DEF S
<1>3. n \in NodesOf(n)
  BY NodesHaveRoot
<1>4. ~n.dirty \/ (n.sub[1] \in NodesOf(n) /\ n.sub[2] \in NodesOf(n))
  <2>1. n.sub = <<>> => ~n.dirty
    BY <1>3 DEF Sound, NodeOK, MakeLeaf, is_full
  <2>2. QED BY <1>3, <2>1, SoundBelow
<1>5. QED BY <1>1, <1>2, <1>3, <1>4

\* The first powers.
LEMMA FirstPowers == PowerOfTwo[0] = 1 /\ PowerOfTwo[1] = 2 /\ PowerOfTwo[2] = 4
<1>1. PowerOfTwo[0 + 1] = 2 * PowerOfTwo[0]
  BY Powers
<1>2. PowerOfTwo[1 + 1] = 2 * PowerOfTwo[1]
  BY Powers
<1>3. QED BY <1>1, <1>2, Powers

\* The side on which a way down goes on, and what it adds to the rest of it.
Side(m) == IF is_full(m.sub[1]) THEN 2 ELSE 1
Descended(m, rest) ==
    [stack |-> <<[n |-> m, side |-> Side(m)]>> \o rest.stack, full |-> rest.full]

\* The recursive function of WayDown exists on a sound tree.
LEMMA WayDownUnfolds ==
    ASSUME NEW n, NEW z, n.height \in Nat \ {0}, Sound(n, z)
    PROVE  \E f : /\ WayDown(n) = f[n]
                  /\ \A m \in NodesOf(n) : f[m] = (IF is_full(m) THEN [stack |-> <<>>, full |-> m] ELSE Descended(m, f[m.sub[Side(m)]]))
<1> DEFINE D == NodesOf(n)
           Body(f, m) == (IF is_full(m) THEN [stack |-> <<>>, full |-> m] ELSE Descended(m, f[m.sub[Side(m)]]))
           S == {k \in Nat : \E g : \A m \in D : m.height <= k => g[m] = Body(g, m)}
<1> HIDE DEF D
<1>n. D = NodesOf(n) /\ n \in D
  BY NodesHaveRoot DEF D
<1>1. \A m \in D :
         /\ m.height \in Nat \ {0}
         /\ is_full(m) \/ /\ m.sub[1].height < m.height /\ m.sub[1].height \in Nat /\ m.sub[1] \in D
                            /\ m.sub[2].height < m.height /\ m.sub[2].height \in Nat /\ m.sub[2] \in D
  <2>1. Closed(D)
    BY <1>n, NodesAreClosed
  <2>2. \A m \in D : m.sub = <<>> => is_full(m)
    BY <1>n, FirstPowers DEF Sound, NodeOK, MakeLeaf, is_full
  <2>3. QED BY <1>n, <2>1, <2>2 DEF Sound, NodeOK, Closed, Larger
<1>2. 0 \in S
  <2>1. \A g : \A m \in D : m.height <= 0 => g[m] = Body(g, m)
    BY <1>1
  <2>2. QED BY <2>1
<1>3. ASSUME NEW k \in Nat, k \in S
      PROVE  k + 1 \in S
  <2>1. PICK g : \A m \in D : m.height <= k => g[m] = Body(g, m)
    BY <1>3
  <2> DEFINE h == [m \in D |-> IF m.height <= k THEN g[m] ELSE Body(g, m)]
  <2>2. \A m \in D : m.height <= k + 1 => h[m] = Body(g, m)
    BY <1>1, <2>1
  <2>3. \A m \in D : m.height <= k + 1 => is_full(m) \/ (h[m.sub[1]] = g[m.sub[1]] /\ h[m.sub[2]] = g[m.sub[2]])
    BY <1>1
  <2> HIDE DEF h
  <2>4. \A m \in D : m.height <= k + 1 => h[m] = Body(h, m)
    BY <1>1, <2>2, <2>3 DEF Side
  <2> HIDE DEF Body
  <2>5. QED BY <2>4
<1> HIDE DEF S
<1>4. n.height \in S /\ \A k \in Nat : k \in S
  BY <1>2, <1>3, Induction
<1>5. n.height \in S /\ \A m \in D : m.height <= n.height
  <2> DEFINE T == {m \in D : m.height <= n.height}
  <2>1. Closed(T)
    <3>1. Closed(D)
      BY <1>n, NodesAreClosed
    <3>2. ASSUME NEW m \in T, m.sub # <<>>
          PROVE  m.sub[1].height <= n.height /\ m.sub[2].height <= n.height
      BY <1>n, <3>2 DEF Sound, NodeOK, Larger
    <3>3. QED BY <3>1, <3>2 DEF Closed
  <2>2. n \in T
    BY <1>n
  <2> HIDE DEF T
  <2>3. D \subseteq T
    BY <1>n, <2>1, <2>2, NodesAreLeast
  <2>4. QED BY <1>4, <2>3 DEF T
<1>6. PICK g : \A m \in D : g[m] = Body(g, m)
  BY <1>5 DEF S
<1>7. \E f : f = [m \in D |-> Body(f, m)]
  <2> DEFINE h == [m \in D |-> g[m]]
  <2>1. \A m \in D : h[m] = Body(g, m)
    BY <1>6
  <2>2. \A m \in D : is_full(m) \/ (h[m.sub[1]] = g[m.sub[1]] /\ h[m.sub[2]] = g[m.sub[2]])
    BY <1>1
  <2>3. h = [m \in D |-> h[m]]
    OBVIOUS
  <2> HIDE DEF h
  <2>4. \A m \in D : h[m] = Body(h, m)
    BY <1>1, <2>1, <2>2 DEF Side
  <2>5. h = [m \in D |-> Body(h, m)]
    BY <2>3, <2>4
  <2>6. QED BY <2>5, Zenon
<1> DEFINE w == CHOOSE f : f = [m \in NodesOf(n) |-> Body(f, m)]
<1> HIDE DEF w
<1>8. w = [m \in D |-> Body(w, m)]
  BY <1>7, <1>n, Zenon DEF w
<1>9. WayDown(n) = w[n]
  BY Zenon DEF w, WayDown, Side, Descended
<1>10. \A m \in D : w[m] = Body(w, m)
  BY <1>8
<1>11. QED BY <1>n, <1>9, <1>10

\* WayDown, unfolded.
LEMMA WayDownLaw ==
    ASSUME NEW n, NEW z, n.height \in Nat \ {0}, Sound(n, z)
    PROVE  WayDown(n) = IF is_full(n) THEN [stack |-> <<>>, full |-> n] ELSE Descended(n, WayDown(n.sub[Side(n)]))
<1>1. PICK f : /\ WayDown(n) = f[n]
               /\ \A m \in NodesOf(n) : f[m] = (IF is_full(m) THEN [stack |-> <<>>, full |-> m] ELSE Descended(m, f[m.sub[Side(m)]]))
  BY WayDownUnfolds
<1>2. ASSUME NEW m \in NodesOf(n)
      PROVE  WayDown(m) = f[m]
  <2>1. m.height \in Nat \ {0} /\ Sound(m, z) /\ NodesOf(m) \subseteq NodesOf(n)
    BY SoundBelow
  <2>2. PICK g : /\ WayDown(m) = g[m]
                 /\ \A x \in NodesOf(m) : g[x] = (IF is_full(x) THEN [stack |-> <<>>, full |-> x] ELSE Descended(x, g[x.sub[Side(x)]]))
    BY <2>1, WayDownUnfolds
  <2> DEFINE S == {x \in NodesOf(m) : g[x] = f[x]}
  <2>3. ASSUME NEW x \in NodesOf(m), x.sub # <<>> => x.sub[1] \in S /\ x.sub[2] \in S
        PROVE  x \in S
    <3>1. is_full(x) \/ (g[x.sub[1]] = f[x.sub[1]] /\ g[x.sub[2]] = f[x.sub[2]])
      BY <2>1, <2>3, FirstPowers DEF Sound, NodeOK, MakeLeaf, is_full
    <3>2. g[x] = (IF is_full(x) THEN [stack |-> <<>>, full |-> x] ELSE Descended(x, g[x.sub[Side(x)]])) /\ f[x] = (IF is_full(x) THEN [stack |-> <<>>, full |-> x] ELSE Descended(x, f[x.sub[Side(x)]]))
      BY <1>1, <2>1, <2>2
    <3>3. QED BY <3>1, <3>2 DEF Side
  <2> HIDE DEF S
  <2>4. m \in S
    BY <2>1, <2>3, TreeInduction, NodesHaveRoot
  <2>5. QED BY <2>2, <2>4 DEF S
<1>3. n \in NodesOf(n)
  BY NodesHaveRoot
<1>4. is_full(n) \/ (n.sub[1] \in NodesOf(n) /\ n.sub[2] \in NodesOf(n))
  <2>1. n.sub = <<>> => is_full(n)
    BY <1>3, FirstPowers DEF Sound, NodeOK, MakeLeaf, is_full
  <2>2. QED BY <1>3, <2>1, SoundBelow
<1>5. QED BY <1>1, <1>2, <1>3, <1>4 DEF Side

\* The side to which a walk goes, and what it adds to the rest of it.
Toward(m, index) == IF GoRight(m, index) THEN 2 ELSE 1
Walked(m, index, below) ==
    [below EXCEPT !.elements =
        Append(@, [hash |-> m.sub[IF GoRight(m, index) THEN 1 ELSE 2].hash,
                   direction |-> IF GoRight(m, index) THEN "left" ELSE "right"])]

\* The recursive function of Walk exists on a sound tree.
LEMMA WalkUnfolds ==
    ASSUME NEW n, NEW z, n.height \in Nat \ {0}, Sound(n, z), NEW index
    PROVE  \E f : /\ Walk(n, index) = f[n]
                  /\ \A m \in NodesOf(n) : f[m] = (IF m.sub = <<>> THEN [leaf |-> m, elements |-> <<>>] ELSE Walked(m, index, f[m.sub[Toward(m, index)]]))
<1> DEFINE D == NodesOf(n)
           Body(f, m) == (IF m.sub = <<>> THEN [leaf |-> m, elements |-> <<>>] ELSE Walked(m, index, f[m.sub[Toward(m, index)]]))
           S == {k \in Nat : \E g : \A m \in D : m.height <= k => g[m] = Body(g, m)}
<1> HIDE DEF D
<1>n. D = NodesOf(n) /\ n \in D
  BY NodesHaveRoot DEF D
<1>1. \A m \in D :
         /\ m.height \in Nat \ {0}
         /\ m.sub = <<>> \/ /\ m.sub[1].height < m.height /\ m.sub[1].height \in Nat /\ m.sub[1] \in D
                            /\ m.sub[2].height < m.height /\ m.sub[2].height \in Nat /\ m.sub[2] \in D
  <2>1. Closed(D)
    BY <1>n, NodesAreClosed
  <2>2. \A m \in D : m.sub = <<>> => m.sub = <<>>
    BY <1>n DEF Sound, NodeOK, MakeLeaf, is_full
  <2>3. QED BY <1>n, <2>1, <2>2 DEF Sound, NodeOK, Closed, Larger
<1>2. 0 \in S
  <2>1. \A g : \A m \in D : m.height <= 0 => g[m] = Body(g, m)
    BY <1>1
  <2>2. QED BY <2>1
<1>3. ASSUME NEW k \in Nat, k \in S
      PROVE  k + 1 \in S
  <2>1. PICK g : \A m \in D : m.height <= k => g[m] = Body(g, m)
    BY <1>3
  <2> DEFINE h == [m \in D |-> IF m.height <= k THEN g[m] ELSE Body(g, m)]
  <2>2. \A m \in D : m.height <= k + 1 => h[m] = Body(g, m)
    BY <1>1, <2>1
  <2>3. \A m \in D : m.height <= k + 1 => m.sub = <<>> \/ (h[m.sub[1]] = g[m.sub[1]] /\ h[m.sub[2]] = g[m.sub[2]])
    BY <1>1
  <2> HIDE DEF h
  <2>4. \A m \in D : m.height <= k + 1 => h[m] = Body(h, m)
    BY <1>1, <2>2, <2>3 DEF Toward
  <2> HIDE DEF Body
  <2>5. QED BY <2>4
<1> HIDE DEF S
<1>4. n.height \in S /\ \A k \in Nat : k \in S
  BY <1>2, <1>3, Induction
<1>5. n.height \in S /\ \A m \in D : m.height <= n.height
  <2> DEFINE T == {m \in D : m.height <= n.height}
  <2>1. Closed(T)
    <3>1. Closed(D)
      BY <1>n, NodesAreClosed
    <3>2. ASSUME NEW m \in T, m.sub # <<>>
          PROVE  m.sub[1].height <= n.height /\ m.sub[2].height <= n.height
      BY <1>n, <3>2 DEF Sound, NodeOK, Larger
    <3>3. QED BY <3>1, <3>2 DEF Closed
  <2>2. n \in T
    BY <1>n
  <2> HIDE DEF T
  <2>3. D \subseteq T
    BY <1>n, <2>1, <2>2, NodesAreLeast
  <2>4. QED BY <1>4, <2>3 DEF T
<1>6. PICK g : \A m \in D : g[m] = Body(g, m)
  BY <1>5 DEF S
<1>7. \E f : f = [m \in D |-> Body(f, m)]
  <2> DEFINE h == [m \in D |-> g[m]]
  <2>1. \A m \in D : h[m] = Body(g, m)
    BY <1>6
  <2>2. \A m \in D : m.sub = <<>> \/ (h[m.sub[1]] = g[m.sub[1]] /\ h[m.sub[2]] = g[m.sub[2]])
    BY <1>1
  <2>3. h = [m \in D |-> h[m]]
    OBVIOUS
  <2> HIDE DEF h
  <2>4. \A m \in D : h[m] = Body(h, m)
    BY <1>1, <2>1, <2>2 DEF Toward
  <2>5. h = [m \in D |-> Body(h, m)]
    BY <2>3, <2>4
  <2>6. QED BY <2>5, Zenon
<1> DEFINE w == CHOOSE f : f = [m \in NodesOf(n) |-> Body(f, m)]
<1> HIDE DEF w
<1>8. w = [m \in D |-> Body(w, m)]
  BY <1>7, <1>n, Zenon DEF w
<1>9. Walk(n, index) = w[n]
  BY Zenon DEF w, Walk, Toward, Walked
<1>10. \A m \in D : w[m] = Body(w, m)
  BY <1>8
<1>11. QED BY <1>n, <1>9, <1>10

\* Walk, unfolded.
LEMMA WalkLaw ==
    ASSUME NEW n, NEW z, n.height \in Nat \ {0}, Sound(n, z), NEW index
    PROVE  Walk(n, index) = IF n.sub = <<>> THEN [leaf |-> n, elements |-> <<>>] ELSE Walked(n, index, Walk(n.sub[Toward(n, index)], index))
<1>1. PICK f : /\ Walk(n, index) = f[n]
               /\ \A m \in NodesOf(n) : f[m] = (IF m.sub = <<>> THEN [leaf |-> m, elements |-> <<>>] ELSE Walked(m, index, f[m.sub[Toward(m, index)]]))
  BY WalkUnfolds
<1>2. ASSUME NEW m \in NodesOf(n)
      PROVE  Walk(m, index) = f[m]
  <2>1. m.height \in Nat \ {0} /\ Sound(m, z) /\ NodesOf(m) \subseteq NodesOf(n)
    BY SoundBelow
  <2>2. PICK g : /\ Walk(m, index) = g[m]
                 /\ \A x \in NodesOf(m) : g[x] = (IF x.sub = <<>> THEN [leaf |-> x, elements |-> <<>>] ELSE Walked(x, index, g[x.sub[Toward(x, index)]]))
    BY <2>1, WalkUnfolds
  <2> DEFINE S == {x \in NodesOf(m) : g[x] = f[x]}
  <2>3. ASSUME NEW x \in NodesOf(m), x.sub # <<>> => x.sub[1] \in S /\ x.sub[2] \in S
        PROVE  x \in S
    <3>1. x.sub = <<>> \/ (g[x.sub[1]] = f[x.sub[1]] /\ g[x.sub[2]] = f[x.sub[2]])
      BY <2>1, <2>3 DEF Sound, NodeOK, MakeLeaf, is_full
    <3>2. g[x] = (IF x.sub = <<>> THEN [leaf |-> x, elements |-> <<>>] ELSE Walked(x, index, g[x.sub[Toward(x, index)]])) /\ f[x] = (IF x.sub = <<>> THEN [leaf |-> x, elements |-> <<>>] ELSE Walked(x, index, f[x.sub[Toward(x, index)]]))
      BY <1>1, <2>1, <2>2
    <3>3. QED BY <3>1, <3>2 DEF Toward
  <2> HIDE DEF S
  <2>4. m \in S
    BY <2>1, <2>3, TreeInduction, NodesHaveRoot
  <2>5. QED BY <2>2, <2>4 DEF S
<1>3. n \in NodesOf(n)
  BY NodesHaveRoot
<1>4. n.sub = <<>> \/ (n.sub[1] \in NodesOf(n) /\ n.sub[2] \in NodesOf(n))
  <2>1. n.sub = <<>> => n.sub = <<>>
    BY <1>3 DEF Sound, NodeOK, MakeLeaf, is_full
  <2>2. QED BY <1>3, <2>1, SoundBelow
<1>5. QED BY <1>1, <1>2, <1>3, <1>4 DEF Toward

\* The other child, and the leaves of a tree in the order of their indices.
Younger(n) == n.sub[IF n.swapped THEN 1 ELSE 2]

Listing(n) ==
    LET listed[m \in NodesOf(n)] ==
            IF m.sub = <<>> THEN <<m.hash>> ELSE listed[Older(m)] \o listed[Younger(m)]
    IN  listed[n]

\* The recursive function of Listing exists on a sound tree.
LEMMA ListingUnfolds ==
    ASSUME NEW n, NEW z, n.height \in Nat \ {0}, Sound(n, z)
    PROVE  \E f : /\ Listing(n) = f[n]
                  /\ \A m \in NodesOf(n) : f[m] = (IF m.sub = <<>> THEN <<m.hash>> ELSE f[Older(m)] \o f[Younger(m)])
<1> DEFINE D == NodesOf(n)
           Body(f, m) == (IF m.sub = <<>> THEN <<m.hash>> ELSE f[Older(m)] \o f[Younger(m)])
           S == {k \in Nat : \E g : \A m \in D : m.height <= k => g[m] = Body(g, m)}
<1> HIDE DEF D
<1>n. D = NodesOf(n) /\ n \in D
  BY NodesHaveRoot DEF D
<1>1. \A m \in D :
         /\ m.height \in Nat \ {0}
         /\ m.sub = <<>> \/ /\ m.sub[1].height < m.height /\ m.sub[1].height \in Nat /\ m.sub[1] \in D
                            /\ m.sub[2].height < m.height /\ m.sub[2].height \in Nat /\ m.sub[2] \in D
  <2>1. Closed(D)
    BY <1>n, NodesAreClosed
  <2>2. \A m \in D : m.sub = <<>> => m.sub = <<>>
    BY <1>n DEF Sound, NodeOK, MakeLeaf, is_full
  <2>3. QED BY <1>n, <2>1, <2>2 DEF Sound, NodeOK, Closed, Larger
<1>2. 0 \in S
  <2>1. \A g : \A m \in D : m.height <= 0 => g[m] = Body(g, m)
    BY <1>1
  <2>2. QED BY <2>1
<1>3. ASSUME NEW k \in Nat, k \in S
      PROVE  k + 1 \in S
  <2>1. PICK g : \A m \in D : m.height <= k => g[m] = Body(g, m)
    BY <1>3
  <2> DEFINE h == [m \in D |-> IF m.height <= k THEN g[m] ELSE Body(g, m)]
  <2>2. \A m \in D : m.height <= k + 1 => h[m] = Body(g, m)
    BY <1>1, <2>1
  <2>3. \A m \in D : m.height <= k + 1 => m.sub = <<>> \/ (h[m.sub[1]] = g[m.sub[1]] /\ h[m.sub[2]] = g[m.sub[2]])
    BY <1>1
  <2> HIDE DEF h
  <2>4. \A m \in D : m.height <= k + 1 => h[m] = Body(h, m)
    BY <1>1, <2>2, <2>3 DEF Older, Younger
  <2> HIDE DEF Body
  <2>5. QED BY <2>4
<1> HIDE DEF S
<1>4. n.height \in S /\ \A k \in Nat : k \in S
  BY <1>2, <1>3, Induction
<1>5. n.height \in S /\ \A m \in D : m.height <= n.height
  <2> DEFINE T == {m \in D : m.height <= n.height}
  <2>1. Closed(T)
    <3>1. Closed(D)
      BY <1>n, NodesAreClosed
    <3>2. ASSUME NEW m \in T, m.sub # <<>>
          PROVE  m.sub[1].height <= n.height /\ m.sub[2].height <= n.height
      BY <1>n, <3>2 DEF Sound, NodeOK, Larger
    <3>3. QED BY <3>1, <3>2 DEF Closed
  <2>2. n \in T
    BY <1>n
  <2> HIDE DEF T
  <2>3. D \subseteq T
    BY <1>n, <2>1, <2>2, NodesAreLeast
  <2>4. QED BY <1>4, <2>3 DEF T
<1>6. PICK g : \A m \in D : g[m] = Body(g, m)
  BY <1>5 DEF S
<1>7. \E f : f = [m \in D |-> Body(f, m)]
  <2> DEFINE h == [m \in D |-> g[m]]
  <2>1. \A m \in D : h[m] = Body(g, m)
    BY <1>6
  <2>2. \A m \in D : m.sub = <<>> \/ (h[m.sub[1]] = g[m.sub[1]] /\ h[m.sub[2]] = g[m.sub[2]])
    BY <1>1
  <2>3. h = [m \in D |-> h[m]]
    OBVIOUS
  <2> HIDE DEF h
  <2>4. \A m \in D : h[m] = Body(h, m)
    BY <1>1, <2>1, <2>2 DEF Older, Younger
  <2>5. h = [m \in D |-> Body(h, m)]
    BY <2>3, <2>4
  <2>6. QED BY <2>5, Zenon
<1> DEFINE w == CHOOSE f : f = [m \in NodesOf(n) |-> Body(f, m)]
<1> HIDE DEF w
<1>8. w = [m \in D |-> Body(w, m)]
  BY <1>7, <1>n, Zenon DEF w
<1>9. Listing(n) = w[n]
  BY Zenon DEF w, Listing
<1>10. \A m \in D : w[m] = Body(w, m)
  BY <1>8
<1>11. QED BY <1>n, <1>9, <1>10

\* Listing, unfolded.
LEMMA ListingLaw ==
    ASSUME NEW n, NEW z, n.height \in Nat \ {0}, Sound(n, z)
    PROVE  Listing(n) = IF n.sub = <<>> THEN <<n.hash>> ELSE Listing(Older(n)) \o Listing(Younger(n))
<1>1. PICK f : /\ Listing(n) = f[n]
               /\ \A m \in NodesOf(n) : f[m] = (IF m.sub = <<>> THEN <<m.hash>> ELSE f[Older(m)] \o f[Younger(m)])
  BY ListingUnfolds
<1>2. ASSUME NEW m \in NodesOf(n)
      PROVE  Listing(m) = f[m]
  <2>1. m.height \in Nat \ {0} /\ Sound(m, z) /\ NodesOf(m) \subseteq NodesOf(n)
    BY SoundBelow
  <2>2. PICK g : /\ Listing(m) = g[m]
                 /\ \A x \in NodesOf(m) : g[x] = (IF x.sub = <<>> THEN <<x.hash>> ELSE g[Older(x)] \o g[Younger(x)])
    BY <2>1, ListingUnfolds
  <2> DEFINE S == {x \in NodesOf(m) : g[x] = f[x]}
  <2>3. ASSUME NEW x \in NodesOf(m), x.sub # <<>> => x.sub[1] \in S /\ x.sub[2] \in S
        PROVE  x \in S
    <3>1. x.sub = <<>> \/ (g[x.sub[1]] = f[x.sub[1]] /\ g[x.sub[2]] = f[x.sub[2]])
      BY <2>1, <2>3 DEF Sound, NodeOK, MakeLeaf, is_full
    <3>2. g[x] = (IF x.sub = <<>> THEN <<x.hash>> ELSE g[Older(x)] \o g[Younger(x)]) /\ f[x] = (IF x.sub = <<>> THEN <<x.hash>> ELSE f[Older(x)] \o f[Younger(x)])
      BY <1>1, <2>1, <2>2
    <3>3. QED BY <3>1, <3>2 DEF Older, Younger
  <2> HIDE DEF S
  <2>4. m \in S
    BY <2>1, <2>3, TreeInduction, NodesHaveRoot
  <2>5. QED BY <2>2, <2>4 DEF S
<1>3. n \in NodesOf(n)
  BY NodesHaveRoot
<1>4. n.sub = <<>> \/ (n.sub[1] \in NodesOf(n) /\ n.sub[2] \in NodesOf(n))
  <2>1. n.sub = <<>> => n.sub = <<>>
    BY <1>3 DEF Sound, NodeOK, MakeLeaf, is_full
  <2>2. QED BY <1>3, <2>1, SoundBelow
<1>5. QED BY <1>1, <1>2, <1>3, <1>4 DEF Older, Younger

\* The steps of insert_leaves, unfolded.
LEMMA InsertUnfolds ==
    ASSUME NEW at, NEW hashes, Len(hashes) \in Nat
    PROVE  \E f : /\ insert_leaves(at, hashes) = f[Len(hashes)]
                  /\ f[0] = at
                  /\ \A k \in 1 .. Len(hashes) : f[k] = insert_leaf(f[k - 1], MakeLeaf(hashes[k]))
<1> DEFINE N == Len(hashes)
           Body(g, k) == IF k = 0 THEN at ELSE insert_leaf(g[k - 1], MakeLeaf(hashes[k]))
           S == {k \in Nat : \E g : \A d \in 0 .. k : g[d] = Body(g, d)}
<1> HIDE DEF N
<1>n. N \in Nat /\ N = Len(hashes)
  BY DEF N
<1>1. 0 \in S
  <2>1. \A d \in 0 .. 0 : [i \in 0 .. 0 |-> at][d] = Body([i \in 0 .. 0 |-> at], d)
    OBVIOUS
  <2>2. QED BY <2>1
<1>2. ASSUME NEW k \in Nat, k \in S
      PROVE  k + 1 \in S
  <2>1. PICK g : \A d \in 0 .. k : g[d] = Body(g, d)
    BY <1>2
  <2> DEFINE h == [d \in 0 .. k + 1 |-> IF d <= k THEN g[d] ELSE insert_leaf(g[k], MakeLeaf(hashes[(k + 1)]))]
  <2>2. \A d \in 0 .. k + 1 : h[d] = Body(h, d)
    BY <2>1
  <2> HIDE DEF h
  <2>3. QED BY <2>2
<1> HIDE DEF S
<1>3. N \in S
  BY <1>n, <1>1, <1>2, Induction
<1>4. PICK g : \A d \in 0 .. N : g[d] = Body(g, d)
  BY <1>3 DEF S
<1>5. [d \in 0 .. N |-> g[d]] = [d \in 0 .. N |-> Body([e \in 0 .. N |-> g[e]], d)]
  BY <1>n, <1>4
<1>6. \E f : f = [d \in 0 .. N |-> Body(f, d)]
  BY <1>5, Zenon
<1> DEFINE w == CHOOSE f : f = [d \in 0 .. Len(hashes) |-> Body(f, d)]
<1> HIDE DEF w
<1>7. w = [d \in 0 .. N |-> Body(w, d)]
  BY <1>6, <1>n, Zenon DEF w
<1>8. insert_leaves(at, hashes) = w[Len(hashes)]
  BY Zenon DEF w, insert_leaves
<1>9. w[0] = at /\ \A k \in 1 .. N : w[k] = insert_leaf(w[k - 1], MakeLeaf(hashes[k]))
  <2>1. \A d \in 0 .. N : w[d] = Body(w, d)
    BY <1>7
  <2>2. 0 \in 0 .. N /\ \A d \in 1 .. N : d \in 0 .. N /\ d # 0
    BY <1>n
  <2>3. QED BY <2>1, <2>2
<1>10. QED BY <1>n, <1>8, <1>9

\* The steps of HashUp, unfolded.
LEMMA HashUpUnfolds ==
    ASSUME NEW h0, NEW elements, Len(elements) \in Nat
    PROVE  \E f : /\ HashUp(h0, elements) = f[Len(elements)]
                  /\ f[0] = h0
                  /\ \A k \in 1 .. Len(elements) : f[k] = Joined(f[k - 1], elements[k])
<1> DEFINE N == Len(elements)
           Body(g, k) == IF k = 0 THEN h0 ELSE Joined(g[k - 1], elements[k])
           S == {k \in Nat : \E g : \A d \in 0 .. k : g[d] = Body(g, d)}
<1> HIDE DEF N
<1>n. N \in Nat /\ N = Len(elements)
  BY DEF N
<1>1. 0 \in S
  <2>1. \A d \in 0 .. 0 : [i \in 0 .. 0 |-> h0][d] = Body([i \in 0 .. 0 |-> h0], d)
    OBVIOUS
  <2>2. QED BY <2>1
<1>2. ASSUME NEW k \in Nat, k \in S
      PROVE  k + 1 \in S
  <2>1. PICK g : \A d \in 0 .. k : g[d] = Body(g, d)
    BY <1>2
  <2> DEFINE h == [d \in 0 .. k + 1 |-> IF d <= k THEN g[d] ELSE Joined(g[k], elements[(k + 1)])]
  <2>2. \A d \in 0 .. k + 1 : h[d] = Body(h, d)
    BY <2>1
  <2> HIDE DEF h
  <2>3. QED BY <2>2
<1> HIDE DEF S
<1>3. N \in S
  BY <1>n, <1>1, <1>2, Induction
<1>4. PICK g : \A d \in 0 .. N : g[d] = Body(g, d)
  BY <1>3 DEF S
<1>5. [d \in 0 .. N |-> g[d]] = [d \in 0 .. N |-> Body([e \in 0 .. N |-> g[e]], d)]
  BY <1>n, <1>4
<1>6. \E f : f = [d \in 0 .. N |-> Body(f, d)]
  BY <1>5, Zenon
<1> DEFINE w == CHOOSE f : f = [d \in 0 .. Len(elements) |-> Body(f, d)]
<1> HIDE DEF w
<1>7. w = [d \in 0 .. N |-> Body(w, d)]
  BY <1>6, <1>n, Zenon DEF w
<1>8. HashUp(h0, elements) = w[Len(elements)]
  BY Zenon DEF w, HashUp
<1>9. w[0] = h0 /\ \A k \in 1 .. N : w[k] = Joined(w[k - 1], elements[k])
  <2>1. \A d \in 0 .. N : w[d] = Body(w, d)
    BY <1>7
  <2>2. 0 \in 0 .. N /\ \A d \in 1 .. N : d \in 0 .. N /\ d # 0
    BY <1>n
  <2>3. QED BY <2>1, <2>2
<1>10. QED BY <1>n, <1>8, <1>9

\* A step of processProof.
Paired(h, e) == hashPair(h, e.hash)

\* The steps of processProof, unfolded.
LEMMA ProofUnfolds ==
    ASSUME NEW h0, NEW elements, Len(elements) \in Nat
    PROVE  \E f : /\ processProof(h0, elements) = f[Len(elements)]
                  /\ f[0] = h0
                  /\ \A k \in 1 .. Len(elements) : f[k] = Paired(f[k - 1], elements[k])
<1> DEFINE N == Len(elements)
           Body(g, k) == IF k = 0 THEN h0 ELSE Paired(g[k - 1], elements[k])
           S == {k \in Nat : \E g : \A d \in 0 .. k : g[d] = Body(g, d)}
<1> HIDE DEF N
<1>n. N \in Nat /\ N = Len(elements)
  BY DEF N
<1>1. 0 \in S
  <2>1. \A d \in 0 .. 0 : [i \in 0 .. 0 |-> h0][d] = Body([i \in 0 .. 0 |-> h0], d)
    OBVIOUS
  <2>2. QED BY <2>1
<1>2. ASSUME NEW k \in Nat, k \in S
      PROVE  k + 1 \in S
  <2>1. PICK g : \A d \in 0 .. k : g[d] = Body(g, d)
    BY <1>2
  <2> DEFINE h == [d \in 0 .. k + 1 |-> IF d <= k THEN g[d] ELSE Paired(g[k], elements[(k + 1)])]
  <2>2. \A d \in 0 .. k + 1 : h[d] = Body(h, d)
    BY <2>1
  <2> HIDE DEF h
  <2>3. QED BY <2>2
<1> HIDE DEF S
<1>3. N \in S
  BY <1>n, <1>1, <1>2, Induction
<1>4. PICK g : \A d \in 0 .. N : g[d] = Body(g, d)
  BY <1>3 DEF S
<1>5. [d \in 0 .. N |-> g[d]] = [d \in 0 .. N |-> Body([e \in 0 .. N |-> g[e]], d)]
  BY <1>n, <1>4
<1>6. \E f : f = [d \in 0 .. N |-> Body(f, d)]
  BY <1>5, Zenon
<1> DEFINE w == CHOOSE f : f = [d \in 0 .. Len(elements) |-> Body(f, d)]
<1> HIDE DEF w
<1>7. w = [d \in 0 .. N |-> Body(w, d)]
  BY <1>6, <1>n, Zenon DEF w
<1>8. processProof(h0, elements) = w[Len(elements)]
  BY Zenon DEF w, processProof, Paired
<1>9. w[0] = h0 /\ \A k \in 1 .. N : w[k] = Paired(w[k - 1], elements[k])
  <2>1. \A d \in 0 .. N : w[d] = Body(w, d)
    BY <1>7
  <2>2. 0 \in 0 .. N /\ \A d \in 1 .. N : d \in 0 .. N /\ d # 0
    BY <1>n
  <2>3. QED BY <2>1, <2>2
<1>10. QED BY <1>n, <1>8, <1>9

-----------------------------------------------------------------------------
\* What the operations make of sound trees.

\* A compression is a hash that is not zero.
LEMMA MixedIsHash ==
    ASSUME NEW z \in Int, NEW l \in Int, NEW r \in Int
    PROVE  Mixed(z, l, r) \in 1 .. HashModulus - 1
<1> DEFINE x == l * z + r * 17 + 11
           m == HashModulus
<1>1. x \in Int
  OBVIOUS
<1>2. m \in Nat /\ m > 1
  BY DEF HashModulus
<1>3. Mixed(z, l, r) = 1 + (x % (m - 1))
  BY DEF Mixed
<1> HIDE DEF x, m
<1>4. 1 + (x % (m - 1)) \in 1 .. m - 1
  BY <1>1, <1>2
<1>5. QED BY <1>3, <1>4 DEF m

\* A node that is the root of a sound tree.
IsTree(n, z) == n.height \in Nat \ {0} /\ Sound(n, z)

\* A tree is a leaf or a node with two trees.
LEMMA TreeParts ==
    ASSUME NEW n, NEW z, IsTree(n, z)
    PROVE  /\ NodeOK(n, z)
           /\ n.sub # <<>> => IsTree(n.sub[1], z) /\ IsTree(n.sub[2], z)
  BY SoundParts DEF IsTree, NodeOK

\* A right node with two trees is a tree.
LEMMA TreeWhole ==
    ASSUME NEW n, NEW z, NodeOK(n, z),
           n.sub # <<>> => IsTree(n.sub[1], z) /\ IsTree(n.sub[2], z)
    PROVE  IsTree(n, z)
  BY SoundWhole DEF IsTree, NodeOK

\* A leaf is a tree.
LEMMA LeafIsTree ==
    ASSUME NEW h \in LeafHashes, NEW z
    PROVE  IsTree(MakeLeaf(h), z)
<1>1. h \in Hashes
  BY HashAssumption DEF Hashes
<1>2. NodeOK(MakeLeaf(h), z)
  BY <1>1, FirstPowers DEF NodeOK, MakeLeaf
<1>3. MakeLeaf(h).sub = <<>>
  BY DEF MakeLeaf
<1>4. QED BY <1>2, <1>3, TreeWhole

\* Two trees that are not too large make one that is not.
LEMMA SizeBound ==
    ASSUME NEW h1 \in Nat, NEW h2 \in Nat, NEW s1 \in Nat, NEW s2 \in Nat,
           s1 <= PowerOfTwo[h1] - 1, s2 <= PowerOfTwo[h2] - 1
    PROVE  s1 + s2 + 1 <= PowerOfTwo[Larger(h1, h2) + 1] - 1
<1> DEFINE h == Larger(h1, h2)
<1>1. h \in Nat /\ h1 <= h /\ h2 <= h
  BY DEF Larger
<1> HIDE DEF h
<1>2. /\ PowerOfTwo[h1] <= PowerOfTwo[h] /\ PowerOfTwo[h2] <= PowerOfTwo[h]
      /\ PowerOfTwo[h1] \in Nat /\ PowerOfTwo[h2] \in Nat /\ PowerOfTwo[h] \in Nat
  BY <1>1, PowerFacts
<1>3. PowerOfTwo[h + 1] = 2 * PowerOfTwo[h]
  BY <1>1, Powers
<1>4. s1 + s2 + 1 <= PowerOfTwo[h + 1] - 1
  BY <1>2, <1>3
<1>5. QED BY <1>4 DEF h

\* What a new node has of the two it is made of.
Makes(n, l, r) ==
    /\ n.sub # <<>> /\ Older(n) = l /\ Younger(n) = r
    /\ n.sub = (IF l.hash < r.hash THEN <<l, r>> ELSE <<r, l>>)
    /\ n.swapped = ~(l.hash < r.hash)
    /\ n.dirty /\ n.hash = 0
    /\ n.size = l.size + r.size + 1
    /\ n.height = Larger(l.height, r.height) + 1

\* The new node over two trees.
LEMMA MakeNodeIsTree ==
    ASSUME NEW l, NEW r, NEW z, IsTree(l, z), IsTree(r, z)
    PROVE  IsTree(MakeNode(l, r), z) /\ Makes(MakeNode(l, r), l, r)
<1> DEFINE pair == IF l.hash < r.hash THEN <<l, r>> ELSE <<r, l>>
           n == MakeNode(l, r)
<1>1. /\ NodeOK(l, z) /\ NodeOK(r, z)
  BY TreeParts
<1>2. /\ l.size \in Nat \ {0} /\ l.height \in Nat \ {0} /\ l.size <= PowerOfTwo[l.height] - 1
      /\ r.size \in Nat \ {0} /\ r.height \in Nat \ {0} /\ r.size <= PowerOfTwo[r.height] - 1
  BY <1>1 DEF NodeOK
<1>3. Larger(l.height, r.height) = Larger(r.height, l.height) /\ Larger(l.height, r.height) \in Nat
  BY <1>2 DEF Larger
<1>4. /\ pair = <<pair[1], pair[2]>> /\ pair # <<>>
      /\ pair[1].size + pair[2].size + 1 = l.size + r.size + 1
      /\ Larger(pair[1].height, pair[2].height) = Larger(l.height, r.height)
      /\ \/ pair[1] = l /\ pair[2] = r
         \/ pair[1] = r /\ pair[2] = l
  BY <1>2, <1>3
<1>5. n = [hash |-> 0, sub |-> pair, size |-> l.size + r.size + 1,
           height |-> Larger(l.height, r.height) + 1,
           dirty |-> TRUE, swapped |-> ~(l.hash < r.hash)]
  <2> HIDE DEF pair
  <2>1. MakeNode(l, r) = UpdateSizes([hash |-> 0, sub |-> pair, size |-> 1, height |-> 1,
                                      dirty |-> TRUE, swapped |-> ~(l.hash < r.hash)])
    BY DEF MakeNode, pair
  <2>2. QED BY <1>4, <2>1 DEF UpdateSizes
<1>6. /\ n.sub = pair /\ n.hash = 0 /\ n.dirty /\ n.swapped = ~(l.hash < r.hash)
      /\ n.size = l.size + r.size + 1 /\ n.height = Larger(l.height, r.height) + 1
      /\ n = [hash |-> n.hash, sub |-> n.sub, size |-> n.size, height |-> n.height,
              dirty |-> n.dirty, swapped |-> n.swapped]
  BY <1>5
<1>7. Older(n) = l /\ Younger(n) = r
  <2>1. CASE l.hash < r.hash
    <3>1. n.sub = <<l, r>> /\ n.swapped = FALSE
      BY <1>6, <2>1
    <3> HIDE DEF n
    <3>2. QED BY <3>1 DEF Older, Younger
  <2>2. CASE ~(l.hash < r.hash)
    <3>1. n.sub = <<r, l>> /\ n.swapped = TRUE
      BY <1>6, <2>2
    <3> HIDE DEF n
    <3>2. QED BY <3>1 DEF Older, Younger
  <2>3. QED BY <2>1, <2>2
<1>8. l.size + r.size + 1 <= PowerOfTwo[Larger(l.height, r.height) + 1] - 1
  BY <1>2, SizeBound
<1>9. NodeOK(n, z)
  <2> HIDE DEF pair, n
  <2>1. 0 \in Hashes /\ n.dirty \in BOOLEAN /\ n.swapped \in BOOLEAN
    BY <1>5 DEF Hashes, HashModulus
  <2>2. QED BY <1>2, <1>3, <1>4, <1>6, <1>8, <2>1 DEF NodeOK
<1>10. IsTree(n.sub[1], z) /\ IsTree(n.sub[2], z)
  <2> HIDE DEF pair, n
  <2>1. QED BY <1>4, <1>6
<1>11. IsTree(n, z)
  BY <1>9, <1>10, TreeWhole
<1>12. Makes(n, l, r)
  BY <1>4, <1>6, <1>7 DEF Makes
<1>13. QED BY <1>11, <1>12

\* A node that becomes dirty keeps its other fields.
LEMMA DirtyNode ==
    ASSUME NEW n, NEW h, NEW s, NEW z, NEW t, NEW d, NEW w, NEW v,
           n = [hash |-> h, sub |-> s, size |-> z, height |-> t, dirty |-> d, swapped |-> w]
    PROVE  [n EXCEPT !.dirty = v] =
           [hash |-> h, sub |-> s, size |-> z, height |-> t, dirty |-> v, swapped |-> w]
  OBVIOUS

\* An element of a stack: an inner node and the side to go on at.
Attaches(e, z) ==
    /\ e.side \in {1, 2} /\ IsTree(e.n, z) /\ e.n.sub # <<>>
    /\ IsTree(e.n.sub[3 - e.side], z)

\* What the node has then of its other child and of the new one.
Refits(n, e, child) ==
    LET other == e.n.sub[3 - e.side] IN
    /\ n.sub = (IF e.side = 1 THEN <<child, other>> ELSE <<other, child>>)
    /\ n.sub # <<>> /\ n.sub[e.side] = child /\ n.sub[3 - e.side] = other
    /\ n.swapped = e.n.swapped /\ n.hash = e.n.hash /\ n.dirty
    /\ n.size = other.size + child.size + 1
    /\ n.height = Larger(other.height, child.height) + 1

\* An inner node that gets another child on one side.
LEMMA AttachIsTree ==
    ASSUME NEW e, NEW child, NEW z, Attaches(e, z), IsTree(child, z)
    PROVE  IsTree(Attach(e, child), z) /\ Refits(Attach(e, child), e, child)
<1> DEFINE n == Attach(e, child)
           other == e.n.sub[3 - e.side]
           pair == IF e.side = 1 THEN <<child, other>> ELSE <<other, child>>
<1>0. e.side \in {1, 2} /\ IsTree(e.n, z) /\ e.n.sub # <<>> /\ IsTree(other, z)
  BY DEF Attaches
<1>1. NodeOK(e.n, z) /\ NodeOK(child, z)
  BY <1>0, TreeParts
<1>2. NodeOK(other, z)
  BY <1>0, TreeParts
<1>3. /\ other.size \in Nat \ {0} /\ other.height \in Nat \ {0} /\ other.size <= PowerOfTwo[other.height] - 1
      /\ child.size \in Nat \ {0} /\ child.height \in Nat \ {0} /\ child.size <= PowerOfTwo[child.height] - 1
  BY <1>1, <1>2 DEF NodeOK
<1>4. Larger(other.height, child.height) = Larger(child.height, other.height)
      /\ Larger(other.height, child.height) \in Nat
  BY <1>3 DEF Larger
<1>5. e.n.sub = <<e.n.sub[1], e.n.sub[2]>>
      /\ e.n = [hash |-> e.n.hash, sub |-> e.n.sub, size |-> e.n.size, height |-> e.n.height,
                dirty |-> e.n.dirty, swapped |-> e.n.swapped]
      /\ e.n.swapped \in BOOLEAN /\ e.n.hash \in Hashes
  BY <1>0, <1>1 DEF NodeOK
<1>6. [e.n.sub EXCEPT ![e.side] = child] = pair
  BY <1>0, <1>5
<1>7. /\ pair[1].size + pair[2].size + 1 = other.size + child.size + 1
      /\ Larger(pair[1].height, pair[2].height) = Larger(other.height, child.height)
      /\ pair = <<pair[1], pair[2]>> /\ pair # <<>>
      /\ pair[e.side] = child /\ pair[3 - e.side] = other
      /\ \/ pair[1] = child /\ pair[2] = other
         \/ pair[1] = other /\ pair[2] = child
  <2> HIDE DEF other
  <2>1. QED BY <1>0, <1>3, <1>4
<1>8. n = [hash |-> e.n.hash, sub |-> pair, size |-> other.size + child.size + 1,
           height |-> Larger(other.height, child.height) + 1,
           dirty |-> TRUE, swapped |-> e.n.swapped]
  <2> HIDE DEF pair, other
  <2>1. [e.n EXCEPT !.sub[e.side] = child, !.dirty = TRUE] =
        [hash |-> e.n.hash, sub |-> pair, size |-> e.n.size, height |-> e.n.height,
         dirty |-> TRUE, swapped |-> e.n.swapped]
    <3>1. [e.n EXCEPT !.sub[e.side] = child] = [e.n EXCEPT !.sub = pair]
      BY <1>6, Zenon
    <3>2. [e.n EXCEPT !.sub = pair] =
          [hash |-> e.n.hash, sub |-> pair, size |-> e.n.size, height |-> e.n.height,
           dirty |-> e.n.dirty, swapped |-> e.n.swapped]
      BY <1>5
    <3>3. [[e.n EXCEPT !.sub[e.side] = child] EXCEPT !.dirty = TRUE] =
          [hash |-> e.n.hash, sub |-> pair, size |-> e.n.size, height |-> e.n.height,
           dirty |-> TRUE, swapped |-> e.n.swapped]
      <4> DEFINE q == [e.n EXCEPT !.sub[e.side] = child]
                 v == TRUE
      <4>1. q = [hash |-> e.n.hash, sub |-> pair, size |-> e.n.size, height |-> e.n.height,
                 dirty |-> e.n.dirty, swapped |-> e.n.swapped]
        BY <3>1, <3>2, Zenon
      <4> HIDE DEF q, v
      <4>2. [q EXCEPT !.dirty = v] =
            [hash |-> e.n.hash, sub |-> pair, size |-> e.n.size, height |-> e.n.height,
             dirty |-> v, swapped |-> e.n.swapped]
        BY <4>1, DirtyNode
      <4>3. QED BY <4>2, Zenon DEF q, v
    <3>5. [e.n EXCEPT !.sub[e.side] = child, !.dirty = TRUE] =
          [[e.n EXCEPT !.sub[e.side] = child] EXCEPT !.dirty = TRUE]
      OBVIOUS
    <3>6. QED BY <3>3, <3>5, Zenon
  <2>2. n = UpdateSizes([hash |-> e.n.hash, sub |-> pair, size |-> e.n.size, height |-> e.n.height,
                         dirty |-> TRUE, swapped |-> e.n.swapped])
    BY <2>1 DEF Attach
  <2>3. QED BY <1>7, <2>2 DEF UpdateSizes
<1>9. /\ n.sub = pair /\ n.hash = e.n.hash /\ n.dirty /\ n.swapped = e.n.swapped
      /\ n.size = other.size + child.size + 1 /\ n.height = Larger(other.height, child.height) + 1
      /\ n = [hash |-> n.hash, sub |-> n.sub, size |-> n.size, height |-> n.height,
              dirty |-> n.dirty, swapped |-> n.swapped]
      /\ n.dirty \in BOOLEAN
  BY <1>8
<1>10. other.size + child.size + 1 <= PowerOfTwo[Larger(other.height, child.height) + 1] - 1
  BY <1>3, SizeBound
<1>11. NodeOK(n, z)
  <2> HIDE DEF pair, n, other
  <2>1. QED BY <1>3, <1>4, <1>5, <1>7, <1>9, <1>10 DEF NodeOK
<1>12. IsTree(n.sub[1], z) /\ IsTree(n.sub[2], z)
  <2> HIDE DEF pair, n, other
  <2>1. QED BY <1>0, <1>7, <1>9
<1>13. IsTree(n, z)
  BY <1>11, <1>12, TreeWhole
<1>14. Refits(n, e, child)
  BY <1>7, <1>9 DEF Refits
<1>15. QED BY <1>13, <1>14

\* What a node is after hashing, of the node and its children before.
Settles(m, n, l, r) ==
    /\ ~m.dirty
    /\ m.size = n.size /\ m.height = n.height
    /\ m.sub = (IF r.hash < l.hash THEN <<r, l>> ELSE <<l, r>>)
    /\ m.sub # <<>>
    /\ m.swapped = (n.swapped \/ r.hash < l.hash)

\* What hashing a node makes of it once its children are hashed.
LEMMA RehashedIsTree ==
    ASSUME NEW n, NEW l, NEW r, salt \in Int, NodeOK(n, salt), n.sub # <<>>,
           IsTree(l, salt), IsTree(r, salt), ~l.dirty, ~r.dirty,
           l.size = n.sub[1].size, l.height = n.sub[1].height,
           r.size = n.sub[2].size, r.height = n.sub[2].height
    PROVE  IsTree(Rehashed(n, l, r), salt) /\ Settles(Rehashed(n, l, r), n, l, r)
<1> DEFINE m == Rehashed(n, l, r)
           pair == IF r.hash < l.hash THEN <<r, l>> ELSE <<l, r>>
           mixed == Mixed(salt, pair[1].hash, pair[2].hash)
<1>1. NodeOK(l, salt) /\ NodeOK(r, salt)
  BY TreeParts
<1>2. /\ l.hash \in Hashes /\ l.size \in Nat \ {0} /\ l.height \in Nat \ {0} /\ l.dirty \in BOOLEAN
      /\ r.hash \in Hashes /\ r.size \in Nat \ {0} /\ r.height \in Nat \ {0} /\ r.dirty \in BOOLEAN
  BY <1>1 DEF NodeOK
<1>3. /\ n.sub = <<n.sub[1], n.sub[2]>>
      /\ n = [hash |-> n.hash, sub |-> n.sub, size |-> n.size, height |-> n.height,
              dirty |-> n.dirty, swapped |-> n.swapped]
      /\ n.size \in Nat \ {0} /\ n.height \in Nat \ {0} /\ n.swapped \in BOOLEAN
      /\ n.size <= PowerOfTwo[n.height] - 1
      /\ n.size = l.size + r.size + 1 /\ n.height = Larger(l.height, r.height) + 1
  BY DEF NodeOK
<1>4. Larger(l.height, r.height) = Larger(r.height, l.height)
  BY <1>2 DEF Larger
<1>5. /\ pair = <<pair[1], pair[2]>> /\ pair # <<>>
      /\ \/ pair[1] = l /\ pair[2] = r /\ ~(r.hash < l.hash)
         \/ pair[1] = r /\ pair[2] = l /\ r.hash < l.hash
      /\ pair[1].hash <= pair[2].hash
      /\ pair[1].hash \in Int /\ pair[2].hash \in Int
      /\ n.size = pair[1].size + pair[2].size + 1
      /\ n.height = Larger(pair[1].height, pair[2].height) + 1
  <2>1. l.hash \in Int /\ r.hash \in Int
    BY <1>2 DEF Hashes
  <2>2. CASE r.hash < l.hash
    BY <1>2, <1>3, <1>4, <2>1, <2>2
  <2>3. CASE ~(r.hash < l.hash)
    BY <1>2, <1>3, <1>4, <2>1, <2>3
  <2>4. QED BY <2>2, <2>3
<1>6. mixed \in Hashes
  <2> HIDE DEF pair
  <2>1. mixed \in 1 .. HashModulus - 1
    BY <1>5, MixedIsHash
  <2>2. HashModulus \in Nat
    BY DEF HashModulus
  <2>3. QED BY <2>1, <2>2 DEF Hashes
<1>7. m = [hash |-> mixed, sub |-> pair, size |-> n.size, height |-> n.height,
           dirty |-> FALSE, swapped |-> n.swapped \/ r.hash < l.hash]
  <2> DEFINE q == [n EXCEPT !.sub = <<l, r>>]
  <2>1. q = [hash |-> n.hash, sub |-> <<l, r>>, size |-> n.size, height |-> n.height,
             dirty |-> n.dirty, swapped |-> n.swapped]
    BY <1>3
  <2>2. sort_subnodes(q) = [hash |-> n.hash, sub |-> pair, size |-> n.size, height |-> n.height,
                            dirty |-> n.dirty, swapped |-> n.swapped \/ r.hash < l.hash]
    <3>1. q.sub[1] = l /\ q.sub[2] = r
      BY <2>1
    <3> HIDE DEF q
    <3>2. CASE r.hash < l.hash
      <4>1. sort_subnodes(q) = [q EXCEPT !.sub = <<r, l>>, !.swapped = TRUE]
        BY <3>1, <3>2 DEF sort_subnodes
      <4>2. QED BY <1>3, <2>1, <3>2, <4>1
    <3>3. CASE ~(r.hash < l.hash)
      <4>1. sort_subnodes(q) = q
        BY <3>1, <3>3 DEF sort_subnodes
      <4>2. (n.swapped \/ r.hash < l.hash) = n.swapped
        BY <1>3, <3>3
      <4>3. QED BY <2>1, <3>3, <4>1, <4>2
    <3>4. QED BY <3>2, <3>3
  <2>3. Compress(pair[1].hash, pair[2].hash) = mixed
    BY DEF Compress, Mixed
  <2> HIDE DEF pair, mixed, q
  <2>4. Rehashed(n, l, r) = [sort_subnodes(q) EXCEPT !.hash = Compress(sort_subnodes(q).sub[1].hash, sort_subnodes(q).sub[2].hash), !.dirty = FALSE]
    BY DEF Rehashed, q
  <2> DEFINE q2 == sort_subnodes(q)
  <2>5. q2.sub = pair /\ Compress(q2.sub[1].hash, q2.sub[2].hash) = mixed
    BY <2>2, <2>3
  <2>6. m = [q2 EXCEPT !.hash = mixed, !.dirty = FALSE]
    BY <2>4, <2>5
  <2> HIDE DEF q2, m
  <2>7. q2 = [hash |-> n.hash, sub |-> pair, size |-> n.size, height |-> n.height,
              dirty |-> n.dirty, swapped |-> n.swapped \/ r.hash < l.hash]
    BY <2>2 DEF q2
  <2>8. QED BY <2>6, <2>7
<1>8. /\ m.sub = pair /\ m.hash = mixed /\ m.dirty = FALSE /\ m.size = n.size /\ m.height = n.height
      /\ m.swapped = (n.swapped \/ r.hash < l.hash)
      /\ m = [hash |-> m.hash, sub |-> m.sub, size |-> m.size, height |-> m.height,
              dirty |-> m.dirty, swapped |-> m.swapped]
  BY <1>7
<1>9. Settled(m, salt)
  <2> HIDE DEF pair, m
  <2>1. QED BY <1>5, <1>8 DEF Settled
<1>10. NodeOK(m, salt)
  <2>1. m.swapped \in BOOLEAN
    BY <1>2, <1>3, <1>8 DEF Hashes
  <2> HIDE DEF pair, m, mixed
  <2>2. QED BY <1>2, <1>3, <1>5, <1>6, <1>8, <1>9, <2>1 DEF NodeOK
<1>11. IsTree(m.sub[1], salt) /\ IsTree(m.sub[2], salt)
  <2> HIDE DEF pair, m
  <2>1. QED BY <1>5, <1>8
<1>12. IsTree(m, salt)
  BY <1>10, <1>11, TreeWhole
<1>13. Settles(m, n, l, r)
  BY <1>5, <1>8 DEF Settles
<1>14. QED BY <1>12, <1>13

-----------------------------------------------------------------------------
\* Hashing.

\* What holds of every node that is a tree once it holds of its children.
LEMMA NodeInduction ==
    ASSUME NEW n, NEW z, IsTree(n, z), NEW S,
           \A m : IsTree(m, z) /\ (m.sub # <<>> => m.sub[1] \in S /\ m.sub[2] \in S) /\ m \in NodesOf(n) => m \in S
    PROVE  n \in S
<1>1. n.height \in Nat \ {0} /\ Sound(n, z)
  BY DEF IsTree
<1>2. \A m \in NodesOf(n) : IsTree(m, z)
  BY <1>1, SoundBelow DEF IsTree
<1>3. NodesOf(n) \subseteq S
  BY <1>1, <1>2, TreeInduction
<1>4. QED BY <1>1, <1>3, NodesHaveRoot

\* A node's children are nodes of every tree that has the node.
LEMMA NodesHaveChildren ==
    ASSUME NEW n, NEW z, IsTree(n, z), NEW m \in NodesOf(n), m.sub # <<>>
    PROVE  m.sub[1] \in NodesOf(n) /\ m.sub[2] \in NodesOf(n)
  BY SoundBelow DEF IsTree

\* hash makes a clean tree of any tree, with the same sizes.
LEMMA HashIsTree ==
    ASSUME NEW n, salt \in Int, IsTree(n, salt)
    PROVE  /\ IsTree(hash(n), salt) /\ ~hash(n).dirty
           /\ hash(n).size = n.size /\ hash(n).height = n.height
<1> DEFINE S == {m \in NodesOf(n) : /\ IsTree(hash(m), salt) /\ ~hash(m).dirty
                                    /\ hash(m).size = m.size /\ hash(m).height = m.height}
<1>1. ASSUME NEW m, IsTree(m, salt), m \in NodesOf(n),
             m.sub # <<>> => m.sub[1] \in S /\ m.sub[2] \in S
      PROVE  m \in S
  <2>1. m.height \in Nat \ {0} /\ Sound(m, salt) /\ NodeOK(m, salt)
    BY <1>1, TreeParts DEF IsTree
  <2>2. CASE ~m.dirty
    <3>1. hash(m) = m
      BY <2>1, <2>2, HashLaw
    <3>2. IsTree(hash(m), salt) /\ ~hash(m).dirty /\ hash(m).size = m.size /\ hash(m).height = m.height
      BY <1>1, <2>2, <3>1
    <3>3. QED BY <1>1, <3>2
  <2>3. CASE m.dirty
    <3>1. m.sub # <<>>
      BY <2>1, <2>3 DEF NodeOK, MakeLeaf
    <3>2. hash(m) = Rehashed(m, hash(m.sub[1]), hash(m.sub[2]))
      BY <2>1, <2>3, HashLaw
    <3> DEFINE l == hash(m.sub[1])
               r == hash(m.sub[2])
               u == Rehashed(m, l, r)
    <3>3. /\ IsTree(l, salt) /\ IsTree(r, salt) /\ ~l.dirty /\ ~r.dirty
          /\ l.size = m.sub[1].size /\ l.height = m.sub[1].height
          /\ r.size = m.sub[2].size /\ r.height = m.sub[2].height
      BY <1>1, <3>1
    <3>4. hash(m) = u
      BY <3>2
    <3> HIDE DEF l, r
    <3>5. IsTree(u, salt) /\ Settles(u, m, l, r)
      BY <2>1, <3>1, <3>3, RehashedIsTree
    <3> HIDE DEF u
    <3>6. QED BY <1>1, <3>4, <3>5 DEF Settles
  <2>4. QED BY <2>2, <2>3
<1> HIDE DEF S
<1>2. n \in S
  BY <1>1, NodeInduction
<1>3. QED BY <1>2 DEF S

-----------------------------------------------------------------------------
\* The way up a stack.

\* The elements of a stack: inner nodes, each with the side to go on at.
StackOK(stack, z) ==
    /\ \E E : stack \in Seq(E)
    /\ Len(stack) \in Nat /\ DOMAIN stack = 1 .. Len(stack)
    /\ \A i \in 1 .. Len(stack) :
          stack[i].side \in {1, 2} /\ IsTree(stack[i].n, z) /\ stack[i].n.sub # <<>>

\* A step of the way up.
LEMMA WayUpStep ==
    ASSUME NEW stack, NEW z, StackOK(stack, z), NEW d \in 1 .. Len(stack)
    PROVE  \E e : /\ Attaches(e, z) /\ e = stack[Len(stack) + 1 - d]
                  /\ \A x : WayUp(stack, x)[d] = Attach(e, WayUp(stack, x)[d - 1])
<1> DEFINE e == stack[Len(stack) + 1 - d]
<1>1. Len(stack) + 1 - d \in 1 .. Len(stack) /\ Len(stack) \in Nat
  BY DEF StackOK
<1>2. e.side \in {1, 2} /\ IsTree(e.n, z) /\ e.n.sub # <<>>
  BY <1>1 DEF StackOK
<1>3. \A x : WayUp(stack, x)[d] = Attach(e, WayUp(stack, x)[d - 1])
  BY <1>1, WayUpUnfolds
<1>4. IsTree(e.n.sub[3 - e.side], z)
  <2>1. 3 - e.side = 1 \/ 3 - e.side = 2
    BY <1>2
  <2> HIDE DEF e
  <2>2. IsTree(e.n.sub[1], z) /\ IsTree(e.n.sub[2], z)
    BY <1>2, TreeParts
  <2>3. QED BY <2>1, <2>2
<1>5. Attaches(e, z) /\ e = stack[Len(stack) + 1 - d]
  BY <1>2, <1>4 DEF Attaches
<1> HIDE DEF e
<1>6. QED BY <1>3, <1>5

\* What it makes of a tree.
LEMMA AttachedTree ==
    ASSUME NEW e, NEW z, Attaches(e, z), NEW c, IsTree(c, z)
    PROVE  /\ IsTree(Attach(e, c), z) /\ Attach(e, c).dirty /\ Attach(e, c).sub # <<>>
           /\ Attach(e, c).size = e.n.sub[3 - e.side].size + c.size + 1
           /\ e.n.sub[3 - e.side].size \in Nat \ {0} /\ c.size \in Nat \ {0}
<1>1. IsTree(e.n.sub[3 - e.side], z)
  BY DEF Attaches
<1>2. e.n.sub[3 - e.side].size \in Nat \ {0} /\ c.size \in Nat \ {0}
  BY <1>1, TreeParts DEF NodeOK
<1>3. IsTree(Attach(e, c), z) /\ Refits(Attach(e, c), e, c)
  BY AttachIsTree
<1>4. QED BY <1>2, <1>3 DEF Refits

\* On the way up there are trees, dirty ones above the first.
LEMMA WayUpTrees ==
    ASSUME NEW stack, NEW z, StackOK(stack, z), NEW x, IsTree(x, z)
    PROVE  /\ WayUp(stack, x)[0] = x
           /\ \A d \in 0 .. Len(stack) : IsTree(WayUp(stack, x)[d], z)
           /\ \A d \in 1 .. Len(stack) : WayUp(stack, x)[d].dirty /\ WayUp(stack, x)[d].sub # <<>>
<1>1. Len(stack) \in Nat
  BY DEF StackOK
<1>2. WayUp(stack, x)[0] = x
  BY <1>1, WayUpUnfolds
<1>3. ASSUME NEW d \in 1 .. Len(stack), IsTree(WayUp(stack, x)[d - 1], z)
      PROVE  /\ IsTree(WayUp(stack, x)[d], z)
             /\ WayUp(stack, x)[d].dirty /\ WayUp(stack, x)[d].sub # <<>>
  <2>1. PICK e : /\ Attaches(e, z)
                 /\ WayUp(stack, x)[d] = Attach(e, WayUp(stack, x)[d - 1])
    BY WayUpStep
  <2>2. QED BY <1>3, <2>1, AttachedTree
<1> DEFINE S == {d \in Nat : d <= Len(stack) => IsTree(WayUp(stack, x)[d], z)}
<1>4. 0 \in S
  BY <1>2
<1>5. ASSUME NEW d \in Nat, d \in S
      PROVE  d + 1 \in S
  <2>1. CASE d + 1 <= Len(stack)
    <3>1. d + 1 \in 1 .. Len(stack) /\ (d + 1) - 1 = d /\ d <= Len(stack)
      BY <1>1, <2>1
    <3>2. IsTree(WayUp(stack, x)[(d + 1) - 1], z)
      BY <1>5, <3>1
    <3>3. IsTree(WayUp(stack, x)[d + 1], z)
      BY <1>3, <3>1, <3>2
    <3>4. QED BY <3>3
  <2>2. CASE ~(d + 1 <= Len(stack))
    BY <2>2
  <2>3. QED BY <2>1, <2>2
<1> HIDE DEF S
<1>6. \A d \in Nat : d \in S
  BY <1>4, <1>5, Induction
<1>7. \A d \in 0 .. Len(stack) : IsTree(WayUp(stack, x)[d], z)
  BY <1>1, <1>6 DEF S
<1>8. \A d \in 1 .. Len(stack) : d - 1 \in 0 .. Len(stack)
  BY <1>1
<1>9. QED BY <1>2, <1>3, <1>7, <1>8

\* The sizes of two ways up the same stack differ by as much as what is below.
LEMMA WayUpSizes ==
    ASSUME NEW stack, NEW z, StackOK(stack, z), NEW x, NEW y, IsTree(x, z), IsTree(y, z)
    PROVE  \A d \in 0 .. Len(stack) :
              WayUp(stack, x)[d].size - WayUp(stack, y)[d].size = x.size - y.size
<1>1. Len(stack) \in Nat
  BY DEF StackOK
<1> DEFINE S == {d \in Nat : d <= Len(stack) =>
                    WayUp(stack, x)[d].size - WayUp(stack, y)[d].size = x.size - y.size}
<1>2. 0 \in S
  BY <1>1, WayUpUnfolds
<1>3. ASSUME NEW d \in Nat, d \in S
      PROVE  d + 1 \in S
  <2>1. CASE d + 1 <= Len(stack)
    <3> DEFINE a == WayUp(stack, x)[d]
               b == WayUp(stack, y)[d]
    <3>1. d + 1 \in 1 .. Len(stack) /\ (d + 1) - 1 = d /\ d \in 0 .. Len(stack) /\ d <= Len(stack)
      BY <1>1, <2>1
    <3>2. IsTree(a, z) /\ IsTree(b, z)
      BY <3>1, WayUpTrees
    <3>3. PICK e : /\ Attaches(e, z)
                   /\ WayUp(stack, x)[d + 1] = Attach(e, a)
                   /\ WayUp(stack, y)[d + 1] = Attach(e, b)
      BY <3>1, WayUpStep
    <3>4. a.size - b.size = x.size - y.size
      BY <1>3, <3>1
    <3> HIDE DEF a, b
    <3>5. /\ Attach(e, a).size = e.n.sub[3 - e.side].size + a.size + 1
          /\ Attach(e, b).size = e.n.sub[3 - e.side].size + b.size + 1
          /\ e.n.sub[3 - e.side].size \in Nat /\ a.size \in Nat /\ b.size \in Nat
      BY <3>2, <3>3, AttachedTree
    <3>7. WayUp(stack, x)[d + 1].size - WayUp(stack, y)[d + 1].size = x.size - y.size
      BY <3>3, <3>4, <3>5
    <3>8. QED BY <3>7
  <2>2. CASE ~(d + 1 <= Len(stack))
    BY <2>2
  <2>3. QED BY <2>1, <2>2
<1> HIDE DEF S
<1>4. \A d \in Nat : d \in S
  BY <1>2, <1>3, Induction
<1>5. QED BY <1>1, <1>4 DEF S

\* The trees grow on the way up.
LEMMA WayUpGrows ==
    ASSUME NEW stack, NEW z, StackOK(stack, z), NEW x, IsTree(x, z)
    PROVE  \A d \in 1 .. Len(stack) : x.size < WayUp(stack, x)[d].size
<1>1. Len(stack) \in Nat
  BY DEF StackOK
<1> DEFINE S == {d \in Nat : d <= Len(stack) => x.size + d <= WayUp(stack, x)[d].size}
<1>0. x.size \in Nat
  BY TreeParts DEF NodeOK
<1>2. 0 \in S
  BY <1>0, <1>1, WayUpUnfolds
<1>3. ASSUME NEW d \in Nat, d \in S
      PROVE  d + 1 \in S
  <2>1. CASE d + 1 <= Len(stack)
    <3> DEFINE a == WayUp(stack, x)[d]
    <3>1. d + 1 \in 1 .. Len(stack) /\ (d + 1) - 1 = d /\ d \in 0 .. Len(stack) /\ d <= Len(stack)
      BY <1>1, <2>1
    <3>2. IsTree(a, z)
      BY <3>1, WayUpTrees
    <3>3. PICK e : Attaches(e, z) /\ WayUp(stack, x)[d + 1] = Attach(e, a)
      BY <3>1, WayUpStep
    <3>4. x.size + d <= a.size
      BY <1>3, <3>1
    <3> HIDE DEF a
    <3>5. /\ Attach(e, a).size = e.n.sub[3 - e.side].size + a.size + 1
          /\ e.n.sub[3 - e.side].size \in Nat /\ a.size \in Nat
      BY <3>2, <3>3, AttachedTree
    <3>7. x.size + (d + 1) <= WayUp(stack, x)[d + 1].size
      BY <1>0, <3>3, <3>4, <3>5
    <3>8. QED BY <3>7
  <2>2. CASE ~(d + 1 <= Len(stack))
    BY <2>2
  <2>3. QED BY <2>1, <2>2
<1> HIDE DEF S
<1>4. \A d \in Nat : d \in S
  BY <1>2, <1>3, Induction
<1>5. \A d \in 1 .. Len(stack) : x.size + d <= WayUp(stack, x)[d].size /\ d \in Nat
  BY <1>1, <1>4 DEF S
<1>6. ASSUME NEW d \in 1 .. Len(stack)
      PROVE  WayUp(stack, x)[d].size \in Nat
  <2>1. IsTree(WayUp(stack, x)[d], z)
    BY <1>1, WayUpTrees
  <2>2. QED BY <2>1, TreeParts DEF NodeOK
<1>7. QED BY <1>0, <1>5, <1>6

\* Each step of the way up.
LEMMA WayUpSteps ==
    ASSUME NEW stack, NEW x, Len(stack) \in Nat
    PROVE  \A k \in 1 .. Len(stack) :
              WayUp(stack, x)[k] = Attach(stack[Len(stack) + 1 - k], WayUp(stack, x)[k - 1])
  BY WayUpUnfolds

\* The first elements of a stack, and the last: all but `e'.
Tops(first, stack, e) ==
    /\ Len(stack) \in Nat /\ Len(first) \in Nat /\ e \in Nat /\ Len(stack) = Len(first) + e
    /\ \A i \in 1 .. Len(first) : first[i] = stack[i]
Ends(last, stack, e) ==
    /\ Len(stack) \in Nat /\ Len(last) \in Nat /\ e \in Nat /\ Len(stack) = e + Len(last)
    /\ \A i \in 1 .. Len(last) : last[i] = stack[e + i]

\* The way up a stack goes on from where the way up a longer one has come to.
LEMMA WayUpAbove ==
    ASSUME NEW stack, NEW first, NEW e, Tops(first, stack, e), NEW x
    PROVE  \A d \in 0 .. Len(first) :
              WayUp(first, WayUp(stack, x)[e])[d] = WayUp(stack, x)[e + d]
<1>0. /\ Len(stack) \in Nat /\ Len(first) \in Nat /\ e \in Nat /\ Len(stack) = Len(first) + e
      /\ \A i \in 1 .. Len(first) : first[i] = stack[i]
  BY DEF Tops
<1>00. Len(stack) \in Nat
  BY <1>0
<1> DEFINE y == WayUp(stack, x)[e]
           S == {d \in Nat : d <= Len(first) => WayUp(first, y)[d] = WayUp(stack, x)[e + d]}
<1>1. 0 \in S
  <2>1. e + 0 = e
    BY <1>0
  <2>2. WayUp(first, y)[0] = y
    BY <1>0, WayUpUnfolds
  <2>3. QED BY <2>1, <2>2
<1>2. ASSUME NEW d \in Nat, d \in S
      PROVE  d + 1 \in S
  <2>1. CASE d + 1 <= Len(first)
    <3>1. /\ d + 1 \in 1 .. Len(first) /\ (d + 1) - 1 = d
          /\ e + (d + 1) \in 1 .. Len(stack) /\ (e + (d + 1)) - 1 = e + d
          /\ Len(stack) + 1 - (e + (d + 1)) = Len(first) + 1 - (d + 1)
          /\ Len(first) + 1 - (d + 1) \in 1 .. Len(first)
      <4> DEFINE k == Len(stack)
                 l == Len(first)
      <4>1. k \in Nat /\ l \in Nat /\ k = l + e /\ e \in Nat /\ d + 1 <= l
        BY <1>0, <2>1
      <4> HIDE DEF k, l
      <4>2. /\ d + 1 \in 1 .. l /\ (d + 1) - 1 = d
            /\ e + (d + 1) \in 1 .. k /\ (e + (d + 1)) - 1 = e + d
            /\ k + 1 - (e + (d + 1)) = l + 1 - (d + 1)
            /\ l + 1 - (d + 1) \in 1 .. l
        BY <4>1
      <4>3. QED BY <4>2 DEF k, l
    <3>2. WayUp(first, y)[d + 1] = Attach(first[Len(first) + 1 - (d + 1)], WayUp(first, y)[d])
      <4> HIDE DEF y, S
      <4>1. QED BY <1>0, <3>1, WayUpUnfolds
    <3>3. WayUp(stack, x)[e + (d + 1)] = Attach(stack[Len(first) + 1 - (d + 1)], WayUp(stack, x)[e + d])
      <4> HIDE DEF y, S
      <4>1. WayUp(stack, x)[e + (d + 1)] =
                Attach(stack[Len(stack) + 1 - (e + (d + 1))], WayUp(stack, x)[(e + (d + 1)) - 1])
        <5>1. \A k \in 1 .. Len(stack) :
                 WayUp(stack, x)[k] = Attach(stack[Len(stack) + 1 - k], WayUp(stack, x)[k - 1])
          BY <1>00, WayUpSteps
        <5>2. QED BY <3>1, <5>1, Zenon
      <4>2. QED BY <3>1, <4>1
    <3>4. WayUp(first, y)[d] = WayUp(stack, x)[e + d]
      BY <1>2, <2>1
    <3> HIDE DEF y
    <3>5. first[Len(first) + 1 - (d + 1)] = stack[Len(first) + 1 - (d + 1)]
      BY <1>0, <3>1
    <3>6. WayUp(first, y)[d + 1] = WayUp(stack, x)[e + (d + 1)]
      BY <3>2, <3>3, <3>4, <3>5
    <3>7. QED BY <3>6
  <2>2. CASE ~(d + 1 <= Len(first))
    BY <2>2
  <2>3. QED BY <2>1, <2>2
<1> HIDE DEF S
<1>3. \A d \in Nat : d \in S
  BY <1>1, <1>2, Induction
<1>4. QED BY <1>0, <1>3 DEF S

\* The way up a longer stack begins with the way up its last elements.
LEMMA WayUpBelow ==
    ASSUME NEW stack, NEW last, NEW e, Ends(last, stack, e), NEW x
    PROVE  \A d \in 0 .. Len(last) : WayUp(last, x)[d] = WayUp(stack, x)[d]
<1>0. /\ Len(stack) \in Nat /\ Len(last) \in Nat /\ e \in Nat /\ Len(stack) = e + Len(last)
      /\ \A i \in 1 .. Len(last) : last[i] = stack[e + i]
  BY DEF Ends
<1>00. Len(stack) \in Nat
  BY <1>0
<1> DEFINE S == {d \in Nat : d <= Len(last) => WayUp(last, x)[d] = WayUp(stack, x)[d]}
<1>1. 0 \in S
  BY <1>0, WayUpUnfolds
<1>2. ASSUME NEW d \in Nat, d \in S
      PROVE  d + 1 \in S
  <2>1. CASE d + 1 <= Len(last)
    <3>1. /\ d + 1 \in 1 .. Len(last) /\ (d + 1) - 1 = d
          /\ d + 1 \in 1 .. Len(stack)
          /\ Len(stack) + 1 - (d + 1) = e + (Len(last) + 1 - (d + 1))
          /\ Len(last) + 1 - (d + 1) \in 1 .. Len(last)
      BY <1>0, <2>1
    <3>2. WayUp(last, x)[d + 1] = Attach(last[Len(last) + 1 - (d + 1)], WayUp(last, x)[d])
      <4> HIDE DEF S
      <4>1. QED BY <1>0, <3>1, WayUpUnfolds
    <3>3. WayUp(stack, x)[d + 1] = Attach(stack[e + (Len(last) + 1 - (d + 1))], WayUp(stack, x)[d])
      <4> HIDE DEF S
      <4>1. WayUp(stack, x)[d + 1] = Attach(stack[Len(stack) + 1 - (d + 1)], WayUp(stack, x)[(d + 1) - 1])
        <5>1. \A k \in 1 .. Len(stack) :
                 WayUp(stack, x)[k] = Attach(stack[Len(stack) + 1 - k], WayUp(stack, x)[k - 1])
          BY <1>00, WayUpSteps
        <5>2. QED BY <3>1, <5>1, Zenon
      <4>2. QED BY <3>1, <4>1
    <3>4. WayUp(last, x)[d] = WayUp(stack, x)[d]
      BY <1>2, <2>1
    <3>5. last[Len(last) + 1 - (d + 1)] = stack[e + (Len(last) + 1 - (d + 1))]
      BY <1>0, <3>1
    <3>6. WayUp(last, x)[d + 1] = WayUp(stack, x)[d + 1]
      BY <3>2, <3>3, <3>4, <3>5
    <3>7. QED BY <3>6
  <2>2. CASE ~(d + 1 <= Len(last))
    BY <2>2
  <2>3. QED BY <2>1, <2>2
<1> HIDE DEF S
<1>3. \A d \in Nat : d \in S
  BY <1>1, <1>2, Induction
<1>4. QED BY <1>0, <1>3 DEF S

\* To the top.
LEMMA WayUpTop ==
    ASSUME NEW stack, NEW first, NEW e, Tops(first, stack, e), NEW x
    PROVE  WayUp(first, WayUp(stack, x)[e])[Len(first)] = WayUp(stack, x)[Len(stack)]
<1>0. /\ Len(stack) \in Nat /\ Len(first) \in Nat /\ e \in Nat /\ Len(stack) = Len(first) + e
      /\ \A i \in 1 .. Len(first) : first[i] = stack[i]
  BY DEF Tops
<1>00. Len(stack) \in Nat
  BY <1>0
<1> DEFINE top == Len(first)
           all == Len(stack)
<1>1. top \in 0 .. Len(first) /\ e + top = all
  BY <1>0
<1>2. \A d \in 0 .. Len(first) : WayUp(first, WayUp(stack, x)[e])[d] = WayUp(stack, x)[e + d]
  BY WayUpAbove
<1> HIDE DEF top, all
<1>3. WayUp(first, WayUp(stack, x)[e])[top] = WayUp(stack, x)[e + top]
  BY <1>1, <1>2
<1>4. QED BY <1>1, <1>3 DEF top, all

\* The first elements of a stack, and a stack on a stack.
LEMMA StackParts ==
    ASSUME NEW stack, NEW z, StackOK(stack, z), NEW e \in 0 .. Len(stack)
    PROVE  LET first == SubSeq(stack, 1, Len(stack) - e) IN
           /\ StackOK(first, z) /\ Len(first) = Len(stack) - e
           /\ \A i \in 1 .. Len(first) : first[i] = stack[i]
<1> DEFINE first == SubSeq(stack, 1, Len(stack) - e)
<1>1. PICK E : stack \in Seq(E)
  BY DEF StackOK
<1>2. Len(stack) - e \in 0 .. Len(stack) /\ Len(stack) \in Nat
  BY DEF StackOK
<1>3. /\ first \in Seq(E) /\ Len(first) = Len(stack) - e
      /\ \A i \in 1 .. Len(first) : first[i] = stack[i]
  BY <1>1, <1>2
<1> HIDE DEF first
<1>4. Len(first) \in Nat /\ DOMAIN first = 1 .. Len(first)
  BY <1>3
<1>5. \A i \in 1 .. Len(first) : i \in 1 .. Len(stack)
  BY <1>2, <1>3
<1>6. StackOK(first, z)
  BY <1>3, <1>4, <1>5 DEF StackOK
<1>7. QED BY <1>3, <1>6 DEF first

\* A stack on a stack is a stack, with the elements of both.
LEMMA StackOnStack ==
    ASSUME NEW stack, NEW z, StackOK(stack, z), NEW more, StackOK(more, z)
    PROVE  LET all == stack \o more IN
           /\ StackOK(all, z) /\ Len(all) = Len(stack) + Len(more)
           /\ \A i \in 1 .. Len(stack) : all[i] = stack[i]
           /\ \A i \in 1 .. Len(more) : all[Len(stack) + i] = more[i]
<1> DEFINE all == stack \o more
<1>1. PICK E : stack \in Seq(E)
  BY DEF StackOK
<1>2. PICK F : more \in Seq(F)
  BY DEF StackOK
<1>3. stack \in Seq(E \cup F) /\ more \in Seq(E \cup F)
  BY <1>1, <1>2
<1>4. /\ all \in Seq(E \cup F) /\ Len(all) = Len(stack) + Len(more)
      /\ \A i \in 1 .. Len(stack) : all[i] = stack[i]
      /\ \A i \in 1 .. Len(more) : all[Len(stack) + i] = more[i]
  BY <1>3
<1> HIDE DEF all
<1>5. Len(all) \in Nat /\ DOMAIN all = 1 .. Len(all)
  BY <1>4
<1>6. ASSUME NEW i \in 1 .. Len(all)
      PROVE  all[i].side \in {1, 2} /\ IsTree(all[i].n, z) /\ all[i].n.sub # <<>>
  <2>1. Len(stack) \in Nat /\ Len(more) \in Nat
    BY DEF StackOK
  <2>2. CASE i <= Len(stack)
    <3>1. i \in 1 .. Len(stack) /\ all[i] = stack[i]
      BY <1>4, <2>1, <2>2
    <3>2. QED BY <3>1 DEF StackOK
  <2>3. CASE ~(i <= Len(stack))
    <3>1. i - Len(stack) \in 1 .. Len(more) /\ Len(stack) + (i - Len(stack)) = i
      BY <1>4, <2>1, <2>3
    <3>2. all[i] = more[i - Len(stack)]
      BY <1>4, <3>1
    <3>3. QED BY <3>1, <3>2 DEF StackOK
  <2>4. QED BY <2>2, <2>3
<1>7. StackOK(all, z)
  BY <1>4, <1>5, <1>6 DEF StackOK
<1>8. QED BY <1>4, <1>7 DEF all

\* Where the way up ends.
LEMMA ProcessEnds ==
    ASSUME NEW stack, NEW z, StackOK(stack, z), NEW x, NEW complete \in BOOLEAN
    PROVE  \E end \in 0 .. Len(stack) :
              /\ process_insertion_stack(stack, x, complete) =
                     [stack |-> SubSeq(stack, 1, Len(stack) - end), root |-> WayUp(stack, x)[end]]
              /\ complete => end = Len(stack)
              /\ end = Len(stack) \/ ~is_full(WayUp(stack, x)[end])
<1> DEFINE up == WayUp(stack, x)
           ends == {d \in 1 .. Len(stack) : ~complete /\ ~is_full(up[d])} \cup {Len(stack)}
           end == CHOOSE d \in ends : \A e \in ends : d <= e
<1>1. Len(stack) \in Nat
  BY DEF StackOK
<1>2. process_insertion_stack(stack, x, complete) =
          [stack |-> SubSeq(stack, 1, Len(stack) - end), root |-> up[end]]
  BY Zenon DEF process_insertion_stack
<1> HIDE DEF up
<1>3. ends \subseteq 0 .. Len(stack) /\ Len(stack) \in ends
  BY <1>1
<1>4. /\ complete => ends = {Len(stack)}
      /\ \A d \in ends : d = Len(stack) \/ ~is_full(up[d])
  OBVIOUS
<1> HIDE DEF ends
<1>5. \E d \in ends : \A e \in ends : d <= e
  <2>1. ends \subseteq Nat
    BY <1>1, <1>3
  <2>2. QED BY <1>3, <2>1, Smallest
<1>6. end \in ends
  BY <1>5
<1> HIDE DEF end
<1>7. /\ end \in 0 .. Len(stack)
      /\ complete => end = Len(stack)
      /\ end = Len(stack) \/ ~is_full(up[end])
  BY <1>3, <1>4, <1>6
<1>8. QED BY <1>2, <1>7 DEF up

\* What completing a stack gives.
LEMMA CompletedIs ==
    ASSUME NEW at, NEW z, StackOK(at.stack, z)
    PROVE  Completed(at) = WayUp(at.stack, at.root)[Len(at.stack)]
<1>1. PICK end \in 0 .. Len(at.stack) :
          /\ process_insertion_stack(at.stack, at.root, TRUE) =
                 [stack |-> SubSeq(at.stack, 1, Len(at.stack) - end),
                  root |-> WayUp(at.stack, at.root)[end]]
          /\ TRUE => end = Len(at.stack)
  BY ProcessEnds
<1>2. end = Len(at.stack)
  BY <1>1
<1> DEFINE first == SubSeq(at.stack, 1, Len(at.stack) - end)
           top == WayUp(at.stack, at.root)[end]
           whole == process_insertion_stack(at.stack, at.root, TRUE)
<1>3. whole = [stack |-> first, root |-> top]
  BY <1>1
<1> HIDE DEF first, top, whole
<1>4. whole.root = top
  BY <1>3
<1>5. QED BY <1>2, <1>4, Zenon DEF Completed, top, whole

\* Trees without an exchange, node by node.
LEMMA StraightParts ==
    ASSUME NEW n, NEW z, IsTree(n, z)
    PROVE  /\ n.sub = <<>> => Straight(n)
           /\ n.sub # <<>> =>
                 (Straight(n) <=> ~n.swapped /\ Straight(n.sub[1]) /\ Straight(n.sub[2]))
<1>1. /\ n.height \in Nat \ {0} /\ Sound(n, z) /\ NodeOK(n, z)
  BY TreeParts DEF IsTree
<1>2. n.sub = <<>> => NodesOf(n) = {n}
  BY <1>1, SoundParts
<1>3. n.sub # <<>> => NodesOf(n) = {n} \cup NodesOf(n.sub[1]) \cup NodesOf(n.sub[2])
  BY <1>1, SoundParts
<1>4. n.sub = <<>> => ~n.swapped
  BY <1>1 DEF NodeOK, MakeLeaf
<1>5. n.sub = <<>> => Straight(n)
  BY <1>2, <1>4 DEF Straight
<1>6. ASSUME n.sub # <<>>
      PROVE  Straight(n) <=> ~n.swapped /\ Straight(n.sub[1]) /\ Straight(n.sub[2])
  <2>1. \A m : m \in NodesOf(n) <=> m = n \/ m \in NodesOf(n.sub[1]) \/ m \in NodesOf(n.sub[2])
    BY <1>3, <1>6
  <2>2. QED BY <2>1, Zenon DEF Straight
<1>7. QED BY <1>5, <1>6

\* Attaching exchanges nothing, and takes no exchange back.
LEMMA AttachStraight ==
    ASSUME NEW e, NEW z, Attaches(e, z), NEW c, IsTree(c, z)
    PROVE  Straight(Attach(e, c)) <=> ~e.n.swapped /\ Straight(e.n.sub[3 - e.side]) /\ Straight(c)
<1> DEFINE n == Attach(e, c)
           other == e.n.sub[3 - e.side]
<1>1. IsTree(n, z) /\ Refits(n, e, c) /\ e.side \in {1, 2}
  BY AttachIsTree DEF Attaches
<1> HIDE DEF n
<1>2. /\ n.sub # <<>> /\ n.swapped = e.n.swapped
      /\ n.sub[e.side] = c /\ n.sub[3 - e.side] = other
  BY <1>1 DEF Refits
<1>3. Straight(n) <=> ~n.swapped /\ Straight(n.sub[1]) /\ Straight(n.sub[2])
  BY <1>1, <1>2, StraightParts
<1>4. \/ e.side = 1 /\ 3 - e.side = 2
      \/ e.side = 2 /\ 3 - e.side = 1
  BY <1>1
<1>5. \/ n.sub[1] = c /\ n.sub[2] = other
      \/ n.sub[2] = c /\ n.sub[1] = other
  BY <1>2, <1>4
<1>6. QED BY <1>2, <1>3, <1>5 DEF n

\* A straight tree had a straight tree below the stack, and is straight over
\* every other as well.
LEMMA WayUpStraight ==
    ASSUME NEW stack, NEW z, StackOK(stack, z), NEW x, IsTree(x, z), NEW y, IsTree(y, z)
    PROVE  \A d \in 0 .. Len(stack) :
              Straight(WayUp(stack, x)[d]) =>
                  Straight(x) /\ (Straight(y) => Straight(WayUp(stack, y)[d]))
<1>1. Len(stack) \in Nat
  BY DEF StackOK
<1> DEFINE S == {d \in Nat : d <= Len(stack) =>
                    (Straight(WayUp(stack, x)[d]) =>
                        Straight(x) /\ (Straight(y) => Straight(WayUp(stack, y)[d])))}
<1>2. 0 \in S
  <2>1. WayUp(stack, x)[0] = x /\ WayUp(stack, y)[0] = y
    BY WayUpTrees
  <2>2. QED BY <2>1
<1>3. ASSUME NEW d \in Nat, d \in S
      PROVE  d + 1 \in S
  <2>1. CASE d + 1 <= Len(stack)
    <3> DEFINE a == WayUp(stack, x)[d]
               b == WayUp(stack, y)[d]
    <3>1. d + 1 \in 1 .. Len(stack) /\ (d + 1) - 1 = d /\ d \in 0 .. Len(stack) /\ d <= Len(stack)
      BY <1>1, <2>1
    <3>2. IsTree(a, z) /\ IsTree(b, z)
      BY <3>1, WayUpTrees
    <3>3. PICK e : /\ Attaches(e, z) /\ e = stack[Len(stack) + 1 - (d + 1)]
                   /\ \A w : WayUp(stack, w)[d + 1] = Attach(e, WayUp(stack, w)[(d + 1) - 1])
      BY <3>1, WayUpStep
    <3>4. WayUp(stack, x)[d + 1] = Attach(e, a) /\ WayUp(stack, y)[d + 1] = Attach(e, b)
      BY <3>1, <3>3
    <3>5. Straight(a) => Straight(x) /\ (Straight(y) => Straight(b))
      BY <1>3, <3>1
    <3> HIDE DEF a, b
    <3>6. Straight(Attach(e, a)) <=> ~e.n.swapped /\ Straight(e.n.sub[3 - e.side]) /\ Straight(a)
      BY <3>2, <3>3, AttachStraight
    <3>7. Straight(Attach(e, b)) <=> ~e.n.swapped /\ Straight(e.n.sub[3 - e.side]) /\ Straight(b)
      BY <3>2, <3>3, AttachStraight
    <3>8. Straight(WayUp(stack, x)[d + 1]) =>
             Straight(x) /\ (Straight(y) => Straight(WayUp(stack, y)[d + 1]))
      BY <3>4, <3>5, <3>6, <3>7
    <3>9. QED BY <3>8
  <2>2. CASE ~(d + 1 <= Len(stack))
    BY <2>2
  <2>3. QED BY <2>1, <2>2
<1> HIDE DEF S
<1>4. \A d \in Nat : d \in S
  BY <1>2, <1>3, Induction
<1>5. QED BY <1>1, <1>4 DEF S

\* A way down leads to a full tree, and up again to a tree of the same size.
Leads(way, n, z) ==
    /\ StackOK(way.stack, z) /\ IsTree(way.full, z) /\ is_full(way.full)
    /\ WayUp(way.stack, way.full)[Len(way.stack)].size = n.size
    /\ Straight(WayUp(way.stack, way.full)[Len(way.stack)]) => Straight(n)

\* The empty stack.
LEMMA EmptyStack ==
    ASSUME NEW z
    PROVE  StackOK(<<>>, z)
<1>1. <<>> \in Seq({}) /\ Len(<<>>) = 0 /\ DOMAIN <<>> = 1 .. 0
  OBVIOUS
<1>2. QED BY <1>1 DEF StackOK

\* A stack of one element.
LEMMA OneOnStack ==
    ASSUME NEW e, NEW z, e.side \in {1, 2}, IsTree(e.n, z), e.n.sub # <<>>
    PROVE  StackOK(<<e>>, z)
<1>1. <<e>> \in Seq({e}) /\ Len(<<e>>) = 1 /\ DOMAIN <<e>> = 1 .. 1 /\ \A i \in 1 .. 1 : <<e>>[i] = e
  OBVIOUS
<1>2. QED BY <1>1 DEF StackOK

\* The way down leads to a full tree, along a stack whose completion is the tree.
LEMMA WayDownLeads ==
    ASSUME NEW n, NEW z, IsTree(n, z)
    PROVE  Leads(WayDown(n), n, z)
<1> DEFINE S == {m \in NodesOf(n) : Leads(WayDown(m), m, z)}
<1>1. ASSUME NEW m, IsTree(m, z), m \in NodesOf(n),
             m.sub # <<>> => m.sub[1] \in S /\ m.sub[2] \in S
      PROVE  m \in S
  <2>1. m.height \in Nat \ {0} /\ Sound(m, z) /\ NodeOK(m, z)
    BY <1>1, TreeParts DEF IsTree
  <2>2. CASE is_full(m)
    <3>1. WayDown(m) = [stack |-> <<>>, full |-> m]
      BY <2>1, <2>2, WayDownLaw
    <3>2. WayDown(m).stack = <<>> /\ WayDown(m).full = m
      BY <3>1
    <3>3. Len(<<>>) = 0 /\ WayUp(<<>>, m)[0] = m
      BY WayUpUnfolds
    <3>4. Leads(WayDown(m), m, z)
      BY <1>1, <2>2, <3>2, <3>3, EmptyStack DEF Leads
    <3>5. QED BY <1>1, <3>4
  <2>3. CASE ~is_full(m)
    <3>1. m.sub # <<>>
      <4>1. ASSUME m.sub = <<>>
            PROVE  is_full(m)
        BY <2>1, <4>1, FirstPowers DEF NodeOK, MakeLeaf, is_full
      <4>2. QED BY <2>3, <4>1
    <3> DEFINE side == Side(m)
               c == m.sub[side]
               rest == WayDown(c)
               e == [n |-> m, side |-> side]
               stack == <<e>> \o rest.stack
               up == WayUp(stack, rest.full)
    <3>2. side = 1 \/ side = 2
      BY DEF Side
    <3>3. WayDown(m) = Descended(m, rest)
      BY <2>1, <2>3, WayDownLaw
    <3>4. WayDown(m).stack = stack /\ WayDown(m).full = rest.full
      BY <3>3 DEF Descended
    <3> HIDE DEF side
    <3>5. Leads(rest, c, z) /\ IsTree(c, z) /\ IsTree(m.sub[3 - side], z)
      BY <1>1, <3>1, <3>2, TreeParts
    <3>6. e.side = side /\ e.n = m /\ e.side \in {1, 2}
      BY <3>2
    <3> HIDE DEF e, c
    <3>7. Attaches(e, z) /\ StackOK(<<e>>, z)
      BY <1>1, <3>1, <3>5, <3>6, OneOnStack DEF Attaches
    <3>8. StackOK(rest.stack, z) /\ IsTree(rest.full, z)
      BY <3>5 DEF Leads
    <3>9. Len(<<e>>) = 1 /\ <<e>>[1] = e /\ Len(rest.stack) \in Nat
      BY <3>8 DEF StackOK
    <3>10. /\ StackOK(stack, z) /\ Len(stack) = 1 + Len(rest.stack)
           /\ stack[1] = e
           /\ \A i \in 1 .. Len(rest.stack) : rest.stack[i] = stack[1 + i]
      <4>1. 1 \in 1 .. Len(<<e>>)
        BY <3>9
      <4>2. QED BY <3>7, <3>8, <3>9, <4>1, StackOnStack
    <3> HIDE DEF stack, rest
    <3>11. up[Len(rest.stack)] = WayUp(rest.stack, rest.full)[Len(rest.stack)]
      <4>1. Ends(rest.stack, stack, 1)
        BY <3>9, <3>10 DEF Ends
      <4>2. Len(rest.stack) \in 0 .. Len(rest.stack)
        BY <3>9
      <4>3. QED BY <4>1, <4>2, WayUpBelow
    <3>12. up[Len(stack)] = Attach(e, up[Len(rest.stack)])
      <4>1. Len(stack) \in 1 .. Len(stack) /\ Len(stack) - 1 = Len(rest.stack) /\ Len(stack) + 1 - Len(stack) = 1
            /\ Len(stack) \in Nat
        BY <3>9, <3>10
      <4>2. \A k \in 1 .. Len(stack) : up[k] = Attach(stack[Len(stack) + 1 - k], up[k - 1])
        BY ONLY <4>1, WayUpUnfolds, SMT
      <4> HIDE DEF up
      <4>3. up[Len(stack)] = Attach(stack[Len(stack) + 1 - Len(stack)], up[Len(stack) - 1])
        BY <4>1, <4>2, Zenon
      <4>4. QED BY <3>10, <4>1, <4>3
    <3> DEFINE below == up[Len(rest.stack)]
    <3>13. IsTree(below, z)
      <4>1. Len(rest.stack) \in 0 .. Len(stack)
        BY <3>9, <3>10
      <4>2. QED BY <3>8, <3>10, <4>1, WayUpTrees
    <3>14. below.size = c.size
      BY <3>5, <3>11 DEF Leads
    <3> HIDE DEF up
    <3>15. Attach(e, below).size = e.n.sub[3 - e.side].size + below.size + 1
      <4> HIDE DEF below
      <4>1. QED BY <3>7, <3>13, AttachedTree
    <3>16. m.sub[3 - side].size + c.size + 1 = m.size
      <4>1. /\ m.size = m.sub[1].size + m.sub[2].size + 1
            /\ m.sub[1].size \in Nat /\ m.sub[2].size \in Nat
        BY <2>1, <3>1 DEF NodeOK
      <4>2. QED BY <3>2, <4>1 DEF c
    <3>17. up[Len(stack)].size = m.size
      BY <3>6, <3>12, <3>14, <3>15, <3>16
    <3>18. Straight(up[Len(stack)]) => Straight(m)
      <4>1. SUFFICES ASSUME Straight(up[Len(stack)]) PROVE Straight(m)
        OBVIOUS
      <4>2. Straight(Attach(e, below))
        BY <3>12, <4>1
      <4>3. Straight(below) => Straight(c)
        BY <3>5, <3>11 DEF Leads, up
      <4> HIDE DEF below
      <4>4. ~m.swapped /\ Straight(m.sub[3 - side]) /\ Straight(c)
        BY <3>6, <3>7, <3>13, <4>2, <4>3, AttachStraight
      <4>5. Straight(m.sub[1]) /\ Straight(m.sub[2])
        BY <3>2, <4>4 DEF c
      <4>6. QED BY <1>1, <3>1, <4>4, <4>5, StraightParts
    <3>19. Leads(WayDown(m), m, z)
      <4>1. is_full(rest.full)
        BY <3>5 DEF Leads
      <4>2. QED BY <3>4, <3>8, <3>10, <3>17, <3>18, <4>1 DEF Leads, up
    <3>20. QED BY <1>1, <3>19
  <2>4. QED BY <2>2, <2>3
<1> HIDE DEF S
<1>2. n \in S
  BY <1>1, NodeInduction
<1>3. QED BY <1>2 DEF S

\* A tree on the way to completion: what is below the stack is a tree as well.
AtOK(at, z) ==
    /\ at = [stack |-> at.stack, root |-> at.root]
    /\ StackOK(at.stack, z) /\ IsTree(at.root, z)
    /\ at.stack # <<>> => at.root.dirty

\* The stack with the way down, the new node, and where the way up from it ends.
Inserts(at, h, z, stack, x, end) ==
    /\ stack = at.stack \o WayDown(at.root).stack
    /\ x = MakeNode(WayDown(at.root).full, MakeLeaf(h))
    /\ StackOK(stack, z) /\ IsTree(x, z) /\ end \in 0 .. Len(stack)
    /\ insert_leaf(at, MakeLeaf(h)) =
           [stack |-> SubSeq(stack, 1, Len(stack) - end), root |-> WayUp(stack, x)[end]]
    /\ end = Len(stack) \/ ~is_full(WayUp(stack, x)[end])

\* The steps of an insertion.
LEMMA InsertStep ==
    ASSUME NEW at, NEW z, AtOK(at, z), NEW h \in LeafHashes
    PROVE  \E stack, x, end : Inserts(at, h, z, stack, x, end)
<1> DEFINE way == WayDown(at.root)
           stack == at.stack \o way.stack
           x == MakeNode(way.full, MakeLeaf(h))
<1>1. StackOK(at.stack, z) /\ IsTree(at.root, z)
  BY DEF AtOK
<1>2. Leads(way, at.root, z)
  BY <1>1, WayDownLeads
<1>3. StackOK(way.stack, z) /\ IsTree(way.full, z)
  BY <1>2 DEF Leads
<1>4. StackOK(stack, z)
  BY <1>1, <1>3, StackOnStack
<1>5. IsTree(x, z)
  <2>1. IsTree(MakeLeaf(h), z)
    BY LeafIsTree
  <2>2. QED BY <1>3, <2>1, MakeNodeIsTree
<1>6. at.root # NoRoot
  <2>1. at.root.size # 0
    BY <1>1, TreeParts DEF NodeOK
  <2>2. QED BY <2>1 DEF NoRoot
<1>7. insert_leaf(at, MakeLeaf(h)) = process_insertion_stack(stack, x, FALSE)
  <2>1. continue_insertion_stack(at.stack, at.root, MakeLeaf(h)) = [stack |-> stack, root |-> x]
    BY DEF continue_insertion_stack
  <2> HIDE DEF stack, x
  <2>2. QED BY <1>6, <2>1 DEF insert_leaf
<1> HIDE DEF stack, x
<1>8. \E end \in 0 .. Len(stack) :
         /\ process_insertion_stack(stack, x, FALSE) =
                [stack |-> SubSeq(stack, 1, Len(stack) - end), root |-> WayUp(stack, x)[end]]
         /\ end = Len(stack) \/ ~is_full(WayUp(stack, x)[end])
  BY <1>4, ProcessEnds
<1>9. stack = at.stack \o WayDown(at.root).stack /\ x = MakeNode(WayDown(at.root).full, MakeLeaf(h))
  BY DEF stack, x
<1>10. PICK end \in 0 .. Len(stack) : Inserts(at, h, z, stack, x, end)
  BY <1>4, <1>5, <1>7, <1>8, <1>9 DEF Inserts
<1>11. QED BY <1>10

\* Wherever the way up ends, what is left of the stack completes the same tree.
LEMMA EndsCompletely ==
    ASSUME NEW stack, NEW z, StackOK(stack, z), NEW x, IsTree(x, z), x.dirty,
           NEW end \in 0 .. Len(stack)
    PROVE  LET at == [stack |-> SubSeq(stack, 1, Len(stack) - end), root |-> WayUp(stack, x)[end]] IN
           /\ AtOK(at, z) /\ at.root.dirty
           /\ Completed(at) = WayUp(stack, x)[Len(stack)]
<1> DEFINE first == SubSeq(stack, 1, Len(stack) - end)
           top == WayUp(stack, x)[end]
           at == [stack |-> first, root |-> top]
<1>1. Len(stack) \in Nat
  BY DEF StackOK
<1>2. /\ StackOK(first, z) /\ Len(first) = Len(stack) - end
      /\ \A i \in 1 .. Len(first) : first[i] = stack[i]
  BY StackParts
<1>3. IsTree(top, z)
  BY WayUpTrees
<1>4. top.dirty
  <2>1. CASE end = 0
    BY <1>1, <2>1, WayUpTrees
  <2>2. CASE end # 0
    <3>1. end \in 1 .. Len(stack)
      BY <1>1, <2>2
    <3>2. QED BY <3>1, WayUpTrees
  <2>3. QED BY <2>1, <2>2
<1> HIDE DEF first
<1>5. /\ Len(first) \in Nat /\ end \in Nat /\ Len(stack) = Len(first) + end
      /\ Len(first) \in 0 .. Len(first) /\ end + Len(first) = Len(stack)
  BY <1>1, <1>2
<1>6. WayUp(first, top)[Len(first)] = WayUp(stack, x)[Len(stack)]
  <2>1. Tops(first, stack, end)
    BY <1>1, <1>2, <1>5 DEF Tops
  <2>2. WayUp(first, WayUp(stack, x)[end])[Len(first)] = WayUp(stack, x)[Len(stack)]
    BY <2>1, WayUpTop
  <2>3. QED BY <2>2
<1> HIDE DEF top
<1>7. at.stack = first /\ at.root = top
  OBVIOUS
<1>8. AtOK(at, z)
  BY <1>2, <1>3, <1>4 DEF AtOK
<1>9. Completed(at) = WayUp(first, top)[Len(first)]
  BY <1>2, <1>7, CompletedIs
<1>10. QED BY <1>4, <1>6, <1>7, <1>8, <1>9 DEF first, top

\* A leaf more makes a tree two nodes larger once the stack is completed.
LEMMA InsertLeafGrows ==
    ASSUME NEW at, NEW z, AtOK(at, z), NEW h \in LeafHashes
    PROVE  LET after == insert_leaf(at, MakeLeaf(h)) IN
           /\ AtOK(after, z) /\ after.root.dirty
           /\ Completed(after).size = Completed(at).size + 2
<1> DEFINE after == insert_leaf(at, MakeLeaf(h))
           s == at.stack
           t == at.root
           w == WayDown(t).stack
           f == WayDown(t).full
<1>1. StackOK(s, z) /\ IsTree(t, z)
  BY DEF AtOK
<1>2. Leads(WayDown(t), t, z)
  BY <1>1, WayDownLeads
<1>3. PICK stack, x, end : Inserts(at, h, z, stack, x, end)
  BY InsertStep
<1>4. StackOK(w, z) /\ IsTree(f, z) /\ WayUp(w, f)[Len(w)].size = t.size
  BY <1>2 DEF Leads
<1>5. Completed(at) = WayUp(s, t)[Len(s)]
  BY <1>1, CompletedIs
<1>6. /\ stack = s \o w
      /\ x = MakeNode(f, MakeLeaf(h))
      /\ StackOK(stack, z) /\ IsTree(x, z) /\ end \in 0 .. Len(stack)
      /\ after = [stack |-> SubSeq(stack, 1, Len(stack) - end), root |-> WayUp(stack, x)[end]]
  BY <1>3 DEF Inserts
<1> HIDE DEF w, f, s, t, after
<1>7. x.dirty /\ x.size = f.size + 2
  <2>1. IsTree(MakeLeaf(h), z) /\ MakeLeaf(h).size = 1
    BY LeafIsTree DEF MakeLeaf
  <2>2. Makes(x, f, MakeLeaf(h))
    BY <1>4, <1>6, <2>1, MakeNodeIsTree
  <2>3. f.size \in Nat
    BY <1>4, TreeParts DEF NodeOK
  <2>4. QED BY <2>1, <2>2, <2>3 DEF Makes
<1>8. /\ AtOK(after, z) /\ after.root.dirty
      /\ Completed(after) = WayUp(stack, x)[Len(stack)]
  BY <1>6, <1>7, EndsCompletely
<1>9. /\ Len(stack) = Len(s) + Len(w)
      /\ Len(s) \in Nat /\ Len(w) \in Nat /\ Len(stack) \in Nat
      /\ \A i \in 1 .. Len(s) : s[i] = stack[i]
      /\ \A i \in 1 .. Len(w) : w[i] = stack[Len(s) + i]
  <2>1. Len(s) \in Nat /\ Len(w) \in Nat
    BY <1>1, <1>4 DEF StackOK
  <2>2. QED BY <1>1, <1>4, <1>6, <2>1, StackOnStack
<1> DEFINE a == WayUp(w, x)[Len(w)]
           b == WayUp(w, f)[Len(w)]
<1>10. IsTree(a, z) /\ IsTree(b, z) /\ a.size - b.size = x.size - f.size
  <2>1. Len(w) \in 0 .. Len(w)
    BY <1>9
  <2>2. QED BY <1>4, <1>6, <2>1, WayUpTrees, WayUpSizes
<1>11. WayUp(stack, x)[Len(stack)] = WayUp(s, a)[Len(s)]
  <2>1. a = WayUp(stack, x)[Len(w)]
    <3>1. Len(w) \in 0 .. Len(w)
      BY <1>9
    <3>2. Ends(w, stack, Len(s))
      BY <1>9 DEF Ends
    <3>3. QED BY <3>1, <3>2, WayUpBelow
  <2> HIDE DEF a
  <2>2. Tops(s, stack, Len(w))
    BY <1>9 DEF Tops
  <2>3. WayUp(s, WayUp(stack, x)[Len(w)])[Len(s)] = WayUp(stack, x)[Len(stack)]
    BY <2>2, WayUpTop
  <2>4. QED BY <2>1, <2>3
<1>12. b.size = t.size
  BY <1>4
<1> HIDE DEF a, b
<1>13. /\ IsTree(WayUp(s, a)[Len(s)], z) /\ IsTree(WayUp(s, t)[Len(s)], z)
       /\ WayUp(s, a)[Len(s)].size - WayUp(s, t)[Len(s)].size = a.size - t.size
  <2>1. Len(s) \in 0 .. Len(s)
    BY <1>9
  <2>2. QED BY <1>1, <1>10, <2>1, WayUpTrees, WayUpSizes
<1>14. /\ f.size \in Nat /\ a.size \in Nat /\ b.size \in Nat /\ x.size \in Nat
       /\ WayUp(s, a)[Len(s)].size \in Nat /\ WayUp(s, t)[Len(s)].size \in Nat
  BY <1>4, <1>6, <1>10, <1>13, TreeParts DEF NodeOK
<1>15. WayUp(s, a)[Len(s)].size = WayUp(s, t)[Len(s)].size + 2
  <2> DEFINE p == WayUp(s, a)[Len(s)].size
             q == WayUp(s, t)[Len(s)].size
  <2>1. p \in Nat /\ q \in Nat /\ p - q = a.size - t.size
    BY <1>13, <1>14
  <2> HIDE DEF p, q
  <2>2. p = q + 2
    BY <1>7, <1>10, <1>12, <1>14, <2>1
  <2>3. QED BY <2>2 DEF p, q
<1>16. Completed(after).size = Completed(at).size + 2
  BY <1>5, <1>8, <1>11, <1>15
<1>17. QED BY <1>8, <1>16 DEF after

\* A tree that is straight with another leaf was straight before, and did not
\* exchange the leaf either.
LEMMA InsertLeafStraight ==
    ASSUME NEW at, NEW z, AtOK(at, z), NEW h \in LeafHashes,
           Straight(Completed(insert_leaf(at, MakeLeaf(h))))
    PROVE  Straight(Completed(at)) /\ WayDown(at.root).full.hash < h
<1> DEFINE after == insert_leaf(at, MakeLeaf(h))
           s == at.stack
           t == at.root
           w == WayDown(t).stack
           f == WayDown(t).full
<1>1. StackOK(s, z) /\ IsTree(t, z)
  BY DEF AtOK
<1>2. Leads(WayDown(t), t, z)
  BY <1>1, WayDownLeads
<1>3. PICK stack, x, end : Inserts(at, h, z, stack, x, end)
  BY InsertStep
<1>4. /\ StackOK(w, z) /\ IsTree(f, z)
      /\ Straight(WayUp(w, f)[Len(w)]) => Straight(t)
  BY <1>2 DEF Leads
<1>5. Completed(at) = WayUp(s, t)[Len(s)]
  BY <1>1, CompletedIs
<1>6. /\ stack = s \o w
      /\ x = MakeNode(f, MakeLeaf(h))
      /\ StackOK(stack, z) /\ IsTree(x, z) /\ end \in 0 .. Len(stack)
      /\ after = [stack |-> SubSeq(stack, 1, Len(stack) - end), root |-> WayUp(stack, x)[end]]
  BY <1>3 DEF Inserts
<1>0. Straight(Completed(after))
  OBVIOUS
<1> HIDE DEF w, f, s, t, after
<1>7. /\ Makes(x, f, MakeLeaf(h)) /\ IsTree(MakeLeaf(h), z) /\ MakeLeaf(h).hash = h
  <2>1. IsTree(MakeLeaf(h), z) /\ MakeLeaf(h).hash = h
    BY LeafIsTree DEF MakeLeaf
  <2>2. Makes(x, f, MakeLeaf(h))
    BY <1>4, <1>6, <2>1, MakeNodeIsTree
  <2>3. QED BY <2>1, <2>2
<1>8. Completed(after) = WayUp(stack, x)[Len(stack)]
  <2>1. x.dirty
    BY <1>7 DEF Makes
  <2>2. QED BY <1>6, <2>1, EndsCompletely
<1>9. /\ Len(stack) = Len(s) + Len(w)
      /\ Len(s) \in Nat /\ Len(w) \in Nat /\ Len(stack) \in Nat
      /\ \A i \in 1 .. Len(s) : s[i] = stack[i]
      /\ \A i \in 1 .. Len(w) : w[i] = stack[Len(s) + i]
  <2>1. Len(s) \in Nat /\ Len(w) \in Nat
    BY <1>1, <1>4 DEF StackOK
  <2>2. QED BY <1>1, <1>4, <1>6, <2>1, StackOnStack
<1> DEFINE a == WayUp(w, x)[Len(w)]
           b == WayUp(w, f)[Len(w)]
<1>10. WayUp(stack, x)[Len(stack)] = WayUp(s, a)[Len(s)]
  <2>1. a = WayUp(stack, x)[Len(w)]
    <3>1. Len(w) \in 0 .. Len(w)
      BY <1>9
    <3>2. Ends(w, stack, Len(s))
      BY <1>9 DEF Ends
    <3>3. QED BY <3>1, <3>2, WayUpBelow
  <2> HIDE DEF a
  <2>2. Tops(s, stack, Len(w))
    BY <1>9 DEF Tops
  <2>3. WayUp(s, WayUp(stack, x)[Len(w)])[Len(s)] = WayUp(stack, x)[Len(stack)]
    BY <2>2, WayUpTop
  <2>4. QED BY <2>1, <2>3
<1>11. Len(w) \in 0 .. Len(w) /\ Len(s) \in 0 .. Len(s)
  BY <1>9
<1>12. IsTree(a, z) /\ IsTree(b, z)
  BY <1>4, <1>6, <1>11, WayUpTrees
<1>13. Straight(a) => Straight(x) /\ (Straight(f) => Straight(b))
  BY <1>4, <1>6, <1>11, WayUpStraight
<1>14. Straight(b) => Straight(t)
  BY <1>4
<1> HIDE DEF a, b
<1>15. Straight(a) /\ (Straight(t) => Straight(WayUp(s, t)[Len(s)]))
  <2>1. Straight(WayUp(s, a)[Len(s)])
    BY <1>0, <1>8, <1>10
  <2>2. QED BY <1>1, <1>11, <1>12, <2>1, WayUpStraight
<1>16. Straight(f) /\ f.hash < h
  <2>1. /\ x.sub # <<>> /\ x.swapped = ~(f.hash < h)
        /\ (x.sub[1] = f \/ x.sub[2] = f)
    BY <1>7 DEF Makes
  <2>2. ~x.swapped /\ Straight(x.sub[1]) /\ Straight(x.sub[2])
    BY <1>6, <1>13, <1>15, <2>1, StraightParts
  <2>3. QED BY <2>1, <2>2
<1>17. QED BY <1>5, <1>13, <1>14, <1>15, <1>16 DEF f, t

\* Sorting gives as many leaf hashes as there were.
LEMMA SortedLeaves ==
    ASSUME NEW hashes \in Seq(LeafHashes)
    PROVE  Sorted(hashes) \in Seq(LeafHashes) /\ Len(Sorted(hashes)) = Len(hashes)
<1> DEFINE enough(k) == {h \in {hashes[i] : i \in DOMAIN hashes} :
                             Cardinality({i \in DOMAIN hashes : hashes[i] <= h}) >= k}
<1>1. Sorted(hashes) = [k \in DOMAIN hashes |-> CHOOSE h \in enough(k) : \A g \in enough(k) : h <= g]
  BY Zenon DEF Sorted
<1>2. DOMAIN hashes = 1 .. Len(hashes) /\ Len(hashes) \in Nat
  OBVIOUS
<1>3. \A i \in DOMAIN hashes : hashes[i] \in LeafHashes /\ hashes[i] \in Nat \ {0}
  <2>1. LeafHashes \subseteq Nat \ {0}
    BY HashAssumption
  <2>2. \A i \in DOMAIN hashes : hashes[i] \in LeafHashes
    BY <1>2
  <2>3. QED BY <2>1, <2>2
<1>4. ASSUME NEW k \in DOMAIN hashes
      PROVE  (CHOOSE h \in enough(k) : \A g \in enough(k) : h <= g) \in LeafHashes
  <2> DEFINE U == {b \in Nat : \A i \in DOMAIN hashes : hashes[i] <= b}
  <2>1. HashModulus \in U
    <3>1. HashModulus \in Nat
      BY DEF HashModulus
    <3>2. \A i \in DOMAIN hashes : hashes[i] \in 1 .. HashModulus - 1
      BY <1>3, HashAssumption
    <3>3. QED BY <3>1, <3>2
  <2>2. PICK u \in U : \A b \in U : u <= b
    <3>1. U \in SUBSET Nat /\ U # {}
      BY <2>1
    <3> HIDE DEF U
    <3>2. QED BY <3>1, Smallest
  <2>3. u \in Nat /\ \A i \in DOMAIN hashes : hashes[i] <= u
    BY <2>2
  <2>4. \E i \in DOMAIN hashes : hashes[i] = u
    <3>1. SUFFICES ASSUME \A i \in DOMAIN hashes : hashes[i] # u
                   PROVE  FALSE
      OBVIOUS
    <3>2. \A i \in DOMAIN hashes : hashes[i] <= u - 1
      BY <1>3, <2>3, <3>1
    <3>3. u # 0
      BY <1>3, <2>3
    <3>4. u - 1 \in Nat /\ ~(u <= u - 1)
      BY <2>3, <3>3
    <3>5. u - 1 \in U
      BY <3>2, <3>4
    <3>6. QED BY <2>2, <3>4, <3>5
  <2>5. {i \in DOMAIN hashes : hashes[i] <= u} = 1 .. Len(hashes)
    BY <1>2, <2>3
  <2>6. Cardinality(1 .. Len(hashes)) >= k
    <3>1. Cardinality(1 .. Len(hashes)) = IF 1 > Len(hashes) THEN 0 ELSE Len(hashes) - 1 + 1
      BY <1>2, FS_Interval
    <3>2. k \in 1 .. Len(hashes)
      BY <1>2
    <3>3. QED BY <1>2, <3>1, <3>2
  <2>7. u \in enough(k)
    BY <2>4, <2>5, <2>6
  <2>8. enough(k) \subseteq LeafHashes /\ enough(k) \subseteq Nat
    BY <1>3
  <2> HIDE DEF enough
  <2>9. \E h \in enough(k) : \A g \in enough(k) : h <= g
    BY <2>7, <2>8, Smallest
  <2>10. QED BY <2>8, <2>9
<1> DEFINE least(k) == CHOOSE h \in enough(k) : \A g \in enough(k) : h <= g
<1>5. \A k \in 1 .. Len(hashes) : least(k) \in LeafHashes
  BY <1>2, <1>4
<1>6. Sorted(hashes) = [k \in 1 .. Len(hashes) |-> least(k)]
  BY <1>1, <1>2
<1> HIDE DEF least
<1>7. QED BY <1>2, <1>5, <1>6

\* What is kept of the tree: so many leaves are in it once it is completed.
Keeps(at, z, c) ==
    /\ at = [stack |-> at.stack, root |-> at.root]
    /\ c \in Nat
    /\ c = 0 => at.stack = <<>> /\ at.root = NoRoot
    /\ c # 0 => AtOK(at, z) /\ Completed(at).size = 2 * c - 1

\* A leaf more, and many.
LEMMA InsertLeafKeeps ==
    ASSUME NEW at, NEW z, NEW c, Keeps(at, z, c), NEW h \in LeafHashes
    PROVE  LET after == insert_leaf(at, MakeLeaf(h)) IN
           Keeps(after, z, c + 1) /\ (c # 0 => after.root.dirty)
<1> DEFINE after == insert_leaf(at, MakeLeaf(h))
<1>1. CASE c = 0
  <2>1. at = [stack |-> <<>>, root |-> NoRoot]
    BY <1>1 DEF Keeps
  <2>2. after = [stack |-> <<>>, root |-> MakeLeaf(h)]
    BY <2>1 DEF insert_leaf
  <2>3. after.stack = <<>> /\ after.root = MakeLeaf(h)
    BY <2>2
  <2>4. IsTree(MakeLeaf(h), z)
    BY LeafIsTree
  <2>5. Len(<<>>) = 0 /\ WayUp(<<>>, MakeLeaf(h))[0] = MakeLeaf(h)
    BY WayUpUnfolds
  <2> HIDE DEF after
  <2>6. Completed(after) = MakeLeaf(h)
    BY <2>3, <2>5, EmptyStack, CompletedIs
  <2>7. MakeLeaf(h).size = 1
    BY DEF MakeLeaf
  <2>8. AtOK(after, z)
    BY <2>2, <2>3, <2>4, EmptyStack DEF AtOK
  <2>9. Keeps(after, z, 1)
    BY <2>2, <2>3, <2>6, <2>7, <2>8 DEF Keeps
  <2>10. c + 1 = 1
    BY <1>1
  <2>11. QED BY <1>1, <2>9, <2>10 DEF after
<1>2. CASE c # 0
  <2>1. AtOK(at, z) /\ Completed(at).size = 2 * c - 1 /\ c \in Nat
    BY <1>2 DEF Keeps
  <2>2. AtOK(after, z) /\ after.root.dirty /\ Completed(after).size = Completed(at).size + 2
    BY <2>1, InsertLeafGrows
  <2> HIDE DEF after
  <2>3. Completed(after).size = 2 * (c + 1) - 1 /\ c + 1 \in Nat /\ c + 1 # 0
    BY <2>1, <2>2
  <2>4. after = [stack |-> after.stack, root |-> after.root]
    BY <2>2 DEF AtOK
  <2>5. Keeps(after, z, c + 1)
    BY <2>2, <2>3, <2>4 DEF Keeps
  <2>6. QED BY <2>2, <2>5 DEF after
<1>3. QED BY <1>1, <1>2

\* So do many leaves, one after the other.
LEMMA InsertLeavesKeep ==
    ASSUME NEW at, NEW z, NEW c, Keeps(at, z, c), NEW hashes \in Seq(LeafHashes)
    PROVE  LET after == insert_leaves(at, hashes) IN
           /\ Keeps(after, z, c + Len(hashes))
           /\ Len(hashes) # 0 /\ c + Len(hashes) >= 2 => after.root.dirty
           /\ Len(hashes) = 0 => after = at
<1>1. Len(hashes) \in Nat /\ c \in Nat /\ \A k \in 1 .. Len(hashes) : hashes[k] \in LeafHashes
  BY DEF Keeps
<1>2. PICK f : /\ insert_leaves(at, hashes) = f[Len(hashes)]
               /\ f[0] = at
               /\ \A k \in 1 .. Len(hashes) : f[k] = insert_leaf(f[k - 1], MakeLeaf(hashes[k]))
  BY <1>1, InsertUnfolds
<1> DEFINE S == {k \in Nat : k <= Len(hashes) =>
                    /\ Keeps(f[k], z, c + k)
                    /\ k # 0 /\ c + k >= 2 => f[k].root.dirty}
<1>3. 0 \in S
  <2>1. c + 0 = c
    BY <1>1
  <2>2. QED BY <1>2, <2>1
<1>4. ASSUME NEW k \in Nat, k \in S
      PROVE  k + 1 \in S
  <2>1. CASE k + 1 <= Len(hashes)
    <3>1. k + 1 \in 1 .. Len(hashes) /\ (k + 1) - 1 = k /\ k <= Len(hashes)
      BY <1>1, <2>1
    <3>2. Keeps(f[k], z, c + k) /\ hashes[k + 1] \in LeafHashes
      BY <1>1, <1>4, <3>1
    <3> DEFINE h == hashes[k + 1]
               m == k + 1
    <3>3. f[m] = insert_leaf(f[m - 1], MakeLeaf(hashes[m]))
      <4>1. m \in 1 .. Len(hashes)
        BY <3>1
      <4> HIDE DEF m
      <4>2. QED BY <1>2, <4>1
    <3>4. f[m] = insert_leaf(f[k], MakeLeaf(h))
      BY <3>1, <3>3
    <3> HIDE DEF h, m
    <3>5. Keeps(f[m], z, (c + k) + 1) /\ (c + k # 0 => f[m].root.dirty)
      BY <3>2, <3>4, InsertLeafKeeps DEF h
    <3>6. (c + k) + 1 = c + (k + 1) /\ (c + (k + 1) >= 2 => c + k # 0)
      BY <1>1
    <3>7. QED BY <3>5, <3>6 DEF m
  <2>2. CASE ~(k + 1 <= Len(hashes))
    BY <2>2
  <2>3. QED BY <2>1, <2>2
<1> HIDE DEF S
<1>5. \A k \in Nat : k \in S
  BY <1>3, <1>4, Induction
<1> DEFINE l == Len(hashes)
<1>6. l \in S /\ l <= Len(hashes)
  BY <1>1, <1>5
<1> HIDE DEF l
<1>7. /\ Keeps(f[l], z, c + l)
      /\ l # 0 /\ c + l >= 2 => f[l].root.dirty
  BY <1>6 DEF S
<1>8. l = 0 => f[l] = at
  BY <1>2
<1>9. QED BY <1>2, <1>7, <1>8 DEF l

-----------------------------------------------------------------------------
\* The state.  Once it is computed the root is clean and nothing waits, and a
\* computation too many finds nothing that has grown.
At == [stack |-> insertion_stack, root |-> root]

IInv ==
    /\ leaf_nodes \in Seq(LeafHashes)
    /\ uninserted \in Seq(LeafHashes)
    /\ batches \in 0 .. MaxBatches
    /\ salt \in Salts
    /\ Keeps(At, salt, Len(leaf_nodes))
    /\ batches = MaxBatches =>
          uninserted = <<>> /\ insertion_stack = <<>> /\ root # NoRoot /\ ~root.dirty

\* The compression functions are numbers.
LEMMA SaltIsInt == Salts \subseteq Int
  BY HashAssumption

\* The trees an action makes.
LEMMA InsertedKeeps ==
    ASSUME IInv
    PROVE  /\ Sorted(uninserted) \in Seq(LeafHashes)
           /\ Len(Sorted(uninserted)) = Len(uninserted)
           /\ leaf_nodes \o Sorted(uninserted) \in Seq(LeafHashes)
           /\ Len(leaf_nodes \o Sorted(uninserted)) = Len(leaf_nodes) + Len(uninserted)
           /\ Inserted = [stack |-> Inserted.stack, root |-> Inserted.root]
           /\ Keeps(Inserted, salt, Len(leaf_nodes) + Len(uninserted))
           /\ Len(uninserted) # 0 /\ Len(leaf_nodes) + Len(uninserted) >= 2 => Inserted.root.dirty
           /\ Len(uninserted) = 0 => Inserted = At
<1>1. /\ leaf_nodes \in Seq(LeafHashes) /\ uninserted \in Seq(LeafHashes)
      /\ Keeps(At, salt, Len(leaf_nodes))
  BY DEF IInv
<1>2. Sorted(uninserted) \in Seq(LeafHashes) /\ Len(Sorted(uninserted)) = Len(uninserted)
  BY <1>1, SortedLeaves
<1>3. Inserted = insert_leaves(At, Sorted(uninserted))
  BY Zenon DEF Inserted, At
<1>4. /\ Keeps(Inserted, salt, Len(leaf_nodes) + Len(Sorted(uninserted)))
      /\ Len(Sorted(uninserted)) # 0 /\ Len(leaf_nodes) + Len(Sorted(uninserted)) >= 2 => Inserted.root.dirty
      /\ Len(Sorted(uninserted)) = 0 => Inserted = At
  <2> DEFINE s == Sorted(uninserted)
             c == Len(leaf_nodes)
  <2>1. s \in Seq(LeafHashes) /\ Keeps(At, salt, c) /\ Inserted = insert_leaves(At, s)
    BY <1>1, <1>2, <1>3
  <2> HIDE DEF s, c
  <2>2. /\ Keeps(Inserted, salt, c + Len(s))
        /\ Len(s) # 0 /\ c + Len(s) >= 2 => Inserted.root.dirty
        /\ Len(s) = 0 => Inserted = At
    BY <2>1, InsertLeavesKeep
  <2>3. QED BY <2>2 DEF s, c
<1>5. Inserted = [stack |-> Inserted.stack, root |-> Inserted.root]
  BY <1>4 DEF Keeps
<1>6. /\ leaf_nodes \o Sorted(uninserted) \in Seq(LeafHashes)
      /\ Len(leaf_nodes \o Sorted(uninserted)) = Len(leaf_nodes) + Len(uninserted)
  <2> DEFINE s == Sorted(uninserted)
  <2>1. s \in Seq(LeafHashes) /\ Len(s) = Len(uninserted)
    BY <1>2
  <2> HIDE DEF s
  <2>2. leaf_nodes \o s \in Seq(LeafHashes) /\ Len(leaf_nodes \o s) = Len(leaf_nodes) + Len(s)
    BY <1>1, <2>1
  <2>3. QED BY <2>1, <2>2 DEF s
<1>7. QED BY <1>2, <1>4, <1>5, <1>6, Zenon

\* Once completed and hashed.
LEMMA RootedKeeps ==
    ASSUME IInv, leaf_nodes \o uninserted # <<>>
    PROVE  /\ Len(leaf_nodes) + Len(uninserted) # 0
           /\ IsTree(Grown, salt) /\ Grown.size = 2 * (Len(leaf_nodes) + Len(uninserted)) - 1
           /\ IsTree(Rooted, salt) /\ ~Rooted.dirty /\ Rooted.size = Grown.size
           /\ Rooted # NoRoot
           /\ Keeps([stack |-> <<>>, root |-> Rooted], salt, Len(leaf_nodes) + Len(uninserted))
<1> DEFINE c == Len(leaf_nodes) + Len(uninserted)
<1>1. /\ leaf_nodes \in Seq(LeafHashes) /\ uninserted \in Seq(LeafHashes) /\ salt \in Int
  BY SaltIsInt DEF IInv
<1>2. c \in Nat /\ c # 0
  BY <1>1
<1>3. Keeps(Inserted, salt, c)
  BY InsertedKeeps
<1> HIDE DEF c
<1>4. AtOK(Inserted, salt) /\ Completed(Inserted).size = 2 * c - 1
  BY <1>2, <1>3 DEF Keeps
<1>5. StackOK(Inserted.stack, salt) /\ IsTree(Inserted.root, salt)
  BY <1>4 DEF AtOK
<1>6. Grown = WayUp(Inserted.stack, Inserted.root)[Len(Inserted.stack)]
  BY <1>5, CompletedIs DEF Grown
<1>7. IsTree(Grown, salt)
  <2> DEFINE s == Inserted.stack
             t == Inserted.root
             up == WayUp(s, t)
  <2>1. StackOK(s, salt) /\ IsTree(t, salt) /\ Grown = up[Len(s)]
    BY <1>5, <1>6
  <2> HIDE DEF s, t
  <2>2. Len(s) \in 0 .. Len(s)
    BY <2>1 DEF StackOK
  <2>3. IsTree(up[Len(s)], salt)
    BY <2>1, <2>2, WayUpTrees
  <2>4. QED BY <2>1, <2>3
<1>8. Grown.size = 2 * c - 1
  BY <1>4 DEF Grown
<1>9. IsTree(Rooted, salt) /\ ~Rooted.dirty /\ Rooted.size = Grown.size
  BY <1>1, <1>7, HashIsTree DEF Rooted
<1>10. Rooted # NoRoot
  <2>1. Rooted.size # 0
    BY <1>9, TreeParts DEF NodeOK
  <2>2. QED BY <2>1 DEF NoRoot
<1>11. Keeps([stack |-> <<>>, root |-> Rooted], salt, c)
  <2> DEFINE r == Rooted
             at == [stack |-> <<>>, root |-> r]
  <2>1. at.stack = <<>> /\ at.root = r /\ at = [stack |-> at.stack, root |-> at.root]
    OBVIOUS
  <2>2. IsTree(r, salt) /\ r.size = 2 * c - 1
    BY <1>8, <1>9
  <2> HIDE DEF r, at
  <2>3. Len(<<>>) = 0 /\ WayUp(<<>>, r)[0] = r
    BY WayUpUnfolds
  <2>4. Completed(at) = r
    BY <2>1, <2>3, EmptyStack, CompletedIs
  <2>5. AtOK(at, salt)
    BY <2>1, <2>2, EmptyStack DEF AtOK
  <2>6. Keeps(at, salt, c)
    BY <1>2, <2>1, <2>2, <2>4, <2>5 DEF Keeps
  <2>7. QED BY <2>6 DEF at, r
<1>12. QED BY <1>2, <1>7, <1>8, <1>9, <1>10, <1>11 DEF c

\* Keeps, of the state after an action.
LEMMA InitInv == ASSUME Init PROVE IInv
<1>1. /\ root = NoRoot /\ leaf_nodes = <<>> /\ uninserted \in Begun
      /\ insertion_stack = <<>> /\ batches = 0 /\ salt \in Salts
  BY DEF Init
<1>2. leaf_nodes \in Seq(LeafHashes) /\ Len(leaf_nodes) = 0
  BY <1>1
<1>3. uninserted \in Seq(LeafHashes) /\ MaxBatches \in Nat \ {0}
  BY <1>1, BoundsAssumption
<1>4. Keeps(At, salt, 0)
  <2>1. At = [stack |-> <<>>, root |-> NoRoot]
    BY <1>1 DEF At
  <2>2. At.stack = <<>> /\ At.root = NoRoot
    BY <2>1
  <2>3. QED BY <2>1, <2>2 DEF Keeps
<1>5. QED BY <1>1, <1>2, <1>3, <1>4 DEF IInv

\* insert only adds to the waiting leaves.
LEMMA InsertInv ==
    ASSUME IInv, NEW h \in LeafHashes, insert(h)
    PROVE  IInv'
<1>1. /\ batches < MaxBatches /\ uninserted' = Append(uninserted, h)
      /\ root' = root /\ leaf_nodes' = leaf_nodes /\ insertion_stack' = insertion_stack
      /\ batches' = batches /\ salt' = salt
  BY DEF insert
<1>2. batches' # MaxBatches
  BY <1>1, BoundsAssumption DEF IInv
<1>3. uninserted' \in Seq(LeafHashes)
  BY <1>1 DEF IInv
<1>4. At' = At
  BY <1>1 DEF At
<1>5. QED BY <1>1, <1>2, <1>3, <1>4 DEF IInv

\* compute_root leaves a clean root, an empty stack and nothing waiting.
LEMMA ComputeInv ==
    ASSUME IInv, compute_root
    PROVE  IInv'
<1>1. /\ leaf_nodes \o uninserted # <<>>
      /\ root' = Rooted /\ leaf_nodes' = leaf_nodes \o Sorted(uninserted)
      /\ uninserted' = <<>> /\ insertion_stack' = <<>>
      /\ batches' = (IF Grows THEN batches + 1 ELSE batches) /\ salt' = salt
  BY DEF compute_root
<1>2. /\ leaf_nodes' \in Seq(LeafHashes)
      /\ Len(leaf_nodes') = Len(leaf_nodes) + Len(uninserted)
  BY <1>1, InsertedKeeps
<1>3. /\ Rooted # NoRoot /\ ~Rooted.dirty
      /\ Keeps([stack |-> <<>>, root |-> Rooted], salt, Len(leaf_nodes) + Len(uninserted))
  BY <1>1, RootedKeeps
<1>4. At' = [stack |-> <<>>, root |-> Rooted]
  BY <1>1 DEF At
<1>5. Keeps(At', salt', Len(leaf_nodes'))
  BY <1>1, <1>2, <1>3, <1>4
<1>6. batches' \in 0 .. MaxBatches
  <2>1. CASE batches < MaxBatches
    <3>1. batches \in 0 .. MaxBatches /\ MaxBatches \in Nat
      BY BoundsAssumption DEF IInv
    <3>2. QED BY <1>1, <2>1, <3>1
  <2>2. CASE batches = MaxBatches
    <3>1. uninserted = <<>> /\ insertion_stack = <<>> /\ root # NoRoot /\ ~root.dirty
      BY <2>2 DEF IInv
    <3>2. Inserted = At
      BY <3>1, InsertedKeeps
    <3>3. At.stack = <<>> /\ At.root = root
      BY <3>1 DEF At
    <3>4. Grown = root
      <4>1. Len(<<>>) = 0 /\ WayUp(<<>>, root)[0] = root
        BY WayUpUnfolds
      <4>2. Completed(At) = root
        BY <3>3, <4>1, EmptyStack, CompletedIs
      <4>3. QED BY <3>2, <4>2 DEF Grown
    <3>5. ~Grows
      BY <3>1, <3>4 DEF Grows
    <3>6. batches' = batches
      BY <1>1, <3>5
    <3>7. QED BY <3>6 DEF IInv
  <2>3. batches \in 0 .. MaxBatches /\ MaxBatches \in Nat
    BY BoundsAssumption DEF IInv
  <2>4. QED BY <2>1, <2>2, <2>3
<1>7. uninserted' \in Seq(LeafHashes)
  BY <1>1
<1>8. salt' \in Salts
  BY <1>1 DEF IInv
<1>9. root' # NoRoot /\ ~root'.dirty
  BY <1>1, <1>3
<1>10. QED BY <1>1, <1>2, <1>5, <1>6, <1>7, <1>8, <1>9 DEF IInv

\* size leaves the tree and the stack that inserting the leaves gives.
LEMMA SizeInv ==
    ASSUME IInv, size
    PROVE  IInv'
<1>1. /\ uninserted # <<>>
      /\ root' = Inserted.root /\ insertion_stack' = Inserted.stack
      /\ leaf_nodes' = leaf_nodes \o Sorted(uninserted)
      /\ uninserted' = <<>> /\ batches' = batches /\ salt' = salt
  BY DEF size
<1>2. /\ leaf_nodes' \in Seq(LeafHashes)
      /\ Len(leaf_nodes') = Len(leaf_nodes) + Len(uninserted)
      /\ Keeps(Inserted, salt, Len(leaf_nodes) + Len(uninserted))
      /\ Inserted = [stack |-> Inserted.stack, root |-> Inserted.root]
  BY <1>1, InsertedKeeps
<1>3. At' = Inserted
  BY <1>1, <1>2, Zenon DEF At
<1>4. Keeps(At', salt', Len(leaf_nodes'))
  BY <1>1, <1>2, <1>3
<1>5. batches' # MaxBatches
  BY <1>1 DEF IInv
<1>6. uninserted' \in Seq(LeafHashes)
  BY <1>1
<1>7. QED BY <1>1, <1>2, <1>4, <1>5, <1>6 DEF IInv

\* Nothing changes in a step that changes nothing.
LEMMA StutterInv ==
    ASSUME IInv, UNCHANGED vars
    PROVE  IInv'
<1>1. /\ root' = root /\ leaf_nodes' = leaf_nodes /\ uninserted' = uninserted
      /\ insertion_stack' = insertion_stack /\ batches' = batches /\ salt' = salt
  BY DEF vars
<1>2. At' = At
  BY <1>1 DEF At
<1>3. QED BY <1>1, <1>2 DEF IInv

\* The inductive invariant.
THEOREM Invariant == Spec => []IInv
<1>1. Init => IInv
  BY InitInv
<1>2. IInv /\ [Next]_vars => IInv'
  <2> SUFFICES ASSUME IInv, [Next]_vars PROVE IInv'
    OBVIOUS
  <2>1. CASE \E h \in LeafHashes : insert(h)
    BY <2>1, InsertInv
  <2>2. CASE compute_root
    BY <2>2, ComputeInv
  <2>3. CASE size
    BY <2>3, SizeInv
  <2>4. CASE UNCHANGED vars
    BY <2>4, StutterInv
  <2>5. QED BY <2>1, <2>2, <2>3, <2>4 DEF Next
<1>3. QED BY <1>1, <1>2, PTL DEF Spec

\* What the invariant says of the tree.
LEMMA RootIsTree ==
    ASSUME IInv, root # NoRoot
    PROVE  /\ leaf_nodes # <<>> /\ Len(leaf_nodes) \in Nat \ {0}
           /\ IsTree(root, salt) /\ StackOK(insertion_stack, salt)
           /\ insertion_stack # <<>> => root.dirty
           /\ Whole = WayUp(insertion_stack, root)[Len(insertion_stack)]
           /\ Whole = Completed(At)
           /\ Whole.size = 2 * Len(leaf_nodes) - 1
<1>1. At.stack = insertion_stack /\ At.root = root
  BY DEF At
<1>2. leaf_nodes \in Seq(LeafHashes) /\ Keeps(At, salt, Len(leaf_nodes))
  BY DEF IInv
<1>3. Len(leaf_nodes) # 0
  BY <1>1, <1>2 DEF Keeps
<1>4. AtOK(At, salt) /\ Completed(At).size = 2 * Len(leaf_nodes) - 1
  BY <1>2, <1>3 DEF Keeps
<1>5. Whole = Completed(At)
  BY Zenon DEF Whole, At
<1>6. StackOK(At.stack, salt) /\ IsTree(At.root, salt) /\ (At.stack # <<>> => At.root.dirty)
  BY <1>4 DEF AtOK
<1>7. Completed(At) = WayUp(At.stack, At.root)[Len(At.stack)]
  BY <1>6, CompletedIs
<1>8. leaf_nodes # <<>> /\ Len(leaf_nodes) \in Nat \ {0}
  BY <1>2, <1>3
<1>9. QED BY <1>1, <1>4, <1>5, <1>6, <1>7, <1>8

\* Every state is well typed.
THEOREM TypeCorrect == Spec => []TypeOK
<1>1. IInv => TypeOK
  <2> SUFFICES ASSUME IInv PROVE TypeOK
    OBVIOUS
  <2>1. /\ leaf_nodes \in Seq(LeafHashes) /\ uninserted \in Seq(LeafHashes)
        /\ batches \in 0 .. MaxBatches /\ salt \in Salts
        /\ Keeps(At, salt, Len(leaf_nodes))
    BY DEF IInv
  <2>2. CASE root = NoRoot
    <3>1. Len(leaf_nodes) = 0
      <4>1. SUFFICES ASSUME Len(leaf_nodes) # 0 PROVE FALSE
        OBVIOUS
      <4>2. IsTree(root, salt)
        BY <2>1, <4>1 DEF Keeps, AtOK, At
      <4>3. root.size # 0
        BY <4>2, TreeParts DEF NodeOK
      <4>4. QED BY <2>2, <4>3 DEF NoRoot
    <3>2. insertion_stack = <<>>
      <4>1. At.stack = <<>>
        BY <2>1, <3>1 DEF Keeps
      <4>2. QED BY <4>1 DEF At
    <3>3. leaf_nodes = <<>>
      BY <2>1, <3>1
    <3>4. Nodes = {}
      BY <2>2 DEF Nodes
    <3>5. QED BY <2>1, <2>2, <3>2, <3>3, <3>4 DEF TypeOK
  <2>3. CASE root # NoRoot
    <3>1. leaf_nodes # <<>> /\ IsTree(root, salt) /\ StackOK(insertion_stack, salt)
      BY <2>3, RootIsTree
    <3>2. \A n \in Nodes : n.hash \in Hashes /\ n.size \in Nat /\ n.height \in Nat
      BY <2>3, <3>1 DEF Nodes, IsTree, Sound, NodeOK
    <3>3. \A i \in DOMAIN insertion_stack : insertion_stack[i].side \in 1 .. 2
      BY <3>1 DEF StackOK
    <3>4. (root = NoRoot) = (leaf_nodes = <<>>)
      BY <2>3, <3>1
    <3>5. QED BY <2>1, <3>2, <3>3, <3>4 DEF TypeOK
  <2>4. QED BY <2>2, <2>3
<1>2. QED BY <1>1, Invariant, PTL

\* The nodes of a clean tree are clean, and settled if they have children.
LEMMA CleanNodes ==
    ASSUME NEW n, NEW z, IsTree(n, z), ~n.dirty
    PROVE  \A m \in NodesOf(n) : ~m.dirty /\ NodeOK(m, z) /\ (m.sub # <<>> => Settled(m, z))
<1> DEFINE T == {m \in NodesOf(n) : ~m.dirty}
<1>1. n.height \in Nat \ {0} /\ Sound(n, z)
  BY DEF IsTree
<1>2. n \in T
  BY <1>1, NodesHaveRoot
<1>3. Closed(T)
  <2> SUFFICES ASSUME NEW m \in T, m.sub # <<>>
               PROVE  m.sub = <<m.sub[1], m.sub[2]>> /\ m.sub[1] \in T /\ m.sub[2] \in T
    BY DEF Closed
  <2>1. NodeOK(m, z)
    BY <1>1 DEF Sound
  <2>2. m.sub = <<m.sub[1], m.sub[2]>> /\ ~m.sub[1].dirty /\ ~m.sub[2].dirty
    BY <2>1 DEF NodeOK, Settled
  <2>3. m.sub[1] \in NodesOf(n) /\ m.sub[2] \in NodesOf(n)
    BY NodesHaveChildren
  <2>4. QED BY <2>2, <2>3
<1> HIDE DEF T
<1>4. NodesOf(n) \subseteq T
  BY <1>1, <1>2, <1>3, NodesAreLeast
<1>5. ASSUME NEW m \in NodesOf(n)
      PROVE  ~m.dirty /\ NodeOK(m, z) /\ (m.sub # <<>> => Settled(m, z))
  <2>1. ~m.dirty
    BY <1>4 DEF T
  <2>2. NodeOK(m, z)
    BY <1>1 DEF Sound
  <2>3. m.sub # <<>> => Settled(m, z)
    BY <2>1, <2>2 DEF NodeOK
  <2>4. QED BY <2>1, <2>2, <2>3
<1>6. QED BY <1>5

\* Once the root is computed every inner node is the hash of its children in the
\* order OpenZeppelin hashes them, however often leaves were added (PairsSorted).
THEOREM PairsAreSorted == Spec => []PairsSorted
<1>1. IInv => PairsSorted
  <2> SUFFICES ASSUME IInv, root # NoRoot, ~root.dirty, NEW n \in Nodes
               PROVE  /\ ~n.dirty
                      /\ n.sub # <<>> =>
                            /\ n.sub[1].hash <= n.sub[2].hash
                            /\ n.hash = Compress(n.sub[1].hash, n.sub[2].hash)
    BY DEF PairsSorted
  <2>1. IsTree(root, salt) /\ n \in NodesOf(root)
    BY RootIsTree DEF Nodes
  <2>2. ~n.dirty /\ (n.sub # <<>> => Settled(n, salt))
    BY <2>1, CleanNodes
  <2>3. QED BY <2>2 DEF Settled, Compress, Mixed
<1>2. QED BY <1>1, Invariant, PTL

\* The sizes of the tree that completing the stack gives are right, and nothing
\* is left on the stack exactly when size() answers for all leaves.
StackCounts ==
    root # NoRoot =>
        /\ SizesAddUp(Whole)
        /\ insertion_stack = <<>> <=> root.size = 2 * Len(leaf_nodes) - 1

\* The invariant has the sizes right.
LEMMA SizesRight ==
    ASSUME IInv
    PROVE  StackCounts
<1> SUFFICES ASSUME root # NoRoot
             PROVE  /\ SizesAddUp(Whole)
                    /\ insertion_stack = <<>> <=> root.size = 2 * Len(leaf_nodes) - 1
  BY DEF StackCounts
<1> DEFINE s == insertion_stack
           up == WayUp(s, root)
<1>1. /\ IsTree(root, salt) /\ StackOK(s, salt) /\ Whole = up[Len(s)]
      /\ Whole.size = 2 * Len(leaf_nodes) - 1
  BY RootIsTree
<1>2. Len(s) \in Nat /\ Len(s) \in 0 .. Len(s) /\ (s = <<>> <=> Len(s) = 0)
  BY <1>1 DEF StackOK
<1>3. IsTree(Whole, salt)
  BY <1>1, <1>2, WayUpTrees
<1>4. SizesAddUp(Whole)
  BY <1>3 DEF SizesAddUp, IsTree, Sound, NodeOK
<1>5. s = <<>> => root = Whole
  BY <1>1, <1>2, WayUpTrees
<1>6. s # <<>> => root.size < Whole.size
  <2>1. SUFFICES ASSUME s # <<>> PROVE root.size < Whole.size
    OBVIOUS
  <2>2. Len(s) \in 1 .. Len(s)
    BY <1>2, <2>1
  <2>3. QED BY <1>1, <2>2, WayUpGrows
<1>7. root.size \in Nat /\ Whole.size \in Nat
  BY <1>1, <1>3, TreeParts DEF NodeOK
<1>8. QED BY <1>1, <1>4, <1>5, <1>6, <1>7

-----------------------------------------------------------------------------
\* The order of the leaves.  Before a tree is hashed its inner nodes are dirty
\* and have no hash, so that only two leaves can have been exchanged.

RegularNode(m) == m.sub # <<>> => is_full(Older(m)) /\ Older(m).height = m.height - 1
Regular(n) == \A m \in NodesOf(n) : RegularNode(m)

FreshNode(m, straight) ==
    m.sub # <<>> =>
        IF straight THEN ~m.swapped
        ELSE /\ m.dirty /\ m.hash = 0
             /\ m.swapped => m.sub[1].sub = <<>> /\ m.sub[2].sub = <<>> /\ m.sub[1].hash <= m.sub[2].hash
Fresh(n, straight) == \A m \in NodesOf(n) : FreshNode(m, straight) /\ RegularNode(m)

\* Node by node.
LEMMA RegularParts ==
    ASSUME NEW n, NEW z, IsTree(n, z)
    PROVE  /\ Regular(n) => RegularNode(n)
           /\ n.sub = <<>> => Regular(n)
           /\ n.sub # <<>> =>
                 (Regular(n) <=> RegularNode(n) /\ Regular(n.sub[1]) /\ Regular(n.sub[2]))
<1>1. /\ n.height \in Nat \ {0} /\ Sound(n, z)
  BY DEF IsTree
<1>2. n \in NodesOf(n)
  BY <1>1, NodesHaveRoot
<1>3. n.sub = <<>> => NodesOf(n) = {n}
  BY <1>1, SoundParts
<1>4. n.sub # <<>> => NodesOf(n) = {n} \cup NodesOf(n.sub[1]) \cup NodesOf(n.sub[2])
  BY <1>1, SoundParts
<1>5. Regular(n) => RegularNode(n)
  BY <1>2 DEF Regular
<1>6. n.sub = <<>> => Regular(n)
  BY <1>3 DEF Regular, RegularNode
<1>7. ASSUME n.sub # <<>>
      PROVE  Regular(n) <=> RegularNode(n) /\ Regular(n.sub[1]) /\ Regular(n.sub[2])
  <2>1. \A m : m \in NodesOf(n) <=> m = n \/ m \in NodesOf(n.sub[1]) \/ m \in NodesOf(n.sub[2])
    BY <1>4, <1>7
  <2>2. QED BY <2>1, Zenon DEF Regular
<1>8. QED BY <1>5, <1>6, <1>7

\* The same of fresh trees.
LEMMA FreshParts ==
    ASSUME NEW straight \in BOOLEAN, NEW n, NEW z, IsTree(n, z)
    PROVE  /\ Fresh(n, straight) => FreshNode(n, straight) /\ RegularNode(n) /\ Regular(n)
           /\ n.sub = <<>> => Fresh(n, straight)
           /\ n.sub # <<>> =>
                 (Fresh(n, straight) <=> FreshNode(n, straight) /\ RegularNode(n) /\ Fresh(n.sub[1], straight) /\ Fresh(n.sub[2], straight))
<1>1. /\ n.height \in Nat \ {0} /\ Sound(n, z)
  BY DEF IsTree
<1>2. n \in NodesOf(n)
  BY <1>1, NodesHaveRoot
<1>3. n.sub = <<>> => NodesOf(n) = {n}
  BY <1>1, SoundParts
<1>4. n.sub # <<>> => NodesOf(n) = {n} \cup NodesOf(n.sub[1]) \cup NodesOf(n.sub[2])
  BY <1>1, SoundParts
<1>5. Fresh(n, straight) => FreshNode(n, straight) /\ RegularNode(n) /\ Regular(n)
  BY <1>2 DEF Fresh, Regular
<1>6. n.sub = <<>> => Fresh(n, straight)
  BY <1>3 DEF Fresh, FreshNode, RegularNode
<1>7. ASSUME n.sub # <<>>
      PROVE  Fresh(n, straight) <=> FreshNode(n, straight) /\ RegularNode(n) /\ Fresh(n.sub[1], straight) /\ Fresh(n.sub[2], straight)
  <2>1. \A m : m \in NodesOf(n) <=> m = n \/ m \in NodesOf(n.sub[1]) \/ m \in NodesOf(n.sub[2])
    BY <1>4, <1>7
  <2>2. QED BY <2>1, Zenon DEF Fresh
<1>8. QED BY <1>5, <1>6, <1>7

\* The two children, in the order in which they came.
LEMMA AgesAreSides ==
    ASSUME NEW n, NEW z, NodeOK(n, z), n.sub # <<>>
    PROVE  /\ n.swapped \in BOOLEAN
           /\ n.swapped => Older(n) = n.sub[2] /\ Younger(n) = n.sub[1]
           /\ ~n.swapped => Older(n) = n.sub[1] /\ Younger(n) = n.sub[2]
<1>1. n.swapped \in BOOLEAN
  BY DEF NodeOK
<1>2. n.swapped => Older(n) = n.sub[2] /\ Younger(n) = n.sub[1]
  BY DEF Older, Younger
<1>3. ~n.swapped => Older(n) = n.sub[1] /\ Younger(n) = n.sub[2]
  BY DEF Older, Younger
<1>4. QED BY <1>1, <1>2, <1>3

\* The leaves of a tree: one more than inner nodes.
LEMMA ListingParts ==
    ASSUME NEW n, NEW z, IsTree(n, z)
    PROVE  /\ n.sub = <<>> => Listing(n) = <<n.hash>>
           /\ n.sub # <<>> =>
                 /\ IsTree(Older(n), z) /\ IsTree(Younger(n), z)
                 /\ n.size = Older(n).size + Younger(n).size + 1
                 /\ n.height = Larger(Older(n).height, Younger(n).height) + 1
                 /\ Listing(n) = Listing(Older(n)) \o Listing(Younger(n))
<1>1. n.height \in Nat \ {0} /\ Sound(n, z) /\ NodeOK(n, z)
  BY TreeParts DEF IsTree
<1>2. Listing(n) = IF n.sub = <<>> THEN <<n.hash>> ELSE Listing(Older(n)) \o Listing(Younger(n))
  BY <1>1, ListingLaw
<1>3. ASSUME n.sub # <<>>
      PROVE  /\ IsTree(Older(n), z) /\ IsTree(Younger(n), z)
             /\ n.size = Older(n).size + Younger(n).size + 1
             /\ n.height = Larger(Older(n).height, Younger(n).height) + 1
  <2>1. /\ n.size = n.sub[1].size + n.sub[2].size + 1
        /\ n.height = Larger(n.sub[1].height, n.sub[2].height) + 1
        /\ n.sub[1].size \in Nat /\ n.sub[2].size \in Nat
        /\ n.sub[1].height \in Nat /\ n.sub[2].height \in Nat
    BY <1>1, <1>3 DEF NodeOK
  <2>2. IsTree(n.sub[1], z) /\ IsTree(n.sub[2], z)
    BY <1>3, TreeParts
  <2>3. CASE n.swapped
    <3>1. Older(n) = n.sub[2] /\ Younger(n) = n.sub[1]
      BY <1>1, <1>3, <2>3, AgesAreSides
    <3>2. n.size = n.sub[2].size + n.sub[1].size + 1
          /\ Larger(n.sub[1].height, n.sub[2].height) = Larger(n.sub[2].height, n.sub[1].height)
      BY <2>1 DEF Larger
    <3>3. QED BY <2>1, <2>2, <3>1, <3>2
  <2>4. CASE ~n.swapped
    <3>1. Older(n) = n.sub[1] /\ Younger(n) = n.sub[2]
      BY <1>1, <1>3, <2>4, AgesAreSides
    <3>2. QED BY <2>1, <2>2, <3>1
  <2>5. QED BY <2>3, <2>4
<1>4. QED BY <1>2, <1>3

\* The leaves of a tree are leaf hashes, and its size is twice their number less one.
LEMMA ListingCounts ==
    ASSUME NEW n, NEW z, IsTree(n, z)
    PROVE  Listing(n) \in Seq(LeafHashes) /\ n.size = 2 * Len(Listing(n)) - 1
<1> DEFINE S == {m \in NodesOf(n) : Listing(m) \in Seq(LeafHashes) /\ m.size = 2 * Len(Listing(m)) - 1}
<1>1. ASSUME NEW m, IsTree(m, z), m \in NodesOf(n),
             m.sub # <<>> => m.sub[1] \in S /\ m.sub[2] \in S
      PROVE  m \in S
  <2>1. NodeOK(m, z)
    BY <1>1, TreeParts
  <2>2. CASE m.sub = <<>>
    <3>1. Listing(m) = <<m.hash>>
      BY <1>1, <2>2, ListingParts
    <3>2. m.hash \in LeafHashes /\ m.size = 1
      BY <2>1, <2>2 DEF NodeOK, MakeLeaf
    <3>3. Listing(m) \in Seq(LeafHashes) /\ Len(Listing(m)) = 1
      BY <3>1, <3>2
    <3>4. m.size = 2 * Len(Listing(m)) - 1
      BY <3>2, <3>3
    <3>5. QED BY <1>1, <3>3, <3>4
  <2>3. CASE m.sub # <<>>
    <3> DEFINE o == Older(m)
               y == Younger(m)
    <3>1. o \in S /\ y \in S
      BY <1>1, <2>1, <2>3, AgesAreSides
    <3>2. m.size = o.size + y.size + 1 /\ Listing(m) = Listing(o) \o Listing(y)
      BY <1>1, <2>3, ListingParts
    <3> HIDE DEF o, y
    <3>3. /\ Listing(o) \in Seq(LeafHashes) /\ o.size = 2 * Len(Listing(o)) - 1
          /\ Listing(y) \in Seq(LeafHashes) /\ y.size = 2 * Len(Listing(y)) - 1
      BY <3>1
    <3>4. /\ Listing(m) \in Seq(LeafHashes)
          /\ Len(Listing(m)) = Len(Listing(o)) + Len(Listing(y))
      BY <3>2, <3>3
    <3>5. Len(Listing(o)) \in Nat /\ Len(Listing(y)) \in Nat
      BY <3>3
    <3>6. m.size = 2 * Len(Listing(m)) - 1
      BY <3>2, <3>3, <3>4, <3>5
    <3>7. QED BY <1>1, <3>4, <3>6
  <2>4. QED BY <2>2, <2>3
<1> HIDE DEF S
<1>2. n \in S
  BY <1>1, NodeInduction
<1>3. QED BY <1>2 DEF S

\* Hashing a tree for the first time keeps the ages of its nodes.
LEMMA HashKeepsAges ==
    ASSUME NEW m, salt \in Int, IsTree(m, salt), FreshNode(m, FALSE), m.sub # <<>>
    PROVE  LET u == hash(m) IN
           /\ u.sub # <<>> /\ Older(u) = hash(Older(m)) /\ Younger(u) = hash(Younger(m))
<1> DEFINE l == hash(m.sub[1])
           r == hash(m.sub[2])
           u == Rehashed(m, l, r)
<1>1. m.height \in Nat \ {0} /\ Sound(m, salt) /\ NodeOK(m, salt)
  BY TreeParts DEF IsTree
<1>2. m.dirty
  BY DEF FreshNode
<1>3. hash(m) = u
  BY <1>1, <1>2, HashLaw
<1>4. IsTree(m.sub[1], salt) /\ IsTree(m.sub[2], salt)
  BY TreeParts
<1>5. /\ IsTree(l, salt) /\ IsTree(r, salt) /\ ~l.dirty /\ ~r.dirty
      /\ l.size = m.sub[1].size /\ l.height = m.sub[1].height
      /\ r.size = m.sub[2].size /\ r.height = m.sub[2].height
  BY <1>4, HashIsTree
<1>6. IsTree(u, salt) /\ Settles(u, m, l, r)
  <2> HIDE DEF l, r
  <2>1. QED BY <1>1, <1>5, RehashedIsTree
<1>7. NodeOK(u, salt) /\ u.sub # <<>>
  BY <1>6, TreeParts DEF Settles
<1>8. CASE ~m.swapped
  <2>1. Older(m) = m.sub[1] /\ Younger(m) = m.sub[2]
    BY <1>1, <1>8, AgesAreSides
  <2>2. hash(Older(m)) = l /\ hash(Younger(m)) = r
    BY <2>1
  <2> HIDE DEF l, r, u
  <2>3. u.swapped = (r.hash < l.hash)
    <3>1. u.swapped = (m.swapped \/ r.hash < l.hash) /\ m.swapped = FALSE
      BY <1>1, <1>6, <1>8 DEF Settles, NodeOK
    <3>2. QED BY <3>1
  <2>4. CASE r.hash < l.hash
    <3>1. u.sub = <<r, l>> /\ u.swapped
      BY <1>6, <2>3, <2>4 DEF Settles
    <3>2. Older(u) = l /\ Younger(u) = r
      BY <1>7, <3>1, AgesAreSides
    <3>3. QED BY <1>3, <1>7, <2>2, <3>2
  <2>5. CASE ~(r.hash < l.hash)
    <3>1. u.sub = <<l, r>> /\ ~u.swapped
      BY <1>6, <2>3, <2>5 DEF Settles
    <3>2. Older(u) = l /\ Younger(u) = r
      BY <1>7, <3>1, AgesAreSides
    <3>3. QED BY <1>3, <1>7, <2>2, <3>2
  <2>6. QED BY <2>4, <2>5
<1>9. CASE m.swapped
  <2>1. Older(m) = m.sub[2] /\ Younger(m) = m.sub[1]
    BY <1>1, <1>9, AgesAreSides
  <2>2. hash(Older(m)) = r /\ hash(Younger(m)) = l
    BY <2>1
  <2>3. m.sub[1].sub = <<>> /\ m.sub[2].sub = <<>> /\ m.sub[1].hash <= m.sub[2].hash
    BY <1>9 DEF FreshNode
  <2>4. ~m.sub[1].dirty /\ ~m.sub[2].dirty
    BY <1>4, <2>3, TreeParts DEF NodeOK, MakeLeaf
  <2>5. l = m.sub[1] /\ r = m.sub[2]
    BY <1>4, <2>4, HashLaw DEF IsTree
  <2>6. ~(r.hash < l.hash)
    <3>1. m.sub[1].hash \in Int /\ m.sub[2].hash \in Int
      BY <1>4, TreeParts DEF NodeOK, Hashes
    <3>2. QED BY <2>3, <2>5, <3>1
  <2> HIDE DEF l, r, u
  <2>7. u.sub = <<l, r>> /\ u.swapped
    BY <1>6, <1>9, <2>6 DEF Settles
  <2>8. Older(u) = r /\ Younger(u) = l
    BY <1>7, <2>7, AgesAreSides
  <2>9. QED BY <1>3, <1>7, <2>2, <2>8
<1>10. m.swapped \in BOOLEAN
  BY <1>1 DEF NodeOK
<1>11. QED BY <1>8, <1>9, <1>10

\* Hashing a fresh tree keeps the order of its leaves, whatever is exchanged.
LEMMA HashKeepsOrder ==
    ASSUME NEW n, salt \in Int, IsTree(n, salt), Fresh(n, FALSE)
    PROVE  Regular(hash(n)) /\ Listing(hash(n)) = Listing(n)
<1> DEFINE S == {m \in NodesOf(n) : Regular(hash(m)) /\ Listing(hash(m)) = Listing(m)}
<1>1. ASSUME NEW m, IsTree(m, salt), m \in NodesOf(n),
             m.sub # <<>> => m.sub[1] \in S /\ m.sub[2] \in S
      PROVE  m \in S
  <2>1. m.height \in Nat \ {0} /\ Sound(m, salt) /\ NodeOK(m, salt) /\ FreshNode(m, FALSE) /\ RegularNode(m)
    BY <1>1, TreeParts DEF IsTree, Fresh
  <2>2. CASE m.sub = <<>>
    <3>1. ~m.dirty
      BY <2>1, <2>2 DEF NodeOK, MakeLeaf
    <3>2. hash(m) = m
      BY <2>1, <3>1, HashLaw
    <3>3. Regular(m)
      BY <1>1, <2>2, RegularParts
    <3>4. QED BY <1>1, <3>2, <3>3
  <2>3. CASE m.sub # <<>>
    <3> DEFINE o == Older(m)
               y == Younger(m)
               u == hash(m)
    <3>1. o \in S /\ y \in S
      BY <1>1, <2>1, <2>3, AgesAreSides
    <3>2. u.sub # <<>> /\ Older(u) = hash(o) /\ Younger(u) = hash(y)
      BY <1>1, <2>1, <2>3, HashKeepsAges
    <3>3. IsTree(u, salt) /\ u.height = m.height
      BY <1>1, HashIsTree
    <3>4. IsTree(o, salt) /\ IsTree(y, salt) /\ Listing(m) = Listing(o) \o Listing(y)
      BY <1>1, <2>3, ListingParts
    <3>5. is_full(o) /\ o.height = m.height - 1
      BY <2>1, <2>3 DEF RegularNode
    <3> HIDE DEF o, y, u
    <3>6. hash(o).size = o.size /\ hash(o).height = o.height
      BY <3>4, HashIsTree
    <3>7. RegularNode(u)
      BY <3>2, <3>3, <3>5, <3>6 DEF RegularNode, is_full
    <3>8. Listing(u) = Listing(Older(u)) \o Listing(Younger(u))
      BY <3>2, <3>3, ListingParts
    <3>9. Regular(hash(o)) /\ Listing(hash(o)) = Listing(o) /\ Regular(hash(y)) /\ Listing(hash(y)) = Listing(y)
      BY <3>1
    <3>10. Regular(u.sub[1]) /\ Regular(u.sub[2])
      <4>1. NodeOK(u, salt)
        BY <3>3, TreeParts
      <4>2. QED BY <3>2, <3>9, <4>1, AgesAreSides
    <3>11. Regular(u)
      BY <3>2, <3>3, <3>7, <3>10, RegularParts
    <3>12. Listing(u) = Listing(m)
      BY <3>2, <3>4, <3>8, <3>9
    <3>13. QED BY <1>1, <3>11, <3>12 DEF u
  <2>4. QED BY <2>2, <2>3
<1> HIDE DEF S
<1>2. n \in S
  BY <1>1, NodeInduction
<1>3. QED BY <1>2 DEF S

\* A stack whose elements have a full older child and go on at the other, and
\* nodes that get lower on the way down.
Right(e, straight) ==
    /\ e.side = 2 /\ ~e.n.swapped
    /\ ~straight => e.n.hash = 0
    /\ Fresh(e.n.sub[1], straight) /\ is_full(e.n.sub[1]) /\ e.n.height = e.n.sub[1].height + 1

RightStack(stack, straight) == \A i \in 1 .. Len(stack) : Right(stack[i], straight)

Falls(stack, h) ==
    /\ \A i \in 1 .. Len(stack) - 1 : stack[i + 1].n.height < stack[i].n.height
    /\ Len(stack) # 0 => h < stack[Len(stack)].n.height

\* What an element of such a stack makes of a tree.
Continues(n, o, c, z) ==
    /\ IsTree(n, z) /\ n.sub # <<>> /\ n.dirty /\ n.swapped = FALSE
    /\ n.sub[1] = o /\ n.sub[2] = c /\ Older(n) = o /\ Younger(n) = c
    /\ IsTree(o, z)
    /\ n.height = Larger(o.height, c.height) + 1

\* What is attached on the right of an element is the younger child.
LEMMA AttachAges ==
    ASSUME NEW straight \in BOOLEAN, NEW e, NEW z, Attaches(e, z), Right(e, straight), NEW c, IsTree(c, z)
    PROVE  Continues(Attach(e, c), e.n.sub[1], c, z) /\ Attach(e, c).hash = e.n.hash
<1> DEFINE n == Attach(e, c)
<1>1. IsTree(n, z) /\ Refits(n, e, c)
  BY AttachIsTree
<1>2. e.side = 2 /\ ~e.n.swapped /\ IsTree(e.n, z) /\ e.n.sub # <<>>
  BY DEF Attaches, Right
<1>3. 3 - e.side = 1
  BY <1>2
<1>4. IsTree(e.n.sub[1], z)
  BY <1>2, TreeParts
<1>5. e.n.swapped = FALSE
  BY <1>2, TreeParts DEF NodeOK
<1> HIDE DEF n
<1>6. /\ n.sub = <<e.n.sub[1], c>> /\ n.swapped = FALSE /\ n.hash = e.n.hash /\ n.dirty /\ n.sub # <<>>
      /\ n.height = Larger(e.n.sub[1].height, c.height) + 1
  BY <1>1, <1>2, <1>3, <1>5 DEF Refits
<1>7. n.sub[1] = e.n.sub[1] /\ n.sub[2] = c
  BY <1>6
<1>8. Older(n) = e.n.sub[1] /\ Younger(n) = c
  BY <1>6, <1>7 DEF Older, Younger
<1>9. QED BY <1>1, <1>4, <1>6, <1>7, <1>8 DEF n, Continues

\* Attaching a fresh tree below a right element gives a fresh tree.
LEMMA AttachFresh ==
    ASSUME NEW straight \in BOOLEAN, NEW e, NEW z, Attaches(e, z), Right(e, straight), NEW c, IsTree(c, z), Fresh(c, straight), c.height < e.n.height
    PROVE  Fresh(Attach(e, c), straight) /\ Attach(e, c).height = e.n.height
<1> DEFINE n == Attach(e, c)
           o == e.n.sub[1]
<1>0. Continues(n, o, c, z) /\ n.hash = e.n.hash
  BY AttachAges
<1>1. /\ IsTree(n, z) /\ n.sub # <<>> /\ n.dirty /\ n.swapped = FALSE
      /\ n.sub[1] = o /\ n.sub[2] = c /\ Older(n) = o /\ IsTree(o, z)
      /\ n.height = Larger(o.height, c.height) + 1
  BY <1>0, Zenon DEF Continues
<1>2. /\ Fresh(o, straight) /\ is_full(o) /\ e.n.height = o.height + 1
      /\ ~straight => n.hash = 0
  BY <1>0 DEF Right
<1> HIDE DEF n, o
<1>3. o.height \in Nat /\ c.height \in Nat
  BY <1>1, TreeParts DEF NodeOK
<1>4. n.height = o.height + 1 /\ o.height = n.height - 1
  BY <1>1, <1>2, <1>3 DEF Larger
<1>5. FreshNode(n, straight) /\ RegularNode(n)
  BY <1>1, <1>2, <1>4 DEF FreshNode, RegularNode
<1>6. Fresh(n, straight)
  BY <1>1, <1>2, <1>5, FreshParts
<1>7. QED BY <1>2, <1>4, <1>6 DEF n

\* On the way up a stack like this a fresh tree stays fresh.
LEMMA WayUpFresh ==
    ASSUME NEW straight \in BOOLEAN, NEW stack, NEW z, StackOK(stack, z), RightStack(stack, straight),
           NEW x, IsTree(x, z), Fresh(x, straight), Falls(stack, x.height)
    PROVE  \A d \in 0 .. Len(stack) :
              /\ Fresh(WayUp(stack, x)[d], straight)
              /\ d # 0 => WayUp(stack, x)[d].height = stack[Len(stack) + 1 - d].n.height
<1>1. Len(stack) \in Nat
  BY DEF StackOK
<1> DEFINE up == WayUp(stack, x)
           S == {d \in Nat : d <= Len(stack) =>
                    /\ Fresh(up[d], straight)
                    /\ d # 0 => up[d].height = stack[Len(stack) + 1 - d].n.height}
<1>2. 0 \in S
  BY WayUpTrees
<1>3. ASSUME NEW d \in Nat, d \in S
      PROVE  d + 1 \in S
  <2>1. CASE d + 1 <= Len(stack)
    <3> DEFINE c == up[d]
               k == Len(stack) + 1 - (d + 1)
    <3>1. /\ d + 1 \in 1 .. Len(stack) /\ (d + 1) - 1 = d /\ d \in 0 .. Len(stack)
          /\ d <= Len(stack) /\ k \in 1 .. Len(stack) /\ k = Len(stack) - d
      BY <1>1, <2>1
    <3>2. IsTree(c, z)
      BY <3>1, WayUpTrees
    <3>3. PICK e : Attaches(e, z) /\ e = stack[k] /\ up[d + 1] = Attach(e, c)
      BY <3>1, WayUpStep
    <3>4. Right(e, straight)
      BY <3>1, <3>3 DEF RightStack
    <3>5. Fresh(c, straight) /\ (d # 0 => c.height = stack[Len(stack) + 1 - d].n.height)
      BY <1>3, <3>1
    <3>6. c.height < e.n.height
      <4>1. CASE d = 0
        <5>1. c = x /\ k = Len(stack) /\ Len(stack) # 0
          BY <1>1, <3>1, <4>1, WayUpTrees
        <5>2. x.height < stack[Len(stack)].n.height
          BY <5>1 DEF Falls
        <5>3. QED BY <3>3, <5>1, <5>2
      <4>2. CASE d # 0
        <5>1. k \in 1 .. Len(stack) - 1 /\ Len(stack) + 1 - d = k + 1
          BY <1>1, <3>1, <4>2
        <5>2. stack[k + 1].n.height < stack[k].n.height
          BY <5>1 DEF Falls
        <5>3. QED BY <3>3, <3>5, <4>2, <5>1, <5>2
      <4>3. QED BY <4>1, <4>2
    <3> HIDE DEF c
    <3>7. Fresh(Attach(e, c), straight) /\ Attach(e, c).height = e.n.height
      BY <3>2, <3>3, <3>4, <3>5, <3>6, AttachFresh
    <3>8. Fresh(up[d + 1], straight) /\ up[d + 1].height = stack[k].n.height
      BY <3>3, <3>7
    <3> HIDE DEF up
    <3>9. QED BY <3>8
  <2>2. CASE ~(d + 1 <= Len(stack))
    BY <2>2
  <2>3. QED BY <2>1, <2>2
<1> HIDE DEF S
<1>4. \A d \in Nat : d \in S
  BY <1>2, <1>3, Induction
<1>5. QED BY <1>1, <1>4 DEF S

\* The leaves of one tree are those of another, and t after them.
Follows(x, y, t) == Listing(x) = Listing(y) \o t

\* Leaves that are added below come last above as well.
LEMMA WayUpListing ==
    ASSUME NEW straight \in BOOLEAN, NEW stack, NEW z, StackOK(stack, z), RightStack(stack, straight),
           NEW x, IsTree(x, z), NEW y, IsTree(y, z),
           NEW t, t \in Seq(LeafHashes), Follows(x, y, t)
    PROVE  \A d \in 0 .. Len(stack) : Follows(WayUp(stack, x)[d], WayUp(stack, y)[d], t)
<1>1. Len(stack) \in Nat /\ Listing(x) = Listing(y) \o t
  BY DEF StackOK, Follows
<1> DEFINE S == {d \in Nat : d <= Len(stack) =>
                    Listing(WayUp(stack, x)[d]) = Listing(WayUp(stack, y)[d]) \o t}
<1>2. 0 \in S
  <2>1. WayUp(stack, x)[0] = x /\ WayUp(stack, y)[0] = y
    BY WayUpTrees
  <2>2. QED BY <1>1, <2>1
<1>3. ASSUME NEW d \in Nat, d \in S
      PROVE  d + 1 \in S
  <2>1. CASE d + 1 <= Len(stack)
    <3> DEFINE a == WayUp(stack, x)[d]
               b == WayUp(stack, y)[d]
    <3>1. d + 1 \in 1 .. Len(stack) /\ (d + 1) - 1 = d /\ d \in 0 .. Len(stack) /\ d <= Len(stack)
      BY <1>1, <2>1
    <3>2. IsTree(a, z) /\ IsTree(b, z)
      BY <3>1, WayUpTrees
    <3>3. PICK e : /\ Attaches(e, z) /\ e = stack[Len(stack) + 1 - (d + 1)]
                   /\ \A w : WayUp(stack, w)[d + 1] = Attach(e, WayUp(stack, w)[(d + 1) - 1])
      BY <3>1, WayUpStep
    <3>4. Right(e, straight)
      <4>1. Len(stack) + 1 - (d + 1) \in 1 .. Len(stack)
        BY <1>1, <3>1
      <4>2. QED BY <3>3, <4>1 DEF RightStack
    <3>5. WayUp(stack, x)[d + 1] = Attach(e, a) /\ WayUp(stack, y)[d + 1] = Attach(e, b)
      BY <3>1, <3>3
    <3>6. Listing(a) = Listing(b) \o t
      BY <1>3, <3>1
    <3> HIDE DEF a, b
    <3> DEFINE n == Attach(e, a)
               m == Attach(e, b)
               o == e.n.sub[1]
    <3>7. /\ IsTree(n, z) /\ n.sub # <<>> /\ Older(n) = o /\ Younger(n) = a
          /\ IsTree(m, z) /\ m.sub # <<>> /\ Older(m) = o /\ Younger(m) = b
          /\ IsTree(o, z)
      <4>1. Continues(n, o, a, z) /\ Continues(m, o, b, z)
        BY <3>2, <3>3, <3>4, AttachAges
      <4>2. QED BY <4>1, Zenon DEF Continues
    <3> HIDE DEF n, m, o
    <3>8. Listing(n) = Listing(o) \o Listing(a) /\ Listing(m) = Listing(o) \o Listing(b)
      BY <3>7, ListingParts
    <3>9. Listing(o) \in Seq(LeafHashes) /\ Listing(b) \in Seq(LeafHashes)
      BY <3>2, <3>7, ListingCounts
    <3>10. Listing(o) \o (Listing(b) \o t) = (Listing(o) \o Listing(b)) \o t
      BY <3>9
    <3>11. Listing(n) = Listing(m) \o t
      BY <3>6, <3>8, <3>10
    <3>12. Listing(WayUp(stack, x)[d + 1]) = Listing(WayUp(stack, y)[d + 1]) \o t
      BY <3>5, <3>11 DEF n, m
    <3>13. QED BY <3>12
  <2>2. CASE ~(d + 1 <= Len(stack))
    BY <2>2
  <2>3. QED BY <2>1, <2>2
<1> HIDE DEF S
<1>4. \A d \in Nat : d \in S
  BY <1>2, <1>3, Induction
<1>5. QED BY <1>1, <1>4 DEF S, Follows

\* The node that is made of a full fresh tree and a leaf.
LEMMA MakeFresh ==
    ASSUME NEW straight \in BOOLEAN, NEW f, NEW z, IsTree(f, z), is_full(f), Fresh(f, straight), NEW h \in LeafHashes,
           straight => f.hash < h
    PROVE  LET x == MakeNode(f, MakeLeaf(h)) IN
           Fresh(x, straight) /\ Listing(x) = Listing(f) \o <<h>> /\ x.height = f.height + 1
<1> DEFINE g == MakeLeaf(h)
           x == MakeNode(f, g)
<1>1. IsTree(g, z) /\ g.sub = <<>> /\ g.hash = h /\ g.height = 1 /\ h \in Nat \ {0}
  BY LeafIsTree, HashAssumption DEF MakeLeaf
<1>2. NodeOK(f, z) /\ f.height \in Nat \ {0}
  BY TreeParts DEF NodeOK
<1>3. Listing(g) = <<h>>
  BY <1>1, ListingParts
<1>4. Fresh(g, straight)
  BY <1>1, FreshParts
<1> HIDE DEF g
<1>5. IsTree(x, z) /\ Makes(x, f, g)
  BY <1>1, MakeNodeIsTree
<1> HIDE DEF x
<1>6. /\ x.sub # <<>> /\ Older(x) = f /\ Younger(x) = g /\ x.dirty /\ x.hash = 0
      /\ x.sub = (IF f.hash < g.hash THEN <<f, g>> ELSE <<g, f>>)
      /\ x.swapped = ~(f.hash < g.hash)
      /\ x.height = Larger(f.height, g.height) + 1
  BY <1>5 DEF Makes
<1>7. x.height = f.height + 1
  BY <1>1, <1>2, <1>6 DEF Larger
<1>8. Listing(x) = Listing(f) \o <<h>>
  BY <1>3, <1>5, <1>6, ListingParts
<1>9. RegularNode(x)
  <2>1. f.height = x.height - 1
    BY <1>2, <1>7
  <2>2. QED BY <1>6, <2>1 DEF RegularNode
<1>10. FreshNode(x, straight)
  <2>0. straight => ~x.swapped
    BY <1>1, <1>6
  <2> SUFFICES ASSUME ~straight, x.swapped
               PROVE  x.sub[1].sub = <<>> /\ x.sub[2].sub = <<>> /\ x.sub[1].hash <= x.sub[2].hash
    BY <1>6, <2>0 DEF FreshNode
  <2>1. ~(f.hash < g.hash)
    BY <1>6
  <2>2. x.sub[1] = g /\ x.sub[2] = f
    BY <1>6, <2>1
  <2>3. f.sub = <<>>
    <3>1. SUFFICES ASSUME f.sub # <<>> PROVE FALSE
      OBVIOUS
    <3>2. f.hash = 0
      BY <3>1, FreshParts DEF FreshNode
    <3>3. QED BY <1>1, <2>1, <3>2
  <2>4. g.hash <= f.hash
    <3>1. f.hash \in Int /\ g.hash \in Int
      BY <1>1, <1>2 DEF NodeOK, Hashes
    <3>2. QED BY <2>1, <3>1
  <2>5. QED BY <1>1, <2>2, <2>3, <2>4
<1>11. Fresh(x.sub[1], straight) /\ Fresh(x.sub[2], straight)
  <2>1. (x.sub[1] = f /\ x.sub[2] = g) \/ (x.sub[1] = g /\ x.sub[2] = f)
    BY <1>6
  <2>2. QED BY <1>4, <2>1
<1>12. Fresh(x, straight)
  BY <1>5, <1>6, <1>9, <1>10, <1>11, FreshParts
<1>13. QED BY <1>7, <1>8, <1>12 DEF x, g

\* The way down a fresh tree.
LeadsFresh(way, n, z, straight) ==
    /\ RightStack(way.stack, straight) /\ Fresh(way.full, straight) /\ Falls(way.stack, way.full.height + 1)
    /\ Listing(WayUp(way.stack, way.full)[Len(way.stack)]) = Listing(n)
    /\ is_full(n) => way.stack = <<>> /\ way.full = n
    /\ ~is_full(n) => Len(way.stack) # 0 /\ way.stack[1].n = n

\* A node with a full older child whose other child is full and as high is full.
LEMMA FullNode ==
    ASSUME NEW m, NEW z, NodeOK(m, z), m.sub # <<>>, ~m.swapped,
           is_full(m.sub[1]), m.sub[1].height = m.height - 1, ~is_full(m), is_full(m.sub[2])
    PROVE  m.sub[2].height + 1 < m.height
<1> DEFINE a == m.sub[1].height
           b == m.sub[2].height
<1>1. /\ a \in Nat \ {0} /\ b \in Nat \ {0} /\ m.height \in Nat
      /\ m.height = Larger(a, b) + 1 /\ a = m.height - 1
      /\ m.size = m.sub[1].size + m.sub[2].size + 1
      /\ m.sub[1].size = PowerOfTwo[a] - 1 /\ m.sub[2].size = PowerOfTwo[b] - 1
  BY DEF NodeOK, is_full
<1>2. m.size # PowerOfTwo[m.height] - 1
  BY DEF is_full
<1> HIDE DEF a, b
<1>3. b <= a
  BY <1>1 DEF Larger
<1>4. PowerOfTwo[a + 1] = 2 * PowerOfTwo[a] /\ PowerOfTwo[a] \in Nat
  BY <1>1, Powers, PowerFacts
<1>5. m.height = a + 1
  BY <1>1
<1>6. a # b
  <2>1. SUFFICES ASSUME a = b PROVE FALSE
    OBVIOUS
  <2>2. m.size = (PowerOfTwo[a] - 1) + (PowerOfTwo[a] - 1) + 1
    BY <1>1, <2>1
  <2>3. m.size = PowerOfTwo[a + 1] - 1
    BY <1>4, <2>2
  <2>4. QED BY <1>2, <1>5, <2>3
<1>7. QED BY <1>1, <1>3, <1>5, <1>6 DEF b

\* A stack on a stack of this kind.
LEMMA RightOnRight ==
    ASSUME NEW straight \in BOOLEAN, NEW stack, NEW z, StackOK(stack, z), RightStack(stack, straight),
           NEW more, StackOK(more, z), RightStack(more, straight), NEW h, Falls(more, h),
           Len(more) = 0 => Falls(stack, h),
           Len(more) # 0 => Falls(stack, more[1].n.height)
    PROVE  RightStack(stack \o more, straight) /\ Falls(stack \o more, h)
<1> DEFINE all == stack \o more
           p == Len(stack)
           q == Len(more)
<1>1. /\ Len(all) = p + q /\ p \in Nat /\ q \in Nat
      /\ \A i \in 1 .. p : all[i] = stack[i]
      /\ \A i \in 1 .. q : all[p + i] = more[i]
  <2>1. p \in Nat /\ q \in Nat
    BY DEF StackOK
  <2>2. QED BY <2>1, StackOnStack
<1>2. /\ \A i \in 1 .. p : Right(stack[i], straight)
      /\ \A i \in 1 .. q : Right(more[i], straight)
  BY DEF RightStack
<1>3. /\ \A i \in 1 .. p - 1 : stack[i + 1].n.height < stack[i].n.height
      /\ \A i \in 1 .. q - 1 : more[i + 1].n.height < more[i].n.height
      /\ q # 0 => h < more[q].n.height
      /\ p # 0 /\ q = 0 => h < stack[p].n.height
      /\ p # 0 /\ q # 0 => more[1].n.height < stack[p].n.height
  BY DEF Falls
<1> HIDE DEF all, p, q
<1>4. ASSUME NEW i \in 1 .. p + q
      PROVE  Right(all[i], straight)
  <2>1. CASE i <= p
    BY <1>1, <1>2, <2>1
  <2>2. CASE ~(i <= p)
    <3>1. i - p \in 1 .. q /\ p + (i - p) = i
      BY <1>1, <2>2
    <3>2. all[i] = more[i - p]
      BY <1>1, <3>1
    <3>3. QED BY <1>2, <3>1, <3>2
  <2>3. QED BY <2>1, <2>2
<1>5. ASSUME NEW i \in 1 .. (p + q) - 1
      PROVE  all[i + 1].n.height < all[i].n.height
  <2>1. CASE i < p
    <3>1. i \in 1 .. p - 1 /\ i \in 1 .. p /\ i + 1 \in 1 .. p
      BY <1>1, <2>1
    <3>2. all[i] = stack[i] /\ all[i + 1] = stack[i + 1]
      BY <1>1, <3>1
    <3>3. QED BY <1>3, <3>1, <3>2
  <2>2. CASE i = p
    <3>1. p # 0 /\ q # 0 /\ p \in 1 .. p /\ 1 \in 1 .. q
      BY <1>1, <2>2
    <3>2. all[i] = stack[p] /\ all[i + 1] = more[1]
      BY <1>1, <2>2, <3>1
    <3>3. QED BY <1>3, <3>1, <3>2
  <2>3. CASE i > p
    <3>1. i - p \in 1 .. q - 1 /\ i - p \in 1 .. q /\ (i - p) + 1 \in 1 .. q
          /\ p + (i - p) = i /\ p + ((i - p) + 1) = i + 1
      BY <1>1, <2>3
    <3>2. all[i] = more[i - p] /\ all[i + 1] = more[(i - p) + 1]
      BY <1>1, <3>1
    <3>3. QED BY <1>3, <3>1, <3>2
  <2>4. QED BY <1>1, <2>1, <2>2, <2>3
<1>6. p + q # 0 => h < all[p + q].n.height
  <2>1. CASE q # 0
    <3>1. q \in 1 .. q
      BY <1>1, <2>1
    <3>2. all[p + q] = more[q]
      BY <1>1, <3>1
    <3>3. QED BY <1>3, <2>1, <3>2
  <2>2. CASE q = 0 /\ p # 0
    <3>1. p \in 1 .. p /\ p + q = p
      BY <1>1, <2>2
    <3>2. all[p + q] = stack[p]
      BY <1>1, <3>1
    <3>3. QED BY <1>3, <2>2, <3>2
  <2>3. QED BY <1>1, <2>1, <2>2
<1>7. RightStack(all, straight)
  BY <1>1, <1>4 DEF RightStack
<1>8. Falls(all, h)
  BY <1>1, <1>5, <1>6 DEF Falls
<1>9. QED BY <1>7, <1>8 DEF all

\* The way down a fresh tree is right, and falls down to the full tree.
LEMMA WayDownLeadsFresh ==
    ASSUME NEW straight \in BOOLEAN, NEW n, NEW z, IsTree(n, z), Fresh(n, straight)
    PROVE  LeadsFresh(WayDown(n), n, z, straight)
<1> DEFINE S == {m \in NodesOf(n) : LeadsFresh(WayDown(m), m, z, straight)}
<1>1. ASSUME NEW m, IsTree(m, z), m \in NodesOf(n),
             m.sub # <<>> => m.sub[1] \in S /\ m.sub[2] \in S
      PROVE  m \in S
  <2>1. m.height \in Nat \ {0} /\ Sound(m, z) /\ NodeOK(m, z) /\ FreshNode(m, straight) /\ RegularNode(m)
    BY <1>1, TreeParts DEF IsTree, Fresh
  <2>2. Fresh(m, straight)
    <3>1. NodesOf(m) \subseteq NodesOf(n)
      BY <1>1, SoundBelow DEF IsTree
    <3>2. QED BY <3>1 DEF Fresh
  <2>3. CASE is_full(m)
    <3>1. WayDown(m) = [stack |-> <<>>, full |-> m]
      BY <2>1, <2>3, WayDownLaw
    <3> DEFINE way == WayDown(m)
    <3>2. way.stack = <<>> /\ way.full = m
      BY <3>1
    <3>3. Len(<<>>) = 0 /\ WayUp(<<>>, m)[0] = m
      BY WayUpUnfolds
    <3>4. RightStack(<<>>, straight) /\ Falls(<<>>, m.height + 1)
      BY <3>3 DEF RightStack, Falls
    <3> HIDE DEF way
    <3>5. LeadsFresh(way, m, z, straight)
      BY <2>2, <2>3, <3>2, <3>3, <3>4 DEF LeadsFresh
    <3>6. QED BY <1>1, <3>5 DEF way
  <2>4. CASE ~is_full(m)
    <3>1. m.sub # <<>>
      <4>1. ASSUME m.sub = <<>>
            PROVE  is_full(m)
        BY <2>1, <4>1, FirstPowers DEF NodeOK, MakeLeaf, is_full
      <4>2. QED BY <2>4, <4>1
    <3>2. ~m.swapped
      <4>1. SUFFICES ASSUME m.swapped PROVE FALSE
        OBVIOUS
      <4>2. m.sub[1].sub = <<>> /\ m.sub[2].sub = <<>>
        BY <2>1, <3>1, <4>1 DEF FreshNode
      <4>3. NodeOK(m.sub[1], z) /\ NodeOK(m.sub[2], z)
        BY <1>1, <3>1, TreeParts
      <4>4. m.sub[1].size = 1 /\ m.sub[1].height = 1 /\ m.sub[2].size = 1 /\ m.sub[2].height = 1
        BY <4>2, <4>3 DEF NodeOK, MakeLeaf
      <4>5. m.size = 3 /\ m.height = 2
        BY <2>1, <3>1, <4>4 DEF NodeOK, Larger
      <4>6. QED BY <2>4, <4>5, FirstPowers DEF is_full
    <3>3. Older(m) = m.sub[1] /\ Younger(m) = m.sub[2]
      BY <2>1, <3>1, <3>2, AgesAreSides
    <3>4. is_full(m.sub[1]) /\ m.sub[1].height = m.height - 1
      BY <2>1, <3>1, <3>3 DEF RegularNode
    <3>5. Side(m) = 2
      BY <3>4 DEF Side
    <3> DEFINE c == m.sub[2]
               rest == WayDown(c)
               e == [n |-> m, side |-> 2]
               w == rest.stack
               f == rest.full
               stack == <<e>> \o w
               up == WayUp(stack, f)
               way == WayDown(m)
    <3>6. way = Descended(m, rest)
      BY <2>1, <2>4, <3>5, WayDownLaw
    <3>7. way.stack = stack /\ way.full = f
      BY <3>5, <3>6 DEF Descended
    <3>8. LeadsFresh(rest, c, z, straight) /\ IsTree(c, z) /\ Leads(rest, c, z)
      BY <1>1, <3>1, TreeParts, WayDownLeads
    <3>9. Fresh(m.sub[1], straight)
      BY <1>1, <2>2, <3>1, FreshParts
    <3>10. e.side = 2 /\ e.n = m
      OBVIOUS
    <3>11. m.sub[1].height + 1 = m.height
      BY <2>1, <3>4 DEF NodeOK
    <3>12. ~straight => m.hash = 0
      BY <2>1, <3>1 DEF FreshNode
    <3>13. c.height < m.height /\ (is_full(c) => c.height + 1 < m.height) /\ c.height \in Nat
      <4>1. is_full(c) => c.height + 1 < m.height
        BY <2>1, <2>4, <3>1, <3>2, <3>4, FullNode
      <4>2. /\ m.sub[1].height \in Nat /\ c.height \in Nat
            /\ m.height = Larger(m.sub[1].height, c.height) + 1
        BY <2>1, <3>1 DEF NodeOK
      <4>3. c.height < m.height
        BY <4>2 DEF Larger
      <4>4. QED BY <4>1, <4>2, <4>3
    <3>14. IsTree(m.sub[1], z)
      BY <1>1, <3>1, TreeParts
    <3> HIDE DEF c, rest, way
    <3>15. /\ RightStack(w, straight) /\ Fresh(f, straight) /\ Falls(w, f.height + 1)
           /\ Listing(WayUp(w, f)[Len(w)]) = Listing(c)
           /\ is_full(c) => w = <<>> /\ f = c
           /\ ~is_full(c) => Len(w) # 0 /\ w[1].n = c
           /\ StackOK(w, z) /\ IsTree(f, z)
      BY <3>8 DEF LeadsFresh, Leads
    <3> HIDE DEF e, w, f
    <3>16. /\ StackOK(<<e>>, z) /\ Len(<<e>>) = 1 /\ <<e>>[1] = e /\ Len(w) \in Nat
      <4>1. e.side \in {1, 2} /\ IsTree(e.n, z) /\ e.n.sub # <<>>
        BY <1>1, <3>1, <3>10
      <4>2. StackOK(<<e>>, z)
        BY <4>1, OneOnStack
      <4>3. Len(w) \in Nat
        BY <3>15 DEF StackOK
      <4>4. QED BY <4>2, <4>3
    <3>17. Right(e, straight)
      BY <3>2, <3>4, <3>9, <3>10, <3>11, <3>12 DEF Right
    <3>18. RightStack(<<e>>, straight)
      BY <3>16, <3>17 DEF RightStack
    <3>19. Len(w) = 0 => Falls(<<e>>, f.height + 1)
      <4>1. SUFFICES ASSUME Len(w) = 0 PROVE Falls(<<e>>, f.height + 1)
        OBVIOUS
      <4>2. is_full(c) /\ f = c
        BY <3>15, <4>1
      <4>3. f.height + 1 < e.n.height
        BY <3>10, <3>13, <4>2
      <4>4. QED BY <3>16, <4>3 DEF Falls
    <3>20. Len(w) # 0 => Falls(<<e>>, w[1].n.height)
      <4>1. SUFFICES ASSUME Len(w) # 0 PROVE Falls(<<e>>, w[1].n.height)
        OBVIOUS
      <4>2. w[1].n = c
        <5>1. Len(<<>>) = 0
          OBVIOUS
        <5>2. QED BY <3>15, <4>1, <5>1
      <4>3. w[1].n.height < e.n.height
        BY <3>10, <3>13, <4>2
      <4>4. QED BY <3>16, <4>3 DEF Falls
    <3>21. RightStack(stack, straight) /\ Falls(stack, f.height + 1)
      BY <3>15, <3>16, <3>18, <3>19, <3>20, RightOnRight
    <3>22. /\ StackOK(stack, z) /\ Len(stack) = 1 + Len(w) /\ stack[1] = e
           /\ \A i \in 1 .. Len(w) : w[i] = stack[1 + i]
      <4>1. 1 \in 1 .. Len(<<e>>)
        BY <3>16
      <4>2. QED BY <3>15, <3>16, <4>1, StackOnStack
    <3> HIDE DEF stack
    <3>23. up[Len(w)] = WayUp(w, f)[Len(w)]
      <4>1. Ends(w, stack, 1)
        BY <3>16, <3>22 DEF Ends
      <4>2. Len(w) \in 0 .. Len(w)
        BY <3>16
      <4>3. QED BY <4>1, <4>2, WayUpBelow
    <3>24. up[Len(stack)] = Attach(e, up[Len(w)])
      <4>1. Len(stack) \in 1 .. Len(stack) /\ Len(stack) - 1 = Len(w) /\ Len(stack) + 1 - Len(stack) = 1
            /\ Len(stack) \in Nat
        BY <3>16, <3>22
      <4>2. \A k \in 1 .. Len(stack) : up[k] = Attach(stack[Len(stack) + 1 - k], up[k - 1])
        BY ONLY <4>1, WayUpSteps
      <4> HIDE DEF up
      <4>3. up[Len(stack)] = Attach(stack[Len(stack) + 1 - Len(stack)], up[Len(stack) - 1])
        BY <4>1, <4>2, Zenon
      <4>4. QED BY <3>22, <4>1, <4>3
    <3> DEFINE below == up[Len(w)]
    <3>25. IsTree(below, z)
      <4>1. Len(w) \in 0 .. Len(stack)
        BY <3>16, <3>22
      <4>2. QED BY <3>15, <3>22, <4>1, WayUpTrees
    <3>26. Listing(below) = Listing(c)
      BY <3>15, <3>23
    <3> HIDE DEF up
    <3>27. Attaches(e, z)
      <4>1. 3 - e.side = 1 /\ e.side \in {1, 2}
        BY <3>10
      <4>2. IsTree(e.n.sub[3 - e.side], z)
        BY <3>10, <3>14, <4>1
      <4>3. QED BY <1>1, <3>1, <3>10, <4>1, <4>2 DEF Attaches
    <3> DEFINE a == Attach(e, below)
               o == e.n.sub[1]
    <3> HIDE DEF below
    <3>28. Continues(a, o, below, z)
      BY <3>17, <3>25, <3>27, AttachAges
    <3> HIDE DEF a, o
    <3>29. Listing(a) = Listing(o) \o Listing(below)
      BY <3>28, ListingParts DEF Continues
    <3>30. Listing(m) = Listing(m.sub[1]) \o Listing(c)
      BY <1>1, <3>1, <3>3, ListingParts DEF c
    <3>31. Listing(up[Len(stack)]) = Listing(m)
      BY <3>10, <3>24, <3>26, <3>29, <3>30 DEF a, o, below
    <3>32. Len(stack) # 0 /\ stack[1].n = m
      BY <3>10, <3>16, <3>22
    <3>33. LeadsFresh(way, m, z, straight)
      BY <2>4, <3>7, <3>15, <3>21, <3>31, <3>32 DEF LeadsFresh, up
    <3>34. QED BY <1>1, <3>33 DEF way
  <2>5. QED BY <2>3, <2>4
<1> HIDE DEF S
<1>2. n \in S
  BY <1>1, NodeInduction
<1>3. QED BY <1>2 DEF S

\* A tree that has not been hashed, or is one leaf: fresh, with a stack like
\* that, and with its leaves in the order of leaf_nodes.
FirstBatch(at, leaves, straight) ==
    /\ Fresh(at.root, straight) /\ RightStack(at.stack, straight) /\ Falls(at.stack, at.root.height)
    /\ at.stack # <<>> => ~is_full(at.root)
    /\ Listing(Completed(at)) = leaves

\* A leaf more comes last.
LEMMA InsertLeafFirst ==
    ASSUME NEW straight \in BOOLEAN, NEW at, NEW z, AtOK(at, z), NEW h \in LeafHashes, NEW leaves,
           FirstBatch(at, leaves, straight), straight => WayDown(at.root).full.hash < h
    PROVE  FirstBatch(insert_leaf(at, MakeLeaf(h)), leaves \o <<h>>, straight)
<1> DEFINE after == insert_leaf(at, MakeLeaf(h))
           s == at.stack
           t == at.root
           way == WayDown(t)
           w == way.stack
           f == way.full
<1>1. StackOK(s, z) /\ IsTree(t, z)
  BY DEF AtOK
<1>2. /\ Fresh(t, straight) /\ RightStack(s, straight) /\ Falls(s, t.height)
      /\ s # <<>> => ~is_full(t)
      /\ Listing(Completed(at)) = leaves
  BY DEF FirstBatch
<1>3. Leads(way, t, z) /\ LeadsFresh(way, t, z, straight)
  BY <1>1, <1>2, WayDownLeads, WayDownLeadsFresh
<1>4. PICK stack, x, end : Inserts(at, h, z, stack, x, end)
  BY InsertStep
<1>5. Completed(at) = WayUp(s, t)[Len(s)]
  BY <1>1, CompletedIs
<1>6. /\ stack = s \o w
      /\ x = MakeNode(f, MakeLeaf(h))
      /\ StackOK(stack, z) /\ IsTree(x, z) /\ end \in 0 .. Len(stack)
      /\ after = [stack |-> SubSeq(stack, 1, Len(stack) - end), root |-> WayUp(stack, x)[end]]
      /\ end = Len(stack) \/ ~is_full(WayUp(stack, x)[end])
  BY <1>4 DEF Inserts
<1>0. straight => f.hash < h
  OBVIOUS
<1> HIDE DEF s, t, way, after
<1>7. /\ StackOK(w, z) /\ IsTree(f, z) /\ is_full(f)
      /\ RightStack(w, straight) /\ Fresh(f, straight) /\ Falls(w, f.height + 1)
      /\ Listing(WayUp(w, f)[Len(w)]) = Listing(t)
      /\ is_full(t) => w = <<>> /\ f = t
      /\ ~is_full(t) => Len(w) # 0 /\ w[1].n = t
  BY <1>3 DEF Leads, LeadsFresh
<1> HIDE DEF w, f
<1>8. Fresh(x, straight) /\ Listing(x) = Listing(f) \o <<h>> /\ x.height = f.height + 1
  BY <1>0, <1>6, <1>7, MakeFresh
<1>9. RightStack(stack, straight) /\ Falls(stack, x.height)
  <2>1. Len(w) = 0 => Falls(s, f.height + 1)
    <3>1. SUFFICES ASSUME Len(w) = 0 PROVE Falls(s, f.height + 1)
      OBVIOUS
    <3>2. Len(s) = 0
      <4>1. is_full(t)
        BY <1>7, <3>1
      <4>2. s = <<>>
        BY <1>2, <4>1
      <4>3. QED BY <4>2
    <3>3. QED BY <3>2 DEF Falls
  <2>2. Len(w) # 0 => Falls(s, w[1].n.height)
    <3>1. SUFFICES ASSUME Len(w) # 0 PROVE Falls(s, w[1].n.height)
      OBVIOUS
    <3>2. w[1].n = t
      <4>1. Len(<<>>) = 0
        OBVIOUS
      <4>2. QED BY <1>7, <3>1, <4>1
    <3>3. QED BY <1>2, <3>2
  <2>3. RightStack(s \o w, straight) /\ Falls(s \o w, f.height + 1)
    BY <1>1, <1>2, <1>7, <2>1, <2>2, RightOnRight
  <2>4. QED BY <1>6, <1>8, <2>3
<1> DEFINE up == WayUp(stack, x)
           first == SubSeq(stack, 1, Len(stack) - end)
<1>10. Len(stack) \in Nat /\ end \in 0 .. Len(stack)
  BY <1>6 DEF StackOK
<1>11. /\ Fresh(up[end], straight)
       /\ end # 0 => up[end].height = stack[Len(stack) + 1 - end].n.height
  <2>1. StackOK(stack, z) /\ IsTree(x, z) /\ Fresh(x, straight)
        /\ RightStack(stack, straight) /\ Falls(stack, x.height)
    BY <1>6, <1>8, <1>9
  <2>2. straight \in BOOLEAN
    OBVIOUS
  <2>3. \A d \in 0 .. Len(stack) :
           /\ Fresh(WayUp(stack, x)[d], straight)
           /\ d # 0 => WayUp(stack, x)[d].height = stack[Len(stack) + 1 - d].n.height
    BY ONLY <2>1, <2>2, WayUpFresh
  <2>4. QED BY <1>10, <2>3
<1>12. /\ StackOK(first, z) /\ Len(first) = Len(stack) - end
       /\ \A i \in 1 .. Len(first) : first[i] = stack[i]
  BY <1>6, <1>10, StackParts
<1> HIDE DEF first
<1>13. RightStack(first, straight)
  <2>1. \A i \in 1 .. Len(first) : i \in 1 .. Len(stack)
    BY <1>10, <1>12
  <2>2. QED BY <1>9, <1>12, <2>1 DEF RightStack
<1>14. Falls(first, up[end].height)
  <2> DEFINE l == Len(first)
  <2>1. l \in Nat /\ l = Len(stack) - end /\ \A i \in 1 .. l : first[i] = stack[i]
    BY <1>10, <1>12
  <2>2. ASSUME NEW i \in 1 .. l - 1
        PROVE  first[i + 1].n.height < first[i].n.height
    <3>1. i \in 1 .. l /\ i + 1 \in 1 .. l /\ i \in 1 .. Len(stack) - 1
      BY <1>10, <2>1
    <3>2. first[i] = stack[i] /\ first[i + 1] = stack[i + 1]
      BY <2>1, <3>1
    <3>3. stack[i + 1].n.height < stack[i].n.height
      BY <1>9, <3>1 DEF Falls
    <3>4. QED BY <3>2, <3>3
  <2>3. ASSUME l # 0
        PROVE  up[end].height < first[l].n.height
    <3>1. l \in 1 .. l /\ first[l] = stack[l]
      BY <2>1, <2>3
    <3>2. CASE end = 0
      <4>1. up[end] = x /\ l = Len(stack)
        BY <1>6, <1>10, <2>1, <3>2, WayUpTrees
      <4>2. x.height < stack[Len(stack)].n.height
        BY <1>9, <2>3, <4>1 DEF Falls
      <4>3. QED BY <3>1, <4>1, <4>2
    <3>3. CASE end # 0
      <4>1. up[end].height = stack[Len(stack) + 1 - end].n.height
        BY <1>11, <3>3
      <4>2. Len(stack) + 1 - end = l + 1 /\ l \in 1 .. Len(stack) - 1
        BY <1>10, <2>1, <2>3, <3>3
      <4>3. stack[l + 1].n.height < stack[l].n.height
        BY <1>9, <4>2 DEF Falls
      <4>4. QED BY <3>1, <4>1, <4>2, <4>3
    <3>4. QED BY <3>2, <3>3
  <2> HIDE DEF l
  <2>4. QED BY <2>2, <2>3 DEF Falls, l
<1>15. first # <<>> => ~is_full(up[end])
  <2>1. SUFFICES ASSUME first # <<>>, end = Len(stack) PROVE FALSE
    BY <1>6
  <2>2. Len(first) = 0
    BY <1>10, <1>12, <2>1
  <2>3. PICK E : first \in Seq(E)
    BY <1>12 DEF StackOK
  <2>4. QED BY <2>1, <2>2, <2>3
<1>16. x.dirty
  <2>1. IsTree(MakeLeaf(h), z)
    BY LeafIsTree
  <2>2. QED BY <1>6, <1>7, <2>1, MakeNodeIsTree DEF Makes
<1>17. Completed(after) = up[Len(stack)]
  BY <1>6, <1>10, <1>16, EndsCompletely
<1>18. Listing(up[Len(stack)]) = leaves \o <<h>>
  <2>1. /\ Len(stack) = Len(s) + Len(w)
        /\ Len(s) \in Nat /\ Len(w) \in Nat
        /\ \A i \in 1 .. Len(s) : s[i] = stack[i]
        /\ \A i \in 1 .. Len(w) : w[i] = stack[Len(s) + i]
    <3>1. Len(s) \in Nat /\ Len(w) \in Nat
      BY <1>1, <1>7 DEF StackOK
    <3>2. QED BY <1>1, <1>6, <1>7, <3>1, StackOnStack
  <2> DEFINE a == WayUp(w, x)[Len(w)]
             b == WayUp(w, f)[Len(w)]
  <2>2. Len(w) \in 0 .. Len(w) /\ Len(s) \in 0 .. Len(s)
    BY <2>1
  <2>3. <<h>> \in Seq(LeafHashes)
    OBVIOUS
  <2>4. IsTree(a, z) /\ IsTree(b, z) /\ Listing(a) = Listing(b) \o <<h>>
    <3>1. IsTree(a, z) /\ IsTree(b, z)
      BY <1>6, <1>7, <2>2, WayUpTrees
    <3> DEFINE u == <<h>>
    <3>2. u \in Seq(LeafHashes)
      BY <2>3
    <3> HIDE DEF u
    <3>3. Follows(x, f, u)
      BY <1>8 DEF u, Follows
    <3>4. StackOK(w, z) /\ RightStack(w, straight) /\ IsTree(x, z) /\ IsTree(f, z)
      BY <1>6, <1>7
    <3>5. \A d \in 0 .. Len(w) : Follows(WayUp(w, x)[d], WayUp(w, f)[d], u)
      BY ONLY <3>2, <3>3, <3>4, WayUpListing
    <3>6. Listing(a) = Listing(b) \o u
      BY <2>2, <3>5 DEF a, b, Follows
    <3>7. QED BY <3>1, <3>6 DEF u
  <2>5. up[Len(stack)] = WayUp(s, a)[Len(s)]
    <3>1. Ends(w, stack, Len(s)) /\ Tops(s, stack, Len(w))
      BY <1>10, <2>1 DEF Ends, Tops
    <3>2. a = WayUp(stack, x)[Len(w)]
      BY <2>2, <3>1, WayUpBelow
    <3>3. WayUp(s, WayUp(stack, x)[Len(w)])[Len(s)] = WayUp(stack, x)[Len(stack)]
      BY <3>1, WayUpTop
    <3> HIDE DEF a
    <3>4. QED BY <3>2, <3>3
  <2> HIDE DEF a
  <2>6. Listing(a) = Listing(t) \o <<h>>
    BY <1>7, <2>4
  <2>7. Listing(WayUp(s, a)[Len(s)]) = Listing(WayUp(s, t)[Len(s)]) \o <<h>>
    <3> DEFINE u == <<h>>
    <3>1. u \in Seq(LeafHashes)
      BY <2>3
    <3> HIDE DEF u
    <3>2. Follows(a, t, u)
      BY <2>6 DEF u, Follows
    <3>3. StackOK(s, z) /\ RightStack(s, straight) /\ IsTree(a, z) /\ IsTree(t, z)
      BY <1>1, <1>2, <2>4
    <3>4. \A d \in 0 .. Len(s) : Follows(WayUp(s, a)[d], WayUp(s, t)[d], u)
      BY ONLY <3>1, <3>2, <3>3, WayUpListing
    <3>5. Listing(WayUp(s, a)[Len(s)]) = Listing(WayUp(s, t)[Len(s)]) \o u
      BY <2>2, <3>4 DEF Follows
    <3>6. QED BY <3>5 DEF u
  <2>8. QED BY <1>2, <1>5, <2>5, <2>7
<1> HIDE DEF up
<1>19. after.stack = first /\ after.root = up[end]
  BY <1>6 DEF first, up
<1>20. FirstBatch(after, leaves \o <<h>>, straight)
  BY <1>11, <1>13, <1>14, <1>15, <1>17, <1>18, <1>19 DEF FirstBatch
<1>21. QED BY <1>20 DEF after

\* With the first leaf, too.
Begins(at, leaves, straight) ==
    leaves # <<>> /\ (straight => Straight(Completed(at))) => FirstBatch(at, leaves, straight)

\* The first leaf of all.
LEMMA LeafIsFirst ==
    ASSUME NEW straight \in BOOLEAN, NEW at, at = [stack |-> <<>>, root |-> at.root], NEW h \in LeafHashes, at.root = MakeLeaf(h)
    PROVE  FirstBatch(at, <<h>>, straight)
<1> DEFINE g == MakeLeaf(h)
<1>1. at.stack = <<>> /\ at.root = g
  <2>1. at.stack = [stack |-> <<>>, root |-> at.root].stack
    BY Zenon
  <2>2. QED BY <2>1
<1>2. IsTree(g, 0) /\ g.sub = <<>> /\ g.hash = h
  BY LeafIsTree DEF MakeLeaf
<1>3. Listing(g) = <<h>> /\ Fresh(g, straight)
  BY <1>2, ListingParts, FreshParts
<1> HIDE DEF g
<1>4. Len(<<>>) = 0 /\ WayUp(<<>>, g)[0] = g
  BY WayUpUnfolds
<1>5. Completed(at) = g
  BY <1>1, <1>4, EmptyStack, CompletedIs
<1>6. RightStack(<<>>, straight) /\ Falls(<<>>, g.height)
  BY <1>4 DEF RightStack, Falls
<1>7. QED BY <1>1, <1>3, <1>5, <1>6 DEF FirstBatch

\* Many leaves come last in the order in which they are inserted.
LEMMA InsertLeavesBegin ==
    ASSUME NEW straight \in BOOLEAN, NEW at, NEW z, NEW leaves \in Seq(LeafHashes), Keeps(at, z, Len(leaves)),
           Begins(at, leaves, straight), NEW hashes \in Seq(LeafHashes)
    PROVE  Begins(insert_leaves(at, hashes), leaves \o hashes, straight)
<1> DEFINE n == Len(hashes)
           c == Len(leaves)
<1>1. n \in Nat /\ c \in Nat /\ \A k \in 1 .. n : hashes[k] \in LeafHashes
  OBVIOUS
<1>2. PICK f : /\ insert_leaves(at, hashes) = f[n]
               /\ f[0] = at
               /\ \A k \in 1 .. n : f[k] = insert_leaf(f[k - 1], MakeLeaf(hashes[k]))
  BY <1>1, InsertUnfolds
<1> DEFINE so(k) == leaves \o SubSeq(hashes, 1, k)
           S == {k \in Nat : k <= n => Keeps(f[k], z, c + k) /\ Begins(f[k], so(k), straight)}
<1>3. \A k \in 0 .. n : so(k) \in Seq(LeafHashes) /\ Len(so(k)) = c + k
  BY <1>1
<1>4. so(0) = leaves /\ so(n) = leaves \o hashes
  <2>1. SubSeq(hashes, 1, 0) = <<>> /\ SubSeq(hashes, 1, n) = hashes
    OBVIOUS
  <2>2. leaves \o <<>> = leaves
    OBVIOUS
  <2>3. QED BY <2>1, <2>2
<1>5. \A k \in 1 .. n : so(k) = so(k - 1) \o <<hashes[k]>>
  <2> SUFFICES ASSUME NEW k \in 1 .. n PROVE so(k) = so(k - 1) \o <<hashes[k]>>
    OBVIOUS
  <2>1. SubSeq(hashes, 1, k) = SubSeq(hashes, 1, k - 1) \o <<hashes[k]>>
    BY <1>1
  <2>2. SubSeq(hashes, 1, k - 1) \in Seq(LeafHashes) /\ <<hashes[k]>> \in Seq(LeafHashes)
    BY <1>1
  <2> DEFINE p == SubSeq(hashes, 1, k - 1)
             q == <<hashes[k]>>
  <2>3. p \in Seq(LeafHashes) /\ q \in Seq(LeafHashes)
    BY <2>2
  <2> HIDE DEF p, q
  <2>4. leaves \o (p \o q) = (leaves \o p) \o q
    BY <2>3
  <2>5. QED BY <2>1, <2>4 DEF p, q
<1> HIDE DEF so
<1>6. 0 \in S
  <2>1. c + 0 = c
    BY <1>1
  <2>2. QED BY <1>2, <1>4, <2>1
<1>7. ASSUME NEW k \in Nat, k \in S
      PROVE  k + 1 \in S
  <2>1. CASE k + 1 <= n
    <3> DEFINE m == k + 1
               h == hashes[m]
    <3>1. m \in 1 .. n /\ m - 1 = k /\ k <= n /\ k \in 0 .. n /\ m \in 0 .. n /\ c + m = (c + k) + 1 /\ c + k \in Nat
      BY <1>1, <2>1
    <3>2. Keeps(f[k], z, c + k) /\ Begins(f[k], so(k), straight) /\ h \in LeafHashes
      BY <1>1, <1>7, <3>1
    <3> HIDE DEF m
    <3>3. f[m] = insert_leaf(f[k], MakeLeaf(h)) /\ so(m) = so(k) \o <<h>>
      BY <1>2, <1>5, <3>1
    <3>4. so(k) \in Seq(LeafHashes) /\ Len(so(k)) = c + k
      BY <1>3, <3>1
    <3> HIDE DEF h
    <3>5. Keeps(f[m], z, c + m)
      BY <3>1, <3>2, <3>3, InsertLeafKeeps
    <3>6. ASSUME straight => Straight(Completed(f[m]))
          PROVE  FirstBatch(f[m], so(m), straight)
      <4>1. CASE c + k = 0
        <5>1. f[k].stack = <<>> /\ f[k].root = NoRoot /\ f[k] = [stack |-> f[k].stack, root |-> f[k].root]
          BY <3>2, <4>1 DEF Keeps
        <5>2. f[m] = [stack |-> <<>>, root |-> MakeLeaf(h)]
          BY <3>3, <5>1 DEF insert_leaf
        <5> DEFINE g == MakeLeaf(h)
                   b == f[m]
        <5>3. b = [stack |-> <<>>, root |-> g]
          BY <5>2
        <5> HIDE DEF g, b
        <5>4. b = [stack |-> <<>>, root |-> b.root] /\ b.root = g
          BY <5>3
        <5>5. so(k) = <<>>
          BY <3>4, <4>1
        <5>6. so(m) = <<h>>
          BY <3>3, <5>5
        <5>7. FirstBatch(b, <<h>>, straight)
          BY <3>2, <5>4, LeafIsFirst DEF g
        <5>8. QED BY <5>6, <5>7 DEF b
      <4>2. CASE c + k # 0
        <5>1. AtOK(f[k], z)
          BY <3>2, <4>2 DEF Keeps
        <5>2. so(k) # <<>>
          BY <3>4, <4>2
        <5>3. straight => Straight(Completed(f[k])) /\ WayDown(f[k].root).full.hash < h
          BY <3>2, <3>3, <3>6, <5>1, InsertLeafStraight
        <5>4. FirstBatch(f[k], so(k), straight)
          BY <3>2, <5>2, <5>3 DEF Begins
        <5>5. QED BY <3>2, <3>3, <5>1, <5>3, <5>4, InsertLeafFirst
      <4>3. QED BY <4>1, <4>2
    <3>7. Begins(f[m], so(m), straight)
      BY <3>6 DEF Begins
    <3>8. QED BY <3>5, <3>7 DEF m
  <2>2. CASE ~(k + 1 <= n)
    BY <2>2
  <2>3. QED BY <2>1, <2>2
<1> HIDE DEF S
<1>8. \A k \in Nat : k \in S
  BY <1>6, <1>7, Induction
<1>9. n \in S /\ n <= n
  BY <1>1, <1>8
<1>10. Begins(f[n], so(n), straight)
  BY <1>9 DEF S
<1>11. QED BY <1>2, <1>4, <1>10

\* The leaves keep their order until a tree that has been hashed grows.
OInv ==
    /\ batches # 0 => leaf_nodes # <<>>
    /\ batches = 0 => Begins(At, leaf_nodes, FALSE)
    /\ batches = 1 /\ root # NoRoot /\ ~root.dirty =>
          insertion_stack = <<>> /\ Regular(root) /\ Listing(root) = leaf_nodes

\* A root that is computed again, with nothing new, is the same root.
LEMMA NothingGrows ==
    ASSUME IInv, compute_root, ~Grows
    PROVE  root' = root /\ insertion_stack' = insertion_stack /\ leaf_nodes' = leaf_nodes /\ batches' = batches
<1>1. /\ leaf_nodes \o uninserted # <<>>
      /\ root' = Rooted /\ leaf_nodes' = leaf_nodes \o Sorted(uninserted)
      /\ insertion_stack' = <<>>
      /\ batches' = (IF Grows THEN batches + 1 ELSE batches)
  BY DEF compute_root
<1>2. uninserted = <<>> /\ ~Grown.dirty
  BY DEF Grows
<1>3. Inserted = At
  BY <1>2, InsertedKeeps
<1>4. leaf_nodes \in Seq(LeafHashes)
  BY DEF IInv
<1>5. leaf_nodes' = leaf_nodes
  <2>1. Sorted(uninserted) \in Seq(LeafHashes) /\ Len(Sorted(uninserted)) = 0
    BY <1>2, InsertedKeeps
  <2>2. Sorted(uninserted) = <<>>
    BY <2>1
  <2>3. leaf_nodes \o <<>> = leaf_nodes
    BY <1>4
  <2>4. QED BY <1>1, <2>2, <2>3
<1>6. Keeps(At, salt, Len(leaf_nodes)) /\ Len(leaf_nodes) # 0
  <2>1. leaf_nodes \o <<>> = leaf_nodes
    BY <1>4
  <2>2. leaf_nodes # <<>>
    BY <1>1, <1>2, <2>1
  <2>3. QED BY <1>4, <2>2 DEF IInv
<1>7. AtOK(At, salt) /\ At.stack = insertion_stack /\ At.root = root
  BY <1>6 DEF Keeps, At
<1> DEFINE s == insertion_stack
           up == WayUp(s, root)
<1>8. StackOK(s, salt) /\ IsTree(root, salt) /\ (s # <<>> => root.dirty)
  BY <1>7 DEF AtOK
<1>9. Grown = up[Len(s)]
  <2>1. Completed(At) = WayUp(At.stack, At.root)[Len(At.stack)]
    BY <1>7, <1>8, CompletedIs
  <2>2. QED BY <1>3, <1>7, <2>1 DEF Grown
<1>10. s = <<>>
  <2>1. SUFFICES ASSUME s # <<>> PROVE FALSE
    OBVIOUS
  <2>2. Len(s) \in 0 .. Len(s) /\ Len(s) \in Nat
    BY <1>8 DEF StackOK
  <2> DEFINE top == up[Len(s)]
  <2>3. top.dirty
    BY <1>8, <2>1, <2>2, EndsCompletely
  <2>4. QED BY <1>2, <1>9, <2>3
<1>11. Grown = root
  <2>1. Len(<<>>) = 0 /\ WayUp(<<>>, root)[0] = root
    BY WayUpUnfolds
  <2>2. QED BY <1>9, <1>10, <2>1
<1>12. hash(root) = root
  BY <1>2, <1>8, <1>11, HashLaw DEF IsTree
<1>13. root' = root
  BY <1>1, <1>11, <1>12 DEF Rooted
<1>14. QED BY <1>1, <1>5, <1>10, <1>13

\* What completing the stack of such a tree gives.
LEMMA FirstBatchCompleted ==
    ASSUME NEW straight \in BOOLEAN, NEW at, NEW z, AtOK(at, z), NEW leaves, FirstBatch(at, leaves, straight)
    PROVE  IsTree(Completed(at), z) /\ Fresh(Completed(at), straight) /\ Listing(Completed(at)) = leaves
<1> DEFINE s == at.stack
           t == at.root
           n == Completed(at)
<1>1. StackOK(s, z) /\ IsTree(t, z)
  BY DEF AtOK
<1>2. Fresh(t, straight) /\ RightStack(s, straight) /\ Falls(s, t.height) /\ Listing(n) = leaves
  BY DEF FirstBatch
<1>3. n = WayUp(s, t)[Len(s)]
  BY <1>1, CompletedIs
<1> HIDE DEF s, t, n
<1>4. Len(s) \in 0 .. Len(s)
  BY <1>1 DEF StackOK
<1>5. \A d \in 0 .. Len(s) : IsTree(WayUp(s, t)[d], z)
  BY <1>1, WayUpTrees
<1>6. \A d \in 0 .. Len(s) : Fresh(WayUp(s, t)[d], straight)
  BY <1>1, <1>2, WayUpFresh
<1>7. QED BY <1>2, <1>3, <1>4, <1>5, <1>6 DEF n

\* The first tree that is hashed has its leaves in order, hashed as well.
LEMMA FirstBatchHashed ==
    ASSUME NEW at, salt \in Int, AtOK(at, salt), NEW leaves, FirstBatch(at, leaves, FALSE)
    PROVE  /\ IsTree(Completed(at), salt)
           /\ Regular(Completed(at)) /\ Listing(Completed(at)) = leaves
           /\ Regular(hash(Completed(at))) /\ Listing(hash(Completed(at))) = leaves
<1>1. IsTree(Completed(at), salt) /\ Fresh(Completed(at), FALSE) /\ Listing(Completed(at)) = leaves
  BY FirstBatchCompleted
<1>2. Regular(Completed(at))
  BY <1>1, FreshParts
<1>3. QED BY <1>1, <1>2, HashKeepsOrder

\* In the trees that are not hashed yet the waiting leaves come last.
LEMMA InsertedBegins ==
    ASSUME IInv, NEW straight \in BOOLEAN, Begins(At, leaf_nodes, straight)
    PROVE  Begins(Inserted, leaf_nodes \o Sorted(uninserted), straight)
<1>1. /\ leaf_nodes \in Seq(LeafHashes) /\ Keeps(At, salt, Len(leaf_nodes))
      /\ Begins(At, leaf_nodes, straight) /\ straight \in BOOLEAN
  BY DEF IInv
<1>2. Sorted(uninserted) \in Seq(LeafHashes)
  BY InsertedKeeps
<1>3. Inserted = insert_leaves(At, Sorted(uninserted))
  BY Zenon DEF Inserted, At
<1> DEFINE u == Sorted(uninserted)
<1> HIDE DEF u
<1>4. u \in Seq(LeafHashes)
  BY <1>2 DEF u
<1>5. Begins(insert_leaves(At, u), leaf_nodes \o u, straight)
  BY ONLY <1>1, <1>4, InsertLeavesBegin
<1>6. QED BY <1>3, <1>5 DEF u

\* An empty tree is in order.
LEMMA OrderInit == ASSUME Init PROVE OInv
<1>1. root = NoRoot /\ leaf_nodes = <<>> /\ batches = 0
  BY DEF Init
<1>2. QED BY <1>1 DEF OInv, Begins

\* compute_root keeps the order: the first tree that is hashed is fresh.
LEMMA OrderCompute ==
    ASSUME IInv, OInv, compute_root
    PROVE  OInv'
<1>1. /\ leaf_nodes \o uninserted # <<>>
      /\ root' = Rooted /\ leaf_nodes' = leaf_nodes \o Sorted(uninserted)
      /\ insertion_stack' = <<>>
      /\ batches' = (IF Grows THEN batches + 1 ELSE batches)
  BY DEF compute_root
<1>2. CASE ~Grows
  <2>1. root' = root /\ insertion_stack' = insertion_stack /\ leaf_nodes' = leaf_nodes /\ batches' = batches
    BY <1>2, NothingGrows
  <2>2. At' = At
    BY <2>1 DEF At
  <2>3. QED BY <2>1, <2>2 DEF OInv
<1>3. CASE Grows
  <2>1. batches' = batches + 1 /\ batches \in Nat /\ salt \in Int
    BY <1>1, <1>3, BoundsAssumption, SaltIsInt DEF IInv
  <2>2. Len(leaf_nodes) + Len(uninserted) # 0 /\ Len(leaf_nodes') = Len(leaf_nodes) + Len(uninserted)
    BY <1>1, RootedKeeps, InsertedKeeps
  <2>3. leaf_nodes' # <<>>
    BY <2>2
  <2>4. batches = 0 => Regular(Rooted) /\ Listing(Rooted) = leaf_nodes'
    <3>1. SUFFICES ASSUME batches = 0 PROVE Regular(Rooted) /\ Listing(Rooted) = leaf_nodes'
      OBVIOUS
    <3>2. FirstBatch(Inserted, leaf_nodes', FALSE)
      <4>1. Begins(At, leaf_nodes, FALSE)
        BY <3>1 DEF OInv
      <4>2. Begins(Inserted, leaf_nodes', FALSE)
        BY <1>1, <4>1, InsertedBegins
      <4>3. QED BY <2>3, <4>2 DEF Begins
    <3>3. AtOK(Inserted, salt)
      BY <2>2, InsertedKeeps DEF Keeps
    <3>4. QED BY <2>1, <3>2, <3>3, FirstBatchHashed DEF Rooted, Grown
  <2>5. batches' # 0 /\ (batches' = 1 => batches = 0)
    BY <2>1
  <2>6. QED BY <1>1, <2>3, <2>4, <2>5 DEF OInv
<1>4. QED BY <1>2, <1>3

\* size keeps the order, and leaves a dirty root if there were leaves before.
LEMMA OrderSize ==
    ASSUME IInv, OInv, size
    PROVE  OInv'
<1>1. /\ uninserted # <<>>
      /\ root' = Inserted.root /\ insertion_stack' = Inserted.stack
      /\ leaf_nodes' = leaf_nodes \o Sorted(uninserted)
      /\ batches' = batches
  BY DEF size
<1>2. leaf_nodes \in Seq(LeafHashes) /\ uninserted \in Seq(LeafHashes)
  BY DEF IInv
<1>3. Len(uninserted) # 0 /\ Len(leaf_nodes) \in Nat /\ Len(uninserted) \in Nat
  BY <1>1, <1>2
<1>4. leaf_nodes' # <<>>
  <2>1. Len(leaf_nodes') = Len(leaf_nodes) + Len(uninserted)
    BY <1>1, InsertedKeeps
  <2>2. QED BY <1>3, <2>1
<1>5. batches = 0 => Begins(At', leaf_nodes', FALSE)
  <2>1. At' = Inserted
    <3>1. Inserted = [stack |-> Inserted.stack, root |-> Inserted.root]
      BY InsertedKeeps
    <3>2. QED BY <1>1, <3>1, Zenon DEF At
  <2>2. batches = 0 => Begins(At, leaf_nodes, FALSE)
    BY DEF OInv
  <2>3. QED BY <1>1, <2>1, <2>2, InsertedBegins
<1>6. batches # 0 => root'.dirty
  <2>1. SUFFICES ASSUME batches # 0 PROVE root'.dirty
    OBVIOUS
  <2>2. Len(leaf_nodes) # 0
    BY <1>2, <2>1 DEF OInv
  <2>3. Len(leaf_nodes) + Len(uninserted) >= 2
    BY <1>3, <2>2
  <2>4. QED BY <1>1, <1>3, <2>3, InsertedKeeps
<1>7. /\ batches' # 0 => leaf_nodes' # <<>>
      /\ batches' = 0 => Begins(At', leaf_nodes', FALSE)
      /\ ~(batches' = 1 /\ ~root'.dirty)
  <2>1. ASSUME batches' = 0 PROVE Begins(At', leaf_nodes', FALSE)
    <3>1. batches = 0
      BY <1>1, <2>1
    <3>2. QED BY <1>5, <3>1
  <2>2. ~(batches' = 1 /\ ~root'.dirty)
    BY <1>1, <1>6
  <2>3. QED BY <1>4, <2>1, <2>2
<1>8. QED BY <1>7 DEF OInv

\* The order of the leaves is kept by every step.
THEOREM LeafOrder == Spec => []OInv
<1>1. Init => OInv
  BY OrderInit
<1>2. IInv /\ OInv /\ [Next]_vars => OInv'
  <2> SUFFICES ASSUME IInv, OInv, [Next]_vars PROVE OInv'
    OBVIOUS
  <2>1. ASSUME root' = root, leaf_nodes' = leaf_nodes, insertion_stack' = insertion_stack, batches' = batches
        PROVE  OInv'
    <3>1. At' = At
      BY <2>1 DEF At
    <3>2. QED BY <2>1, <3>1 DEF OInv
  <2>2. CASE \E h \in LeafHashes : insert(h)
    BY <2>1, <2>2 DEF insert
  <2>3. CASE compute_root
    BY <2>3, OrderCompute
  <2>4. CASE size
    BY <2>4, OrderSize
  <2>5. CASE UNCHANGED vars
    BY <2>1, <2>5 DEF vars
  <2>6. QED BY <2>2, <2>3, <2>4, <2>5 DEF Next
<1>3. QED BY <1>1, <1>2, Invariant, PTL DEF Spec

\* Until a hashed tree grows, completing the stack gives the leaves in order.
LEMMA WholeInOrder ==
    ASSUME IInv, OInv, root # NoRoot, batches = 0 \/ GrownAtOnce
    PROVE  IsTree(Whole, salt) /\ Regular(Whole) /\ Listing(Whole) = leaf_nodes
<1>1. /\ leaf_nodes # <<>> /\ Len(leaf_nodes) # 0
      /\ IsTree(root, salt) /\ Whole = Completed(At)
      /\ Whole = WayUp(insertion_stack, root)[Len(insertion_stack)]
  BY RootIsTree
<1>2. salt \in Int /\ batches \in Nat
  BY SaltIsInt, BoundsAssumption DEF IInv
<1>3. CASE batches = 0
  <2>1. FirstBatch(At, leaf_nodes, FALSE)
    BY <1>1, <1>3 DEF OInv, Begins
  <2>2. AtOK(At, salt)
    BY <1>1 DEF IInv, Keeps
  <2>3. QED BY <1>1, <1>2, <2>1, <2>2, FirstBatchHashed
<1>4. CASE batches # 0
  <2>1. batches = 1 /\ ~root.dirty
    BY <1>2, <1>4 DEF GrownAtOnce
  <2>2. insertion_stack = <<>> /\ Regular(root) /\ Listing(root) = leaf_nodes
    BY <2>1 DEF OInv
  <2>3. Whole = root
    <3>1. Len(<<>>) = 0 /\ WayUp(<<>>, root)[0] = root
      BY WayUpUnfolds
    <3>2. QED BY <1>1, <2>2, <3>1
  <2>4. QED BY <1>1, <2>2, <2>3
<1>5. QED BY <1>3, <1>4

\* A tree that is hashed without an exchange is as it was, but for its hashes.
LEMMA HashKeepsStraight ==
    ASSUME NEW n, salt \in Int, IsTree(n, salt), Straight(hash(n))
    PROVE  Straight(n) /\ (Regular(n) => Regular(hash(n))) /\ Listing(hash(n)) = Listing(n)
<1> DEFINE S == {m \in NodesOf(n) : Straight(hash(m)) =>
                    Straight(m) /\ (Regular(m) => Regular(hash(m))) /\ Listing(hash(m)) = Listing(m)}
<1>1. ASSUME NEW m, IsTree(m, salt), m \in NodesOf(n),
             m.sub # <<>> => m.sub[1] \in S /\ m.sub[2] \in S
      PROVE  m \in S
  <2> SUFFICES ASSUME Straight(hash(m))
               PROVE  Straight(m) /\ (Regular(m) => Regular(hash(m))) /\ Listing(hash(m)) = Listing(m)
    BY <1>1
  <2>1. m.height \in Nat \ {0} /\ Sound(m, salt) /\ NodeOK(m, salt)
    BY <1>1, TreeParts DEF IsTree
  <2>2. CASE ~m.dirty
    <3>1. hash(m) = m
      BY <2>1, <2>2, HashLaw
    <3>2. QED BY <3>1
  <2>3. CASE m.dirty
    <3> DEFINE l == hash(m.sub[1])
               r == hash(m.sub[2])
               u == hash(m)
    <3>1. m.sub # <<>>
      BY <2>1, <2>3 DEF NodeOK, MakeLeaf
    <3>2. u = Rehashed(m, l, r)
      BY <2>1, <2>3, HashLaw
    <3>3. IsTree(m.sub[1], salt) /\ IsTree(m.sub[2], salt)
      BY <1>1, <3>1, TreeParts
    <3>4. /\ IsTree(l, salt) /\ IsTree(r, salt) /\ ~l.dirty /\ ~r.dirty
          /\ l.size = m.sub[1].size /\ l.height = m.sub[1].height
          /\ r.size = m.sub[2].size /\ r.height = m.sub[2].height
      BY <3>3, HashIsTree
    <3>0. IsTree(u, salt) /\ u.height = m.height /\ Straight(u)
      BY <1>1, HashIsTree
    <3>00. /\ Straight(l) => /\ Straight(m.sub[1]) /\ Listing(l) = Listing(m.sub[1])
                             /\ Regular(m.sub[1]) => Regular(l)
           /\ Straight(r) => /\ Straight(m.sub[2]) /\ Listing(r) = Listing(m.sub[2])
                             /\ Regular(m.sub[2]) => Regular(r)
      BY <1>1, <3>1
    <3> HIDE DEF l, r, u
    <3>5. Settles(u, m, l, r)
      BY <2>1, <3>1, <3>2, <3>4, RehashedIsTree
    <3>6. u.sub # <<>> /\ u.swapped = (m.swapped \/ r.hash < l.hash)
          /\ u.sub = (IF r.hash < l.hash THEN <<r, l>> ELSE <<l, r>>)
      BY <3>5 DEF Settles
    <3>7. ~u.swapped /\ Straight(u.sub[1]) /\ Straight(u.sub[2])
      BY <3>0, <3>6, StraightParts
    <3>8. ~m.swapped /\ u.sub[1] = l /\ u.sub[2] = r
      <4>1. m.swapped \in BOOLEAN /\ u.swapped \in BOOLEAN
        BY <2>1, <3>0, TreeParts DEF NodeOK
      <4>2. ~m.swapped /\ ~(r.hash < l.hash)
        BY <3>6, <3>7, <4>1
      <4>3. u.sub = <<l, r>>
        BY <3>6, <4>2
      <4>4. QED BY <4>2, <4>3
    <3>9. /\ Straight(m.sub[1]) /\ Listing(l) = Listing(m.sub[1]) /\ (Regular(m.sub[1]) => Regular(l))
          /\ Straight(m.sub[2]) /\ Listing(r) = Listing(m.sub[2]) /\ (Regular(m.sub[2]) => Regular(r))
      BY <3>00, <3>7, <3>8
    <3>10. Straight(m)
      BY <1>1, <3>1, <3>8, <3>9, StraightParts
    <3>11. Older(m) = m.sub[1] /\ Younger(m) = m.sub[2] /\ Older(u) = l /\ Younger(u) = r
      BY <3>7, <3>8 DEF Older, Younger
    <3>12. Listing(m) = Listing(m.sub[1]) \o Listing(m.sub[2]) /\ Listing(u) = Listing(l) \o Listing(r)
      BY <1>1, <3>0, <3>1, <3>6, <3>11, ListingParts
    <3>13. ASSUME Regular(m) PROVE Regular(u)
      <4>1. RegularNode(m) /\ Regular(m.sub[1]) /\ Regular(m.sub[2])
        BY <1>1, <3>1, <3>13, RegularParts
      <4>2. is_full(m.sub[1]) /\ m.sub[1].height = m.height - 1
        BY <3>1, <3>11, <4>1 DEF RegularNode
      <4>3. RegularNode(u)
        BY <3>0, <3>4, <3>11, <4>2 DEF RegularNode, is_full
      <4>4. QED BY <3>0, <3>6, <3>8, <3>9, <4>1, <4>3, RegularParts
    <3>14. QED BY <3>9, <3>10, <3>12, <3>13 DEF u
  <2>4. QED BY <2>1, <2>2, <2>3 DEF NodeOK
<1> HIDE DEF S
<1>2. n \in S
  BY <1>1, NodeInduction
<1>3. QED BY <1>2 DEF S

\* A straight and regular tree is one of those in which a straight tree can grow.
LEMMA StraightIsFresh ==
    ASSUME NEW n, NEW z, IsTree(n, z)
    PROVE  Fresh(n, TRUE) <=> Straight(n) /\ Regular(n)
<1>1. ASSUME NEW m \in NodesOf(n)
      PROVE  FreshNode(m, TRUE) <=> ~m.swapped
  <2>1. NodeOK(m, z)
    BY DEF IsTree, Sound
  <2>2. m.sub = <<>> => ~m.swapped
    BY <2>1 DEF NodeOK, MakeLeaf
  <2>3. QED BY <2>2 DEF FreshNode
<1>2. QED BY <1>1 DEF Fresh, Straight, Regular

\* However often it is hashed and grows: as long as no children have been
\* exchanged anywhere, the leaves have the order of leaf_nodes.
SInv == Begins(At, leaf_nodes, TRUE)

\* compute_root keeps it: nothing is exchanged back.
LEMMA StraightCompute ==
    ASSUME IInv, SInv, compute_root
    PROVE  SInv'
<1>1. /\ leaf_nodes \o uninserted # <<>>
      /\ root' = Rooted /\ leaf_nodes' = leaf_nodes \o Sorted(uninserted)
      /\ insertion_stack' = <<>>
  BY DEF compute_root
<1>2. salt \in Int
  BY SaltIsInt DEF IInv
<1>3. /\ IsTree(Rooted, salt) /\ IsTree(Grown, salt)
      /\ Len(leaf_nodes) + Len(uninserted) # 0
      /\ Len(leaf_nodes') = Len(leaf_nodes) + Len(uninserted)
  BY <1>1, RootedKeeps, InsertedKeeps
<1> DEFINE at == [stack |-> <<>>, root |-> Rooted]
<1>4. At' = at
  BY <1>1 DEF At
<1>5. Completed(at) = Rooted
  <2>1. Len(<<>>) = 0 /\ WayUp(<<>>, Rooted)[0] = Rooted
    BY WayUpUnfolds
  <2>2. at.stack = <<>> /\ at.root = Rooted
    OBVIOUS
  <2> HIDE DEF at
  <2>3. QED BY <2>1, <2>2, EmptyStack, CompletedIs
<1>6. ASSUME Straight(Rooted)
      PROVE  FirstBatch(at, leaf_nodes', TRUE)
  <2>1. Begins(Inserted, leaf_nodes', TRUE)
    BY <1>1, InsertedBegins DEF SInv
  <2>2. AtOK(Inserted, salt)
    BY <1>3, InsertedKeeps DEF Keeps
  <2>3. leaf_nodes' # <<>>
    BY <1>3
  <2>4. ASSUME Straight(Grown)
        PROVE  Fresh(Grown, TRUE) /\ Listing(Grown) = leaf_nodes'
    <3>1. FirstBatch(Inserted, leaf_nodes', TRUE)
      BY <2>1, <2>3, <2>4 DEF Begins, Grown
    <3>2. QED BY <2>2, <3>1, FirstBatchCompleted DEF Grown
  <2>5. Straight(Grown)
    BY <1>2, <1>3, <1>6, HashKeepsStraight DEF Rooted
  <2>6. Regular(Grown)
    BY <1>3, <2>4, <2>5, StraightIsFresh
  <2>7. Regular(Rooted) /\ Listing(Rooted) = leaf_nodes'
    BY <1>2, <1>3, <1>6, <2>4, <2>5, <2>6, HashKeepsStraight DEF Rooted
  <2>8. Fresh(Rooted, TRUE)
    BY <1>3, <1>6, <2>7, StraightIsFresh
  <2>9. RightStack(<<>>, TRUE) /\ Falls(<<>>, Rooted.height)
    <3>1. Len(<<>>) = 0
      OBVIOUS
    <3>2. QED BY <3>1 DEF RightStack, Falls
  <2>10. at.stack = <<>> /\ at.root = Rooted
    OBVIOUS
  <2> HIDE DEF at
  <2>11. QED BY <1>5, <2>7, <2>8, <2>9, <2>10 DEF FirstBatch
<1> HIDE DEF at
<1>7. Begins(at, leaf_nodes', TRUE)
  BY <1>5, <1>6 DEF Begins
<1>8. QED BY <1>4, <1>7 DEF SInv

\* size keeps it.
LEMMA StraightSize ==
    ASSUME IInv, SInv, size
    PROVE  SInv'
<1>1. /\ root' = Inserted.root /\ insertion_stack' = Inserted.stack
      /\ leaf_nodes' = leaf_nodes \o Sorted(uninserted)
  BY DEF size
<1>2. At' = Inserted
  <2>1. Inserted = [stack |-> Inserted.stack, root |-> Inserted.root]
    BY InsertedKeeps
  <2>2. QED BY <1>1, <2>1, Zenon DEF At
<1>3. Begins(Inserted, leaf_nodes \o Sorted(uninserted), TRUE)
  BY InsertedBegins DEF SInv
<1>4. QED BY <1>1, <1>2, <1>3 DEF SInv

\* A straight tree has its leaves in order, however often it was hashed.
THEOREM StraightOrder == Spec => []SInv
<1>1. Init => SInv
  BY DEF Init, SInv, Begins
<1>2. IInv /\ SInv /\ [Next]_vars => SInv'
  <2> SUFFICES ASSUME IInv, SInv, [Next]_vars PROVE SInv'
    OBVIOUS
  <2>1. ASSUME root' = root, leaf_nodes' = leaf_nodes, insertion_stack' = insertion_stack
        PROVE  SInv'
    <3>1. At' = At
      BY <2>1 DEF At
    <3>2. QED BY <2>1, <3>1 DEF SInv
  <2>2. CASE \E h \in LeafHashes : insert(h)
    BY <2>1, <2>2 DEF insert
  <2>3. CASE compute_root
    BY <2>3, StraightCompute
  <2>4. CASE size
    BY <2>4, StraightSize
  <2>5. CASE UNCHANGED vars
    BY <2>1, <2>5 DEF vars
  <2>6. QED BY <2>2, <2>3, <2>4, <2>5 DEF Next
<1>3. QED BY <1>1, <1>2, Invariant, PTL DEF Spec

\* What a straight root is once it is computed.
LEMMA StraightRoot ==
    ASSUME IInv, SInv, root # NoRoot, ~root.dirty, Straight(root)
    PROVE  IsTree(root, salt) /\ Regular(root) /\ Listing(root) = leaf_nodes
<1>1. /\ leaf_nodes # <<>> /\ Len(leaf_nodes) # 0 /\ IsTree(root, salt)
      /\ insertion_stack = <<>> /\ Whole = Completed(At)
      /\ Whole = WayUp(insertion_stack, root)[Len(insertion_stack)]
  BY RootIsTree
<1>2. Whole = root
  <2>1. Len(<<>>) = 0 /\ WayUp(<<>>, root)[0] = root
    BY WayUpUnfolds
  <2>2. QED BY <1>1, <2>1
<1>3. AtOK(At, salt)
  BY <1>1 DEF IInv, Keeps
<1>4. FirstBatch(At, leaf_nodes, TRUE)
  BY <1>1, <1>2 DEF SInv, Begins
<1>5. Fresh(root, TRUE) /\ Listing(root) = leaf_nodes
  BY <1>1, <1>2, <1>3, <1>4, FirstBatchCompleted
<1>6. QED BY <1>1, <1>5, StraightIsFresh

\* The tree of a list of leaves that are inserted at once.
LEMMA TreeOfIs ==
    ASSUME salt \in Int, NEW hashes \in Seq(LeafHashes), hashes # <<>>
    PROVE  /\ IsTree(TreeOf(hashes), salt) /\ ~TreeOf(hashes).dirty
           /\ Regular(TreeOf(hashes)) /\ Listing(TreeOf(hashes)) = hashes
<1> DEFINE at == [stack |-> <<>>, root |-> NoRoot]
           after == insert_leaves(at, hashes)
           none == <<>>
<1>1. Len(hashes) \in Nat \ {0} /\ none \in Seq(LeafHashes) /\ Len(none) = 0 /\ none \o hashes = hashes
  OBVIOUS
<1>2. Keeps(at, salt, Len(none))
  BY <1>1 DEF Keeps
<1>3. Begins(at, none, FALSE)
  BY DEF Begins
<1> HIDE DEF at, none
<1>4. Keeps(after, salt, 0 + Len(hashes))
  BY <1>1, <1>2, InsertLeavesKeep
<1>5. Begins(after, none \o hashes, FALSE)
  BY <1>1, <1>2, <1>3, InsertLeavesBegin
<1> HIDE DEF after
<1>6. AtOK(after, salt) /\ FirstBatch(after, hashes, FALSE)
  <2>1. AtOK(after, salt)
    BY <1>1, <1>4 DEF Keeps
  <2>2. Begins(after, hashes, FALSE)
    BY <1>1, <1>5
  <2>3. QED BY <2>1, <2>2 DEF Begins
<1>7. /\ IsTree(Completed(after), salt)
      /\ Regular(hash(Completed(after))) /\ Listing(hash(Completed(after))) = hashes
  BY <1>6, FirstBatchHashed
<1>8. IsTree(hash(Completed(after)), salt) /\ ~hash(Completed(after)).dirty
  BY <1>7, HashIsTree
<1>9. TreeOf(hashes) = hash(Completed(after))
  BY DEF TreeOf, after, at
<1>10. QED BY <1>7, <1>8, <1>9

\* Division with a remainder.
LEMMA QuotientIs ==
    ASSUME NEW k \in Nat, NEW p \in Nat \ {0}, NEW i \in Nat, i < p
    PROVE  (k * p + i) \div p = k
<1> DEFINE q == (k * p + i) \div p
           r == (k * p + i) % p
<1>1. k * p + i = p * q + r /\ r \in 0 .. p - 1 /\ q \in Int
  BY Z3
<1> HIDE DEF q, r
<1>2. p * (q - k) = i - r
  BY <1>1
<1>3. q - k < 1
  BY <1>1, <1>2
<1>4. q - k > -1
  BY <1>1, <1>2
<1>5. QED BY <1>1, <1>3, <1>4 DEF q

\* What a walk notes at a node.
Steps == [hash : Hashes, direction : {"left", "right"}]
Met(n, index) ==
    [hash |-> n.sub[IF GoRight(n, index) THEN 1 ELSE 2].hash,
     direction |-> IF GoRight(n, index) THEN "left" ELSE "right"]

WalkShape(w) ==
    w = [leaf |-> w.leaf, elements |-> w.elements] /\ w.elements \in Seq(Steps)

\* A step of a walk.
LEMMA WalkedIs ==
    ASSUME NEW n, NEW z, IsTree(n, z), n.sub # <<>>, NEW index, NEW below, WalkShape(below)
    PROVE  /\ WalkShape(Walked(n, index, below))
           /\ Walked(n, index, below).leaf = below.leaf
           /\ Walked(n, index, below).elements = Append(below.elements, Met(n, index))
<1> DEFINE l == below.leaf
           e == below.elements
           d == Met(n, index)
<1>1. below = [leaf |-> l, elements |-> e] /\ e \in Seq(Steps)
  BY DEF WalkShape
<1>2. Walked(n, index, below) = [below EXCEPT !.elements = Append(@, d)]
  BY Zenon DEF Walked, Met
<1>3. d \in Steps
  <2>1. n.sub[1].hash \in Hashes /\ n.sub[2].hash \in Hashes
    BY TreeParts DEF NodeOK
  <2>2. CASE GoRight(n, index)
    BY <2>1, <2>2 DEF Steps, Met
  <2>3. CASE ~GoRight(n, index)
    BY <2>1, <2>3 DEF Steps, Met
  <2>4. QED BY <2>2, <2>3
<1> HIDE DEF l, e, d
<1>4. Walked(n, index, below) = [leaf |-> l, elements |-> Append(e, d)]
  <2>1. [[leaf |-> l, elements |-> e] EXCEPT !.elements = Append(@, d)] = [leaf |-> l, elements |-> Append(e, d)]
    OBVIOUS
  <2>2. QED BY <1>1, <1>2, <2>1
<1>5. Append(e, d) \in Seq(Steps)
  BY <1>1, <1>3
<1>6. Walked(n, index, below).leaf = l /\ Walked(n, index, below).elements = Append(e, d)
  BY <1>4
<1>7. QED BY <1>4, <1>5, <1>6 DEF WalkShape, l, e, d

\* Every walk has that shape.
LEMMA WalkIsShaped ==
    ASSUME NEW n, NEW z, IsTree(n, z), NEW index
    PROVE  WalkShape(Walk(n, index))
<1> DEFINE S == {m \in NodesOf(n) : WalkShape(Walk(m, index))}
<1>1. ASSUME NEW m, IsTree(m, z), m \in NodesOf(n),
             m.sub # <<>> => m.sub[1] \in S /\ m.sub[2] \in S
      PROVE  m \in S
  <2>1. Walk(m, index) = IF m.sub = <<>> THEN [leaf |-> m, elements |-> <<>>]
                         ELSE Walked(m, index, Walk(m.sub[Toward(m, index)], index))
    BY <1>1, WalkLaw DEF IsTree
  <2>2. CASE m.sub = <<>>
    <3> DEFINE w == [leaf |-> m, elements |-> <<>>]
    <3>1. WalkShape(w)
      BY DEF WalkShape
    <3>2. Walk(m, index) = w
      BY <2>1, <2>2
    <3>3. QED BY <1>1, <3>1, <3>2
  <2>3. CASE m.sub # <<>>
    <3>1. m.sub[Toward(m, index)] \in S
      BY <1>1, <2>3 DEF Toward
    <3>2. WalkShape(Walk(m.sub[Toward(m, index)], index))
      BY <3>1
    <3>3. WalkShape(Walk(m, index))
      BY <1>1, <2>1, <2>3, <3>2, WalkedIs
    <3>4. QED BY <1>1, <3>3
  <2>4. QED BY <2>2, <2>3
<1> HIDE DEF S
<1>2. n \in S
  BY <1>1, NodeInduction
<1>3. QED BY <1>2 DEF S

\* A walk goes on below, and notes a step for each node.
LEMMA WalkParts ==
    ASSUME NEW n, NEW z, IsTree(n, z), NEW index
    PROVE  /\ PathFrom(n, index) \in Seq(Steps)
           /\ n.sub = <<>> => WalkTo(n, index) = n /\ PathFrom(n, index) = <<>>
           /\ n.sub # <<>> =>
                 LET c == n.sub[Toward(n, index)] IN
                 /\ IsTree(c, z)
                 /\ WalkTo(n, index) = WalkTo(c, index)
                 /\ PathFrom(n, index) = Append(PathFrom(c, index), Met(n, index))
<1>1. Walk(n, index) = IF n.sub = <<>> THEN [leaf |-> n, elements |-> <<>>]
                       ELSE Walked(n, index, Walk(n.sub[Toward(n, index)], index))
  BY WalkLaw DEF IsTree
<1>2. PathFrom(n, index) \in Seq(Steps)
  BY WalkIsShaped DEF WalkShape, PathFrom
<1>3. ASSUME n.sub = <<>>
      PROVE  WalkTo(n, index) = n /\ PathFrom(n, index) = <<>>
  <2>1. Walk(n, index) = [leaf |-> n, elements |-> <<>>]
    BY <1>1, <1>3
  <2>2. QED BY <2>1 DEF WalkTo, PathFrom
<1>4. ASSUME n.sub # <<>>
      PROVE  LET c == n.sub[Toward(n, index)] IN
             /\ IsTree(c, z)
             /\ WalkTo(n, index) = WalkTo(c, index)
             /\ PathFrom(n, index) = Append(PathFrom(c, index), Met(n, index))
  <2> DEFINE c == n.sub[Toward(n, index)]
  <2>1. IsTree(c, z)
    BY <1>4, TreeParts DEF Toward
  <2>2. Walk(n, index) = Walked(n, index, Walk(c, index))
    BY <1>1, <1>4
  <2> HIDE DEF c
  <2>3. WalkShape(Walk(c, index))
    BY <2>1, WalkIsShaped
  <2>4. Walk(n, index).leaf = Walk(c, index).leaf
        /\ Walk(n, index).elements = Append(Walk(c, index).elements, Met(n, index))
    BY <1>4, <2>2, <2>3, WalkedIs
  <2>5. QED BY <2>1, <2>4 DEF WalkTo, PathFrom, c
<1>5. QED BY <1>2, <1>3, <1>4

\* The bit of the index that is 0 leads to the older child, 1 to the younger one.
LEMMA BitLeads ==
    ASSUME NEW n, NEW z, IsTree(n, z), n.sub # <<>>, NEW index,
           NEW b, b = (index \div PowerOfTwo[n.height - 2]) % 2
    PROVE  /\ b = 0 => WalkTo(n, index) = WalkTo(Older(n), index)
           /\ b = 1 => WalkTo(n, index) = WalkTo(Younger(n), index)
<1>1. NodeOK(n, z)
  BY TreeParts
<1>3. WalkTo(n, index) = WalkTo(n.sub[Toward(n, index)], index)
  BY WalkParts
<1>4. n.swapped \in BOOLEAN /\ (GoRight(n, index) <=> (b = 1) # n.swapped)
  BY <1>1 DEF NodeOK, GoRight
<1>5. b = 0 => n.sub[Toward(n, index)] = Older(n)
  BY <1>4 DEF Toward, Older
<1>6. b = 1 => n.sub[Toward(n, index)] = Younger(n)
  BY <1>4 DEF Toward, Younger
<1>7. QED BY <1>3, <1>5, <1>6

\* The sizes of the children of a node whose older child is full: the older
\* child has so many leaves as the bit of the node counts.
LEMMA RegularSizes ==
    ASSUME NEW n, NEW z, IsTree(n, z), n.sub # <<>>, RegularNode(n)
    PROVE  \E p \in Nat \ {0}, r \in Nat \ {0} :
              /\ p = PowerOfTwo[n.height - 2]
              /\ PowerOfTwo[n.height - 1] = 2 * p
              /\ PowerOfTwo[Older(n).height - 1] = p
              /\ p = r * PowerOfTwo[Younger(n).height - 1]
              /\ Len(Listing(Older(n))) = p
              /\ Len(Listing(Younger(n))) <= p
<1> DEFINE o == Older(n)
           y == Younger(n)
           h == n.height
<1>1. /\ IsTree(o, z) /\ IsTree(y, z) /\ h = Larger(o.height, y.height) + 1
      /\ is_full(o) /\ o.height = h - 1
  BY ListingParts DEF RegularNode
<1> HIDE DEF o, y
<1>2. /\ o.height \in Nat \ {0} /\ y.height \in Nat \ {0} /\ h \in Nat \ {0}
      /\ y.size <= PowerOfTwo[y.height] - 1
      /\ y.size \in Nat /\ o.size \in Nat
  BY <1>1, TreeParts DEF NodeOK
<1> HIDE DEF h
<1>3. h >= 2 /\ y.height <= h - 1
  BY <1>1, <1>2 DEF Larger
<1> DEFINE p == PowerOfTwo[h - 2]
<1>4. h - 2 \in Nat /\ (h - 2) + 1 = h - 1 /\ y.height - 1 \in Nat /\ y.height - 1 <= h - 2
      /\ h - 1 \in Nat /\ (y.height - 1) + 1 = y.height /\ y.height <= h - 1
  BY <1>2, <1>3
<1>5. p \in Nat \ {0} /\ PowerOfTwo[h - 1] = 2 * p
  BY <1>4, Powers, PowerFacts
<1>6. PowerOfTwo[y.height] <= 2 * p /\ PowerOfTwo[y.height] \in Nat
  <2> DEFINE a == y.height
             b == h - 1
  <2>1. a \in Nat /\ b \in Nat /\ a <= b
    BY <1>2, <1>4
  <2> HIDE DEF a, b
  <2>2. PowerOfTwo[a] <= PowerOfTwo[b] /\ PowerOfTwo[a] \in Nat
    BY <2>1, PowerFacts
  <2>3. PowerOfTwo[b] = 2 * p
    BY <1>5 DEF b
  <2> HIDE DEF p
  <2>4. QED BY <2>2, <2>3 DEF a
<1>7. PICK r \in Nat : p = r * PowerOfTwo[y.height - 1]
  BY <1>4, PowerFacts
<1>8. PowerOfTwo[y.height - 1] \in Nat
  BY <1>4, PowerFacts
<1>9. r # 0
  BY <1>5, <1>7, <1>8
<1>10. /\ Listing(o) \in Seq(LeafHashes) /\ o.size = 2 * Len(Listing(o)) - 1
       /\ Listing(y) \in Seq(LeafHashes) /\ y.size = 2 * Len(Listing(y)) - 1
  BY <1>1, ListingCounts
<1>11. o.size = 2 * p - 1
  BY <1>1, <1>5 DEF is_full
<1> HIDE DEF p
<1>12. Len(Listing(o)) = p /\ Len(Listing(y)) <= p
  <2> DEFINE a == Len(Listing(o))
             b == Len(Listing(y))
  <2>1. a \in Nat /\ b \in Nat /\ o.size = 2 * a - 1 /\ y.size = 2 * b - 1
    BY <1>10
  <2> HIDE DEF a, b
  <2>2. a = p /\ b <= p
    BY <1>2, <1>5, <1>6, <1>11, <2>1
  <2>3. QED BY <2>2 DEF a, b
<1>13. o.height - 1 = h - 2
  BY <1>1, <1>2
<1>14. PowerOfTwo[o.height - 1] = p
  BY <1>13 DEF p
<1>15. /\ p = PowerOfTwo[h - 2] /\ r \in Nat \ {0} /\ p \in Nat \ {0}
       /\ PowerOfTwo[h - 1] = 2 * p
  BY <1>5, <1>9 DEF p
<1>16. QED BY <1>7, <1>12, <1>14, <1>15 DEF o, y, h

\* The walk to an index ends at the leaf of that place.  The bits above the
\* height of the tree do not matter.
Finds(n) ==
    \A k \in Nat : \A i \in 0 .. Len(Listing(n)) - 1 :
        WalkTo(n, k * PowerOfTwo[n.height - 1] + i).hash = Listing(n)[i + 1]

\* In a regular tree every walk does.
LEMMA WalkFinds ==
    ASSUME NEW n, NEW z, IsTree(n, z), Regular(n)
    PROVE  Finds(n)
<1> DEFINE S == {m \in NodesOf(n) : Regular(m) => Finds(m)}
<1>1. ASSUME NEW m, IsTree(m, z), m \in NodesOf(n),
             m.sub # <<>> => m.sub[1] \in S /\ m.sub[2] \in S
      PROVE  m \in S
  <2>1. CASE m.sub = <<>>
    <3>1. Listing(m) = <<m.hash>>
      BY <1>1, <2>1, ListingParts
    <3>2. \A index : WalkTo(m, index) = m
      BY <1>1, <2>1, WalkParts
    <3>3. \A i \in 0 .. Len(Listing(m)) - 1 : Listing(m)[i + 1] = m.hash
      BY <3>1
    <3>4. Finds(m)
      BY <3>2, <3>3 DEF Finds
    <3>5. QED BY <1>1, <3>4
  <2>2. CASE m.sub # <<>>
    <3> DEFINE o == Older(m)
               y == Younger(m)
    <3>1. o \in S /\ y \in S
      BY <1>1, <2>2, TreeParts, AgesAreSides
    <3>2. SUFFICES ASSUME Regular(m) PROVE Finds(m)
      BY <1>1
    <3>3. RegularNode(m) /\ Regular(m.sub[1]) /\ Regular(m.sub[2])
      BY <1>1, <2>2, <3>2, RegularParts
    <3>4. Regular(o) /\ Regular(y)
      BY <1>1, <2>2, <3>3, TreeParts, AgesAreSides
    <3>5. Finds(o) /\ Finds(y)
      BY <3>1, <3>4
    <3>6. Listing(m) = Listing(o) \o Listing(y) /\ IsTree(o, z) /\ IsTree(y, z)
      BY <1>1, <2>2, ListingParts
    <3>7. PICK p \in Nat \ {0}, r \in Nat \ {0} :
              /\ p = PowerOfTwo[m.height - 2]
              /\ PowerOfTwo[m.height - 1] = 2 * p
              /\ PowerOfTwo[o.height - 1] = p
              /\ p = r * PowerOfTwo[y.height - 1]
              /\ Len(Listing(o)) = p
              /\ Len(Listing(y)) <= p
      BY <1>1, <2>2, <3>3, RegularSizes
    <3>8. Listing(o) \in Seq(LeafHashes) /\ Listing(y) \in Seq(LeafHashes)
      BY <3>6, ListingCounts
    <3>9. \A index : LET b == (index \div p) % 2 IN
                     /\ b = 0 => WalkTo(m, index) = WalkTo(o, index)
                     /\ b = 1 => WalkTo(m, index) = WalkTo(y, index)
      BY <1>1, <2>2, <3>7, BitLeads
    <3> HIDE DEF o, y
    <3> SUFFICES ASSUME NEW k \in Nat, NEW i \in 0 .. Len(Listing(m)) - 1
                 PROVE  WalkTo(m, k * PowerOfTwo[m.height - 1] + i).hash = Listing(m)[i + 1]
      BY DEF Finds
    <3> DEFINE index == k * PowerOfTwo[m.height - 1] + i
               a == Listing(o)
               b == Listing(y)
    <3>10. /\ i \in Nat /\ i < p + Len(b) /\ Len(a) = p /\ Len(b) \in Nat
           /\ a \in Seq(LeafHashes) /\ b \in Seq(LeafHashes) /\ Listing(m) = a \o b
      BY <3>6, <3>7, <3>8
    <3> HIDE DEF a, b
    <3>11. CASE i < p
      <4>1. index = (2 * k) * p + i /\ 2 * k \in Nat
        BY <3>7, <3>10
      <4>2. index \div p = 2 * k
        BY <3>10, <3>11, <4>1, QuotientIs
      <4>3. (index \div p) % 2 = 0
        BY <4>2
      <4>4. WalkTo(m, index) = WalkTo(o, index)
        BY <3>9, <4>3
      <4>5. i \in 0 .. Len(a) - 1
        BY <3>10, <3>11
      <4>6. WalkTo(o, (2 * k) * PowerOfTwo[o.height - 1] + i).hash = a[i + 1]
        BY <3>5, <4>1, <4>5 DEF Finds, a
      <4>7. Listing(m)[i + 1] = a[i + 1]
        BY <3>10, <3>11
      <4>8. index = (2 * k) * PowerOfTwo[o.height - 1] + i
        BY <3>7, <4>1
      <4>9. QED BY <4>4, <4>6, <4>7, <4>8
    <3>12. CASE i >= p
      <4> DEFINE j == i - p
                 q == PowerOfTwo[y.height - 1]
      <4>1. j \in Nat /\ j < Len(b) /\ j < p /\ j \in 0 .. Len(b) - 1
        BY <3>7, <3>10, <3>12 DEF b
      <4>2. index = (2 * k + 1) * p + j /\ 2 * k + 1 \in Nat
        BY <3>7, <3>10
      <4>3. q \in Nat
        BY <3>6, PowerFacts DEF IsTree
      <4> HIDE DEF j, index
      <4>4. index \div p = 2 * k + 1
        BY <4>1, <4>2, QuotientIs
      <4>5. (index \div p) % 2 = 1
        BY <4>4
      <4>6. WalkTo(m, index) = WalkTo(y, index)
        BY <3>9, <4>5
      <4>7. (2 * k + 1) * r \in Nat /\ p = r * q
        BY <3>7
      <4> HIDE DEF q
      <4>8. index = ((2 * k + 1) * r) * q + j
        BY <4>2, <4>3, <4>7
      <4>9. WalkTo(y, ((2 * k + 1) * r) * q + j).hash = b[j + 1]
        BY <3>5, <4>1, <4>7 DEF Finds, b, q
      <4>10. Listing(m)[i + 1] = b[j + 1]
        BY <3>10, <3>12, <4>1 DEF j
      <4>11. WalkTo(m, index).hash = Listing(m)[i + 1]
        BY <4>6, <4>8, <4>9, <4>10
      <4>12. QED BY <4>11 DEF index
    <3>13. i < p \/ i >= p
      BY <3>7, <3>10
    <3>14. QED BY <3>11, <3>12, <3>13, Zenon
  <2>3. QED BY <2>1, <2>2
<1> HIDE DEF S
<1>2. n \in S
  BY <1>1, NodeInduction
<1>3. QED BY <1>2 DEF S

\* In particular each index that is used leads to its leaf.
LEMMA IndexLeads ==
    ASSUME NEW n, NEW z, IsTree(n, z), Regular(n), NEW i \in 0 .. Len(Listing(n)) - 1
    PROVE  WalkTo(n, i).hash = Listing(n)[i + 1]
<1>1. Finds(n)
  BY WalkFinds
<1>2. WalkTo(n, 0 * PowerOfTwo[n.height - 1] + i).hash = Listing(n)[i + 1]
  BY <1>1 DEF Finds
<1>3. n.height - 1 \in Nat /\ i \in Int
  BY ListingCounts DEF IsTree
<1>4. PowerOfTwo[n.height - 1] \in Nat
  BY <1>3, PowerFacts
<1>5. 0 * PowerOfTwo[n.height - 1] + i = i
  BY <1>3, <1>4
<1>6. QED BY <1>2, <1>5

\* The tree that completing the stack gives has its sizes right; nothing is left
\* on the stack exactly when size() answers for all leaves; and until a hashed
\* tree grows the leaves have the order of their indices (StackCompletes).
THEOREM StackIsComplete == Spec => []StackCompletes
<1>1. IInv /\ OInv => StackCompletes
  <2> SUFFICES ASSUME IInv, OInv, root # NoRoot
               PROVE  /\ SizesAddUp(Whole)
                      /\ insertion_stack = <<>> <=> root.size = 2 * Len(leaf_nodes) - 1
                      /\ batches = 0 \/ GrownAtOnce => InOrder(Whole, leaf_nodes)
    BY DEF StackCompletes
  <2>1. /\ SizesAddUp(Whole)
        /\ insertion_stack = <<>> <=> root.size = 2 * Len(leaf_nodes) - 1
    BY SizesRight DEF StackCounts
  <2>2. ASSUME batches = 0 \/ GrownAtOnce
        PROVE  InOrder(Whole, leaf_nodes)
    <3> DEFINE n == Whole
    <3>1. IsTree(n, salt) /\ Regular(n) /\ Listing(n) = leaf_nodes
      BY <2>2, WholeInOrder
    <3> HIDE DEF n
    <3>2. \A m \in NodesOf(n) : m.sub # <<>> => is_full(Older(m)) /\ Older(m).height = m.height - 1
      BY <3>1 DEF Regular, RegularNode
    <3>3. \A i \in 0 .. Len(leaf_nodes) - 1 : WalkTo(n, i).hash = leaf_nodes[i + 1]
      BY <3>1, IndexLeads
    <3>4. QED BY <3>2, <3>3 DEF InOrder, n
  <2>3. QED BY <2>1, <2>2
<1>2. QED BY <1>1, Invariant, LeafOrder, PTL

\* An element more is a step more, of HashUp and of processProof.
LEMMA HashUpOneMore ==
    ASSUME NEW h, NEW T, NEW elements \in Seq(T), NEW e \in T
    PROVE  HashUp(h, Append(elements, e)) = Joined(HashUp(h, elements), e)
<1> DEFINE l == Len(elements)
           more == Append(elements, e)
<1>1. /\ l \in Nat /\ Len(more) = l + 1 /\ more[l + 1] = e
      /\ \A k \in 1 .. l : more[k] = elements[k]
  OBVIOUS
<1> HIDE DEF l, more
<1>2. PICK f : /\ HashUp(h, elements) = f[l]
               /\ f[0] = h
               /\ \A k \in 1 .. l : f[k] = Joined(f[k - 1], elements[k])
  BY <1>1, HashUpUnfolds DEF l
<1>3. PICK g : /\ HashUp(h, more) = g[l + 1]
               /\ g[0] = h
               /\ \A k \in 1 .. l + 1 : g[k] = Joined(g[k - 1], more[k])
  <2>1. Len(more) \in Nat
    BY <1>1
  <2>2. \E g : /\ HashUp(h, more) = g[Len(more)]
               /\ g[0] = h
               /\ \A k \in 1 .. Len(more) : g[k] = Joined(g[k - 1], more[k])
    BY <2>1, HashUpUnfolds
  <2>3. Len(more) = l + 1
    BY <1>1
  <2>4. QED BY <2>2, <2>3
<1> DEFINE S == {k \in Nat : k <= l => g[k] = f[k]}
<1>4. 0 \in S
  BY <1>2, <1>3
<1>5. ASSUME NEW k \in Nat, k \in S
      PROVE  k + 1 \in S
  <2>1. SUFFICES ASSUME k + 1 <= l PROVE g[k + 1] = f[k + 1]
    OBVIOUS
  <2>2. k + 1 \in 1 .. l /\ k + 1 \in 1 .. l + 1 /\ (k + 1) - 1 = k /\ k <= l
    BY <1>1, <2>1
  <2>3. g[k] = f[k] /\ more[k + 1] = elements[k + 1]
    BY <1>1, <1>5, <2>2
  <2>4. QED BY <1>2, <1>3, <2>2, <2>3
<1> HIDE DEF S
<1>6. l \in S
  BY <1>1, <1>4, <1>5, Induction
<1>7. g[l] = f[l]
  BY <1>1, <1>6 DEF S
<1>8. l + 1 \in 1 .. l + 1 /\ (l + 1) - 1 = l
  BY <1>1
<1>9. QED BY <1>1, <1>2, <1>3, <1>7, <1>8 DEF more

\* The same of processProof.
LEMMA ProofOneMore ==
    ASSUME NEW h, NEW T, NEW elements \in Seq(T), NEW e \in T
    PROVE  processProof(h, Append(elements, e)) = Paired(processProof(h, elements), e)
<1> DEFINE l == Len(elements)
           more == Append(elements, e)
<1>1. /\ l \in Nat /\ Len(more) = l + 1 /\ more[l + 1] = e
      /\ \A k \in 1 .. l : more[k] = elements[k]
  OBVIOUS
<1> HIDE DEF l, more
<1>2. PICK f : /\ processProof(h, elements) = f[l]
               /\ f[0] = h
               /\ \A k \in 1 .. l : f[k] = Paired(f[k - 1], elements[k])
  BY <1>1, ProofUnfolds DEF l
<1>3. PICK g : /\ processProof(h, more) = g[l + 1]
               /\ g[0] = h
               /\ \A k \in 1 .. l + 1 : g[k] = Paired(g[k - 1], more[k])
  <2>1. Len(more) \in Nat
    BY <1>1
  <2>2. \E g : /\ processProof(h, more) = g[Len(more)]
               /\ g[0] = h
               /\ \A k \in 1 .. Len(more) : g[k] = Paired(g[k - 1], more[k])
    BY <2>1, ProofUnfolds
  <2>3. Len(more) = l + 1
    BY <1>1
  <2>4. QED BY <2>2, <2>3
<1> DEFINE S == {k \in Nat : k <= l => g[k] = f[k]}
<1>4. 0 \in S
  BY <1>2, <1>3
<1>5. ASSUME NEW k \in Nat, k \in S
      PROVE  k + 1 \in S
  <2>1. SUFFICES ASSUME k + 1 <= l PROVE g[k + 1] = f[k + 1]
    OBVIOUS
  <2>2. k + 1 \in 1 .. l /\ k + 1 \in 1 .. l + 1 /\ (k + 1) - 1 = k /\ k <= l
    BY <1>1, <2>1
  <2>3. g[k] = f[k] /\ more[k + 1] = elements[k + 1]
    BY <1>1, <1>5, <2>2
  <2>4. QED BY <1>2, <1>3, <2>2, <2>3
<1> HIDE DEF S
<1>6. l \in S
  BY <1>1, <1>4, <1>5, Induction
<1>7. g[l] = f[l]
  BY <1>1, <1>6 DEF S
<1>8. l + 1 \in 1 .. l + 1 /\ (l + 1) - 1 = l
  BY <1>1
<1>9. QED BY <1>1, <1>2, <1>3, <1>7, <1>8 DEF more

\* With nothing left to join in, the hash is the leaf's.
LEMMA NoMore == ASSUME NEW h PROVE HashUp(h, <<>>) = h /\ processProof(h, <<>>) = h
<1>1. Len(<<>>) = 0
  OBVIOUS
<1>2. HashUp(h, <<>>) = h
  BY <1>1, HashUpUnfolds
<1>3. processProof(h, <<>>) = h
  BY <1>1, ProofUnfolds
<1>4. QED BY <1>2, <1>3

\* What the step at a node of a computed tree makes of the hash of the child.
LEMMA MetMakesHash ==
    ASSUME NEW n, IsTree(n, salt), n.sub # <<>>, ~n.dirty, NEW index
    PROVE  LET c == n.sub[Toward(n, index)] IN
           /\ ~c.dirty
           /\ Joined(c.hash, Met(n, index)) = n.hash
           /\ Paired(c.hash, Met(n, index)) = n.hash
<1> DEFINE l == n.sub[1].hash
           r == n.sub[2].hash
<1>1. Settled(n, salt)
  BY TreeParts DEF NodeOK
<1>2. l \in Int /\ r \in Int
  BY TreeParts DEF NodeOK, Hashes
<1>3. ~n.sub[1].dirty /\ ~n.sub[2].dirty /\ l <= r /\ n.hash = Compress(l, r)
  BY <1>1 DEF Settled, Mixed, Compress
<1> HIDE DEF l, r
<1>4. CASE GoRight(n, index)
  <2>1. Toward(n, index) = 2 /\ Met(n, index) = [hash |-> l, direction |-> "left"]
    BY <1>4, Zenon DEF Toward, Met, l
  <2>2. Joined(r, Met(n, index)) = Compress(l, r)
    BY <2>1 DEF Joined
  <2>3. Paired(r, Met(n, index)) = Compress(l, r)
    <3>1. Paired(r, Met(n, index)) = hashPair(r, l)
      BY <2>1 DEF Paired
    <3>2. ~(r < l)
      BY <1>2, <1>3
    <3>3. QED BY <3>1, <3>2 DEF hashPair
  <2>4. QED BY <1>3, <2>1, <2>2, <2>3 DEF r
<1>5. CASE ~GoRight(n, index)
  <2>1. Toward(n, index) = 1 /\ Met(n, index) = [hash |-> r, direction |-> "right"]
    BY <1>5, Zenon DEF Toward, Met, r
  <2>2. Joined(l, Met(n, index)) = Compress(l, r)
    BY <2>1 DEF Joined
  <2>3. Paired(l, Met(n, index)) = Compress(l, r)
    <3>1. Paired(l, Met(n, index)) = hashPair(l, r)
      BY <2>1 DEF Paired
    <3>2. l < r \/ l = r
      BY <1>2, <1>3
    <3>3. QED BY <3>1, <3>2 DEF hashPair
  <2>4. QED BY <1>3, <2>1, <2>2, <2>3 DEF l
<1>6. QED BY <1>4, <1>5

\* Every walk down a computed tree gives a path that hashes up from the leaf it
\* ends at, side by side and in sorted pairs.
LEMMA WalkVerifies ==
    ASSUME NEW n, IsTree(n, salt), ~n.dirty, NEW index
    PROVE  /\ HashUp(WalkTo(n, index).hash, PathFrom(n, index)) = n.hash
           /\ processProof(WalkTo(n, index).hash, PathFrom(n, index)) = n.hash
<1> DEFINE S == {m \in NodesOf(n) : ~m.dirty =>
                    /\ HashUp(WalkTo(m, index).hash, PathFrom(m, index)) = m.hash
                    /\ processProof(WalkTo(m, index).hash, PathFrom(m, index)) = m.hash}
<1>1. ASSUME NEW m, IsTree(m, salt), m \in NodesOf(n),
             m.sub # <<>> => m.sub[1] \in S /\ m.sub[2] \in S
      PROVE  m \in S
  <2>1. SUFFICES ASSUME ~m.dirty
                 PROVE  /\ HashUp(WalkTo(m, index).hash, PathFrom(m, index)) = m.hash
                        /\ processProof(WalkTo(m, index).hash, PathFrom(m, index)) = m.hash
    BY <1>1
  <2>2. CASE m.sub = <<>>
    <3>1. WalkTo(m, index) = m /\ PathFrom(m, index) = <<>>
      BY <1>1, <2>2, WalkParts
    <3>2. QED BY <3>1, NoMore
  <2>3. CASE m.sub # <<>>
    <3> DEFINE c == m.sub[Toward(m, index)]
               d == Met(m, index)
    <3>1. c \in S
      BY <1>1, <2>3 DEF Toward
    <3>2. ~c.dirty /\ Joined(c.hash, d) = m.hash /\ Paired(c.hash, d) = m.hash
      BY <1>1, <2>1, <2>3, MetMakesHash
    <3>3. IsTree(c, salt) /\ WalkTo(m, index) = WalkTo(c, index) /\ PathFrom(m, index) = Append(PathFrom(c, index), d)
      BY <1>1, <2>3, WalkParts
    <3> HIDE DEF c
    <3>4. PathFrom(c, index) \in Seq(Steps)
      BY <3>3, WalkParts
    <3>5. d \in Steps
      <4>1. m.sub[1].hash \in Hashes /\ m.sub[2].hash \in Hashes
        BY <1>1, <2>3, TreeParts DEF NodeOK
      <4>2. CASE GoRight(m, index)
        BY <4>1, <4>2 DEF Steps, Met
      <4>3. CASE ~GoRight(m, index)
        BY <4>1, <4>3 DEF Steps, Met
      <4>4. QED BY <4>2, <4>3
    <3>6. /\ HashUp(WalkTo(c, index).hash, PathFrom(c, index)) = c.hash
          /\ processProof(WalkTo(c, index).hash, PathFrom(c, index)) = c.hash
      BY <3>1, <3>2
    <3> HIDE DEF d
    <3> DEFINE h == WalkTo(c, index).hash
               p == PathFrom(c, index)
    <3>7. /\ HashUp(h, Append(p, d)) = Joined(HashUp(h, p), d)
          /\ processProof(h, Append(p, d)) = Paired(processProof(h, p), d)
      BY <3>4, <3>5, HashUpOneMore, ProofOneMore
    <3>8. QED BY <3>2, <3>3, <3>6, <3>7
  <2>4. QED BY <2>2, <2>3
<1> HIDE DEF S
<1>2. n \in S
  BY <1>1, NodeInduction
<1>3. QED BY <1>2 DEF S

\* The index that is found is one of the hash that was searched.
LEMMA FoundIsThere ==
    ASSUME leaf_nodes \in Seq(LeafHashes), NEW k \in DOMAIN leaf_nodes
    PROVE  /\ find_leaf_index(leaf_nodes[k]) \in 0 .. Len(leaf_nodes) - 1
           /\ leaf_nodes[find_leaf_index(leaf_nodes[k]) + 1] = leaf_nodes[k]
<1> DEFINE h == leaf_nodes[k]
           A == {i \in DOMAIN leaf_nodes : leaf_nodes[i] = h}
           P(i) == leaf_nodes[i] = h /\ \A j \in 1 .. i - 1 : leaf_nodes[j] # h
<1>1. DOMAIN leaf_nodes = 1 .. Len(leaf_nodes) /\ Len(leaf_nodes) \in Nat /\ k \in A
  OBVIOUS
<1>2. PICK i \in A : \A j \in A : i <= j
  <2>1. A \subseteq Nat /\ A # {}
    BY <1>1
  <2> HIDE DEF A
  <2>2. QED BY <2>1, Smallest
<1>3. i \in DOMAIN leaf_nodes /\ P(i)
  BY <1>1, <1>2
<1> DEFINE c == CHOOSE j \in DOMAIN leaf_nodes : P(j)
<1>4. c \in DOMAIN leaf_nodes /\ P(c)
  <2> HIDE DEF P
  <2>1. QED BY <1>3
<1>5. find_leaf_index(h) = c - 1
  BY <1>1, Zenon DEF find_leaf_index
<1>6. leaf_nodes[c] = h
  BY <1>4
<1> HIDE DEF c, h
<1>7. c \in 1 .. Len(leaf_nodes) /\ (c - 1) + 1 = c /\ c - 1 \in 0 .. Len(leaf_nodes) - 1
  BY <1>1, <1>4
<1>8. QED BY <1>5, <1>6, <1>7 DEF h

\* Once the root is computed every walk down the tree, whatever its index and
\* however often leaves were added, gives a path that hashes up to the root from
\* the leaf the walk ends at, as Path::verify does it and as OpenZeppelin does:
\* what goes wrong in a tree that has grown is the leaf a path starts from.
WalksVerify ==
    root # NoRoot /\ ~root.dirty =>
        \A index \in Nat :
            /\ HashUp(WalkTo(root, index).hash, PathFrom(root, index)) = root.hash
            /\ processProof(WalkTo(root, index).hash, PathFrom(root, index)) = root.hash

\* Every walk verifies, in every state whose root is computed (WalksVerify).
THEOREM EveryWalkVerifies == Spec => []WalksVerify
<1>1. IInv => WalksVerify
  BY RootIsTree, WalkVerifies DEF WalksVerify
<1>2. QED BY <1>1, Invariant, PTL

\* Until a hashed tree grows, the path to an inserted leaf hashes up to the root,
\* and the proof that findIndex and getPath make of it convinces the contract,
\* which hashes sorted pairs (ProofsConvinceContract).
THEOREM ProofsConvince == Spec => []ProofsConvinceContract
<1>1. IInv /\ OInv => ProofsConvinceContract
  <2> SUFFICES ASSUME IInv, OInv, GrownAtOnce, NEW k \in DOMAIN leaf_nodes
               PROVE  LET p == path(find_leaf_index(leaf_nodes[k])) IN
                      /\ p.leaf = leaf_nodes[k]
                      /\ verify(path(k - 1), root.hash)
                      /\ processProof(p.leaf, p.elements) = root.hash
    BY DEF ProofsConvinceContract
  <2>1. root # NoRoot /\ ~root.dirty
    BY DEF GrownAtOnce
  <2>2. IsTree(root, salt) /\ Whole = root
    <3>1. /\ IsTree(root, salt) /\ insertion_stack = <<>>
          /\ Whole = WayUp(insertion_stack, root)[Len(insertion_stack)]
      BY <2>1, RootIsTree
    <3>2. Len(<<>>) = 0 /\ WayUp(<<>>, root)[0] = root
      BY WayUpUnfolds
    <3>3. QED BY <3>1, <3>2
  <2>3. Regular(root) /\ Listing(root) = leaf_nodes
    BY <2>1, <2>2, WholeInOrder
  <2>4. ASSUME NEW i \in 0 .. Len(leaf_nodes) - 1
        PROVE  /\ HashUp(leaf_nodes[i + 1], PathFrom(root, i)) = root.hash
               /\ processProof(leaf_nodes[i + 1], PathFrom(root, i)) = root.hash
    <3>1. WalkTo(root, i).hash = leaf_nodes[i + 1]
      BY <2>2, <2>3, IndexLeads
    <3>2. QED BY <2>1, <2>2, <3>1, WalkVerifies
  <2>5. leaf_nodes \in Seq(LeafHashes)
    BY DEF IInv
  <2>6. verify(path(k - 1), root.hash)
    <3>1. k - 1 \in 0 .. Len(leaf_nodes) - 1 /\ (k - 1) + 1 = k
      BY <2>5
    <3>2. HashUp(leaf_nodes[k], PathFrom(root, k - 1)) = root.hash
      BY <2>4, <3>1
    <3>3. path(k - 1) = [leaf |-> leaf_nodes[k], elements |-> PathFrom(root, k - 1)]
      BY <3>1 DEF path
    <3>4. QED BY <3>2, <3>3 DEF verify
  <2> DEFINE i == find_leaf_index(leaf_nodes[k])
  <2>7. i \in 0 .. Len(leaf_nodes) - 1 /\ leaf_nodes[i + 1] = leaf_nodes[k]
    BY <2>5, FoundIsThere
  <2> HIDE DEF i
  <2>8. processProof(leaf_nodes[k], PathFrom(root, i)) = root.hash
    BY <2>4, <2>7
  <2>9. path(i).leaf = leaf_nodes[k] /\ path(i).elements = PathFrom(root, i)
    BY <2>7 DEF path
  <2>10. QED BY <2>6, <2>8, <2>9 DEF i
<1>2. QED BY <1>1, Invariant, LeafOrder, PTL

-----------------------------------------------------------------------------
\* Past roots and paths.

\* The steps of OnTheLeft, unfolded.
LEMMA LeftUnfolds ==
    ASSUME NEW elements, Len(elements) \in Nat
    PROVE  \E f : /\ OnTheLeft(elements) = f[Len(elements)]
                  /\ f[0] = <<>>
                  /\ \A k \in 1 .. Len(elements) :
                        f[k] = IF elements[k].direction = "left" THEN Append(f[k - 1], elements[k])
                               ELSE f[k - 1]
<1> DEFINE N == Len(elements)
           Body(g, k) == IF k = 0 THEN <<>>
                         ELSE IF elements[k].direction = "left" THEN Append(g[k - 1], elements[k])
                         ELSE g[k - 1]
           S == {k \in Nat : \E g : \A d \in 0 .. k : g[d] = Body(g, d)}
<1> HIDE DEF N
<1>n. N \in Nat /\ N = Len(elements)
  BY DEF N
<1>1. 0 \in S
  <2>1. \A d \in 0 .. 0 : [i \in 0 .. 0 |-> <<>>][d] = Body([i \in 0 .. 0 |-> <<>>], d)
    OBVIOUS
  <2>2. QED BY <2>1
<1>2. ASSUME NEW k \in Nat, k \in S
      PROVE  k + 1 \in S
  <2>1. PICK g : \A d \in 0 .. k : g[d] = Body(g, d)
    BY <1>2
  <2> DEFINE h == [d \in 0 .. k + 1 |-> IF d <= k THEN g[d]
                                        ELSE IF elements[(k + 1)].direction = "left" THEN Append(g[k], elements[(k + 1)])
                                        ELSE g[k]]
  <2>2. \A d \in 0 .. k + 1 : h[d] = Body(h, d)
    BY <2>1
  <2> HIDE DEF h
  <2>3. QED BY <2>2
<1> HIDE DEF S
<1>3. N \in S
  BY <1>n, <1>1, <1>2, Induction
<1>4. PICK g : \A d \in 0 .. N : g[d] = Body(g, d)
  BY <1>3 DEF S
<1>5. [d \in 0 .. N |-> g[d]] = [d \in 0 .. N |-> Body([e \in 0 .. N |-> g[e]], d)]
  BY <1>n, <1>4
<1>6. \E f : f = [d \in 0 .. N |-> Body(f, d)]
  BY <1>5, Zenon
<1> DEFINE w == CHOOSE f : f = [d \in 0 .. Len(elements) |-> Body(f, d)]
<1> HIDE DEF w
<1>7. w = [d \in 0 .. N |-> Body(w, d)]
  BY <1>6, <1>n, Zenon DEF w
<1>8. OnTheLeft(elements) = w[Len(elements)]
  BY Zenon DEF w, OnTheLeft
<1>9. w[0] = <<>> /\ \A k \in 1 .. N :
          w[k] = IF elements[k].direction = "left" THEN Append(w[k - 1], elements[k]) ELSE w[k - 1]
  <2>1. \A d \in 0 .. N : w[d] = Body(w, d)
    BY <1>7
  <2>2. 0 \in 0 .. N /\ \A d \in 1 .. N : d \in 0 .. N /\ d # 0
    BY <1>n
  <2>3. QED BY <2>1, <2>2
<1>10. QED BY <1>n, <1>8, <1>9

\* Of no element nothing is on the left; an element more is kept if it is.
LEMMA LeftParts ==
    ASSUME NEW T, NEW elements \in Seq(T), NEW e \in T
    PROVE  /\ OnTheLeft(<<>>) = <<>>
           /\ OnTheLeft(elements) \in Seq(T)
           /\ OnTheLeft(Append(elements, e)) =
                 IF e.direction = "left" THEN Append(OnTheLeft(elements), e) ELSE OnTheLeft(elements)
<1> DEFINE l == Len(elements)
           more == Append(elements, e)
<1>0. OnTheLeft(<<>>) = <<>>
  <2>1. Len(<<>>) = 0
    OBVIOUS
  <2>2. QED BY <2>1, LeftUnfolds
<1>1. /\ l \in Nat /\ Len(more) = l + 1 /\ more[l + 1] = e
      /\ \A k \in 1 .. l : more[k] = elements[k] /\ elements[k] \in T
  OBVIOUS
<1> HIDE DEF l, more
<1>2. PICK f : /\ OnTheLeft(elements) = f[l]
               /\ f[0] = <<>>
               /\ \A k \in 1 .. l : f[k] = IF elements[k].direction = "left" THEN Append(f[k - 1], elements[k]) ELSE f[k - 1]
  BY <1>1, LeftUnfolds DEF l
<1>3. PICK g : /\ OnTheLeft(more) = g[l + 1]
               /\ g[0] = <<>>
               /\ \A k \in 1 .. l + 1 : g[k] = IF more[k].direction = "left" THEN Append(g[k - 1], more[k]) ELSE g[k - 1]
  <2>1. Len(more) \in Nat /\ Len(more) = l + 1
    BY <1>1
  <2>2. \E g : /\ OnTheLeft(more) = g[Len(more)]
               /\ g[0] = <<>>
               /\ \A k \in 1 .. Len(more) : g[k] = IF more[k].direction = "left" THEN Append(g[k - 1], more[k]) ELSE g[k - 1]
    BY <2>1, LeftUnfolds
  <2>3. QED BY <2>1, <2>2
<1> DEFINE S == {k \in Nat : k <= l => g[k] = f[k] /\ f[k] \in Seq(T)}
<1>4. 0 \in S
  <2>1. <<>> \in Seq(T)
    OBVIOUS
  <2>2. g[0] = f[0] /\ f[0] \in Seq(T)
    BY <1>2, <1>3, <2>1
  <2>3. QED BY <2>2
<1>5. ASSUME NEW k \in Nat, k \in S
      PROVE  k + 1 \in S
  <2>1. SUFFICES ASSUME k + 1 <= l PROVE g[k + 1] = f[k + 1] /\ f[k + 1] \in Seq(T)
    OBVIOUS
  <2>2. k + 1 \in 1 .. l /\ k + 1 \in 1 .. l + 1 /\ (k + 1) - 1 = k /\ k <= l
    BY <1>1, <2>1
  <2>3. g[k] = f[k] /\ f[k] \in Seq(T) /\ more[k + 1] = elements[k + 1] /\ elements[k + 1] \in T
    BY <1>1, <1>5, <2>2
  <2>4. g[k + 1] = f[k + 1]
    BY <1>2, <1>3, <2>2, <2>3
  <2>5. Append(f[k], elements[k + 1]) \in Seq(T)
    BY <2>3
  <2>6. QED BY <1>2, <2>2, <2>3, <2>4, <2>5
<1> HIDE DEF S
<1>6. l \in S
  BY <1>1, <1>4, <1>5, Induction
<1>7. g[l] = f[l] /\ f[l] \in Seq(T)
  BY <1>1, <1>6 DEF S
<1>8. l + 1 \in 1 .. l + 1 /\ (l + 1) - 1 = l
  BY <1>1
<1>9. QED BY <1>0, <1>1, <1>2, <1>3, <1>7, <1>8 DEF more

\* The side to which a walk by the bits as they are goes, and what it adds.
RawToward(m, index) == IF BitRight(m.height, index) THEN 2 ELSE 1
RawWalked(m, index, below) ==
    [below EXCEPT !.elements =
        Append(@, [hash |-> m.sub[IF BitRight(m.height, index) THEN 1 ELSE 2].hash,
                   direction |-> IF BitRight(m.height, index) THEN "left" ELSE "right"])]

\* The recursive function of RawWalk exists on a sound tree.
LEMMA RawUnfolds ==
    ASSUME NEW n, NEW z, n.height \in Nat \ {0}, Sound(n, z), NEW index
    PROVE  \E f : /\ RawWalk(n, index) = f[n]
                  /\ \A m \in NodesOf(n) : f[m] = (IF m.sub = <<>> THEN [leaf |-> m.hash, elements |-> <<>>] ELSE RawWalked(m, index, f[m.sub[RawToward(m, index)]]))
<1> DEFINE D == NodesOf(n)
           Body(f, m) == (IF m.sub = <<>> THEN [leaf |-> m.hash, elements |-> <<>>] ELSE RawWalked(m, index, f[m.sub[RawToward(m, index)]]))
           S == {k \in Nat : \E g : \A m \in D : m.height <= k => g[m] = Body(g, m)}
<1> HIDE DEF D
<1>n. D = NodesOf(n) /\ n \in D
  BY NodesHaveRoot DEF D
<1>1. \A m \in D :
         /\ m.height \in Nat \ {0}
         /\ m.sub = <<>> \/ /\ m.sub[1].height < m.height /\ m.sub[1].height \in Nat /\ m.sub[1] \in D
                            /\ m.sub[2].height < m.height /\ m.sub[2].height \in Nat /\ m.sub[2] \in D
  <2>1. Closed(D)
    BY <1>n, NodesAreClosed
  <2>2. \A m \in D : m.sub = <<>> => m.sub = <<>>
    BY <1>n DEF Sound, NodeOK, MakeLeaf, is_full
  <2>3. QED BY <1>n, <2>1, <2>2 DEF Sound, NodeOK, Closed, Larger
<1>2. 0 \in S
  <2>1. \A g : \A m \in D : m.height <= 0 => g[m] = Body(g, m)
    BY <1>1
  <2>2. QED BY <2>1
<1>3. ASSUME NEW k \in Nat, k \in S
      PROVE  k + 1 \in S
  <2>1. PICK g : \A m \in D : m.height <= k => g[m] = Body(g, m)
    BY <1>3
  <2> DEFINE h == [m \in D |-> IF m.height <= k THEN g[m] ELSE Body(g, m)]
  <2>2. \A m \in D : m.height <= k + 1 => h[m] = Body(g, m)
    BY <1>1, <2>1
  <2>3. \A m \in D : m.height <= k + 1 => m.sub = <<>> \/ (h[m.sub[1]] = g[m.sub[1]] /\ h[m.sub[2]] = g[m.sub[2]])
    BY <1>1
  <2> HIDE DEF h
  <2>4. \A m \in D : m.height <= k + 1 => h[m] = Body(h, m)
    BY <1>1, <2>2, <2>3 DEF RawToward
  <2> HIDE DEF Body
  <2>5. QED BY <2>4
<1> HIDE DEF S
<1>4. n.height \in S /\ \A k \in Nat : k \in S
  BY <1>2, <1>3, Induction
<1>5. n.height \in S /\ \A m \in D : m.height <= n.height
  <2> DEFINE T == {m \in D : m.height <= n.height}
  <2>1. Closed(T)
    <3>1. Closed(D)
      BY <1>n, NodesAreClosed
    <3>2. ASSUME NEW m \in T, m.sub # <<>>
          PROVE  m.sub[1].height <= n.height /\ m.sub[2].height <= n.height
      BY <1>n, <3>2 DEF Sound, NodeOK, Larger
    <3>3. QED BY <3>1, <3>2 DEF Closed
  <2>2. n \in T
    BY <1>n
  <2> HIDE DEF T
  <2>3. D \subseteq T
    BY <1>n, <2>1, <2>2, NodesAreLeast
  <2>4. QED BY <1>4, <2>3 DEF T
<1>6. PICK g : \A m \in D : g[m] = Body(g, m)
  BY <1>5 DEF S
<1>7. \E f : f = [m \in D |-> Body(f, m)]
  <2> DEFINE h == [m \in D |-> g[m]]
  <2>1. \A m \in D : h[m] = Body(g, m)
    BY <1>6
  <2>2. \A m \in D : m.sub = <<>> \/ (h[m.sub[1]] = g[m.sub[1]] /\ h[m.sub[2]] = g[m.sub[2]])
    BY <1>1
  <2>3. h = [m \in D |-> h[m]]
    OBVIOUS
  <2> HIDE DEF h
  <2>4. \A m \in D : h[m] = Body(h, m)
    BY <1>1, <2>1, <2>2 DEF RawToward
  <2>5. h = [m \in D |-> Body(h, m)]
    BY <2>3, <2>4
  <2>6. QED BY <2>5, Zenon
<1> DEFINE w == CHOOSE f : f = [m \in NodesOf(n) |-> Body(f, m)]
<1> HIDE DEF w
<1>8. w = [m \in D |-> Body(w, m)]
  BY <1>7, <1>n, Zenon DEF w
<1>9. RawWalk(n, index) = w[n]
  BY Zenon DEF w, RawWalk, RawToward, RawWalked
<1>10. \A m \in D : w[m] = Body(w, m)
  BY <1>8
<1>11. QED BY <1>n, <1>9, <1>10

\* RawWalk, unfolded.
LEMMA RawLaw ==
    ASSUME NEW n, NEW z, n.height \in Nat \ {0}, Sound(n, z), NEW index
    PROVE  RawWalk(n, index) = IF n.sub = <<>> THEN [leaf |-> n.hash, elements |-> <<>>] ELSE RawWalked(n, index, RawWalk(n.sub[RawToward(n, index)], index))
<1>1. PICK f : /\ RawWalk(n, index) = f[n]
               /\ \A m \in NodesOf(n) : f[m] = (IF m.sub = <<>> THEN [leaf |-> m.hash, elements |-> <<>>] ELSE RawWalked(m, index, f[m.sub[RawToward(m, index)]]))
  BY RawUnfolds
<1>2. ASSUME NEW m \in NodesOf(n)
      PROVE  RawWalk(m, index) = f[m]
  <2>1. m.height \in Nat \ {0} /\ Sound(m, z) /\ NodesOf(m) \subseteq NodesOf(n)
    BY SoundBelow
  <2>2. PICK g : /\ RawWalk(m, index) = g[m]
                 /\ \A x \in NodesOf(m) : g[x] = (IF x.sub = <<>> THEN [leaf |-> x.hash, elements |-> <<>>] ELSE RawWalked(x, index, g[x.sub[RawToward(x, index)]]))
    BY <2>1, RawUnfolds
  <2> DEFINE S == {x \in NodesOf(m) : g[x] = f[x]}
  <2>3. ASSUME NEW x \in NodesOf(m), x.sub # <<>> => x.sub[1] \in S /\ x.sub[2] \in S
        PROVE  x \in S
    <3>1. x.sub = <<>> \/ (g[x.sub[1]] = f[x.sub[1]] /\ g[x.sub[2]] = f[x.sub[2]])
      BY <2>1, <2>3 DEF Sound, NodeOK, MakeLeaf, is_full
    <3>2. g[x] = (IF x.sub = <<>> THEN [leaf |-> x.hash, elements |-> <<>>] ELSE RawWalked(x, index, g[x.sub[RawToward(x, index)]])) /\ f[x] = (IF x.sub = <<>> THEN [leaf |-> x.hash, elements |-> <<>>] ELSE RawWalked(x, index, f[x.sub[RawToward(x, index)]]))
      BY <1>1, <2>1, <2>2
    <3>3. QED BY <3>1, <3>2 DEF RawToward
  <2> HIDE DEF S
  <2>4. m \in S
    BY <2>1, <2>3, TreeInduction, NodesHaveRoot
  <2>5. QED BY <2>2, <2>4 DEF S
<1>3. n \in NodesOf(n)
  BY NodesHaveRoot
<1>4. n.sub = <<>> \/ (n.sub[1] \in NodesOf(n) /\ n.sub[2] \in NodesOf(n))
  <2>1. n.sub = <<>> => n.sub = <<>>
    BY <1>3 DEF Sound, NodeOK, MakeLeaf, is_full
  <2>2. QED BY <1>3, <2>1, SoundBelow
<1>5. QED BY <1>1, <1>2, <1>3, <1>4 DEF RawToward
\* Where nothing is exchanged both walks are the same, but for what they end at.
LEMMA RawIsWalk ==
    ASSUME NEW n, NEW z, IsTree(n, z), Straight(n), NEW index
    PROVE  RawWalk(n, index) = [leaf |-> WalkTo(n, index).hash, elements |-> PathFrom(n, index)]
<1> DEFINE R(m) == [leaf |-> WalkTo(m, index).hash, elements |-> PathFrom(m, index)]
           S == {m \in NodesOf(n) : Straight(m) => RawWalk(m, index) = R(m)}
<1>1. ASSUME NEW m, IsTree(m, z), m \in NodesOf(n),
             m.sub # <<>> => m.sub[1] \in S /\ m.sub[2] \in S
      PROVE  m \in S
  <2>1. SUFFICES ASSUME Straight(m) PROVE RawWalk(m, index) = R(m)
    BY <1>1
  <2>2. RawWalk(m, index) = IF m.sub = <<>> THEN [leaf |-> m.hash, elements |-> <<>>]
                            ELSE RawWalked(m, index, RawWalk(m.sub[RawToward(m, index)], index))
    BY <1>1, RawLaw DEF IsTree
  <2>3. CASE m.sub = <<>>
    <3>1. WalkTo(m, index) = m /\ PathFrom(m, index) = <<>>
      BY <1>1, <2>3, WalkParts
    <3>2. QED BY <2>2, <2>3, <3>1
  <2>4. CASE m.sub # <<>>
    <3>1. ~m.swapped /\ Straight(m.sub[1]) /\ Straight(m.sub[2])
      BY <1>1, <2>1, <2>4, StraightParts
    <3>2. GoRight(m, index) <=> BitRight(m.height, index)
      <4>1. m.swapped = FALSE
        BY <1>1, <3>1, TreeParts DEF NodeOK
      <4>2. QED BY <4>1 DEF GoRight, BitRight
    <3>3. Toward(m, index) = RawToward(m, index)
      BY <3>2 DEF Toward, RawToward
    <3> DEFINE c == m.sub[Toward(m, index)]
               d == Met(m, index)
               l == WalkTo(c, index).hash
               e == PathFrom(c, index)
    <3>4. c \in S /\ Straight(c)
      BY <1>1, <2>4, <3>1 DEF Toward
    <3>5. WalkTo(m, index) = WalkTo(c, index) /\ PathFrom(m, index) = Append(e, d)
      BY <1>1, <2>4, WalkParts
    <3>6. RawWalk(c, index) = [leaf |-> l, elements |-> e]
      BY <3>4
    <3>7. RawWalk(m, index) = [RawWalk(c, index) EXCEPT !.elements = Append(@, d)]
      <4>1. RawWalk(m, index) = RawWalked(m, index, RawWalk(c, index))
        BY <2>2, <2>4, <3>3
      <4> HIDE DEF c
      <4>2. RawWalked(m, index, RawWalk(c, index)) = [RawWalk(c, index) EXCEPT !.elements = Append(@, d)]
        BY <3>2, Zenon DEF RawWalked, Met
      <4>3. QED BY <4>1, <4>2
    <3> HIDE DEF c, d, l, e
    <3>8. RawWalk(m, index) = [leaf |-> l, elements |-> Append(e, d)]
      <4>1. [[leaf |-> l, elements |-> e] EXCEPT !.elements = Append(@, d)] = [leaf |-> l, elements |-> Append(e, d)]
        OBVIOUS
      <4>2. QED BY <3>6, <3>7, <4>1
    <3>9. QED BY <3>5, <3>8 DEF l
  <2>5. QED BY <2>3, <2>4
<1> HIDE DEF S
<1>2. n \in S
  BY <1>1, NodeInduction
<1>3. QED BY <1>2 DEF S

\* A computed tree with its leaves in order and no exchange.
Plain(n) == IsTree(n, salt) /\ ~n.dirty /\ Regular(n) /\ Straight(n)

\* Such a tree is a leaf, or its first half and the rest.
LEMMA PlainParts ==
    ASSUME NEW n, Plain(n)
    PROVE  /\ Listing(n) \in Seq(LeafHashes) /\ Len(Listing(n)) \in Nat \ {0}
           /\ n.hash \in Hashes /\ n.height \in Nat \ {0}
           /\ n.sub = <<>> => n.height = 1 /\ Listing(n) = <<n.hash>>
           /\ n.sub # <<>> =>
                 /\ Plain(n.sub[1]) /\ Plain(n.sub[2])
                 /\ n.height \in Nat \ {0, 1}
                 /\ n.sub[1].height = n.height - 1 /\ n.sub[2].height <= n.height - 1
                 /\ n.hash = Compress(n.sub[1].hash, n.sub[2].hash)
                 /\ Listing(n) = Listing(n.sub[1]) \o Listing(n.sub[2])
                 /\ \E p \in Nat \ {0}, r \in Nat \ {0} :
                       /\ p = PowerOfTwo[n.height - 2]
                       /\ PowerOfTwo[n.height - 1] = 2 * p
                       /\ PowerOfTwo[n.sub[1].height - 1] = p
                       /\ p = r * PowerOfTwo[n.sub[2].height - 1]
                       /\ Len(Listing(n.sub[1])) = p
                       /\ Len(Listing(n.sub[2])) \in 1 .. p
<1>1. IsTree(n, salt) /\ NodeOK(n, salt) /\ ~n.dirty /\ Regular(n) /\ Straight(n)
  BY TreeParts DEF Plain
<1>2. ASSUME NEW m, IsTree(m, salt)
      PROVE  Listing(m) \in Seq(LeafHashes) /\ Len(Listing(m)) \in Nat \ {0}
  <2>1. Listing(m) \in Seq(LeafHashes) /\ m.size = 2 * Len(Listing(m)) - 1 /\ m.size \in Nat \ {0}
    BY <1>2, ListingCounts, TreeParts DEF NodeOK
  <2>2. Len(Listing(m)) \in Nat
    BY <2>1
  <2>3. QED BY <2>1, <2>2
<1>3. ASSUME n.sub = <<>>
      PROVE  n.height = 1 /\ Listing(n) = <<n.hash>>
  <2>1. n = MakeLeaf(n.hash)
    BY <1>1, <1>3 DEF NodeOK
  <2>2. MakeLeaf(n.hash).height = 1
    BY DEF MakeLeaf
  <2>3. QED BY <1>1, <1>3, <2>1, <2>2, ListingParts
<1>4. ASSUME n.sub # <<>>
      PROVE  /\ Plain(n.sub[1]) /\ Plain(n.sub[2])
             /\ n.height \in Nat \ {0, 1}
             /\ n.sub[1].height = n.height - 1 /\ n.sub[2].height <= n.height - 1
             /\ n.hash = Compress(n.sub[1].hash, n.sub[2].hash)
             /\ Listing(n) = Listing(n.sub[1]) \o Listing(n.sub[2])
             /\ \E p \in Nat \ {0}, r \in Nat \ {0} :
                   /\ p = PowerOfTwo[n.height - 2]
                   /\ PowerOfTwo[n.height - 1] = 2 * p
                   /\ PowerOfTwo[n.sub[1].height - 1] = p
                   /\ p = r * PowerOfTwo[n.sub[2].height - 1]
                   /\ Len(Listing(n.sub[1])) = p
                   /\ Len(Listing(n.sub[2])) \in 1 .. p
  <2>1. ~n.swapped /\ Straight(n.sub[1]) /\ Straight(n.sub[2])
    BY <1>1, <1>4, StraightParts
  <2>2. Older(n) = n.sub[1] /\ Younger(n) = n.sub[2]
    BY <1>1, <1>4, <2>1, AgesAreSides
  <2>3. Settled(n, salt)
    BY <1>1, <1>4 DEF NodeOK
  <2>4. RegularNode(n) /\ Regular(n.sub[1]) /\ Regular(n.sub[2])
    BY <1>1, <1>4, RegularParts
  <2>5. IsTree(n.sub[1], salt) /\ IsTree(n.sub[2], salt)
    BY <1>1, <1>4, TreeParts
  <2>6. Plain(n.sub[1]) /\ Plain(n.sub[2])
    BY <2>1, <2>3, <2>4, <2>5 DEF Settled, Plain
  <2>7. n.hash = Compress(n.sub[1].hash, n.sub[2].hash)
    BY <2>3 DEF Settled, Mixed, Compress
  <2>8. Listing(n) = Listing(n.sub[1]) \o Listing(n.sub[2])
    BY <1>1, <1>4, <2>2, ListingParts
  <2>9. n.height = Larger(n.sub[1].height, n.sub[2].height) + 1
        /\ n.sub[1].height \in Nat \ {0} /\ n.sub[2].height \in Nat \ {0}
    BY <1>1, <1>4 DEF NodeOK
  <2>10. n.sub[1].height = n.height - 1
    BY <1>4, <2>2, <2>4 DEF RegularNode
  <2>11. n.height \in Nat \ {0, 1} /\ n.sub[2].height <= n.height - 1
    BY <2>9, <2>10 DEF Larger
  <2>12. \E p \in Nat \ {0}, r \in Nat \ {0} :
              /\ p = PowerOfTwo[n.height - 2]
              /\ PowerOfTwo[n.height - 1] = 2 * p
              /\ PowerOfTwo[n.sub[1].height - 1] = p
              /\ p = r * PowerOfTwo[n.sub[2].height - 1]
              /\ Len(Listing(n.sub[1])) = p
              /\ Len(Listing(n.sub[2])) <= p
    BY <1>1, <1>4, <2>2, <2>4, RegularSizes
  <2>13. Len(Listing(n.sub[2])) \in Nat \ {0}
    BY <1>2, <2>5
  <2>14. \A p \in Nat : Len(Listing(n.sub[2])) <= p => Len(Listing(n.sub[2])) \in 1 .. p
    BY <2>13
  <2>15. QED BY <2>6, <2>7, <2>8, <2>10, <2>11, <2>12, <2>14
<1>5. n.hash \in Hashes /\ n.height \in Nat \ {0}
  BY <1>1 DEF NodeOK
<1>6. QED BY <1>1, <1>2, <1>3, <1>4, <1>5

\* The first elements of two lists that follow each other, and where they meet.
LEMMA FirstOfBoth ==
    ASSUME NEW T, NEW s \in Seq(T), NEW t \in Seq(T), NEW l \in 0 .. Len(s) + Len(t)
    PROVE  /\ l <= Len(s) => SubSeq(s \o t, 1, l) = SubSeq(s, 1, l)
           /\ l >= Len(s) => SubSeq(s \o t, 1, l) = s \o SubSeq(t, 1, l - Len(s))
           /\ SubSeq(s, 1, Len(s)) = s
<1>1. /\ s \o t \in Seq(T) /\ Len(s) \in Nat /\ Len(t) \in Nat
      /\ \A i \in 1 .. Len(s) + Len(t) : (s \o t)[i] = IF i <= Len(s) THEN s[i] ELSE t[i - Len(s)]
      /\ Len(s \o t) = Len(s) + Len(t)
  OBVIOUS
<1>2. ASSUME NEW u \in Seq(T), NEW k \in 0 .. Len(u)
      PROVE  /\ SubSeq(u, 1, k) \in Seq(T) /\ Len(SubSeq(u, 1, k)) = k
             /\ \A i \in 1 .. k : SubSeq(u, 1, k)[i] = u[i]
  OBVIOUS
<1>3. ASSUME l <= Len(s)
      PROVE  SubSeq(s \o t, 1, l) = SubSeq(s, 1, l)
  <2> DEFINE a == SubSeq(s \o t, 1, l)
             b == SubSeq(s, 1, l)
  <2>1. a \in Seq(T) /\ Len(a) = l /\ \A i \in 1 .. l : a[i] = (s \o t)[i]
    BY <1>1, <1>2
  <2>2. b \in Seq(T) /\ Len(b) = l /\ \A i \in 1 .. l : b[i] = s[i]
    BY <1>1, <1>2, <1>3
  <2>3. \A i \in 1 .. l : (s \o t)[i] = s[i]
    BY <1>1, <1>3
  <2> HIDE DEF a, b
  <2>4. Len(a) = Len(b) /\ \A i \in 1 .. Len(a) : a[i] = b[i]
    BY <2>1, <2>2, <2>3
  <2>5. a = b
    BY <2>1, <2>2, <2>4, SeqEqual
  <2>6. QED BY <2>5 DEF a, b
<1>4. ASSUME l >= Len(s)
      PROVE  SubSeq(s \o t, 1, l) = s \o SubSeq(t, 1, l - Len(s))
  <2> DEFINE k == l - Len(s)
             a == SubSeq(s \o t, 1, l)
             c == SubSeq(t, 1, k)
             b == s \o c
  <2>1. a \in Seq(T) /\ Len(a) = l /\ \A i \in 1 .. l : a[i] = (s \o t)[i]
    BY <1>1, <1>2
  <2>2. k \in 0 .. Len(t)
    BY <1>1, <1>4
  <2>3. c \in Seq(T) /\ Len(c) = k /\ \A i \in 1 .. k : c[i] = t[i]
    BY <1>2, <2>2
  <2> HIDE DEF a, c
  <2>4. b \in Seq(T) /\ Len(b) = l /\ \A i \in 1 .. l : b[i] = IF i <= Len(s) THEN s[i] ELSE c[i - Len(s)]
    BY <1>1, <1>4, <2>3
  <2> HIDE DEF b
  <2>5. \A i \in 1 .. l : a[i] = b[i]
    <3> SUFFICES ASSUME NEW i \in 1 .. l PROVE a[i] = b[i]
      OBVIOUS
    <3>1. CASE i <= Len(s)
      BY <1>1, <2>1, <2>4, <3>1
    <3>2. CASE i > Len(s)
      <4>1. i - Len(s) \in 1 .. k
        BY <1>1, <3>2
      <4>2. a[i] = t[i - Len(s)]
        BY <1>1, <2>1, <3>2
      <4>3. b[i] = c[i - Len(s)]
        BY <1>1, <2>4, <3>2
      <4>4. QED BY <2>3, <4>1, <4>2, <4>3
    <3>3. QED BY <1>1, <3>1, <3>2
  <2>6. a = b
    BY <2>1, <2>4, <2>5, SeqEqual
  <2>7. QED BY <2>6 DEF a, b, c
<1>5. SubSeq(s, 1, Len(s)) = s
  <2> DEFINE b == SubSeq(s, 1, Len(s))
  <2>1. b \in Seq(T) /\ Len(b) = Len(s) /\ \A i \in 1 .. Len(s) : b[i] = s[i]
    BY <1>1, <1>2
  <2> HIDE DEF b
  <2>2. b = s
    BY <2>1, SeqEqual
  <2>3. QED BY <2>2 DEF b
<1>6. QED BY <1>3, <1>4, <1>5

\* Lists that begin with lists of one length are equal part by part.
LEMMA PartByPart ==
    ASSUME NEW T, NEW s \in Seq(T), NEW t \in Seq(T), NEW u \in Seq(T), NEW v \in Seq(T),
           s \o t = u \o v, Len(s) = Len(u)
    PROVE  s = u /\ t = v
<1>1. /\ Len(s) \in Nat /\ Len(t) \in Nat /\ Len(v) \in Nat
      /\ Len(s \o t) = Len(s) + Len(t) /\ Len(u \o v) = Len(s) + Len(v)
      /\ \A i \in 1 .. Len(s) + Len(t) : (s \o t)[i] = IF i <= Len(s) THEN s[i] ELSE t[i - Len(s)]
      /\ \A i \in 1 .. Len(s) + Len(v) : (u \o v)[i] = IF i <= Len(s) THEN u[i] ELSE v[i - Len(s)]
  <2>1. /\ Len(s) \in Nat /\ Len(t) \in Nat /\ Len(s \o t) = Len(s) + Len(t)
        /\ \A i \in 1 .. Len(s) + Len(t) : (s \o t)[i] = IF i <= Len(s) THEN s[i] ELSE t[i - Len(s)]
    OBVIOUS
  <2>2. /\ Len(v) \in Nat /\ Len(u \o v) = Len(u) + Len(v)
        /\ \A i \in 1 .. Len(u) + Len(v) : (u \o v)[i] = IF i <= Len(u) THEN u[i] ELSE v[i - Len(u)]
    OBVIOUS
  <2>3. QED BY <2>1, <2>2
<1>2. Len(t) = Len(v)
  BY <1>1
<1>3. \A i \in 1 .. Len(s) : s[i] = u[i]
  BY <1>1
<1>4. \A i \in 1 .. Len(t) : t[i] = v[i]
  <2> SUFFICES ASSUME NEW i \in 1 .. Len(t) PROVE t[i] = v[i]
    OBVIOUS
  <2>1. Len(s) + i \in 1 .. Len(s) + Len(t) /\ (Len(s) + i) - Len(s) = i /\ ~(Len(s) + i <= Len(s))
    BY <1>1
  <2>2. QED BY <1>1, <1>2, <2>1
<1>5. s = u
  BY <1>3, SeqEqual
<1>6. t = v
  BY <1>2, <1>4, SeqEqual
<1>7. QED BY <1>5, <1>6

\* A number lies above one power of two and not above the next for one power only.
LEMMA OnePower ==
    ASSUME NEW d \in Nat, NEW e \in Nat, NEW l \in Nat,
           PowerOfTwo[d] < l, l <= 2 * PowerOfTwo[d], PowerOfTwo[e] < l, l <= 2 * PowerOfTwo[e]
    PROVE  d = e
<1>1. ASSUME NEW x \in Nat, NEW y \in Nat, x < y
      PROVE  2 * PowerOfTwo[x] <= PowerOfTwo[y]
  <2>1. PowerOfTwo[x + 1] = 2 * PowerOfTwo[x]
    BY Powers
  <2>2. x + 1 \in Nat /\ x + 1 <= y
    BY <1>1
  <2>3. PowerOfTwo[x + 1] <= PowerOfTwo[y]
    BY <2>2, PowerFacts
  <2>4. QED BY <2>1, <2>3
<1>2. PowerOfTwo[d] \in Nat /\ PowerOfTwo[e] \in Nat
  BY PowerFacts
<1>3. ~(d < e)
  BY <1>1, <1>2
<1>4. ~(e < d)
  BY <1>1, <1>2
<1>5. QED BY <1>3, <1>4

\* Where the first a + 1 of p + l elements end, of which l follow the first p.
LEMMA PlaceInRest ==
    ASSUME NEW a \in Nat, NEW p \in Nat \ {0}, NEW l \in 1 .. p, a + 1 \in 1 .. p + l
    PROVE  /\ a + 1 \in 0 .. p + l
           /\ a < p <=> ~(a >= p)
           /\ a < p => a + 1 <= p
           /\ a >= p => /\ a - p \in 0 .. l - 1 /\ a - p \in Nat /\ (a + 1) - p = (a - p) + 1 /\ a + 1 >= p
                        /\ p < a + 1 /\ a + 1 <= 2 * p /\ a + 1 > 1 /\ p + ((a - p) + 1) = a + 1
  OBVIOUS

\* A tree of the first leaves of another one, up to index a.
HasFirst(t, n, a) ==
    Plain(t) /\ a \in 0 .. Len(Listing(n)) - 1 /\ Listing(t) = SubSeq(Listing(n), 1, a + 1)

\* Either its leaves are in the left half of the other one, or both have the same
\* left half, and the rest is a tree of the first leaves of the other's rest.
LEMMA FirstLeaves ==
    ASSUME NEW n, Plain(n), n.sub # <<>>, NEW a, NEW t, HasFirst(t, n, a),
           NEW p, p = PowerOfTwo[n.height - 2]
    PROVE  /\ a < p => Listing(t) = SubSeq(Listing(n.sub[1]), 1, a + 1)
           /\ a >= p =>
                 /\ t.sub # <<>>
                 /\ Listing(t.sub[1]) = SubSeq(Listing(n.sub[1]), 1, p)
                 /\ a - p \in 0 .. Len(Listing(n.sub[2])) - 1
                 /\ Listing(t.sub[2]) = SubSeq(Listing(n.sub[2]), 1, (a - p) + 1)
<1>0. /\ Plain(t) /\ a \in 0 .. Len(Listing(n)) - 1
      /\ Listing(t) = SubSeq(Listing(n), 1, a + 1)
  BY DEF HasFirst
<1> DEFINE s == Listing(n.sub[1])
           y == Listing(n.sub[2])
<1>1. /\ Plain(n.sub[1]) /\ Plain(n.sub[2]) /\ Listing(n) = s \o y
      /\ n.height \in Nat \ {0, 1}
      /\ p \in Nat \ {0} /\ Len(s) = p /\ Len(y) \in 1 .. p
  BY PlainParts
<1>2. s \in Seq(LeafHashes) /\ y \in Seq(LeafHashes)
  BY <1>1, PlainParts
<1> HIDE DEF s, y
<1>3. a + 1 \in 1 .. p + Len(y) /\ a \in Nat /\ Len(y) \in Nat
  <2>1. Len(s \o y) = Len(s) + Len(y)
    BY <1>2, ConcatProperties
  <2> DEFINE b == Len(y)
  <2>2. a \in 0 .. (p + b) - 1 /\ b \in 1 .. p
    BY <1>0, <1>1, <2>1
  <2> HIDE DEF b
  <2>3. a + 1 \in 1 .. p + b /\ a \in Nat /\ b \in Nat
    BY <1>1, <2>2
  <2>4. QED BY <2>3 DEF b
<1>4. /\ a + 1 <= p => Listing(t) = SubSeq(s, 1, a + 1)
      /\ a + 1 >= p => Listing(t) = s \o SubSeq(y, 1, (a + 1) - p)
      /\ SubSeq(s, 1, p) = s
  <2> DEFINE l == a + 1
  <2>1. Listing(t) = SubSeq(s \o y, 1, l) /\ l \in 0 .. Len(s) + Len(y)
    BY <1>0, <1>1, <1>3, PlaceInRest
  <2> HIDE DEF l
  <2>2. /\ l <= Len(s) => SubSeq(s \o y, 1, l) = SubSeq(s, 1, l)
        /\ l >= Len(s) => SubSeq(s \o y, 1, l) = s \o SubSeq(y, 1, l - Len(s))
        /\ SubSeq(s, 1, Len(s)) = s
    BY <1>2, <2>1, FirstOfBoth
  <2>3. /\ l <= p => Listing(t) = SubSeq(s, 1, l)
        /\ l >= p => Listing(t) = s \o SubSeq(y, 1, l - p)
        /\ SubSeq(s, 1, p) = s
    BY <1>1, <2>1, <2>2
  <2>4. QED BY <2>3 DEF l
<1>5. ASSUME a >= p
      PROVE  /\ t.sub # <<>>
             /\ Listing(t.sub[1]) = SubSeq(s, 1, p)
             /\ a - p \in 0 .. Len(y) - 1
             /\ Listing(t.sub[2]) = SubSeq(y, 1, (a - p) + 1)
  <2> DEFINE w == SubSeq(y, 1, (a - p) + 1)
  <2>1. a - p \in 0 .. Len(y) - 1 /\ (a + 1) - p = (a - p) + 1 /\ a + 1 >= p
    BY <1>1, <1>3, <1>5, PlaceInRest
  <2>2. w \in Seq(LeafHashes) /\ Len(w) = (a - p) + 1
    BY <1>2, <2>1
  <2>3. Listing(t) = s \o w
    BY <1>4, <2>1
  <2> HIDE DEF w
  <2>4. Len(Listing(t)) = a + 1 /\ Len(Listing(t)) > 1
    <3>1. Len(s \o w) = Len(s) + Len(w)
      BY <1>2, <2>2, ConcatProperties
    <3>2. Len(Listing(t)) = p + ((a - p) + 1)
      BY <1>1, <2>2, <2>3, <3>1
    <3>3. p + ((a - p) + 1) = a + 1 /\ a + 1 > 1
      BY <1>1, <1>3, <1>5, PlaceInRest
    <3>4. QED BY <3>2, <3>3
  <2>5. t.sub # <<>>
    <3>1. t.sub = <<>> => Listing(t) = <<t.hash>>
      BY <1>0, PlainParts
    <3>2. Len(<<t.hash>>) = 1
      OBVIOUS
    <3>3. QED BY <2>4, <3>1, <3>2
  <2> DEFINE u == Listing(t.sub[1])
             v == Listing(t.sub[2])
             q == PowerOfTwo[t.height - 2]
  <2>6. /\ Plain(t.sub[1]) /\ Plain(t.sub[2]) /\ Listing(t) = u \o v
        /\ t.height \in Nat \ {0, 1}
        /\ q \in Nat \ {0} /\ Len(u) = q /\ Len(v) \in 1 .. q
    BY <1>0, <2>5, PlainParts
  <2>7. u \in Seq(LeafHashes) /\ v \in Seq(LeafHashes)
    BY <2>6, PlainParts
  <2> HIDE DEF u, v, q
  <2>8. Len(Listing(t)) = Len(u) + Len(v)
    <3>1. Len(u \o v) = Len(u) + Len(v)
      BY <2>7, ConcatProperties
    <3>2. QED BY <2>6, <3>1
  <2>9. q < a + 1 /\ a + 1 <= 2 * q
    BY <1>3, <2>4, <2>6, <2>8
  <2>10. p < a + 1 /\ a + 1 <= 2 * p
    BY <1>1, <1>3, <1>5, PlaceInRest
  <2>11. p = q
    <3> DEFINE d == n.height - 2
               e == t.height - 2
    <3>1. d \in Nat /\ e \in Nat
      <4>1. \A h \in Nat \ {0, 1} : h - 2 \in Nat
        OBVIOUS
      <4>2. QED BY <1>1, <2>6, <4>1
    <3>2. a + 1 \in Nat /\ p = PowerOfTwo[d] /\ q = PowerOfTwo[e]
      BY <1>3 DEF q
    <3> HIDE DEF d, e
    <3>3. d = e
      BY <2>9, <2>10, <3>1, <3>2, OnePower
    <3>4. QED BY <3>2, <3>3
  <2>12. u = s /\ v = w
    <3>1. u \o v = s \o w /\ Len(u) = Len(s)
      BY <1>1, <2>3, <2>6, <2>11
    <3>2. QED BY <1>2, <2>2, <2>7, <3>1, PartByPart
  <2>13. QED BY <1>4, <2>1, <2>5, <2>12 DEF u, v, w
<1>6. a < p => Listing(t) = SubSeq(s, 1, a + 1)
  BY <1>1, <1>3, <1>4, PlaceInRest
<1>7. QED BY <1>5, <1>6 DEF s, y

\* What a walk down such a tree notes on the one side and on the other.
LEMMA PlainWalk ==
    ASSUME NEW n, Plain(n), n.sub # <<>>, NEW index,
           NEW b, b = (index \div PowerOfTwo[n.height - 2]) % 2
    PROVE  /\ PathFrom(n.sub[1], index) \in Seq(Steps) /\ PathFrom(n.sub[2], index) \in Seq(Steps)
           /\ [hash |-> n.sub[1].hash, direction |-> "left"] \in Steps
           /\ [hash |-> n.sub[2].hash, direction |-> "right"] \in Steps
           /\ b = 0 => /\ WalkTo(n, index) = WalkTo(n.sub[1], index)
                       /\ PathFrom(n, index) = Append(PathFrom(n.sub[1], index),
                                                      [hash |-> n.sub[2].hash, direction |-> "right"])
           /\ b = 1 => /\ WalkTo(n, index) = WalkTo(n.sub[2], index)
                       /\ PathFrom(n, index) = Append(PathFrom(n.sub[2], index),
                                                      [hash |-> n.sub[1].hash, direction |-> "left"])
<1>1. IsTree(n, salt) /\ n.swapped = FALSE
  <2>1. IsTree(n, salt) /\ Straight(n) /\ NodeOK(n, salt)
    BY TreeParts DEF Plain
  <2>2. ~n.swapped
    BY <2>1, StraightParts
  <2>3. QED BY <2>1, <2>2 DEF NodeOK
<1>2. GoRight(n, index) <=> b = 1
  BY <1>1 DEF GoRight
<1>3. /\ IsTree(n.sub[1], salt) /\ IsTree(n.sub[2], salt)
      /\ n.sub[1].hash \in Hashes /\ n.sub[2].hash \in Hashes
  BY <1>1, TreeParts DEF NodeOK
<1>4. PathFrom(n.sub[1], index) \in Seq(Steps) /\ PathFrom(n.sub[2], index) \in Seq(Steps)
  BY <1>3, WalkParts
<1>5. /\ WalkTo(n, index) = WalkTo(n.sub[Toward(n, index)], index)
      /\ PathFrom(n, index) = Append(PathFrom(n.sub[Toward(n, index)], index), Met(n, index))
  BY <1>1, WalkParts
<1>6. /\ b = 0 => Toward(n, index) = 1 /\ Met(n, index) = [hash |-> n.sub[2].hash, direction |-> "right"]
      /\ b = 1 => Toward(n, index) = 2 /\ Met(n, index) = [hash |-> n.sub[1].hash, direction |-> "left"]
  <2>1. ASSUME b = 0 PROVE Toward(n, index) = 1 /\ Met(n, index) = [hash |-> n.sub[2].hash, direction |-> "right"]
    <3>1. ~GoRight(n, index)
      BY <1>2, <2>1
    <3>2. QED BY <3>1, Zenon DEF Toward, Met
  <2>2. ASSUME b = 1 PROVE Toward(n, index) = 2 /\ Met(n, index) = [hash |-> n.sub[1].hash, direction |-> "left"]
    <3>1. GoRight(n, index)
      BY <1>2, <2>2
    <3>2. QED BY <3>1, Zenon DEF Toward, Met
  <2>3. QED BY <2>1, <2>2
<1>7. /\ [hash |-> n.sub[1].hash, direction |-> "left"] \in Steps
      /\ [hash |-> n.sub[2].hash, direction |-> "right"] \in Steps
  BY <1>3 DEF Steps
<1>8. QED BY <1>4, <1>5, <1>6, <1>7, Zenon

\* The bit of a number that lies in the first half of a block, or in the second.
LEMMA HalfIs ==
    ASSUME NEW k \in Nat, NEW p \in Nat \ {0}, NEW i \in Nat, i < 2 * p
    PROVE  /\ i < p => /\ k * (2 * p) + i = (2 * k) * p + i /\ 2 * k \in Nat
                       /\ ((k * (2 * p) + i) \div p) % 2 = 0
           /\ i >= p => /\ k * (2 * p) + i = (2 * k + 1) * p + (i - p) /\ 2 * k + 1 \in Nat
                        /\ ((k * (2 * p) + i) \div p) % 2 = 1
<1>1. ASSUME i < p
      PROVE  /\ k * (2 * p) + i = (2 * k) * p + i /\ 2 * k \in Nat
             /\ ((k * (2 * p) + i) \div p) % 2 = 0
  <2>1. k * (2 * p) + i = (2 * k) * p + i /\ 2 * k \in Nat
    OBVIOUS
  <2>2. ((2 * k) * p + i) \div p = 2 * k
    BY <1>1, <2>1, QuotientIs
  <2>3. (2 * k) % 2 = 0
    OBVIOUS
  <2>4. QED BY <2>1, <2>2, <2>3
<1>2. ASSUME i >= p
      PROVE  /\ k * (2 * p) + i = (2 * k + 1) * p + (i - p) /\ 2 * k + 1 \in Nat
             /\ ((k * (2 * p) + i) \div p) % 2 = 1
  <2>1. k * (2 * p) + i = (2 * k + 1) * p + (i - p) /\ 2 * k + 1 \in Nat
    OBVIOUS
  <2>2. i - p \in Nat /\ i - p < p
    BY <1>2
  <2>3. ((2 * k + 1) * p + (i - p)) \div p = 2 * k + 1
    BY <2>1, <2>2, QuotientIs
  <2>4. (2 * k + 1) % 2 = 1
    OBVIOUS
  <2>5. QED BY <2>1, <2>3, <2>4
<1>3. QED BY <1>1, <1>2

\* Of a leaf it is the leaf.
LEMMA FirstOfLeaf ==
    ASSUME NEW n, Plain(n), n.sub = <<>>, NEW a, NEW t, HasFirst(t, n, a)
    PROVE  a = 0 /\ t.hash = n.hash
<1> DEFINE h == n.hash
           one == <<h>>
<1>1. Listing(n) = one /\ Len(one) = 1 /\ SubSeq(one, 1, 1) = one
  <2>1. one \in Seq({h}) /\ Len(one) = 1
    OBVIOUS
  <2>2. QED BY <2>1, PlainParts, SubSeqFull
<1> HIDE DEF one
<1>2. a = 0 /\ Listing(t) = one /\ Plain(t)
  <2>1. a \in 0 .. 0 /\ Listing(t) = SubSeq(one, 1, a + 1) /\ Plain(t)
    BY <1>1 DEF HasFirst
  <2>2. a = 0 /\ a + 1 = 1
    BY <2>1
  <2>3. QED BY <1>1, <2>1, <2>2
<1>3. CASE t.sub = <<>>
  <2>1. Listing(t) = <<t.hash>>
    BY <1>2, <1>3, PlainParts
  <2>2. <<t.hash>> = <<h>>
    BY <1>2, <2>1 DEF one
  <2>3. t.hash = h
    BY <2>2
  <2>4. QED BY <1>2, <2>3
<1>4. CASE t.sub # <<>>
  <2> DEFINE x == Listing(t.sub[1])
             y == Listing(t.sub[2])
  <2>1. Listing(t) = x \o y /\ Plain(t.sub[1]) /\ Plain(t.sub[2])
    BY <1>2, <1>4, PlainParts
  <2>2. /\ x \in Seq(LeafHashes) /\ Len(x) \in Nat \ {0}
        /\ y \in Seq(LeafHashes) /\ Len(y) \in Nat \ {0}
    BY <2>1, PlainParts
  <2> HIDE DEF x, y
  <2>3. Len(x \o y) = Len(x) + Len(y)
    BY <2>2, ConcatProperties
  <2>4. Len(x) + Len(y) = 1
    BY <1>1, <1>2, <2>1, <2>3
  <2>5. FALSE
    BY <2>2, <2>4
  <2>6. QED BY <2>5
<1>5. QED BY <1>3, <1>4

\* Of a node it is one of the left half, or has the same left half.
LEMMA FirstOfNode ==
    ASSUME NEW n, Plain(n), n.sub # <<>>, NEW a, NEW t, HasFirst(t, n, a)
    PROVE  \E p \in Nat \ {0}, r \in Nat \ {0} :
              /\ p = PowerOfTwo[n.height - 2]
              /\ PowerOfTwo[n.height - 1] = 2 * p
              /\ PowerOfTwo[n.sub[1].height - 1] = p
              /\ p = r * PowerOfTwo[n.sub[2].height - 1]
              /\ PowerOfTwo[n.sub[2].height - 1] \in Nat
              /\ a \in Nat /\ a < 2 * p
              /\ a < p => HasFirst(t, n.sub[1], a)
              /\ a >= p => /\ HasFirst(t.sub[1], n.sub[1], Len(Listing(n.sub[1])) - 1)
                           /\ HasFirst(t.sub[2], n.sub[2], a - p)
                           /\ t.hash = Compress(t.sub[1].hash, t.sub[2].hash)
<1> DEFINE l == n.sub[1]
           g == n.sub[2]
<1>1. PICK p \in Nat \ {0}, r \in Nat \ {0} :
          /\ p = PowerOfTwo[n.height - 2]
          /\ PowerOfTwo[n.height - 1] = 2 * p
          /\ PowerOfTwo[l.height - 1] = p
          /\ p = r * PowerOfTwo[g.height - 1]
          /\ Len(Listing(l)) = p
          /\ Len(Listing(g)) \in 1 .. p
  BY PlainParts
<1>2. Plain(l) /\ Plain(g) /\ Listing(n) = Listing(l) \o Listing(g)
  BY PlainParts
<1>3. Listing(l) \in Seq(LeafHashes) /\ Listing(g) \in Seq(LeafHashes)
  BY <1>2, PlainParts
<1>4. Len(Listing(n)) = p + Len(Listing(g))
  <2> DEFINE x == Listing(l)
             y == Listing(g)
  <2>1. x \in Seq(LeafHashes) /\ y \in Seq(LeafHashes) /\ Listing(n) = x \o y /\ Len(x) = p
    BY <1>1, <1>2, <1>3
  <2> HIDE DEF x, y
  <2>2. Len(x \o y) = Len(x) + Len(y)
    BY <2>1, ConcatProperties
  <2>3. Len(Listing(n)) = p + Len(y)
    BY <2>1, <2>2
  <2>4. QED BY <2>3 DEF y
<1>5. Plain(t) /\ a \in 0 .. Len(Listing(n)) - 1 /\ Listing(t) = SubSeq(Listing(n), 1, a + 1)
  BY DEF HasFirst
<1>6. /\ a < p => Listing(t) = SubSeq(Listing(l), 1, a + 1)
      /\ a >= p =>
            /\ t.sub # <<>>
            /\ Listing(t.sub[1]) = SubSeq(Listing(l), 1, p)
            /\ a - p \in 0 .. Len(Listing(g)) - 1
            /\ Listing(t.sub[2]) = SubSeq(Listing(g), 1, (a - p) + 1)
  <2>1. p = PowerOfTwo[n.height - 2]
    BY <1>1
  <2>2. QED BY <2>1, FirstLeaves
<1> HIDE DEF l, g
<1>7. a \in Nat /\ a < 2 * p
  <2> DEFINE b == Len(Listing(g))
  <2>1. a \in 0 .. (p + b) - 1 /\ b \in 1 .. p
    BY <1>1, <1>4, <1>5
  <2> HIDE DEF b
  <2>2. QED BY <2>1
<1>8. ASSUME a < p
      PROVE  HasFirst(t, l, a)
  <2>1. a \in 0 .. p - 1
    BY <1>7, <1>8
  <2>2. QED BY <1>1, <1>5, <1>6, <1>8, <2>1 DEF HasFirst
<1>9. ASSUME a >= p
      PROVE  /\ HasFirst(t.sub[1], l, Len(Listing(l)) - 1) /\ HasFirst(t.sub[2], g, a - p)
             /\ t.hash = Compress(t.sub[1].hash, t.sub[2].hash)
  <2>1. t.sub # <<>>
    BY <1>6, <1>9
  <2>2. Plain(t.sub[1]) /\ Plain(t.sub[2]) /\ t.hash = Compress(t.sub[1].hash, t.sub[2].hash)
    BY <1>5, <2>1, PlainParts
  <2>3. p - 1 \in 0 .. p - 1 /\ (p - 1) + 1 = p
    OBVIOUS
  <2>4. HasFirst(t.sub[1], l, p - 1)
    BY <1>1, <1>6, <1>9, <2>2, <2>3 DEF HasFirst
  <2>5. HasFirst(t.sub[2], g, a - p)
    BY <1>6, <1>9, <2>2 DEF HasFirst
  <2>6. QED BY <1>1, <2>2, <2>4, <2>5
<1>10. PowerOfTwo[g.height - 1] \in Nat
  <2>1. g.height \in Nat \ {0}
    BY <1>2, PlainParts
  <2>2. g.height - 1 \in Nat
    BY <2>1
  <2>3. QED BY <2>2, PowerFacts
<1>11. QED BY <1>1, <1>7, <1>8, <1>9, <1>10 DEF l, g

\* Hashed with the elements on the left alone, the path to a leaf gives the root
\* of every tree of the leaves up to that one.
ShortenedTo(n, index, t) == HashUp(WalkTo(n, index).hash, OnTheLeft(PathFrom(n, index))) = t.hash
Shortened(n) ==
    \A k \in Nat : \A a, t : HasFirst(t, n, a) => ShortenedTo(n, k * PowerOfTwo[n.height - 1] + a, t)

\* So that trees of the same leaves have the same hash.
LEMMA SameHash ==
    ASSUME NEW n, Plain(n), Shortened(n), NEW t, HasFirst(t, n, Len(Listing(n)) - 1)
    PROVE  t.hash = n.hash
<1> DEFINE l == Len(Listing(n))
           index == 0 * PowerOfTwo[n.height - 1] + (l - 1)
<1>1. Listing(n) \in Seq(LeafHashes) /\ l \in Nat \ {0}
  BY PlainParts
<1>2. SubSeq(Listing(n), 1, l) = Listing(n)
  BY <1>1, SubSeqFull
<1> HIDE DEF l
<1>3. l - 1 \in 0 .. l - 1 /\ (l - 1) + 1 = l /\ 0 \in Nat
  BY <1>1
<1>4. HasFirst(n, n, l - 1)
  BY <1>2, <1>3 DEF HasFirst, l
<1>5. ShortenedTo(n, index, t)
  BY <1>3 DEF Shortened, l
<1>6. ShortenedTo(n, index, n)
  BY <1>3, <1>4 DEF Shortened
<1>7. QED BY <1>5, <1>6 DEF ShortenedTo

\* A node to the left of which a walk goes adds nothing, the others add their
\* left half.
LEMMA ShortenedOnce ==
    ASSUME NEW n, Plain(n), n.sub # <<>>, NEW t, NEW index,
           NEW b, b = (index \div PowerOfTwo[n.height - 2]) % 2
    PROVE  /\ b = 0 /\ ShortenedTo(n.sub[1], index, t) => ShortenedTo(n, index, t)
           /\ b = 1 /\ ShortenedTo(n.sub[2], index, t.sub[2])
                    /\ t.hash = Compress(n.sub[1].hash, t.sub[2].hash) => ShortenedTo(n, index, t)
<1> DEFINE l == n.sub[1]
           g == n.sub[2]
           e == PathFrom(l, index)
           d == PathFrom(g, index)
           right == [hash |-> g.hash, direction |-> "right"]
           left == [hash |-> l.hash, direction |-> "left"]
<1>1. /\ e \in Seq(Steps) /\ d \in Seq(Steps) /\ left \in Steps /\ right \in Steps
      /\ b = 0 => WalkTo(n, index) = WalkTo(l, index) /\ PathFrom(n, index) = Append(e, right)
      /\ b = 1 => WalkTo(n, index) = WalkTo(g, index) /\ PathFrom(n, index) = Append(d, left)
  BY PlainWalk
<1>2. OnTheLeft(Append(e, right)) = OnTheLeft(e)
  <2>1. right.direction # "left"
    OBVIOUS
  <2> HIDE DEF e, right
  <2>2. OnTheLeft(Append(e, right)) = IF right.direction = "left" THEN Append(OnTheLeft(e), right) ELSE OnTheLeft(e)
    BY <1>1, LeftParts
  <2>3. QED BY <2>1, <2>2
<1>3. OnTheLeft(Append(d, left)) = Append(OnTheLeft(d), left) /\ OnTheLeft(d) \in Seq(Steps)
  <2>1. left.direction = "left"
    OBVIOUS
  <2> HIDE DEF d, left
  <2>2. /\ OnTheLeft(Append(d, left)) = IF left.direction = "left" THEN Append(OnTheLeft(d), left) ELSE OnTheLeft(d)
        /\ OnTheLeft(d) \in Seq(Steps)
    BY <1>1, LeftParts
  <2>3. QED BY <2>1, <2>2
<1>4. \A x : Joined(x, left) = Compress(l.hash, x)
  BY DEF Joined
<1>5. \A x : HashUp(x, Append(OnTheLeft(d), left)) = Joined(HashUp(x, OnTheLeft(d)), left)
  <2> HIDE DEF d, left
  <2>1. QED BY <1>1, <1>3, HashUpOneMore
<1> HIDE DEF left, right
<1>6. ASSUME b = 0, ShortenedTo(l, index, t)
      PROVE  ShortenedTo(n, index, t)
  <2>1. HashUp(WalkTo(l, index).hash, OnTheLeft(e)) = t.hash
    BY <1>6 DEF ShortenedTo
  <2> HIDE DEF e, d, l, g
  <2>2. HashUp(WalkTo(n, index).hash, OnTheLeft(PathFrom(n, index))) = t.hash
    BY <1>1, <1>2, <1>6, <2>1
  <2>3. QED BY <2>2 DEF ShortenedTo
<1>7. ASSUME b = 1, ShortenedTo(g, index, t.sub[2]), t.hash = Compress(l.hash, t.sub[2].hash)
      PROVE  ShortenedTo(n, index, t)
  <2>1. HashUp(WalkTo(g, index).hash, OnTheLeft(d)) = t.sub[2].hash
    BY <1>7 DEF ShortenedTo
  <2> HIDE DEF e, d, l, g
  <2>2. HashUp(WalkTo(n, index).hash, OnTheLeft(PathFrom(n, index))) = t.hash
    BY <1>1, <1>3, <1>4, <1>5, <1>7, <2>1
  <2>3. QED BY <2>2 DEF ShortenedTo
<1>8. QED BY <1>6, <1>7

\* Every such tree is shortened so.
LEMMA PlainShortened ==
    ASSUME NEW n, Plain(n)
    PROVE  Shortened(n)
<1> DEFINE S == {m \in NodesOf(n) : Plain(m) => Shortened(m)}
<1>1. ASSUME NEW m, IsTree(m, salt), m \in NodesOf(n),
             m.sub # <<>> => m.sub[1] \in S /\ m.sub[2] \in S
      PROVE  m \in S
  <2>1. SUFFICES ASSUME Plain(m) PROVE Shortened(m)
    BY <1>1
  <2> SUFFICES ASSUME NEW k \in Nat, NEW a, NEW t, HasFirst(t, m, a)
               PROVE  ShortenedTo(m, k * PowerOfTwo[m.height - 1] + a, t)
    BY DEF Shortened
  <2> DEFINE index == k * PowerOfTwo[m.height - 1] + a
  <2>2. CASE m.sub = <<>>
    <3>1. WalkTo(m, index) = m /\ PathFrom(m, index) = <<>>
      BY <1>1, <2>2, WalkParts
    <3>2. t.hash = m.hash
      BY <2>1, <2>2, FirstOfLeaf
    <3>3. OnTheLeft(<<>>) = <<>>
      <4>1. <<>> \in Seq({0}) /\ 0 \in {0}
        OBVIOUS
      <4>2. QED BY <4>1, LeftParts
    <3>4. HashUp(m.hash, <<>>) = m.hash
      BY NoMore
    <3> HIDE DEF index
    <3>5. HashUp(WalkTo(m, index).hash, OnTheLeft(PathFrom(m, index))) = t.hash
      BY <3>1, <3>2, <3>3, <3>4
    <3>6. QED BY <3>5 DEF ShortenedTo, index
  <2>3. CASE m.sub # <<>>
    <3> DEFINE l == m.sub[1]
               g == m.sub[2]
    <3>1. Plain(l) /\ Plain(g)
      BY <2>1, <2>3, PlainParts
    <3>2. Shortened(l) /\ Shortened(g)
      BY <1>1, <2>3, <3>1
    <3>3. PICK p \in Nat \ {0}, r \in Nat \ {0} :
              /\ p = PowerOfTwo[m.height - 2]
              /\ PowerOfTwo[m.height - 1] = 2 * p
              /\ PowerOfTwo[l.height - 1] = p
              /\ p = r * PowerOfTwo[g.height - 1]
              /\ PowerOfTwo[g.height - 1] \in Nat
              /\ a \in Nat /\ a < 2 * p
              /\ a < p => HasFirst(t, l, a)
              /\ a >= p => /\ HasFirst(t.sub[1], l, Len(Listing(l)) - 1)
                           /\ HasFirst(t.sub[2], g, a - p)
                           /\ t.hash = Compress(t.sub[1].hash, t.sub[2].hash)
      BY <2>1, <2>3, FirstOfNode
    <3> DEFINE b == (index \div p) % 2
    <3>4. /\ b = 0 /\ ShortenedTo(l, index, t) => ShortenedTo(m, index, t)
          /\ b = 1 /\ ShortenedTo(g, index, t.sub[2]) /\ t.hash = Compress(l.hash, t.sub[2].hash)
             => ShortenedTo(m, index, t)
      BY <2>1, <2>3, <3>3, ShortenedOnce
    <3>5. index = k * (2 * p) + a
      BY <3>3
    <3>6. /\ a < p => /\ k * (2 * p) + a = (2 * k) * p + a /\ 2 * k \in Nat
                      /\ ((k * (2 * p) + a) \div p) % 2 = 0
          /\ a >= p => /\ k * (2 * p) + a = (2 * k + 1) * p + (a - p) /\ 2 * k + 1 \in Nat
                       /\ ((k * (2 * p) + a) \div p) % 2 = 1
      <4>1. a \in Nat /\ a < 2 * p
        BY <3>3
      <4>2. QED BY <4>1, HalfIs, Zenon
    <3> HIDE DEF l, g, index
    <3>7. ASSUME a < p
          PROVE  ShortenedTo(m, index, t)
      <4>1. b = 0 /\ index = (2 * k) * p + a /\ 2 * k \in Nat
        BY <3>5, <3>6, <3>7
      <4> HIDE DEF b
      <4>2. HasFirst(t, l, a)
        BY <3>3, <3>7
      <4>3. ShortenedTo(l, (2 * k) * PowerOfTwo[l.height - 1] + a, t)
        BY <3>2, <4>1, <4>2 DEF Shortened
      <4>4. ShortenedTo(l, index, t)
        BY <3>3, <4>1, <4>3
      <4>5. QED BY <3>4, <4>1, <4>4
    <3>8. ASSUME a >= p
          PROVE  ShortenedTo(m, index, t)
      <4> DEFINE q == PowerOfTwo[g.height - 1]
                 c == (2 * k + 1) * r
      <4>1. b = 1 /\ index = (2 * k + 1) * p + (a - p) /\ 2 * k + 1 \in Nat
        BY <3>5, <3>6, <3>8
      <4> HIDE DEF b
      <4>2. /\ HasFirst(t.sub[1], l, Len(Listing(l)) - 1) /\ HasFirst(t.sub[2], g, a - p)
            /\ t.hash = Compress(t.sub[1].hash, t.sub[2].hash)
        BY <3>3, <3>8
      <4>3. t.sub[1].hash = l.hash
        BY <3>1, <3>2, <4>2, SameHash
      <4>4. q \in Nat /\ p = r * q
        BY <3>3
      <4> HIDE DEF q
      <4>5. (2 * k + 1) * p = c * q /\ c \in Nat
        BY <4>1, <4>4
      <4> HIDE DEF c
      <4>6. ShortenedTo(g, c * q + (a - p), t.sub[2])
        BY <3>2, <4>2, <4>5 DEF Shortened, q
      <4>7. ShortenedTo(g, index, t.sub[2])
        BY <4>1, <4>5, <4>6
      <4>8. QED BY <3>4, <4>1, <4>2, <4>3, <4>7
    <3>9. a < p \/ a >= p
      BY <3>3
    <3>10. ShortenedTo(m, index, t)
      BY <3>7, <3>8, <3>9
    <3>11. QED BY <3>10 DEF index
  <2>4. QED BY <2>2, <2>3
<1> HIDE DEF S
<1>2. IsTree(n, salt)
  BY DEF Plain
<1>3. n \in S
  BY <1>1, <1>2, NodeInduction
<1>4. QED BY <1>2, <1>3, NodesHaveRoot DEF S, IsTree

\* What past_path has from a level and the node reached there, given the levels
\* below.
PastAt(f, h, m, index, as_of) ==
    IF h = 1 THEN <<>>
    ELSE IF BitRight(h, index) # BitRight(h, as_of) THEN PathAtFork(m, index, as_of)
    ELSE IF m.height < h THEN f[<<h - 1, m>>]
    ELSE IF BitRight(h, index)
    THEN Append(f[<<h - 1, m.sub[2]>>], [hash |-> m.sub[1].hash, direction |-> "left"])
    ELSE f[<<h - 1, m.sub[1]>>]

\* The recursive function of PastPathFrom exists on a sound tree.
LEMMA PastUnfolds ==
    ASSUME NEW n, NEW z, IsTree(n, z), NEW index, NEW as_of
    PROVE  \E f : /\ PastPathFrom(n, index, as_of) = f[<<n.height, n>>]
                  /\ \A h \in 1 .. n.height, m \in NodesOf(n) :
                        f[<<h, m>>] = PastAt(f, h, m, index, as_of)
<1> DEFINE D == NodesOf(n)
           H == n.height
           P == (1 .. H) \X D
           Body(f, at) == PastAt(f, at[1], at[2], index, as_of)
           Ok(f, k) == \A at \in P : at[1] <= k => f[at] = Body(f, at)
           S == {k \in Nat : \E g : Ok(g, k)}
<1>n. n.height \in Nat \ {0} /\ Sound(n, z) /\ n \in NodesOf(n)
  BY NodesHaveRoot DEF IsTree
<1>1. \A m \in NodesOf(n) :
         /\ m.height \in Nat \ {0}
         /\ m.height > 1 => m.sub[1] \in NodesOf(n) /\ m.sub[2] \in NodesOf(n)
  <2> SUFFICES ASSUME NEW m \in NodesOf(n)
               PROVE  /\ m.height \in Nat \ {0}
                      /\ m.height > 1 => m.sub[1] \in NodesOf(n) /\ m.sub[2] \in NodesOf(n)
    OBVIOUS
  <2>1. NodeOK(m, z)
    BY <1>n DEF Sound
  <2>2. m.sub = <<>> => m.height = 1
    <3>1. m.sub = <<>> => m = MakeLeaf(m.hash)
      BY <2>1 DEF NodeOK
    <3>2. MakeLeaf(m.hash).height = 1
      BY DEF MakeLeaf
    <3>3. QED BY <3>1, <3>2
  <2>3. m.height \in Nat \ {0}
    BY <2>1 DEF NodeOK
  <2>4. m.sub # <<>> => m.sub[1] \in NodesOf(n) /\ m.sub[2] \in NodesOf(n)
    BY NodesHaveChildren
  <2>5. QED BY <2>2, <2>3, <2>4
<1> HIDE DEF D, H
<1>2. \A at \in P :
         /\ at = <<at[1], at[2]>> /\ at[1] \in 1 .. H /\ at[2] \in D
         /\ at[1] # 1 =>
               /\ at[1] - 1 \in 1 .. H
               /\ <<at[1] - 1, at[2]>> \in P
               /\ ~(at[2].height < at[1]) => <<at[1] - 1, at[2].sub[1]>> \in P /\ <<at[1] - 1, at[2].sub[2]>> \in P
  <2> SUFFICES ASSUME NEW h \in 1 .. H, NEW m \in D
               PROVE  h # 1 => /\ h - 1 \in 1 .. H
                               /\ ~(m.height < h) => m.sub[1] \in D /\ m.sub[2] \in D
    OBVIOUS
  <2>1. H \in Nat /\ (h # 1 => h - 1 \in 1 .. H)
    BY <1>n DEF H
  <2>2. m.height \in Nat \ {0} /\ (m.height > 1 => m.sub[1] \in D /\ m.sub[2] \in D)
    BY <1>1 DEF D
  <2>3. h # 1 /\ ~(m.height < h) => m.height > 1
    BY <2>1, <2>2
  <2>4. QED BY <2>1, <2>2, <2>3
<1>3. 0 \in S
  <2>1. \A g : Ok(g, 0)
    BY <1>2
  <2>2. QED BY <2>1
<1>a. ASSUME NEW f, NEW g, NEW at \in P,
             at[1] # 1 => /\ f[<<at[1] - 1, at[2]>>] = g[<<at[1] - 1, at[2]>>]
                          /\ ~(at[2].height < at[1]) => /\ f[<<at[1] - 1, at[2].sub[1]>>] = g[<<at[1] - 1, at[2].sub[1]>>]
                                                        /\ f[<<at[1] - 1, at[2].sub[2]>>] = g[<<at[1] - 1, at[2].sub[2]>>]
      PROVE  Body(f, at) = Body(g, at)
  BY <1>a DEF PastAt
<1> HIDE DEF Body
<1>4. ASSUME NEW k \in Nat, k \in S
      PROVE  k + 1 \in S
  <2>1. PICK g : Ok(g, k)
    BY <1>4
  <2> DEFINE h == [at \in P |-> IF at[1] <= k THEN g[at] ELSE Body(g, at)]
  <2>2. \A at \in P : at[1] <= k + 1 => h[at] = Body(g, at)
    BY <2>1
  <2>3. \A at \in P : at[1] <= k => h[at] = g[at]
    OBVIOUS
  <2> HIDE DEF h, P
  <2>4. ASSUME NEW at \in P, at[1] <= k + 1
        PROVE  h[at] = Body(h, at)
    <3>1. at[1] # 1 => /\ h[<<at[1] - 1, at[2]>>] = g[<<at[1] - 1, at[2]>>]
                       /\ ~(at[2].height < at[1]) => /\ h[<<at[1] - 1, at[2].sub[1]>>] = g[<<at[1] - 1, at[2].sub[1]>>]
                                                     /\ h[<<at[1] - 1, at[2].sub[2]>>] = g[<<at[1] - 1, at[2].sub[2]>>]
      <4>1. \A x : <<at[1] - 1, x>>[1] = at[1] - 1
        OBVIOUS
      <4>2. at[1] - 1 <= k
        <5>1. at[1] \in 1 .. H
          BY <1>2
        <5>2. QED BY <2>4, <5>1
      <4>3. \A x : <<at[1] - 1, x>> \in P => h[<<at[1] - 1, x>>] = g[<<at[1] - 1, x>>]
        BY <2>3, <4>1, <4>2
      <4>4. QED BY <1>2, <4>3
    <3>2. Body(h, at) = Body(g, at)
      BY <1>a, <3>1
    <3>3. QED BY <2>2, <2>4, <3>2
  <2>5. Ok(h, k + 1)
    BY <2>4
  <2>6. QED BY <2>5
<1> HIDE DEF S
<1>5. H \in Nat /\ \A k \in Nat : k \in S
  BY <1>n, <1>3, <1>4, Induction DEF H
<1>6. PICK g : \A at \in P : g[at] = Body(g, at)
  <2>1. PICK g : Ok(g, H)
    BY <1>5 DEF S
  <2>2. \A at \in P : at[1] <= H
    BY <1>2, <1>5
  <2>3. QED BY <2>1, <2>2
<1>7. \E f : f = [at \in P |-> Body(f, at)]
  <2> DEFINE h == [at \in P |-> g[at]]
  <2>1. \A at \in P : h[at] = g[at]
    OBVIOUS
  <2>2. h = [at \in P |-> h[at]]
    OBVIOUS
  <2> HIDE DEF h
  <2>3. \A at \in P : h[at] = Body(h, at)
    <3> SUFFICES ASSUME NEW at \in P PROVE h[at] = Body(h, at)
      OBVIOUS
    <3>1. at[1] # 1 => /\ h[<<at[1] - 1, at[2]>>] = g[<<at[1] - 1, at[2]>>]
                       /\ ~(at[2].height < at[1]) => /\ h[<<at[1] - 1, at[2].sub[1]>>] = g[<<at[1] - 1, at[2].sub[1]>>]
                                                     /\ h[<<at[1] - 1, at[2].sub[2]>>] = g[<<at[1] - 1, at[2].sub[2]>>]
      <4> HIDE DEF P
      <4>1. QED BY <1>2, <2>1
    <3>2. Body(h, at) = Body(g, at)
      BY <1>a, <3>1
    <3>3. QED BY <1>6, <2>1, <3>2
  <2>4. h = [at \in P |-> Body(h, at)]
    <3> HIDE DEF P
    <3>1. QED BY <2>2, <2>3
  <2>5. QED BY <2>4, Zenon
<1> DEFINE w == CHOOSE f : f = [at \in (1 .. n.height) \X NodesOf(n) |-> PastAt(f, at[1], at[2], index, as_of)]
<1>8. PastPathFrom(n, index, as_of) = w[<<n.height, n>>]
  BY Zenon DEF PastPathFrom, PastAt
<1> HIDE DEF w
<1>9. w = [at \in P |-> Body(w, at)]
  BY <1>7, Zenon DEF w, Body, D, H
<1>10. \A at \in P : w[at] = Body(w, at)
  BY <1>9
<1>11. \A h \in 1 .. n.height, m \in NodesOf(n) : w[<<h, m>>] = PastAt(w, h, m, index, as_of)
  BY <1>10 DEF Body, D, H
<1>12. QED BY <1>8, <1>11

\* A path but for its last element.
LEMMA ButTopIs ==
    ASSUME NEW T, NEW e \in Seq(T), NEW x \in T
    PROVE  ButTop(Append(e, x)) = e
<1> DEFINE l == Len(e)
           more == Append(e, x)
<1>1. l \in Nat /\ more \in Seq(T) /\ Len(more) = l + 1 /\ \A k \in 1 .. l : more[k] = e[k]
  OBVIOUS
<1> HIDE DEF more
<1>2. (l + 1) - 1 = l /\ l \in 0 .. Len(more)
  BY <1>1
<1>3. /\ SubSeq(more, 1, l) \in Seq(T) /\ Len(SubSeq(more, 1, l)) = l
      /\ \A k \in 1 .. l : SubSeq(more, 1, l)[k] = more[k]
  BY <1>1, <1>2
<1>4. SubSeq(more, 1, l) = e
  BY <1>1, <1>3, SeqEqual
<1>5. QED BY <1>1, <1>2, <1>4 DEF ButTop, more

\* The path from a fork: that of the older leaf in the left half, and what the
\* other half hashed to.
LEMMA ForkIs ==
    ASSUME NEW n, Plain(n), n.sub # <<>>, NEW index, NEW as_of,
           (index \div PowerOfTwo[n.height - 2]) % 2 = 0,
           (as_of \div PowerOfTwo[n.height - 2]) % 2 = 1
    PROVE  PathAtFork(n, index, as_of) =
               Append(PathFrom(n.sub[1], index),
                      [hash |-> HashUp(WalkTo(n.sub[2], as_of).hash, OnTheLeft(PathFrom(n.sub[2], as_of))),
                       direction |-> "right"])
<1> DEFINE l == n.sub[1]
           g == n.sub[2]
           e == PathFrom(l, index)
           d == PathFrom(g, as_of)
           right == [hash |-> g.hash, direction |-> "right"]
           left == [hash |-> l.hash, direction |-> "left"]
           o == OnTheLeft(d)
<1>1. e \in Seq(Steps) /\ right \in Steps /\ PathFrom(n, index) = Append(e, right)
  BY PlainWalk
<1>2. /\ d \in Seq(Steps) /\ left \in Steps /\ PathFrom(n, as_of) = Append(d, left)
      /\ WalkTo(n, as_of) = WalkTo(g, as_of)
  BY PlainWalk
<1>3. IsTree(n, salt) /\ Straight(n)
  BY DEF Plain
<1>4. /\ RawWalk(n, index).elements = PathFrom(n, index)
      /\ RawWalk(n, as_of).leaf = WalkTo(n, as_of).hash /\ RawWalk(n, as_of).elements = PathFrom(n, as_of)
  <2>1. RawWalk(n, index) = [leaf |-> WalkTo(n, index).hash, elements |-> PathFrom(n, index)]
    BY <1>3, RawIsWalk
  <2>2. RawWalk(n, as_of) = [leaf |-> WalkTo(n, as_of).hash, elements |-> PathFrom(n, as_of)]
    BY <1>3, RawIsWalk
  <2>3. QED BY <2>1, <2>2
<1>5. left.direction = "left"
  OBVIOUS
<1> HIDE DEF e, d, right, left
<1>6. ButTop(RawWalk(n, index).elements) = e
  BY <1>1, <1>4, ButTopIs
<1>7. OnTheLeft(Append(d, left)) = Append(o, left) /\ o \in Seq(Steps)
  BY <1>2, <1>5, LeftParts
<1> HIDE DEF o
<1>8. ButTop(OnTheLeft(RawWalk(n, as_of).elements)) = o
  BY <1>2, <1>4, <1>7, ButTopIs
<1>9. HashAsOf(n, as_of) = HashUp(WalkTo(g, as_of).hash, o)
  BY <1>2, <1>4, <1>8 DEF HashAsOf
<1>10. PathAtFork(n, index, as_of) = Append(e, [hash |-> HashUp(WalkTo(g, as_of).hash, o), direction |-> "right"])
  BY <1>6, <1>9, Zenon DEF PathAtFork
<1>11. QED BY <1>10 DEF e, d, o

\* A tree has no more leaves than its height allows.
LEMMA LeavesFit ==
    ASSUME NEW n, Plain(n)
    PROVE  Len(Listing(n)) <= PowerOfTwo[n.height - 1]
<1>1. CASE n.sub = <<>>
  <2>1. n.height = 1 /\ Listing(n) = <<n.hash>>
    BY <1>1, PlainParts
  <2>2. Len(<<n.hash>>) = 1 /\ 1 - 1 = 0
    OBVIOUS
  <2>3. QED BY <2>1, <2>2, FirstPowers
<1>2. CASE n.sub # <<>>
  <2> DEFINE x == Listing(n.sub[1])
             y == Listing(n.sub[2])
  <2>1. PICK p \in Nat \ {0} : /\ PowerOfTwo[n.height - 1] = 2 * p
                               /\ Len(x) = p /\ Len(y) \in 1 .. p
    BY <1>2, PlainParts
  <2>2. Plain(n.sub[1]) /\ Plain(n.sub[2]) /\ Listing(n) = x \o y
    BY <1>2, PlainParts
  <2>3. x \in Seq(LeafHashes) /\ y \in Seq(LeafHashes)
    BY <2>2, PlainParts
  <2> HIDE DEF x, y
  <2>4. Len(x \o y) = Len(x) + Len(y)
    BY <2>3, ConcatProperties
  <2> DEFINE b == Len(y)
  <2>5. b \in 1 .. p /\ Len(Listing(n)) = p + b
    BY <2>1, <2>2, <2>4
  <2> HIDE DEF b
  <2>6. QED BY <2>1, <2>5
<1>3. QED BY <1>1, <1>2

\* From a level and a node the path leads from a leaf below the node to the root
\* of the tree of the leaves up to as_of's.
PastLeads(f, h, m, index, as_of) ==
    \A k \in Nat : \A i, a, t :
        /\ i \in 0 .. a /\ HasFirst(t, m, a)
        /\ index = k * PowerOfTwo[h - 1] + i /\ as_of = k * PowerOfTwo[h - 1] + a
        =>
            f[<<h, m>>] \in Seq(Steps) /\ HashUp(Listing(m)[i + 1], f[<<h, m>>]) = t.hash

\* It does from level 1, where the node is the leaf.
LEMMA PastLeaf ==
    ASSUME NEW m, Plain(m), m.height = 1, NEW index, NEW as_of, NEW f,
           f[<<1, m>>] = PastAt(f, 1, m, index, as_of)
    PROVE  PastLeads(f, 1, m, index, as_of)
<1> SUFFICES ASSUME NEW i, NEW a, NEW t, i \in 0 .. a, HasFirst(t, m, a)
             PROVE  f[<<1, m>>] \in Seq(Steps) /\ HashUp(Listing(m)[i + 1], f[<<1, m>>]) = t.hash
  BY DEF PastLeads
<1>1. m.sub = <<>> /\ Listing(m) = <<m.hash>>
  BY PlainParts
<1>2. a = 0 /\ t.hash = m.hash
  BY <1>1, FirstOfLeaf
<1>3. i = 0 /\ i + 1 = 1
  BY <1>2
<1>4. Listing(m)[1] = m.hash
  BY <1>1
<1>5. f[<<1, m>>] = <<>>
  BY DEF PastAt
<1>6. <<>> \in Seq(Steps)
  OBVIOUS
<1>7. QED BY <1>2, <1>3, <1>4, <1>5, <1>6, NoMore

\* It does from a level that the node does not reach.
LEMMA PastSkips ==
    ASSUME NEW m, Plain(m), NEW h \in Nat \ {0, 1}, m.height < h, NEW index, NEW as_of, NEW f,
           f[<<h, m>>] = PastAt(f, h, m, index, as_of), PastLeads(f, h - 1, m, index, as_of)
    PROVE  PastLeads(f, h, m, index, as_of)
<1> DEFINE p == PowerOfTwo[h - 2]
<1>1. p \in Nat \ {0} /\ PowerOfTwo[h - 1] = 2 * p /\ (h - 1) - 1 = h - 2
  <2>1. h - 2 \in Nat /\ (h - 2) + 1 = h - 1 /\ (h - 1) - 1 = h - 2
    OBVIOUS
  <2>2. PowerOfTwo[(h - 2) + 1] = 2 * PowerOfTwo[h - 2] /\ PowerOfTwo[h - 2] \in Nat \ {0}
    BY <2>1, Powers, PowerFacts
  <2>3. QED BY <2>1, <2>2
<1>2. Len(Listing(m)) <= p /\ Len(Listing(m)) \in Nat
  <2> DEFINE x == PowerOfTwo[m.height - 1]
             l == Len(Listing(m))
  <2>1. m.height \in Nat \ {0} /\ l \in Nat /\ l <= x
    BY PlainParts, LeavesFit
  <2>2. m.height - 1 \in Nat /\ h - 2 \in Nat /\ m.height - 1 <= h - 2
    BY <2>1
  <2>3. x <= p /\ x \in Nat
    BY <2>2, PowerFacts
  <2> HIDE DEF x, l, p
  <2>4. l <= p
    BY <1>1, <2>1, <2>3
  <2>5. QED BY <2>1, <2>4 DEF l
<1> SUFFICES ASSUME NEW k \in Nat, NEW i, NEW a, NEW t, i \in 0 .. a, HasFirst(t, m, a),
                    index = k * PowerOfTwo[h - 1] + i, as_of = k * PowerOfTwo[h - 1] + a
             PROVE  f[<<h, m>>] \in Seq(Steps) /\ HashUp(Listing(m)[i + 1], f[<<h, m>>]) = t.hash
  BY DEF PastLeads
<1>3. /\ a \in Nat /\ i \in Nat /\ a < p /\ i < p /\ a < 2 * p /\ i < 2 * p
  <2> DEFINE l == Len(Listing(m))
  <2>1. a \in 0 .. l - 1
    BY DEF HasFirst
  <2> HIDE DEF l, p
  <2>2. QED BY <1>1, <1>2, <2>1 DEF l
<1>4. index = k * (2 * p) + i /\ as_of = k * (2 * p) + a
  BY <1>1
<1>5. /\ k * (2 * p) + i = (2 * k) * p + i /\ ((k * (2 * p) + i) \div p) % 2 = 0
      /\ k * (2 * p) + a = (2 * k) * p + a /\ ((k * (2 * p) + a) \div p) % 2 = 0
      /\ 2 * k \in Nat
  <2> HIDE DEF p
  <2>1. QED BY <1>1, <1>3, HalfIs
<1>6. BitRight(h, index) = FALSE /\ BitRight(h, as_of) = FALSE
  <2>1. (index \div p) % 2 = 0 /\ (as_of \div p) % 2 = 0
    BY <1>4, <1>5
  <2>2. QED BY <2>1 DEF BitRight
<1>7. f[<<h, m>>] = f[<<h - 1, m>>]
  BY <1>6 DEF PastAt
<1>8. index = (2 * k) * PowerOfTwo[(h - 1) - 1] + i /\ as_of = (2 * k) * PowerOfTwo[(h - 1) - 1] + a
  BY <1>1, <1>4, <1>5
<1>9. QED BY <1>5, <1>7, <1>8 DEF PastLeads

\* Where a leaf of p + b is, in the first p or after them.
LEMMA PlaceInBoth ==
    ASSUME NEW p \in Nat \ {0}, NEW b \in Nat, NEW i \in Nat, NEW a \in 0 .. (p + b) - 1, i <= a
    PROVE  i + 1 \in 1 .. p + b
  OBVIOUS

LEMMA PlaceOfSecond ==
    ASSUME NEW p \in Nat \ {0}, NEW i \in Nat
    PROVE  /\ i + 1 <= p <=> i < p
           /\ i >= p => (i + 1) - p = (i - p) + 1
           /\ i < p <=> ~(i >= p)
  OBVIOUS

\* What that says of one leaf and one tree.
LEMMA LedFrom ==
    ASSUME NEW f, NEW h, NEW m, NEW index, NEW as_of, PastLeads(f, h, m, index, as_of),
           NEW k \in Nat, NEW i, NEW a, NEW t, i \in 0 .. a, HasFirst(t, m, a),
           index = k * PowerOfTwo[h - 1] + i, as_of = k * PowerOfTwo[h - 1] + a
    PROVE  f[<<h, m>>] \in Seq(Steps) /\ HashUp(Listing(m)[i + 1], f[<<h, m>>]) = t.hash
  BY DEF PastLeads

\* It does from a level whose node is reached: both leaves are in the left half,
\* both are in the right one, or the ways part.
LEMMA PastNode ==
    ASSUME NEW m, Plain(m), NEW h \in Nat \ {0, 1}, m.height = h, NEW index, NEW as_of, NEW f,
           f[<<h, m>>] = PastAt(f, h, m, index, as_of),
           PastLeads(f, h - 1, m.sub[1], index, as_of), PastLeads(f, h - 1, m.sub[2], index, as_of)
    PROVE  PastLeads(f, h, m, index, as_of)
<1> SUFFICES ASSUME NEW k \in Nat, NEW i, NEW a, NEW t, i \in 0 .. a, HasFirst(t, m, a),
                    index = k * PowerOfTwo[h - 1] + i, as_of = k * PowerOfTwo[h - 1] + a
             PROVE  f[<<h, m>>] \in Seq(Steps) /\ HashUp(Listing(m)[i + 1], f[<<h, m>>]) = t.hash
  BY DEF PastLeads
<1> DEFINE l == m.sub[1]
           g == m.sub[2]
           left == [hash |-> l.hash, direction |-> "left"]
<1>1. m.sub # <<>>
  BY PlainParts
<1>2. Plain(l) /\ Plain(g) /\ Listing(m) = Listing(l) \o Listing(g)
  BY <1>1, PlainParts
<1>3. PICK p \in Nat \ {0}, r \in Nat \ {0} :
          /\ p = PowerOfTwo[m.height - 2]
          /\ PowerOfTwo[m.height - 1] = 2 * p
          /\ PowerOfTwo[l.height - 1] = p
          /\ p = r * PowerOfTwo[g.height - 1]
          /\ PowerOfTwo[g.height - 1] \in Nat
          /\ a \in Nat /\ a < 2 * p
          /\ a < p => HasFirst(t, l, a)
          /\ a >= p => /\ HasFirst(t.sub[1], l, Len(Listing(l)) - 1)
                       /\ HasFirst(t.sub[2], g, a - p)
                       /\ t.hash = Compress(t.sub[1].hash, t.sub[2].hash)
  BY <1>1, FirstOfNode
<1>4. /\ p = PowerOfTwo[h - 2] /\ PowerOfTwo[h - 1] = 2 * p /\ PowerOfTwo[(h - 1) - 1] = p
      /\ a \in Nat /\ i \in Nat /\ i <= a /\ a < 2 * p /\ i < 2 * p
  <2>1. (h - 1) - 1 = h - 2
    OBVIOUS
  <2>2. a \in Nat /\ a < 2 * p
    BY <1>3
  <2>3. i \in Nat /\ i <= a /\ i < 2 * p
    BY <2>2
  <2>4. QED BY <1>3, <2>1, <2>2, <2>3
<1>5. index = k * (2 * p) + i /\ as_of = k * (2 * p) + a
  BY <1>4
<1>6. /\ i < p => /\ k * (2 * p) + i = (2 * k) * p + i /\ 2 * k \in Nat
                  /\ ((k * (2 * p) + i) \div p) % 2 = 0
      /\ i >= p => /\ k * (2 * p) + i = (2 * k + 1) * p + (i - p) /\ 2 * k + 1 \in Nat
                   /\ ((k * (2 * p) + i) \div p) % 2 = 1
      /\ a < p => /\ k * (2 * p) + a = (2 * k) * p + a /\ 2 * k \in Nat
                  /\ ((k * (2 * p) + a) \div p) % 2 = 0
      /\ a >= p => /\ k * (2 * p) + a = (2 * k + 1) * p + (a - p) /\ 2 * k + 1 \in Nat
                   /\ ((k * (2 * p) + a) \div p) % 2 = 1
  <2>1. i \in Nat /\ i < 2 * p /\ a \in Nat /\ a < 2 * p
    BY <1>4
  <2>2. /\ i < p => /\ k * (2 * p) + i = (2 * k) * p + i /\ 2 * k \in Nat
                    /\ ((k * (2 * p) + i) \div p) % 2 = 0
        /\ i >= p => /\ k * (2 * p) + i = (2 * k + 1) * p + (i - p) /\ 2 * k + 1 \in Nat
                     /\ ((k * (2 * p) + i) \div p) % 2 = 1
    BY <2>1, HalfIs, Zenon
  <2>3. /\ a < p => /\ k * (2 * p) + a = (2 * k) * p + a /\ 2 * k \in Nat
                    /\ ((k * (2 * p) + a) \div p) % 2 = 0
        /\ a >= p => /\ k * (2 * p) + a = (2 * k + 1) * p + (a - p) /\ 2 * k + 1 \in Nat
                     /\ ((k * (2 * p) + a) \div p) % 2 = 1
    BY <2>1, HalfIs, Zenon
  <2>4. QED BY <2>2, <2>3
<1>7. /\ i < p => BitRight(h, index) = FALSE /\ i + 1 \in 1 .. p
      /\ i >= p => BitRight(h, index) = TRUE /\ i - p \in 0 .. a - p /\ (i + 1) - p = (i - p) + 1 /\ a >= p
      /\ a < p => BitRight(h, as_of) = FALSE
      /\ a >= p => BitRight(h, as_of) = TRUE
  <2>1. /\ i < p => (index \div PowerOfTwo[h - 2]) % 2 = 0
        /\ i >= p => (index \div PowerOfTwo[h - 2]) % 2 = 1
        /\ a < p => (as_of \div PowerOfTwo[h - 2]) % 2 = 0
        /\ a >= p => (as_of \div PowerOfTwo[h - 2]) % 2 = 1
    BY <1>4, <1>5, <1>6
  <2>2. /\ i < p => BitRight(h, index) = FALSE
        /\ i >= p => BitRight(h, index) = TRUE
        /\ a < p => BitRight(h, as_of) = FALSE
        /\ a >= p => BitRight(h, as_of) = TRUE
    BY <2>1 DEF BitRight
  <2>3. /\ i < p => i + 1 \in 1 .. p
        /\ i >= p => i - p \in 0 .. a - p /\ (i + 1) - p = (i - p) + 1 /\ a >= p
    BY <1>4
  <2>4. QED BY <2>2, <2>3
<1>8. /\ i < p => Listing(m)[i + 1] = Listing(l)[i + 1]
      /\ i >= p => Listing(m)[i + 1] = Listing(g)[(i - p) + 1]
  <2> DEFINE x == Listing(l)
             y == Listing(g)
             j == i + 1
  <2>1. x \in Seq(LeafHashes) /\ y \in Seq(LeafHashes)
    BY <1>2, PlainParts
  <2>2. Len(x) = p
    <3>1. \E q \in Nat \ {0}, s \in Nat \ {0} :
              /\ q = PowerOfTwo[m.height - 2]
              /\ Len(Listing(m.sub[1])) = q
      BY <1>1, PlainParts
    <3>2. QED BY <1>3, <3>1
  <2>3. j \in 1 .. Len(x) + Len(y)
    <3> DEFINE b == Len(y)
    <3>1. Len(Listing(m)) = p + b /\ b \in Nat
      <4> HIDE DEF x, y
      <4>1. Len(x \o y) = Len(x) + Len(y) /\ Len(y) \in Nat
        BY <2>1, ConcatProperties
      <4>2. QED BY <1>2, <2>2, <4>1 DEF x, y
    <3> HIDE DEF b
    <3>2. a \in 0 .. (p + b) - 1
      BY <3>1 DEF HasFirst
    <3>3. j \in 1 .. p + b
      <4>1. i \in Nat /\ i <= a /\ b \in Nat /\ p \in Nat \ {0}
        BY <1>3, <1>4, <3>1
      <4>2. QED BY <3>2, <4>1, PlaceInBoth, Zenon
    <3>4. QED BY <2>2, <3>3 DEF b
  <2> HIDE DEF x, y, j
  <2>4. (x \o y)[j] = IF j <= Len(x) THEN x[j] ELSE y[j - Len(x)]
    BY <2>1, <2>3, ConcatProperties
  <2>5. (j <= Len(x) <=> i < p) /\ (i >= p => j - Len(x) = (i - p) + 1) /\ (i < p \/ i >= p) /\ (i >= p => ~(i < p))
    <3>1. i \in Nat /\ p \in Nat \ {0}
      BY <1>3, <1>4
    <3>2. /\ i + 1 <= p <=> i < p
          /\ i >= p => (i + 1) - p = (i - p) + 1
          /\ i < p <=> ~(i >= p)
      BY <3>1, PlaceOfSecond, Zenon
    <3>3. QED BY <2>2, <3>2, Zenon DEF j
  <2>6. Listing(m)[j] = (x \o y)[j]
    BY <1>2 DEF x, y
  <2>7. /\ i < p => Listing(m)[j] = x[j]
        /\ i >= p => Listing(m)[j] = y[(i - p) + 1]
    BY <2>4, <2>5, <2>6
  <2>8. QED BY <2>7 DEF x, y, j
<1>h. h # 1 /\ ~(m.height < h)
  OBVIOUS
<1>9. a >= p => t.sub[1].hash = l.hash
  BY <1>2, <1>3, PlainShortened, SameHash
<1>10. CASE a < p
  <2>1. i < p
    BY <1>4, <1>10
  <2>2. f[<<h, m>>] = f[<<h - 1, l>>]
    <3>1. BitRight(h, index) = FALSE /\ BitRight(h, as_of) = FALSE
      BY <1>7, <1>10, <2>1, Zenon
    <3>2. QED BY <1>h, <3>1, Zenon DEF PastAt
  <2>3. /\ 2 * k \in Nat /\ HasFirst(t, l, a)
        /\ index = (2 * k) * PowerOfTwo[(h - 1) - 1] + i /\ as_of = (2 * k) * PowerOfTwo[(h - 1) - 1] + a
    <3>1. HasFirst(t, l, a)
      BY <1>3, <1>10, Zenon
    <3>2. 2 * k \in Nat /\ index = (2 * k) * p + i /\ as_of = (2 * k) * p + a
      BY <1>5, <1>6, <1>10, <2>1, Zenon
    <3>3. p = PowerOfTwo[(h - 1) - 1]
      BY <1>4, Zenon
    <3>4. QED BY <3>1, <3>2, <3>3, Zenon
  <2>4. f[<<h - 1, l>>] \in Seq(Steps) /\ HashUp(Listing(l)[i + 1], f[<<h - 1, l>>]) = t.hash
    <3>1. i \in 0 .. a
      OBVIOUS
    <3>2. PastLeads(f, h - 1, l, index, as_of)
      OBVIOUS
    <3> HIDE DEF l
    <3>3. QED BY <2>3, <3>1, <3>2, LedFrom
  <2>5. QED BY <1>8, <2>1, <2>2, <2>4, Zenon
<1>11. CASE i >= p
  <2>1. a >= p
    BY <1>7, <1>11
  <2> DEFINE e == f[<<h - 1, g>>]
             x == Listing(g)[(i - p) + 1]
  <2>2. f[<<h, m>>] = Append(e, left)
    <3>1. BitRight(h, index) = TRUE /\ BitRight(h, as_of) = TRUE
      BY <1>7, <1>11, <2>1, Zenon
    <3>2. QED BY <1>h, <3>1, Zenon DEF PastAt
  <2>3. /\ 2 * k + 1 \in Nat /\ HasFirst(t.sub[2], g, a - p) /\ i - p \in 0 .. a - p
        /\ index = (2 * k + 1) * PowerOfTwo[(h - 1) - 1] + (i - p)
        /\ as_of = (2 * k + 1) * PowerOfTwo[(h - 1) - 1] + (a - p)
    <3>1. HasFirst(t.sub[2], g, a - p) /\ i - p \in 0 .. a - p
      BY <1>3, <1>7, <1>11, <2>1, Zenon
    <3>2. /\ 2 * k + 1 \in Nat
          /\ index = (2 * k + 1) * p + (i - p) /\ as_of = (2 * k + 1) * p + (a - p)
      BY <1>5, <1>6, <1>11, <2>1, Zenon
    <3>3. p = PowerOfTwo[(h - 1) - 1]
      BY <1>4, Zenon
    <3>4. QED BY <3>1, <3>2, <3>3, Zenon
  <2>4. e \in Seq(Steps) /\ HashUp(x, e) = t.sub[2].hash
    <3>1. PastLeads(f, h - 1, g, index, as_of)
      OBVIOUS
    <3> HIDE DEF g
    <3>2. QED BY <2>3, <3>1, LedFrom DEF e, x
  <2>5. left \in Steps
    BY <1>2, PlainParts DEF Steps
  <2>6. Joined(t.sub[2].hash, left) = Compress(l.hash, t.sub[2].hash)
    BY DEF Joined
  <2>7. t.hash = Compress(l.hash, t.sub[2].hash)
    BY <1>3, <1>9, <2>1
  <2> HIDE DEF e, x, left
  <2>8. HashUp(x, Append(e, left)) = Joined(HashUp(x, e), left) /\ Append(e, left) \in Seq(Steps)
    BY <2>4, <2>5, HashUpOneMore
  <2>9. HashUp(x, Append(e, left)) = t.hash
    BY <2>4, <2>6, <2>7, <2>8
  <2>10. QED BY <1>8, <1>11, <2>2, <2>8, <2>9 DEF x
<1>12. CASE i < p /\ a >= p
  <2> DEFINE e == PathFrom(l, index)
             x == Listing(l)[i + 1]
             as == HashUp(WalkTo(g, as_of).hash, OnTheLeft(PathFrom(g, as_of)))
             right == [hash |-> as, direction |-> "right"]
  <2>1. f[<<h, m>>] = PathAtFork(m, index, as_of)
    BY <1>7, <1>12 DEF PastAt
  <2>2. (index \div PowerOfTwo[m.height - 2]) % 2 = 0 /\ (as_of \div PowerOfTwo[m.height - 2]) % 2 = 1
    BY <1>4, <1>5, <1>6, <1>12
  <2>3. PathAtFork(m, index, as_of) = Append(e, right)
    BY <1>1, <2>2, ForkIs
  <2>4. IsTree(l, salt) /\ ~l.dirty /\ Regular(l)
    BY <1>2 DEF Plain
  <2>5. e \in Seq(Steps)
    BY <2>4, WalkParts
  <2>6. HashUp(x, e) = l.hash
    <3>1. 2 * k \in Nat /\ index = (2 * k) * PowerOfTwo[l.height - 1] + i
      BY <1>3, <1>5, <1>6, <1>12
    <3>2. i \in 0 .. Len(Listing(l)) - 1
      <4>1. \E q \in Nat \ {0}, s \in Nat \ {0} :
                /\ q = PowerOfTwo[m.height - 2]
                /\ Len(Listing(m.sub[1])) = q
        BY <1>1, PlainParts
      <4>2. Len(Listing(l)) = p
        BY <1>3, <4>1
      <4>3. i \in 0 .. p - 1
        BY <1>4, <1>12
      <4>4. QED BY <4>2, <4>3
    <3>3. WalkTo(l, index).hash = x
      BY <2>4, <3>1, <3>2, WalkFinds DEF Finds
    <3>4. HashUp(WalkTo(l, index).hash, e) = l.hash
      BY <2>4, WalkVerifies
    <3>5. QED BY <3>3, <3>4
  <2>7. as = t.sub[2].hash
    <3> DEFINE q == PowerOfTwo[g.height - 1]
               c == (2 * k + 1) * r
    <3>1. as_of = (2 * k + 1) * p + (a - p) /\ 2 * k + 1 \in Nat /\ q \in Nat /\ p = r * q
      BY <1>3, <1>5, <1>6, <1>12
    <3> HIDE DEF q
    <3>2. (2 * k + 1) * p = c * q /\ c \in Nat
      BY <3>1
    <3> HIDE DEF c
    <3>3. as_of = c * q + (a - p)
      BY <3>1, <3>2
    <3>4. Shortened(g) /\ HasFirst(t.sub[2], g, a - p)
      BY <1>2, <1>3, <1>12, PlainShortened
    <3>5. ShortenedTo(g, c * q + (a - p), t.sub[2])
      BY <3>2, <3>4 DEF Shortened, q
    <3>6. ShortenedTo(g, as_of, t.sub[2])
      BY <3>3, <3>5
    <3>7. QED BY <3>6 DEF ShortenedTo
  <2>8. right \in Steps
    <3>1. Plain(t.sub[2])
      BY <1>3, <1>12 DEF HasFirst
    <3>2. as \in Hashes
      BY <2>7, <3>1, PlainParts
    <3> HIDE DEF as
    <3>3. QED BY <3>2 DEF Steps
  <2>9. Joined(l.hash, right) = Compress(l.hash, as)
    <3> HIDE DEF as
    <3>1. QED BY DEF Joined
  <2>10. t.hash = Compress(l.hash, t.sub[2].hash)
    BY <1>3, <1>9, <1>12
  <2> HIDE DEF e, x, as, right
  <2>11. HashUp(x, Append(e, right)) = Joined(HashUp(x, e), right) /\ Append(e, right) \in Seq(Steps)
    BY <2>5, <2>8, HashUpOneMore
  <2>12. HashUp(x, Append(e, right)) = t.hash
    BY <2>6, <2>7, <2>9, <2>10, <2>11
  <2>13. QED BY <1>8, <1>12, <2>1, <2>3, <2>11, <2>12 DEF x
<1>13. a < p \/ i >= p \/ (i < p /\ a >= p)
  BY <1>4
<1>14. QED BY <1>10, <1>11, <1>12, <1>13, Zenon

\* From the top of a plain tree the path of past_path leads from each leaf to the
\* root of the tree of the first leaves.
LEMMA PastWay ==
    ASSUME NEW n, Plain(n), NEW a, NEW t, HasFirst(t, n, a), NEW i \in 0 .. a
    PROVE  HashUp(Listing(n)[i + 1], PastPathFrom(n, i, a)) = t.hash
<1>1. IsTree(n, salt) /\ n.height \in Nat \ {0} /\ n \in NodesOf(n)
  BY NodesHaveRoot DEF Plain, IsTree
<1>2. PICK f : /\ PastPathFrom(n, i, a) = f[<<n.height, n>>]
               /\ \A h \in 1 .. n.height, m \in NodesOf(n) : f[<<h, m>>] = PastAt(f, h, m, i, a)
  BY <1>1, PastUnfolds
<1> DEFINE D == NodesOf(n)
           H == n.height
           Q(h) == \A m \in D : Plain(m) /\ m.height <= h => PastLeads(f, h, m, i, a)
           S == {k \in Nat : k \in 1 .. H => Q(k)}
<1>3. \A h \in 1 .. H, m \in D : f[<<h, m>>] = PastAt(f, h, m, i, a)
  BY <1>2
<1>4. H \in Nat \ {0} /\ n \in D
  BY <1>1
<1>5. \A m \in D : m.sub # <<>> => m.sub[1] \in D /\ m.sub[2] \in D
  BY <1>1, NodesHaveChildren
<1> HIDE DEF D, H
<1>6. 0 \in S
  <2>1. 0 \notin 1 .. H
    BY <1>4
  <2>2. QED BY <2>1
<1>7. ASSUME NEW k \in Nat, k \in S
      PROVE  k + 1 \in S
  <2> SUFFICES ASSUME k + 1 \in 1 .. H, NEW m \in D, Plain(m), m.height <= k + 1
               PROVE  PastLeads(f, k + 1, m, i, a)
    OBVIOUS
  <2>1. m.height \in Nat \ {0}
    BY PlainParts
  <2>2. f[<<k + 1, m>>] = PastAt(f, k + 1, m, i, a)
    BY <1>3
  <2>3. CASE k = 0
    <3>1. k + 1 = 1 /\ m.height = 1
      BY <2>1, <2>3
    <3>2. QED BY <2>2, <3>1, PastLeaf
  <2>4. CASE k # 0
    <3> DEFINE h == k + 1
    <3>1. h \in Nat \ {0, 1} /\ h - 1 = k /\ k \in 1 .. H
      BY <1>4, <2>4
    <3>2. Q(h - 1)
      BY <1>7, <3>1
    <3>3. f[<<h, m>>] = PastAt(f, h, m, i, a) /\ m.height <= h
      BY <2>2
    <3> HIDE DEF h
    <3>4. CASE m.height < h
      <4>1. m.height <= h - 1
        BY <2>1, <3>1, <3>4
      <4>2. PastLeads(f, h - 1, m, i, a)
        BY <3>2, <4>1
      <4>3. PastLeads(f, h, m, i, a)
        BY <3>1, <3>3, <3>4, <4>2, PastSkips
      <4>4. QED BY <4>3 DEF h
    <3>5. CASE ~(m.height < h)
      <4>1. m.height = h /\ m.height # 1
        BY <2>1, <3>1, <3>3, <3>5
      <4>2. m.sub # <<>>
        BY <4>1, PlainParts
      <4>3. /\ Plain(m.sub[1]) /\ Plain(m.sub[2])
            /\ m.sub[1].height = m.height - 1 /\ m.sub[2].height <= m.height - 1
        BY <4>2, PlainParts
      <4>4. m.sub[1].height \in Nat \ {0}
        BY <4>3, PlainParts
      <4>5. m.sub[1].height <= h - 1 /\ m.sub[2].height <= h - 1
        BY <4>1, <4>3, <4>4
      <4>6. m.sub[1] \in D /\ m.sub[2] \in D
        BY <1>5, <4>2
      <4>7. PastLeads(f, h - 1, m.sub[1], i, a) /\ PastLeads(f, h - 1, m.sub[2], i, a)
        BY <3>2, <4>3, <4>5, <4>6
      <4>8. PastLeads(f, h, m, i, a)
        BY <3>1, <3>3, <4>1, <4>7, PastNode
      <4>9. QED BY <4>8 DEF h
    <3>6. QED BY <3>4, <3>5
  <2>5. QED BY <2>3, <2>4
<1> HIDE DEF S
<1>8. \A k \in Nat : k \in S
  BY <1>6, <1>7, Induction
<1>9. PastLeads(f, H, n, i, a)
  <2>1. H \in S /\ H \in 1 .. H /\ H <= H
    BY <1>4, <1>8
  <2>2. Q(H)
    BY <2>1 DEF S
  <2>3. n.height = H
    BY DEF H
  <2> HIDE DEF H
  <2>4. QED BY <1>4, <2>1, <2>2, <2>3
<1>10. /\ 0 \in Nat /\ i = 0 * PowerOfTwo[H - 1] + i /\ a = 0 * PowerOfTwo[H - 1] + a
  <2> DEFINE p == PowerOfTwo[H - 1]
  <2>1. H - 1 \in Nat
    BY <1>4
  <2>2. p \in Nat
    BY <2>1, PowerFacts
  <2> HIDE DEF p
  <2>3. a \in Nat /\ i \in Nat
    <3> DEFINE l == Len(Listing(n))
    <3>1. l \in Nat /\ a \in 0 .. l - 1
      BY PlainParts DEF HasFirst
    <3> HIDE DEF l
    <3>2. QED BY <3>1
  <2>4. QED BY <2>2, <2>3 DEF p
<1>11. HashUp(Listing(n)[i + 1], f[<<H, n>>]) = t.hash
  BY <1>9, <1>10, LedFrom
<1>12. QED BY <1>2, <1>11 DEF H

\* In a tree without exchanged children past_root and past_path give what the
\* tree had when it was that much smaller.
THEOREM PastIsRight == Spec => []PastOfStraightTree
<1>1. IInv /\ SInv => PastOfStraightTree
  <2> SUFFICES ASSUME IInv, SInv, root # NoRoot, ~root.dirty, Straight(root),
                      \A k \in DOMAIN leaf_nodes : Straight(TreeOf(SubSeq(leaf_nodes, 1, k))),
                      NEW a \in Indices
               PROVE  /\ past_root(a) = TreeOf(SubSeq(leaf_nodes, 1, a + 1)).hash
                      /\ \A i \in 0 .. a : verify(past_path(i, a), TreeOf(SubSeq(leaf_nodes, 1, a + 1)).hash)
    BY DEF PastOfStraightTree
  <2> DEFINE first == SubSeq(leaf_nodes, 1, a + 1)
             t == TreeOf(first)
  <2>1. leaf_nodes \in Seq(LeafHashes) /\ salt \in Int
    BY SaltIsInt DEF IInv
  <2>2. Plain(root) /\ Listing(root) = leaf_nodes
    BY StraightRoot DEF Plain
  <2>3. a \in Nat /\ a + 1 \in DOMAIN leaf_nodes
    <3> DEFINE l == Len(leaf_nodes)
    <3>1. l \in Nat /\ a \in 0 .. l - 1 /\ DOMAIN leaf_nodes = 1 .. l
      BY <2>1 DEF Indices
    <3> HIDE DEF l
    <3>2. QED BY <3>1
  <2>4. first \in Seq(LeafHashes) /\ first # <<>>
    <3>1. first \in Seq(LeafHashes) /\ Len(first) = a + 1
      BY <2>1, <2>3
    <3>2. QED BY <2>3, <3>1
  <2>5. IsTree(t, salt) /\ ~t.dirty /\ Regular(t) /\ Listing(t) = first
    BY <2>1, <2>4, TreeOfIs
  <2>6. Straight(t)
    BY <2>3
  <2>7. HasFirst(t, root, a)
    <3>1. a \in 0 .. Len(Listing(root)) - 1
      BY <2>2 DEF Indices
    <3>2. Listing(t) = SubSeq(Listing(root), 1, a + 1)
      BY <2>2, <2>5
    <3>3. Plain(t)
      BY <2>5, <2>6 DEF Plain
    <3> HIDE DEF t
    <3>4. QED BY <3>1, <3>2, <3>3 DEF HasFirst
  <2> HIDE DEF t
  <2>8. past_root(a) = t.hash
    <3>1. ShortenedTo(root, 0 * PowerOfTwo[root.height - 1] + a, t)
      BY <2>2, <2>7, PlainShortened DEF Shortened
    <3>2. 0 * PowerOfTwo[root.height - 1] + a = a
      <4>1. root.height \in Nat \ {0}
        BY <2>2, PlainParts
      <4>2. root.height - 1 \in Nat
        BY <4>1
      <4>3. PowerOfTwo[root.height - 1] \in Nat
        BY <4>2, PowerFacts
      <4>4. QED BY <2>3, <4>3
    <3>3. HashUp(WalkTo(root, a).hash, OnTheLeft(PathFrom(root, a))) = t.hash
      BY <3>1, <3>2 DEF ShortenedTo
    <3>4. WalkTo(root, a).hash = leaf_nodes[a + 1]
      <4>1. IsTree(root, salt) /\ Regular(root) /\ a \in 0 .. Len(Listing(root)) - 1
        BY <2>2 DEF Plain, Indices
      <4>2. QED BY <2>2, <4>1, IndexLeads
    <3>5. QED BY <3>3, <3>4 DEF past_root, path
  <2>9. ASSUME NEW i \in 0 .. a
        PROVE  verify(past_path(i, a), t.hash)
    <3>1. HashUp(leaf_nodes[i + 1], PastPathFrom(root, i, a)) = t.hash
      BY <2>2, <2>7, PastWay
    <3>2. QED BY <3>1 DEF verify, past_path
  <2>10. QED BY <2>8, <2>9 DEF t
<1>2. QED BY <1>1, Invariant, StraightOrder, PTL

=============================================================================
