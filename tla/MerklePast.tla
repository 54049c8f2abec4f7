----------------------------- MODULE MerklePast -----------------------------
(***************************************************************************)
(* Past roots and paths of the tree: past_root and past_path give what the *)
(* tree had when it was smaller.                                           *)
(***************************************************************************)
EXTENDS MerkleTree

\* past_root(index): only the elements on the left are hashed.
past_root(index) ==
    LET p == path(index)
    IN  HashUp(p.leaf, OnTheLeft(p.elements))

\* past_path walks by the bits as they are.
BitRight(height, index) == (index \div PowerOfTwo[height - 2]) % 2 = 1

RawWalk(n, index) ==
    LET walk[m \in NodesOf(n)] ==
            IF m.sub = <<>> THEN [leaf |-> m.hash, elements |-> <<>>]
            ELSE LET right == BitRight(m.height, index)
                     below == walk[m.sub[IF right THEN 2 ELSE 1]]
                     other == m.sub[IF right THEN 1 ELSE 2]
                 IN  [below EXCEPT !.elements =
                         Append(@, [hash |-> other.hash,
                                    direction |-> IF right THEN "left" ELSE "right"])]
    IN  walk[n]

ButTop(elements) == SubSeq(elements, 1, Len(elements) - 1)

\* Variant: the element at the fork itself is hashed in as well.
HashAsOfFork(fork, as_of) ==
    HashUp(RawWalk(fork, as_of).leaf, OnTheLeft(RawWalk(fork, as_of).elements))

\* What as_of's side of the fork hashed to when as_of was the last leaf.
HashAsOf(fork, as_of) ==
    HashUp(RawWalk(fork, as_of).leaf, ButTop(OnTheLeft(RawWalk(fork, as_of).elements)))

\* The path from the fork, at which the bits of the two indices differ for the
\* first time.
PathAtFork(fork, index, as_of) ==
    Append(ButTop(RawWalk(fork, index).elements),
           [hash |-> HashAsOf(fork, as_of), direction |-> "right"])

\* From each level and the node reached there; a level the node does not reach
\* is skipped.  Above the fork the elements on the right are newer and left out.
PastPathFrom(n, index, as_of) ==
    LET past[at \in (1 .. n.height) \X NodesOf(n)] ==
            LET height == at[1]
                m == at[2]
                right == BitRight(height, index)
            IN  IF height = 1 THEN <<>>
                ELSE IF right # BitRight(height, as_of) THEN PathAtFork(m, index, as_of)
                ELSE IF m.height < height THEN past[<<height - 1, m>>]
                ELSE IF right
                THEN Append(past[<<height - 1, m.sub[2]>>],
                            [hash |-> m.sub[1].hash, direction |-> "left"])
                ELSE past[<<height - 1, m.sub[1]>>]
    IN  past[<<n.height, n>>]

past_path(index, as_of) ==
    [leaf |-> leaf_nodes[index + 1], elements |-> PastPathFrom(root, index, as_of)]

-----------------------------------------------------------------------------
\* In a tree that never exchanged children, past_root and past_path give what
\* the tree had when it was that much smaller: forks, skipped levels and lone
\* leaves are where the three segments of past_path have to fit together.  With
\* exchanged children neither does: an element on the left is only the smaller
\* one, and past_path does not look at `swapped'.
PastOfStraightTree ==
    /\ root # NoRoot /\ ~root.dirty /\ Straight(root)
    /\ \A k \in DOMAIN leaf_nodes : Straight(TreeOf(SubSeq(leaf_nodes, 1, k)))
    =>
        \A a \in Indices :
            LET then == TreeOf(SubSeq(leaf_nodes, 1, a + 1)).hash IN
            /\ past_root(a) = then
            /\ \A i \in 0 .. a : verify(past_path(i, a), then)

=============================================================================
