----------------------------- MODULE MerkleTree -----------------------------
(***************************************************************************)
(* The Merkle tree of include/eth-bls/merklecpp.h, in the variant of this  *)
(* repository: every inner node keeps its children ordered by hash, so     *)
(* that a proof can be verified by OpenZeppelin's MerkleProof, which knows *)
(* no left and right; `swapped' remembers that the children were exchanged *)
(* so that an index still leads to its leaf.                               *)
(*                                                                         *)
(* The 32-byte hashes are numbers below HashModulus, compared as numbers,  *)
(* and the compression function mixes two of them.  It is the order of the *)
(* hashes that decides which children are exchanged; the multiplier `salt' *)
(* is chosen at the start, so that the runs meet many orders.              *)
(***************************************************************************)
EXTENDS PowersOfTwo, Integers, Sequences, FiniteSets

CONSTANTS LeafHashes,  \* the hashes that may be inserted
          Salts,       \* the compression functions a run tries
          Begun,       \* the leaves that wait in the trees a run starts with
          Lengths,     \* bound: a tree of so many leaves may get another one
          MaxBatches   \* bound: how often a grown tree is hashed

HashModulus == 32749
Hashes == 0 .. HashModulus - 1

ASSUME HashAssumption ==
    /\ LeafHashes \subseteq 1 .. HashModulus - 1
    /\ Salts \subseteq 1 .. HashModulus - 1

ASSUME BoundsAssumption ==
    /\ Begun \subseteq Seq(LeafHashes)
    /\ MaxBatches \in Nat \ {0}

VARIABLES
    root,         \* _root: the tree built so far
    leaf_nodes,   \* the hashes of the leaves in it, by leaf index
    uninserted,   \* uninserted_leaf_nodes: leaves waiting for the next root()
    insertion_stack,  \* the way down to _root from where the tree begins
    batches,      \* how often a tree that has grown has been hashed
    salt          \* the compression function

vars == <<root, leaf_nodes, uninserted, insertion_stack, batches, salt>>

-----------------------------------------------------------------------------
\* Nodes.  `sub' is <<>> for a leaf and <<left, right>> for an inner node.

Compress(l, r) == 1 + ((l * salt + r * 17 + 11) % (HashModulus - 1))

\* The null pointer in _root; size() answers 0 for it.
NoRoot == [size |-> 0]

MakeLeaf(h) ==
    [hash |-> h, sub |-> <<>>, size |-> 1, height |-> 1,
     dirty |-> FALSE, swapped |-> FALSE]

Larger(m, n) == IF m > n THEN m ELSE n

\* update_sizes of an inner node.
UpdateSizes(n) ==
    [n EXCEPT !.size = n.sub[1].size + n.sub[2].size + 1,
              !.height = Larger(n.sub[1].height, n.sub[2].height) + 1]

\* Node::make(left, right): dirty, its hash all zero, the smaller child first.
\* A dirty child takes part in the comparison with the hash it has by then.
MakeNode(left, right) ==
    LET ordered == left.hash < right.hash IN
    UpdateSizes([hash |-> 0,
                 sub |-> IF ordered THEN <<left, right>> ELSE <<right, left>>,
                 size |-> 1, height |-> 1,
                 dirty |-> TRUE, swapped |-> ~ordered])

is_full(n) == n.size = PowerOfTwo[n.height] - 1

\* A node and all nodes below it; what is computed from the leaves up or from
\* the root down is a recursive function on them.
NodesOf(n) ==
    LET within[d \in 0 .. n.height - 1] ==
            IF d = 0 THEN {n}
            ELSE LET above == within[d - 1]
                 IN  above \cup UNION {{m.sub[i] : i \in DOMAIN m.sub} : m \in above}
    IN  within[n.height - 1]

\* Variants: the children stay where they are; or the exchange is not recorded.
sort_subnodesNot(n) == n
sort_subnodesUnrecorded(n) ==
    IF n.sub[2].hash < n.sub[1].hash
    THEN [n EXCEPT !.sub = <<n.sub[2], n.sub[1]>>]
    ELSE n

\* sort_subnodes: exchange the children if they are out of order.
sort_subnodes(n) ==
    IF n.sub[2].hash < n.sub[1].hash
    THEN [n EXCEPT !.sub = <<n.sub[2], n.sub[1]>>, !.swapped = TRUE]
    ELSE n

\* A node gets its hash once it has its children, exchanged if need be.
Rehashed(n, left, right) ==
    LET m == sort_subnodes([n EXCEPT !.sub = <<left, right>>])
    IN  [m EXCEPT !.hash = Compress(m.sub[1].hash, m.sub[2].hash), !.dirty = FALSE]

\* hash(n): the dirty nodes under n from the bottom up.
hash(n) ==
    LET hashed[m \in NodesOf(n)] ==
            IF ~m.dirty THEN m ELSE Rehashed(m, hashed[m.sub[1]], hashed[m.sub[2]])
    IN  hashed[n]

-----------------------------------------------------------------------------
\* Insertion.  An insertion goes down from _root to a full subtree, notes the
\* way on the stack, and comes up again only to the first node that is not full
\* then, which becomes _root and from which the next insertion goes on.  An
\* element of the stack points to a node and says on which side of it the next
\* one is, so that completing the stack finds _root below the last element.

\* The way down from a node: past a full child on the left, to a full node.
WayDown(n) ==
    LET down[m \in NodesOf(n)] ==
            IF is_full(m) THEN [stack |-> <<>>, full |-> m]
            ELSE LET side == IF is_full(m.sub[1]) THEN 2 ELSE 1
                     rest == down[m.sub[side]]
                 IN  [stack |-> <<[n |-> m, side |-> side]>> \o rest.stack, full |-> rest.full]
    IN  down[n]

\* continue_insertion_stack: the stack with the way down and the new node.
continue_insertion_stack(stack, n, leaf) ==
    LET way == WayDown(n)
    IN  [stack |-> stack \o way.stack, root |-> MakeNode(way.full, leaf)]

\* Variant: of the sizes on the way up only the height is updated.
AttachUnsized(e, child) ==
    [UpdateSizes([e.n EXCEPT !.sub[e.side] = child, !.dirty = TRUE]) EXCEPT !.size = e.n.size]

Attach(e, child) == UpdateSizes([e.n EXCEPT !.sub[e.side] = child, !.dirty = TRUE])

\* The nodes met on the way up the stack, from what is below it.
WayUp(stack, below) ==
    LET up[d \in 0 .. Len(stack)] ==
            IF d = 0 THEN below ELSE Attach(stack[Len(stack) + 1 - d], up[d - 1])
    IN  up

\* process_insertion_stack: up to the first node with room, or to the top.
process_insertion_stack(stack, below, complete) ==
    LET up   == WayUp(stack, below)
        ends == {d \in 1 .. Len(stack) : ~complete /\ ~is_full(up[d])} \cup {Len(stack)}
        end  == CHOOSE d \in ends : \A e \in ends : d <= e
    IN  [stack |-> SubSeq(stack, 1, Len(stack) - end), root |-> up[end]]

insert_leaf(at, leaf) ==
    IF at.root = NoRoot THEN [at EXCEPT !.root = leaf]
    ELSE LET below == continue_insertion_stack(at.stack, at.root, leaf)
         IN  process_insertion_stack(below.stack, below.root, FALSE)

\* insert_leaves: the waiting leaves in the order of their hashes.
insert_leaves(at, hashes) ==
    LET after[k \in 0 .. Len(hashes)] ==
            IF k = 0 THEN at ELSE insert_leaf(after[k - 1], MakeLeaf(hashes[k]))
    IN  after[Len(hashes)]

Completed(at) == process_insertion_stack(at.stack, at.root, TRUE).root

\* The k-th hash is the smallest that k of the hashes do not exceed.
Sorted(hashes) ==
    LET enough(k) == {h \in {hashes[i] : i \in DOMAIN hashes} :
                          Cardinality({i \in DOMAIN hashes : hashes[i] <= h}) >= k}
    IN  [k \in DOMAIN hashes |-> CHOOSE h \in enough(k) : \A g \in enough(k) : h <= g]

-----------------------------------------------------------------------------
\* Walking and paths.  A path element is the hash that joins in and the side.

\* Variant: the bit is taken as it is.
GoRightUnflipped(n, index) == (index \div PowerOfTwo[n.height - 2]) % 2 = 1

\* The bit of `index' that decides at a node of this height, flipped where the
\* children are exchanged.
GoRight(n, index) ==
    LET bit == (index \div PowerOfTwo[n.height - 2]) % 2 = 1
    IN  bit # n.swapped

\* walk_to as path uses it: the leaf it ends at, and what it met on the way down,
\* the leaf's end first.
Walk(n, index) ==
    LET walk[m \in NodesOf(n)] ==
            IF m.sub = <<>> THEN [leaf |-> m, elements |-> <<>>]
            ELSE LET right == GoRight(m, index)
                     below == walk[m.sub[IF right THEN 2 ELSE 1]]
                     other == m.sub[IF right THEN 1 ELSE 2]
                 IN  [below EXCEPT !.elements =
                         Append(@, [hash |-> other.hash,
                                    direction |-> IF right THEN "left" ELSE "right"])]
    IN  walk[n]

WalkTo(n, index) == Walk(n, index).leaf
PathFrom(n, index) == Walk(n, index).elements

path(index) ==
    [leaf |-> leaf_nodes[index + 1], elements |-> PathFrom(root, index)]

\* Path::root(): the elements hashed onto the leaf, each from its side.
Joined(h, e) == IF e.direction = "left" THEN Compress(e.hash, h) ELSE Compress(h, e.hash)

HashUp(h, elements) ==
    LET up[k \in 0 .. Len(elements)] ==
            IF k = 0 THEN h ELSE Joined(up[k - 1], elements[k])
    IN  up[Len(elements)]

verify(p, expected) == HashUp(p.leaf, p.elements) = expected

OnTheLeft(elements) ==
    LET left[k \in 0 .. Len(elements)] ==
            IF k = 0 THEN <<>>
            ELSE IF elements[k].direction = "left" THEN Append(left[k - 1], elements[k])
            ELSE left[k - 1]
    IN  left[Len(elements)]

\* find_leaf_index searches the leaves in the tree; -1 if there is none.
find_leaf_index(h) ==
    IF \E i \in DOMAIN leaf_nodes : leaf_nodes[i] = h
    THEN (CHOOSE i \in DOMAIN leaf_nodes :
              leaf_nodes[i] = h /\ \A j \in 1 .. i - 1 : leaf_nodes[j] # h) - 1
    ELSE -1

\* OpenZeppelin's MerkleProof.processProof: pairs are hashed in order of size.
hashPair(h, g) == IF h < g THEN Compress(h, g) ELSE Compress(g, h)

processProof(h, elements) ==
    LET up[k \in 0 .. Len(elements)] ==
            IF k = 0 THEN h ELSE hashPair(up[k - 1], elements[k].hash)
    IN  up[Len(elements)]

-----------------------------------------------------------------------------
Init ==
    /\ root = NoRoot
    /\ leaf_nodes = <<>>
    /\ uninserted \in Begun
    /\ insertion_stack = <<>>
    /\ batches = 0
    /\ salt \in Salts

insert(h) ==
    /\ Len(leaf_nodes) + Len(uninserted) \in Lengths
    /\ batches < MaxBatches
    /\ uninserted' = Append(uninserted, h)
    /\ UNCHANGED <<root, leaf_nodes, insertion_stack, batches, salt>>

\* The tree with the waiting leaves in it, and _root once no node is dirty.
Inserted == insert_leaves([stack |-> insertion_stack, root |-> root], Sorted(uninserted))
Grown == Completed(Inserted)
Rooted == hash(Grown)
Grows == uninserted # <<>> \/ Grown.dirty

\* Variant: the leaves go into the tree and not into leaf_nodes.
compute_rootUnlisted ==
    /\ leaf_nodes \o uninserted # <<>>
    /\ root' = Rooted
    /\ uninserted' = <<>> /\ insertion_stack' = <<>>
    /\ batches' = IF Grows THEN batches + 1 ELSE batches
    /\ UNCHANGED <<leaf_nodes, salt>>

\* root(), and path() and its likes before they read the tree: an empty tree
\* throws.
compute_root ==
    /\ leaf_nodes \o uninserted # <<>>
    /\ root' = Rooted
    /\ leaf_nodes' = leaf_nodes \o Sorted(uninserted)
    /\ uninserted' = <<>> /\ insertion_stack' = <<>>
    /\ batches' = IF Grows THEN batches + 1 ELSE batches
    /\ UNCHANGED salt

\* size(): the waiting leaves go in, and the stack stays as it is then.
size ==
    /\ uninserted # <<>>
    /\ root' = Inserted.root
    /\ insertion_stack' = Inserted.stack
    /\ leaf_nodes' = leaf_nodes \o Sorted(uninserted)
    /\ uninserted' = <<>>
    /\ UNCHANGED <<batches, salt>>

Next ==
    \/ \E h \in LeafHashes : insert(h)
    \/ compute_root
    \/ size

Spec == Init /\ [][Next]_vars

-----------------------------------------------------------------------------
\* Properties.

Nodes == IF root = NoRoot THEN {} ELSE NodesOf(root)
Indices == 0 .. Len(leaf_nodes) - 1
Whole == Completed([stack |-> insertion_stack, root |-> root])

\* The state is well typed: lists of leaf hashes, nodes with a hash and sizes.
TypeOK ==
    /\ leaf_nodes \in Seq(LeafHashes)
    /\ uninserted \in Seq(LeafHashes)
    /\ batches \in 0 .. MaxBatches
    /\ salt \in Salts
    /\ (root = NoRoot) = (leaf_nodes = <<>>)
    /\ \A n \in Nodes : n.hash \in Hashes /\ n.size \in Nat /\ n.height \in Nat
    /\ \A i \in DOMAIN insertion_stack : insertion_stack[i].side \in 1 .. 2

\* Node::invariant and the assertion of is_full: the sizes add up, and a
\* subtree holds no more nodes than its height allows.
SizesAddUp(n) ==
    \A m \in NodesOf(n) :
        /\ m.sub # <<>> => m.size = m.sub[1].size + m.sub[2].size + 1
        /\ m.size <= PowerOfTwo[m.height] - 1

\* The children in the order in which they were put under the node.
Older(n) == n.sub[IF n.swapped THEN 2 ELSE 1]

\* A tree in which every older child is full, and one level lower than its node,
\* so that the bits of an index lead to the leaf of that index.
InOrder(n, leaves) ==
    /\ \A m \in NodesOf(n) :
          m.sub # <<>> => is_full(Older(m)) /\ Older(m).height = m.height - 1
    /\ \A i \in 0 .. Len(leaves) - 1 : WalkTo(n, i).hash = leaves[i + 1]

\* The root has been computed, and all leaves were inserted before.
GrownAtOnce == root # NoRoot /\ ~root.dirty /\ batches <= 1

\* However often size() stops the insertion half way, with how many leaves,
\* completing the stack gives a tree with its sizes right; what size() answers,
\* and an assignment would copy, is that tree exactly when nothing is left on
\* the stack; and until a hashed tree grows every left subtree is full and the
\* leaves have the order of their indices.
StackCompletes ==
    root # NoRoot =>
        /\ SizesAddUp(Whole)
        /\ insertion_stack = <<>> <=> root.size = 2 * Len(leaf_nodes) - 1
        /\ batches = 0 \/ GrownAtOnce => InOrder(Whole, leaf_nodes)

\* Once the root is computed every inner node is the hash of its children in
\* the order OpenZeppelin hashes them, however often leaves were added.
PairsSorted ==
    root # NoRoot /\ ~root.dirty =>
    \A n \in Nodes :
        /\ ~n.dirty
        /\ n.sub # <<>> =>
              /\ n.sub[1].hash <= n.sub[2].hash
              /\ n.hash = Compress(n.sub[1].hash, n.sub[2].hash)

\* Every path hashes up to the root, of a tree that has been added to after a
\* root was taken as well (test/src/merkle.cpp: path->verify(root)).
IncrementalPathsVerify ==
    root # NoRoot /\ ~root.dirty => \A i \in Indices : verify(path(i), root.hash)

\* The path to an inserted leaf hashes up to the root from side to side
\* (test/src/merkle.cpp: path->verify(root)), and the proof that findIndex and
\* getPath produce from it convinces MerkleRewards.sol, which verifies with
\* sorted pairs and knows no side.
ProofsConvinceContract ==
    GrownAtOnce =>
        \A k \in DOMAIN leaf_nodes :
            LET p == path(find_leaf_index(leaf_nodes[k])) IN
            /\ p.leaf = leaf_nodes[k]
            /\ verify(path(k - 1), root.hash)
            /\ processProof(p.leaf, p.elements) = root.hash

\* Trees in which no children were exchanged.
Straight(n) == \A m \in NodesOf(n) : ~m.swapped
TreeOf(hashes) == hash(Completed(insert_leaves([stack |-> <<>>, root |-> NoRoot], hashes)))

=============================================================================
