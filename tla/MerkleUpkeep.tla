---------------------------- MODULE MerkleUpkeep ----------------------------
(***************************************************************************)
(* What can be done to a Merkle tree of merklecpp.h besides growing it:    *)
(* flush_to gives up the oldest leaves, retract_to the newest, a tree is   *)
(* copied, and it is written to a buffer and read back.                    *)
(*                                                                         *)
(* A flushed subtree is one node without children that keeps its hash and  *)
(* height.  Leaves are looked up in `leaf_nodes', which holds pointers in  *)
(* the code and hashes here; an entry whose leaf has been deleted is a     *)
(* dangling pointer, and nothing is modelled of what a tree does after it  *)
(* has one (Intact), or of a walk that ends at a node without children.    *)
(***************************************************************************)
EXTENDS Integers, Sequences, FiniteSets

CONSTANTS LeafHashes, Salts, MaxBatches,
          MaxLeaves,   \* bound: the number of leaves of a tree
          Operations,  \* what a run does: "flush", "retract", "copy", "write"
          NoBuffer     \* no buffer has been written, or it has been read

ASSUME OperationsAssumption == Operations \subseteq {"flush", "retract", "copy", "write"}

VARIABLES
    root, leaf_nodes, uninserted, batches, salt,  \* as in MerkleTree
    num_flushed,  \* the leaves flushed; indices below it are gone
    buffer,       \* what serialise has written, one buffer at a time
    straight,     \* history: no tree that was changed had exchanged children
    appended      \* history: all leaves of the tree, the flushed ones as well

treeVars == <<root, leaf_nodes, uninserted, batches, salt>>
vars == <<treeVars, num_flushed, buffer, straight, appended>>

\* With fewer than fourteen leaves every insertion comes up to the top, so the
\* insertion stack is empty whatever is called.
Tree == INSTANCE MerkleTree
            WITH insertion_stack <- <<>>, Begun <- {<<>>}, Lengths <- 0 .. MaxLeaves - 1
NoRoot == Tree!NoRoot

-----------------------------------------------------------------------------
num_leaves == num_flushed + Len(leaf_nodes) + Len(uninserted)
min_index == num_flushed
max_index == IF num_leaves = 0 THEN 0 ELSE num_leaves - 1

\* leaf_nodes once compute_root has moved the waiting leaves into the tree.
AllListed == leaf_nodes \o Tree!Sorted(uninserted)
AllAppended == appended \o Tree!Sorted(uninserted)
NewBatches == IF uninserted = <<>> THEN batches ELSE batches + 1

\* The hashes of the leaves of a tree from the left to the right.
RECURSIVE LeavesOf(_)
LeavesOf(n) ==
    IF n.sub # <<>> THEN LeavesOf(n.sub[1]) \o LeavesOf(n.sub[2])
    ELSE IF n.size = 1 THEN <<n.hash>> ELSE <<>>

Leaves == IF root = NoRoot THEN <<>> ELSE LeavesOf(root)
Occurrences(s, h) == Cardinality({i \in DOMAIN s : s[i] = h})

\* Every pointer of leaf_nodes points to a leaf of the tree.
Intact ==
    /\ root = NoRoot => leaf_nodes = <<>>
    /\ \A i \in DOMAIN leaf_nodes :
          Occurrences(leaf_nodes, leaf_nodes[i]) <= Occurrences(Leaves, leaf_nodes[i])

\* A walk to the index is allowed and arrives at a leaf.
Walks(index) ==
    /\ num_leaves > 0 /\ index \in min_index .. max_index
    /\ Tree!WalkTo(Tree!Rooted, index).height = 1

\* Bounds: a tree that was changed while it had exchanged children is looked at
\* once, and not used any further but to be written as a whole; and a buffer is
\* read at once or forgotten, since to read it replaces the whole tree.
Operable == Intact /\ straight

-----------------------------------------------------------------------------
\* flush_to: whatever is on the left of the walk loses its children.
Conflated(n) == [n EXCEPT !.sub = <<>>]

\* Variant: the walk's own side loses its children.
RECURSIVE FlushedOwnSide(_, _)
FlushedOwnSide(n, index) ==
    IF n.sub = <<>> THEN n
    ELSE IF Tree!GoRight(n, index)
    THEN [n EXCEPT !.sub[2] = Conflated(@)]
    ELSE [n EXCEPT !.sub[1] = FlushedOwnSide(@, index)]

RECURSIVE Flushed(_, _)
Flushed(n, index) ==
    IF n.sub = <<>> THEN n
    ELSE IF Tree!GoRight(n, index)
    THEN [n EXCEPT !.sub[1] = Conflated(@), !.sub[2] = Flushed(@, index)]
    ELSE [n EXCEPT !.sub[1] = Flushed(@, index)]

\* retract_to: whatever is on the right of the walk goes, and the node above it
\* becomes what it has on its left.
\* Variant: the hashes on the way are not computed again.
RECURSIVE RetractedClean(_, _)
RetractedClean(n, index) ==
    IF n.sub = <<>> THEN n
    ELSE IF Tree!GoRight(n, index)
    THEN Tree!UpdateSizes([n EXCEPT !.sub[2] = RetractedClean(@, index)])
    ELSE RetractedClean(n.sub[1], index)

RECURSIVE Retracted(_, _)
Retracted(n, index) ==
    IF n.sub = <<>> THEN n
    ELSE IF Tree!GoRight(n, index)
    THEN Tree!UpdateSizes([n EXCEPT !.sub[2] = Retracted(@, index), !.dirty = TRUE])
    ELSE Retracted([n.sub[1] EXCEPT !.dirty = n.sub[1].sub # <<>>], index)

-----------------------------------------------------------------------------
\* Writing and reading.  Besides the leaves a buffer has the hashes on the left
\* of the walk to the first of them, the lowest first: the flushed subtrees.

LeftHashes(index) ==
    LET elements == Tree!OnTheLeft(Tree!PathFrom(Tree!Rooted, index))
    IN  [i \in DOMAIN elements |-> elements[i].hash]

\* One level of the tree that is read is paired up to the next.
PairUp(level) ==
    [i \in 1 .. (Len(level) + 1) \div 2 |->
        IF 2 * i > Len(level) THEN level[2 * i - 1]
        ELSE Tree!MakeNode(level[2 * i - 1], level[2 * i])]

FlushedNode(h, height) ==
    [Tree!MakeLeaf(h) EXCEPT !.height = height, !.size = 2 ^ height - 1]

\* Variant: the flushed subtree is put behind the others of its level.
RECURSIVE RebuildBehind(_, _, _, _)
RebuildBehind(level, flushed, level_no, extras) ==
    IF flushed = 0 /\ Len(level) <= 1 THEN level
    ELSE IF flushed % 2 = 1
    THEN RebuildBehind(PairUp(Append(level, FlushedNode(Head(extras), level_no + 1))),
                       flushed \div 2, level_no + 1, Tail(extras))
    ELSE RebuildBehind(PairUp(level), flushed \div 2, level_no + 1, extras)

\* A set bit of the number of flushed leaves stands for one flushed subtree.
RECURSIVE Rebuild(_, _, _, _)
Rebuild(level, flushed, level_no, extras) ==
    IF flushed = 0 /\ Len(level) <= 1 THEN level
    ELSE IF flushed % 2 = 1
    THEN Rebuild(PairUp(<<FlushedNode(Head(extras), level_no + 1)>> \o level),
                 flushed \div 2, level_no + 1, Tail(extras))
    ELSE Rebuild(PairUp(level), flushed \div 2, level_no + 1, extras)

RECURSIVE SetBits(_)
SetBits(n) == IF n = 0 THEN 0 ELSE (n % 2) + SetBits(n \div 2)

Enough(b) == SetBits(b.flushed) <= Len(b.extras)

ReadTree(b) ==
    Head(Rebuild([i \in DOMAIN b.leaves |-> Tree!MakeLeaf(b.leaves[i])],
                 b.flushed, 0, b.extras))

-----------------------------------------------------------------------------
Init ==
    /\ Tree!Init
    /\ num_flushed = 0
    /\ buffer = NoBuffer
    /\ straight = TRUE
    /\ appended = <<>>

insert(h) ==
    /\ Operable /\ buffer' = NoBuffer
    /\ num_leaves < MaxLeaves
    /\ Tree!insert(h)
    /\ UNCHANGED <<num_flushed, straight, appended>>

\* The waiting leaves make a new tree, or go into one whose children are where
\* the bits say and beside nodes whose hashes do not mislead Node::make.
GrowsStraight ==
    uninserted = <<>> \/ root = NoRoot \/ Tree!Straight(Tree!Grown)

ComputedRoot ==
    /\ leaf_nodes \o uninserted # <<>>
    /\ root' = Tree!Rooted
    /\ leaf_nodes' = AllListed
    /\ uninserted' = <<>> /\ batches' = NewBatches
    /\ UNCHANGED salt

compute_root ==
    /\ Operable /\ buffer' = NoBuffer
    /\ ComputedRoot
    /\ straight' = (straight /\ GrowsStraight)
    /\ appended' = AllAppended
    /\ UNCHANGED num_flushed

\* tree = {} assigns an empty tree, which has had no batch of leaves yet.
reset ==
    /\ Operable /\ buffer' = NoBuffer
    /\ root' = NoRoot /\ leaf_nodes' = <<>> /\ uninserted' = <<>> /\ batches' = 0
    /\ num_flushed' = 0 /\ straight' = TRUE /\ appended' = <<>>
    /\ UNCHANGED salt

StillStraight == straight' = (straight /\ Tree!Straight(Tree!Rooted))

\* Variant: the leaves that were flushed before are counted again.
flush_toAgain(index) ==
    /\ Operable /\ buffer' = NoBuffer
    /\ "flush" \in Operations
    /\ Walks(index) /\ index > min_index
    /\ root' = Flushed(Tree!Rooted, index)
    /\ leaf_nodes' = SubSeq(AllListed, index - num_flushed + 1, Len(AllListed))
    /\ num_flushed' = num_flushed + index
    /\ uninserted' = <<>> /\ batches' = NewBatches
    /\ StillStraight /\ appended' = AllAppended
    /\ UNCHANGED salt

flush_to(index) ==
    /\ Operable /\ buffer' = NoBuffer
    /\ "flush" \in Operations
    /\ Walks(index) /\ index > min_index
    /\ root' = Flushed(Tree!Rooted, index)
    /\ leaf_nodes' = SubSeq(AllListed, index - num_flushed + 1, Len(AllListed))
    /\ num_flushed' = index
    /\ uninserted' = <<>> /\ batches' = NewBatches
    /\ StillStraight /\ appended' = AllAppended
    /\ UNCHANGED salt

\* Variant: the last of the waiting leaves to be kept is dropped as well.
retract_waitingShort(index) ==
    /\ Operable /\ buffer' = NoBuffer
    /\ "retract" \in Operations
    /\ num_leaves > 0 /\ index \in min_index .. max_index
    /\ index >= num_flushed + Len(leaf_nodes)
    /\ uninserted' = SubSeq(uninserted, 1, index - num_flushed - Len(leaf_nodes))
    /\ UNCHANGED <<root, leaf_nodes, batches, salt, num_flushed, straight, appended>>

\* An index among the waiting leaves drops the last of those.
retract_waiting(index) ==
    /\ Operable /\ buffer' = NoBuffer
    /\ "retract" \in Operations
    /\ num_leaves > 0 /\ index \in min_index .. max_index
    /\ index >= num_flushed + Len(leaf_nodes)
    /\ uninserted' = SubSeq(uninserted, 1, index - num_flushed - Len(leaf_nodes) + 1)
    /\ UNCHANGED <<root, leaf_nodes, batches, salt, num_flushed, straight, appended>>

retract_to(index) ==
    /\ Operable /\ buffer' = NoBuffer
    /\ "retract" \in Operations
    /\ Walks(index) /\ index < num_flushed + Len(leaf_nodes)
    /\ LET last == index - num_flushed + 1 IN
          leaf_nodes' = [SubSeq(AllListed, 1, last)
                            EXCEPT ![last] = Tree!WalkTo(Tree!Rooted, index).hash]
    /\ root' = Retracted(Tree!Rooted, index)
    /\ uninserted' = <<>> /\ batches' = NewBatches
    /\ StillStraight /\ appended' = SubSeq(AllAppended, 1, index + 1)
    /\ UNCHANGED <<salt, num_flushed>>

\* Variant: no leaf is skipped, flushed or not.
copyUnskipped ==
    /\ Operable /\ buffer' = NoBuffer
    /\ "copy" \in Operations
    /\ leaf_nodes' = Leaves
    /\ straight' = (straight /\ (root = NoRoot \/ Tree!Straight(root)))
    /\ UNCHANGED <<root, uninserted, batches, salt, num_flushed, appended>>

\* The tree goes on as a copy of itself: copy_node lists the leaves in the order
\* it meets them, but for a flushed one.
copy ==
    /\ Operable /\ buffer' = NoBuffer
    /\ "copy" \in Operations
    /\ leaf_nodes' = SubSeq(Leaves, 1 + (num_flushed % 2), Len(Leaves))
    /\ straight' = (straight /\ (root = NoRoot \/ Tree!Straight(root)))
    /\ UNCHANGED <<root, uninserted, batches, salt, num_flushed, appended>>

\* serialise(from, to), and serialise() with all there are.  The waiting leaves
\* are written as they wait, before compute_root sorts them.  What the tree was
\* like is recorded for the properties.
serialise(from, to) ==
    /\ Intact
    /\ straight \/ (num_flushed = 0 /\ from = 0 /\ to = max_index)
    /\ "write" \in Operations
    /\ buffer = NoBuffer
    /\ Walks(from) /\ to \in from .. max_index
    /\ buffer' = [leaves |-> SubSeq(leaf_nodes \o uninserted,
                                    from - num_flushed + 1, to - num_flushed + 1),
                  flushed |-> from,
                  extras |-> LeftHashes(from),
                  root |-> Tree!Rooted.hash,
                  appended |-> AllAppended,
                  whole |-> to = max_index /\ uninserted = <<>>,
                  atOnce |-> straight /\ num_flushed = 0 /\ from = 0 /\ NewBatches <= 1,
                  straight |-> straight /\ Tree!Straight(Tree!Rooted)]
    /\ ComputedRoot
    /\ straight' = (straight /\ GrowsStraight) /\ appended' = AllAppended
    /\ UNCHANGED num_flushed

\* With too few hashes in the buffer the tree is left without a root.
deserialise ==
    /\ Operable
    /\ buffer # NoBuffer
    /\ leaf_nodes' = buffer.leaves
    /\ num_flushed' = buffer.flushed
    /\ uninserted' = <<>>
    /\ root' = IF Enough(buffer) THEN ReadTree(buffer) ELSE NoRoot
    /\ straight' = (buffer.straight /\ buffer.whole /\ Enough(buffer)
                       /\ Tree!Straight(ReadTree(buffer)))
    /\ appended' = buffer.appended
    /\ buffer' = NoBuffer
    /\ UNCHANGED <<batches, salt>>

Next ==
    \/ \E h \in LeafHashes : insert(h)
    \/ compute_root
    \/ reset
    \/ \E index \in 0 .. max_index : flush_to(index)
    \/ \E index \in 0 .. max_index : retract_waiting(index)
    \/ \E index \in 0 .. max_index : retract_to(index)
    \/ copy
    \/ \E from, to \in 0 .. max_index : serialise(from, to)
    \/ deserialise

Spec == Init /\ [][Next]_vars

-----------------------------------------------------------------------------
\* Properties.

\* The state is well typed, Node::invariant included; a copied or read tree may
\* list an inner node.
TypeOK ==
    /\ leaf_nodes \in Seq(Tree!Hashes) /\ uninserted \in Seq(LeafHashes)
    /\ appended \in Seq(LeafHashes)
    /\ num_flushed \in Nat /\ num_leaves <= MaxLeaves
    /\ straight \in BOOLEAN
    /\ root # NoRoot => Tree!SizesAddUp(root) /\ root.height > 0

\* Every index that has not been given up leads to the leaf it had from the
\* start, along a path that verifies.
PathsSurvive ==
    num_leaves > 0 =>
        /\ Intact
        /\ \A i \in min_index .. max_index :
              LET leaf == AllListed[i - num_flushed + 1] IN
              /\ Walks(i)
              /\ Tree!WalkTo(Tree!Rooted, i).hash = leaf
              /\ leaf = AllAppended[i + 1]
              /\ Tree!verify([leaf |-> leaf, elements |-> Tree!PathFrom(Tree!Rooted, i)],
                             Tree!Rooted.hash)

\* As long as no tree that is flushed, retracted, copied or read had exchanged
\* children, every sequence of these operations leaves the remaining indices
\* with paths that verify.
StraightPathsSurvive == straight /\ GrowsStraight => PathsSurvive

\* Under the same condition a tree that has been flushed, retracted, copied or
\* read back in between has the root of a new tree of the same leaves.
RootRemembers ==
    straight /\ GrowsStraight /\ num_leaves > 0 =>
        Tree!Rooted.hash = Tree!TreeOf(AllAppended).hash

\* The assertion at the end of retract_to: the leaf retracted to is the last.
RetractedToLast ==
    [][\A index \in 0 .. max_index :
          retract_to(index) \/ retract_waiting(index) =>
              (num_leaves = index + 1)']_vars

\* A tree that is written when no leaf waits and is read back has the root it
\* had if all its leaves were inserted before its first root, exchanged children
\* or not, since its levels are paired up to the shape the insertions gave it; and
\* if it has no exchanged children, however it has grown, also when the hashes on
\* the left stand for flushed subtrees.  (Nothing is said of a tree that has been
\* flushed, retracted or copied while it had exchanged children; nor of one with
\* exchanged children that has grown after a root was taken: it may keep an
\* exchange which deserialise, deciding anew, does not make, and gets another root.)
RoundTripKeepsRoot ==
    /\ buffer # NoBuffer /\ buffer.whole
    /\ buffer.straight \/ buffer.atOnce
    => Enough(buffer) /\ Tree!hash(ReadTree(buffer)).hash = buffer.root

=============================================================================
