---------------------------- MODULE MerkleCommitment ----------------------------
(***************************************************************************)
(* What a batch update of a tree promises: the root moves in one step from *)
(* the commitment to the old leaves to the commitment to the leaves with   *)
(* the whole batch applied.                                                *)
(***************************************************************************)
EXTENDS Naturals

CONSTANTS
  Depth,           \* levels of inner nodes; the tree has 2^Depth leaves
  EmptyLeaf,       \* the value of a leaf that was never written
  pedersen(_, _),  \* the hash of two nodes
  Batches          \* the batches of updates: functions from leaf indexes to hashes

VARIABLES leaves, root

vars == <<leaves, root>>

LeafIndexes == 0..(2 ^ Depth - 1)

\* The definition of a Merkle tree: node[i][j] is the j-th node i levels up.
NodesOf(l) ==
  LET node[i \in 0..Depth] ==
        IF i = 0 THEN l
        ELSE [j \in 0..(2 ^ (Depth - i) - 1) |->
                pedersen(node[i - 1][2 * j], node[i - 1][2 * j + 1])]
  IN  node

RootOf(l) == NodesOf(l)[Depth][0]

NoLeaves == [j \in LeafIndexes |-> EmptyLeaf]

Apply(b, l) == [j \in LeafIndexes |-> IF j \in DOMAIN b THEN b[j] ELSE l[j]]

Init == leaves = NoLeaves /\ root = RootOf(NoLeaves)

Update == \E b \in Batches :
  /\ leaves' = Apply(b, leaves)
  /\ root' = RootOf(leaves')

Spec == Init /\ [][Update]_vars
=============================================================================
