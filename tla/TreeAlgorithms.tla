----------------------------- MODULE TreeAlgorithms -----------------------------
(***************************************************************************)
(* The sequential algorithms on Merkle trees of src/trees/mod.rs and       *)
(* src/trees/tree_utils.rs.  Indexes of leaves and nodes count from zero,  *)
(* as in the code; vectors are sequences.  Inner rows are numbered by      *)
(* their distance from the leaves; the code reverses the list of rows.     *)
(***************************************************************************)
EXTENDS Integers, Sequences

CONSTANTS
  Depth,           \* depth of the tree (16 in tree_partition_update)
  Shift,           \* where in the table of zero hashes its leaves start
  Stride,          \* STRIDE, 250 in the code
  Zero,            \* BigUint::zero()
  pedersen(_, _)

ASSUME TreeAssumption == Depth \in Nat \ {0} /\ Shift \in Nat /\ Stride \in Nat \ {0}

(***************************************************************************)
(* ZERO_HASHES: each entry of the table in tree_utils.rs is the hash of    *)
(* the entry before it with itself.                                        *)
(***************************************************************************)
ZERO_HASHES[i \in 0..(Depth + Shift)] ==
  IF i = 0 THEN Zero ELSE pedersen(ZERO_HASHES[i - 1], ZERO_HASHES[i - 1])

get_zero_hash(i) == ZERO_HASHES[i + Shift]

-----------------------------------------------------------------------------
(***************************************************************************)
(* verify_root: the tree hashed again from its leaves, padded with zero.   *)
(***************************************************************************)
pad_leaf_nodes(arr, pad_value) ==
  [k \in 1..2 ^ Depth |-> IF k <= Len(arr) THEN arr[k] ELSE pad_value]

pairwise_hash(array) ==
  [k \in 1..(Len(array) \div 2) |-> pedersen(array[2 * k - 1], array[2 * k])]

inner_from_leaf_nodes(leaves) ==
  LET rows[i \in 1..Depth] == pairwise_hash(IF i = 1 THEN leaves ELSE rows[i - 1])
  IN  rows

verify_root(leaves, r) ==
  r = inner_from_leaf_nodes(pad_leaf_nodes(leaves, Zero))[Depth][1]

-----------------------------------------------------------------------------
(***************************************************************************)
(* build_tree: each row is hashed by parallel tasks, a chunk of Stride     *)
(* nodes each, that copy their hashes into the row above under its mutex.  *)
(***************************************************************************)
\* The last of an odd number of nodes is paired with itself.
pairwise_hash2_itself(array, i) ==
  [k \in 1..((Len(array) + 1) \div 2) |->
     pedersen(array[2 * k - 1], IF 2 * k <= Len(array) THEN array[2 * k] ELSE array[2 * k - 1])]

\* The last of an odd number of nodes is paired with the zero hash of its level.
pairwise_hash2(array, i) ==
  [k \in 1..((Len(array) + 1) \div 2) |->
     pedersen(array[2 * k - 1], IF 2 * k <= Len(array) THEN array[2 * k] ELSE get_zero_hash(i))]

Chunk(nodes, n) ==
  SubSeq(nodes, n * Stride + 1,
         IF (n + 1) * Stride < Len(nodes) THEN (n + 1) * Stride ELSE Len(nodes))

Chunks(nodes) == {n \in 0..Len(nodes) : n * Stride < Len(nodes)}

RowLength(nodes) == (Len(nodes) + 1) \div 2

\* The slice of the row above that chunk n overwrites: after From, up to To.
From(n) == (n * Stride) \div 2

\* A chunk that ends with the row is not copied to its end.
To_full_only(nodes, hashes, n) == From(n) + Stride \div 2

To(nodes, hashes, n) ==
  IF RowLength(nodes) < From(n) + Stride \div 2 \/ Len(hashes) < Stride \div 2
  THEN RowLength(nodes) ELSE From(n) + Stride \div 2

Hashes(nodes, i, n) == pairwise_hash2(Chunk(nodes, n), i)

\* clone_from_slice panics when the slice and the hashes differ in length.
CopiesFit(nodes, i) ==
  \A n \in Chunks(nodes) :
    LET hashes == Hashes(nodes, i, n)
    IN  /\ To(nodes, hashes, n) <= RowLength(nodes)
        /\ Len(hashes) = To(nodes, hashes, n) - From(n)

\* What the tasks write: a place in the row, and the hash.
Writes(nodes, i) ==
  UNION {{<<From(n) + k, Hashes(nodes, i, n)[k]>> : k \in DOMAIN Hashes(nodes, i, n)} :
           n \in Chunks(nodes)}

hash_tree_level(nodes, i) ==
  [j \in 1..RowLength(nodes) |-> (CHOOSE w \in Writes(nodes, i) : w[1] = j)[2]]

inner_from_leaf_nodes2(leaves) ==
  LET rows[i \in 0..(Depth - 1)] == hash_tree_level(IF i = 0 THEN leaves ELSE rows[i - 1], i)
  IN  rows

build_tree(leaves) == inner_from_leaf_nodes2(leaves)[Depth - 1][1]

-----------------------------------------------------------------------------
(***************************************************************************)
(* Where the siblings on the way from a leaf to the root are.              *)
(***************************************************************************)
\* The bits of an index, the lowest first, filled up to the depth.
idx_to_binary_pos(idx) == [k \in 1..Depth |-> (idx \div 2 ^ (k - 1)) % 2]

\* The sibling is taken to be on the right.
proof_pos_right(leaf_idx) ==
  LET bits == idx_to_binary_pos(leaf_idx)
      pos[i \in 0..(Depth - 1)] ==
        IF i = 0 THEN leaf_idx + 1
        ELSE IF bits[i + 1] = 1 THEN pos[i - 1] \div 2 - 1 ELSE pos[i - 1] \div 2 + 1
  IN  pos

proof_pos(leaf_idx) ==
  LET bits == idx_to_binary_pos(leaf_idx)
      pos[i \in 0..(Depth - 1)] ==
        IF i = 0 THEN IF leaf_idx % 2 = 0 THEN leaf_idx + 1 ELSE leaf_idx - 1
        ELSE IF bits[i + 1] = 1 THEN pos[i - 1] \div 2 - 1 ELSE pos[i - 1] \div 2 + 1
  IN  pos

-----------------------------------------------------------------------------
(***************************************************************************)
(* For any number of leaves, odd rows and rows that are no multiple of a   *)
(* chunk included, no copy of build_tree panics, the tasks of a row write  *)
(* each of its places once, in whatever order they run, and the root is    *)
(* that of the tree hashed in one go.                                      *)
(***************************************************************************)
WritesOnce(nodes, i) ==
  \A j \in 1..RowLength(nodes) : \E h \in {w[2] : w \in Writes(nodes, i)} :
    \A w \in Writes(nodes, i) : w[1] = j <=> w = <<j, h>>

BuildTreeIsMerkle(leaves) ==
  LET row(i) == IF i = 0 THEN leaves ELSE inner_from_leaf_nodes2(leaves)[i - 1]
  IN  /\ \A i \in 0..(Depth - 1) :
           CopiesFit(row(i), i) /\ WritesOnce(row(i), i)
      /\ verify_root(leaves, build_tree(leaves))
=============================================================================
