---------------------------- MODULE SuperficialTree ----------------------------
(***************************************************************************)
(* The leaf table of the state tree: src/trees/superficial_tree.rs.        *)
(*                                                                         *)
(* A SuperficialTree keeps the leaves of the state tree and hands out leaf *)
(* slots.  It has no inner nodes.  Its value is the record                 *)
(*   leaf_nodes  the leaves; slot i (0-based) is leaf_nodes[i + 1]         *)
(*   count       the first slot that was never handed out by counting      *)
(*   zero_idxs   a stack of slots believed to be empty                     *)
(* The field depth is left out: no method reads it.                        *)
(*                                                                         *)
(* Every method is an operator from a tree value to a tree value, so that  *)
(* the modules that own a tree (SuperficialTreeAPI, ProverServer) make it  *)
(* part of their own actions.                                              *)
(***************************************************************************)
EXTENDS Integers, Enumeration

CONSTANTS
  Hash,   \* field elements a leaf can hold
  Zero    \* BigUint::zero(), the value of an empty leaf

ASSUME ZeroAssumption == Zero \in Hash

TreeValue == [leaf_nodes : Seq(Hash), count : Nat, zero_idxs : Seq(Nat)]

MaxOf(a, b) == IF a >= b THEN a ELSE b

\* A sequence without the elements equal to x, the others in their order.
Without(s, x) == Subsequence(s, {k \in DOMAIN s : s[k] # x})

(***************************************************************************)
(* nth_leaf_node: a slot outside the table reads as an empty leaf.         *)
(***************************************************************************)
nth_leaf_node(leaves, n) == IF n < Len(leaves) THEN leaves[n + 1] ELSE Zero

IsFree(t, i) == nth_leaf_node(t.leaf_nodes, i) = Zero

\* The slots of the table that hold no leaf.
EmptySlots(leaves) == {i \in 0..(Len(leaves) - 1) : nth_leaf_node(leaves, i) = Zero}

-----------------------------------------------------------------------------
(***************************************************************************)
(* Constructors.  from_tree and from_disk build the same value from the    *)
(* leaves they are given; new is the case without leaves.                  *)
(***************************************************************************)
from_leaves(leaves) ==
  [leaf_nodes |-> leaves,
   count      |-> Len(leaves),
   zero_idxs  |-> Ascending(EmptySlots(leaves))]

new == [leaf_nodes |-> <<>>, count |-> 0, zero_idxs |-> <<>>]

(***************************************************************************)
(* update_leaf_node: write a leaf, padding the table with empty leaves up  *)
(* to the slot, and keep count and zero_idxs in step.  A write beyond      *)
(* count leaves count AT the slot written, not after it.                   *)
(***************************************************************************)
WriteLeaf(leaves, idx, leaf_hash) ==
  [i \in 1..MaxOf(Len(leaves), idx + 1) |->
     IF i = idx + 1 THEN leaf_hash ELSE nth_leaf_node(leaves, i - 1)]

\* A wrong range in the padding loop: the first skipped slot is forgotten.
update_leaf_node_skips_one(t, leaf_hash, idx) ==
  [leaf_nodes |-> WriteLeaf(t.leaf_nodes, idx, leaf_hash),
   count      |-> IF leaf_hash = Zero \/ idx < t.count THEN t.count
                  ELSE IF idx > t.count THEN idx ELSE t.count + 1,
   zero_idxs  |-> IF leaf_hash = Zero THEN Append(t.zero_idxs, idx)
                  ELSE IF idx > t.count
                       THEN t.zero_idxs \o [i \in 1..(idx - t.count - 1) |-> t.count + i]
                       ELSE Without(t.zero_idxs, idx)]

update_leaf_node(t, leaf_hash, idx) ==
  [leaf_nodes |-> WriteLeaf(t.leaf_nodes, idx, leaf_hash),
   count      |-> IF leaf_hash = Zero \/ idx < t.count THEN t.count
                  ELSE IF idx > t.count THEN idx ELSE t.count + 1,
   zero_idxs  |-> IF leaf_hash = Zero THEN Append(t.zero_idxs, idx)
                  ELSE IF idx > t.count
                       THEN t.zero_idxs \o [i \in 1..(idx - t.count) |-> t.count + i - 1]
                  ELSE IF idx = t.count THEN t.zero_idxs
                       ELSE Without(t.zero_idxs, idx)]

(***************************************************************************)
(* update_zero_idxs: rebuild the stack from the leaves.                    *)
(***************************************************************************)
\* Enumerating from one instead of zero.
update_zero_idxs_from_one(t) ==
  [t EXCEPT !.zero_idxs = Ascending({i + 1 : i \in EmptySlots(t.leaf_nodes)})]

\* Enumerating one slot too low.
update_zero_idxs_one_low(t) ==
  [t EXCEPT !.zero_idxs = Ascending({i - 1 : i \in EmptySlots(t.leaf_nodes)})]

update_zero_idxs(t) == [t EXCEPT !.zero_idxs = Ascending(EmptySlots(t.leaf_nodes))]

(***************************************************************************)
(* first_zero_idx: pop slots until one is free, and once the stack is      *)
(* empty count upwards until one is.  The source recurses; here the slot   *)
(* it ends at is named directly.  Returns the slot and the tree it leaves. *)
(***************************************************************************)
\* The re-check of the popped slot is missing.
first_zero_idx_unchecked(t) ==
  IF t.zero_idxs # <<>>
  THEN LET k == Len(t.zero_idxs)
       IN  [idx |-> t.zero_idxs[k], tree |-> [t EXCEPT !.zero_idxs = SubSeq(@, 1, k - 1)]]
  ELSE [idx |-> t.count, tree |-> [t EXCEPT !.count = @ + 1]]

\* The stack of empty slots is never consulted.
first_zero_idx_counts_only(t) ==
  LET i == CHOOSE i \in t.count..MaxOf(t.count, Len(t.leaf_nodes)) :
             IsFree(t, i) /\ \A j \in t.count..(i - 1) : ~IsFree(t, j)
  IN  [idx |-> i, tree |-> [t EXCEPT !.count = i + 1]]

FreeOnStack(t) == {k \in DOMAIN t.zero_idxs : IsFree(t, t.zero_idxs[k])}

LastFreeOnStack(t) ==
  CHOOSE k \in FreeOnStack(t) : \A m \in FreeOnStack(t) : m <= k

FirstFreeFromCount(t) ==
  CHOOSE i \in t.count..MaxOf(t.count, Len(t.leaf_nodes)) :
    IsFree(t, i) /\ \A j \in t.count..(i - 1) : ~IsFree(t, j)

first_zero_idx(t) ==
  IF FreeOnStack(t) # {}
  THEN [idx  |-> t.zero_idxs[LastFreeOnStack(t)],
        tree |-> [t EXCEPT !.zero_idxs = SubSeq(@, 1, LastFreeOnStack(t) - 1)]]
  ELSE [idx  |-> FirstFreeFromCount(t),
        tree |-> [t EXCEPT !.zero_idxs = <<>>, !.count = FirstFreeFromCount(t) + 1]]
=============================================================================
