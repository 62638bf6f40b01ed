--------------------------- MODULE SuperficialTreeAPI ---------------------------
(***************************************************************************)
(* The state machine of one SuperficialTree under every sequence of calls  *)
(* its public interface allows: the handlers' pair first_zero_idx then     *)
(* update_leaf_node (made under one lock, so one step here), a direct      *)
(* update_leaf_node of any slot with any hash, zero included, and          *)
(* update_zero_idxs.                                                       *)
(***************************************************************************)
EXTENDS SuperficialTree

CONSTANTS
  MaxIdx,     \* bound: the highest slot a direct write names
  MaxLeaves,  \* bound: leaves of a tree that from_tree or from_disk restores
  MaxStack    \* bound: length of zero_idxs before a call that pushes

ASSUME BoundsAssumption == MaxIdx \in Nat /\ MaxLeaves \in Nat /\ MaxStack \in Nat

VARIABLES
  tree,  \* the SuperficialTree
  last   \* the call just made and its slot (a history variable)

vars == <<tree, last>>

None == [call |-> "none", idx |-> 0]

Init ==
  /\ \E n \in 0..MaxLeaves : \E leaves \in [1..n -> Hash] :
       tree = IF n = 0 THEN new ELSE from_leaves(leaves)
  /\ last = None

\* A handler's use of the tree: take a slot, write the request's hash there.
Allocate(leaf_hash) ==
  LET got == first_zero_idx(tree)
  IN  /\ got.idx <= MaxIdx
      /\ tree' = update_leaf_node(got.tree, leaf_hash, got.idx)
      /\ last' = [call |-> "allocate", idx |-> got.idx]

Write(leaf_hash, idx) ==
  /\ Len(tree.zero_idxs) <= MaxStack
  /\ tree' = update_leaf_node(tree, leaf_hash, idx)
  /\ last' = [call |-> "write", idx |-> idx]

Refresh ==
  /\ tree' = update_zero_idxs(tree)
  /\ last' = [call |-> "refresh", idx |-> 0]

Next ==
  \/ \E h \in Hash : Allocate(h)
  \/ \E h \in Hash, i \in 0..MaxIdx : Write(h, i)
  \/ Refresh

Spec == Init /\ [][Next]_vars

-----------------------------------------------------------------------------
(***************************************************************************)
(* Type invariant.                                                         *)
(***************************************************************************)
TypeOK ==
  /\ tree \in TreeValue
  /\ last \in [call : {"none", "allocate", "write", "refresh"}, idx : Nat]

(***************************************************************************)
(* No slot is lost: an empty slot below count is on the stack of slots to  *)
(* reuse, whatever gaps, erasures and rewrites came before.  Otherwise it  *)
(* could never be handed out again, because counting has passed it.        *)
(***************************************************************************)
NoSlotLost ==
  \A i \in 0..(tree.count - 1) : IsFree(tree, i) => i \in Elements(tree.zero_idxs)

(***************************************************************************)
(* The strengthening that makes NoSlotLost inductive: counting never runs  *)
(* past the table, so rebuilding the stack from the table forgets nothing. *)
(***************************************************************************)
CountWithinTable == tree.count <= Len(tree.leaf_nodes)

(***************************************************************************)
(* An allocation takes a slot that was empty and touches no other leaf,    *)
(* although the stack may hold stale slots that were filled since (a gap   *)
(* write leaves count on a filled slot, which the next gap write pushes).  *)
(***************************************************************************)
AllocateTakesFreeSlot ==
  [][last'.call = "allocate" =>
       /\ IsFree(tree, last'.idx)
       /\ \A i \in 0..(Len(tree.leaf_nodes) - 1) :
            i # last'.idx =>
              nth_leaf_node(tree'.leaf_nodes, i) = nth_leaf_node(tree.leaf_nodes, i)]_vars

(***************************************************************************)
(* The table grows through an allocation only when it has no empty slot.   *)
(***************************************************************************)
GrowsOnlyWhenFull ==
  [][last'.call = "allocate" /\ last'.idx >= Len(tree.leaf_nodes)
       => EmptySlots(tree.leaf_nodes) = {}]_vars

(***************************************************************************)
(* Rebuilding the stack, as finalize_batch does before every batch,        *)
(* changes no slot's availability: the slots that later allocations can    *)
(* reach are the same before and after.                                    *)
(***************************************************************************)
Reachable(t) ==
  {i \in 0..(Len(t.leaf_nodes) + MaxIdx) :
     IsFree(t, i) /\ (i \in Elements(t.zero_idxs) \/ i >= t.count)}

RefreshKeepsSlots == [][last'.call = "refresh" => Reachable(tree') = Reachable(tree)]_vars
=============================================================================
