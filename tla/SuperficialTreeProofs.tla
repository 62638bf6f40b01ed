------------------------- MODULE SuperficialTreeProofs -------------------------
(***************************************************************************)
(* The leaf table under every sequence of calls, for every set of hashes   *)
(* and every bound: its type, that no slot is lost, and what allocation    *)
(* and refresh may do.                                                     *)
(***************************************************************************)
EXTENDS SuperficialTreeAPI, SuperficialTreeLemmas

\* The stack never names a slot that the table does not have.
StackWithinTable == \A i \in Elements(tree.zero_idxs) : i < Len(tree.leaf_nodes)

(***************************************************************************)
(* The inductive invariant.  NoSlotLost alone is not inductive: a refresh  *)
(* collects empty slots of the table only, so counting must not have       *)
(* passed its end.                                                         *)
(***************************************************************************)
IInv == TypeOK /\ CountWithinTable /\ StackWithinTable /\ NoSlotLost

\* The same facts about a tree value, in the form the lemmas use.
LEMMA IInvFacts ==
  ASSUME IInv
  PROVE  /\ tree \in TreeValue
         /\ tree.leaf_nodes \in Seq(Hash) /\ Len(tree.leaf_nodes) \in Nat
         /\ tree.count \in Nat
         /\ tree.count <= Len(tree.leaf_nodes)
         /\ \A i \in Elements(tree.zero_idxs) : i \in Nat /\ i < Len(tree.leaf_nodes)
         /\ \A x \in Nat : NoneLostBut(tree, x)
<1>1. /\ tree \in TreeValue
      /\ tree.leaf_nodes \in Seq(Hash) /\ Len(tree.leaf_nodes) \in Nat
      /\ tree.count \in Nat /\ tree.zero_idxs \in Seq(Nat)
  BY DEF IInv, TypeOK, TreeValue
<1>2. \A i \in Elements(tree.zero_idxs) : i \in Nat
  BY <1>1 DEF Elements
<1>3. \A i \in Nat : i < tree.count => i \in 0..(tree.count - 1)
  BY <1>1
<1>4. \A x \in Nat : NoneLostBut(tree, x)
  BY <1>3 DEF IInv, NoSlotLost, NoneLostBut
<1> QED BY <1>1, <1>2, <1>4 DEF IInv, CountWithinTable, StackWithinTable

\* A tree value with these facts satisfies the invariant.
LEMMA IInvFromFacts ==
  ASSUME tree' \in TreeValue,
         tree'.count <= Len(tree'.leaf_nodes),
         \A i \in Elements(tree'.zero_idxs) : i < Len(tree'.leaf_nodes),
         NoneLostBut(tree', Len(tree'.leaf_nodes)),
         last' \in [call : {"none", "allocate", "write", "refresh"}, idx : Nat]
  PROVE  IInv'
<1>1. tree'.count \in Nat /\ Len(tree'.leaf_nodes) \in Nat
  BY DEF TreeValue
<1>2. ASSUME NEW i \in 0..(tree'.count - 1), IsFree(tree', i)
      PROVE  i \in Elements(tree'.zero_idxs)
  <2>1. i \in Nat /\ i < tree'.count /\ i # Len(tree'.leaf_nodes)
    BY <1>1
  <2> QED BY <1>2, <2>1 DEF NoneLostBut
<1>3. TypeOK'
  BY DEF TypeOK
<1> QED BY <1>2, <1>3 DEF IInv, CountWithinTable, StackWithinTable, NoSlotLost

-----------------------------------------------------------------------------
\* A fresh tree, and a tree rebuilt from leaves, satisfy the invariant.
LEMMA InitIInv == Init => IInv
<1> SUFFICES ASSUME Init PROVE IInv
  OBVIOUS
<1>0. PICK n \in 0..MaxLeaves : \E leaves \in [1..n -> Hash] :
        tree = IF n = 0 THEN new ELSE from_leaves(leaves)
  BY DEF Init
<1>1. PICK leaves \in [1..n -> Hash] :
        tree = IF n = 0 THEN new ELSE from_leaves(leaves)
  BY <1>0
<1>2. last \in [call : {"none", "allocate", "write", "refresh"}, idx : Nat]
  BY DEF Init, None
<1>3. CASE n = 0
  <2>1. tree = [leaf_nodes |-> <<>>, count |-> 0, zero_idxs |-> <<>>]
    BY <1>1, <1>3 DEF new
  <2>2. Elements(<<>>) = {}
    BY DEF Elements
  <2>3. tree \in TreeValue
    BY <2>1 DEF TreeValue
  <2>4. 0..(tree.count - 1) = {} /\ Len(tree.leaf_nodes) = 0
    BY <2>1
  <2> QED BY <1>2, <2>1, <2>2, <2>3, <2>4
          DEF IInv, TypeOK, CountWithinTable, StackWithinTable, NoSlotLost
<1>4. CASE n # 0
  <2> DEFINE E == EmptySlots(leaves)
  <2>1. n \in Nat /\ leaves \in Seq(Hash) /\ Len(leaves) = n
    BY BoundsAssumption, SeqDef
  <2>2. E \in SUBSET Nat /\ IsFiniteSet(E) /\ \A i \in E : i < Len(leaves)
    BY <2>1, EmptySlotsType
  <2>3. tree = [leaf_nodes |-> leaves, count |-> n, zero_idxs |-> Ascending(E)]
    BY <1>1, <1>4, <2>1 DEF from_leaves
  <2>4. ASSUME NEW i \in 0..(tree.count - 1), IsFree(tree, i) PROVE i \in E
    BY <2>1, <2>3, <2>4 DEF EmptySlots, IsFree
  <2> HIDE DEF E
  <2>5. Ascending(E) \in Seq(Nat) /\ Elements(Ascending(E)) = E
    BY <2>2, AscendingElements, SeqMonotonic
  <2>6. tree \in TreeValue
    BY <2>1, <2>3, <2>5 DEF TreeValue
  <2>7. TypeOK /\ CountWithinTable
    BY <1>2, <2>1, <2>3, <2>6 DEF TypeOK, CountWithinTable
  <2>8. StackWithinTable
    BY <2>2, <2>3, <2>5 DEF StackWithinTable
  <2>9. NoSlotLost
    BY <2>3, <2>4, <2>5 DEF NoSlotLost
  <2> QED BY <2>7, <2>8, <2>9 DEF IInv
<1> QED BY <1>3, <1>4

\* What an allocation does, for the invariant and for the action properties.
LEMMA AllocateSound ==
  ASSUME IInv, NEW h \in Hash, Allocate(h)
  PROVE  LET got == first_zero_idx(tree)
         IN  /\ IInv'
             /\ last'.idx = got.idx /\ got.idx \in Nat /\ IsFree(tree, got.idx)
             /\ tree'.leaf_nodes = WriteLeaf(tree.leaf_nodes, got.idx, h)
<1> DEFINE got == first_zero_idx(tree)
<1>1. /\ tree \in TreeValue
      /\ Len(tree.leaf_nodes) \in Nat
      /\ tree.count \in Nat
      /\ tree.count <= Len(tree.leaf_nodes)
      /\ \A i \in Elements(tree.zero_idxs) : i \in Nat /\ i < Len(tree.leaf_nodes)
      /\ NoneLostBut(tree, tree.count)
      /\ tree.leaf_nodes \in Seq(Hash)
  BY IInvFacts
<1>2. /\ got.idx \in Nat
      /\ IsFree(tree, got.idx)
      /\ got.tree \in TreeValue
      /\ got.tree.leaf_nodes = tree.leaf_nodes
      /\ got.tree.count <= MaxOf(Len(tree.leaf_nodes), got.idx + 1)
      /\ Elements(got.tree.zero_idxs) \subseteq Elements(tree.zero_idxs)
      /\ NoneLostBut(got.tree, got.idx)
  BY <1>1, FirstZeroIdxSound
<1>3. /\ tree' = update_leaf_node(got.tree, h, got.idx)
      /\ last' = [call |-> "allocate", idx |-> got.idx]
  BY DEF Allocate
<1> HIDE DEF got
<1>4. /\ tree' \in TreeValue
      /\ tree'.leaf_nodes = WriteLeaf(tree.leaf_nodes, got.idx, h)
      /\ tree'.count <= Len(tree'.leaf_nodes)
      /\ \A x \in Nat : NoneLostBut(tree', x)
      /\ \A i \in Elements(tree'.zero_idxs) : i \in Elements(got.tree.zero_idxs) \/ i <= got.idx
  BY <1>2, <1>3, UpdateLeafNodeSound
<1>5. Len(tree'.leaf_nodes) = MaxOf(Len(tree.leaf_nodes), got.idx + 1)
  BY <1>1, <1>2, <1>4, WriteLeafShape
<1>6. Len(tree'.leaf_nodes) \in Nat
  BY <1>1, <1>2, <1>5 DEF MaxOf
<1>7. Elements(tree'.zero_idxs) \subseteq Nat
  BY <1>4 DEF TreeValue, Elements
<1>8. \A i \in Elements(tree'.zero_idxs) : i < Len(tree'.leaf_nodes)
  BY <1>1, <1>2, <1>4, <1>5, <1>7 DEF MaxOf
<1>9. last' \in [call : {"none", "allocate", "write", "refresh"}, idx : Nat]
  BY <1>2, <1>3
<1>10. IInv'
  BY <1>4, <1>6, <1>8, <1>9, IInvFromFacts
<1> QED BY <1>2, <1>3, <1>4, <1>10 DEF got

\* A direct write of a slot preserves the invariant.
LEMMA WriteSound ==
  ASSUME IInv, NEW h \in Hash, NEW idx \in 0..MaxIdx, Write(h, idx)
  PROVE  IInv'
<1>1. /\ tree \in TreeValue
      /\ tree.leaf_nodes \in Seq(Hash) /\ Len(tree.leaf_nodes) \in Nat
      /\ tree.count \in Nat
      /\ tree.count <= Len(tree.leaf_nodes)
      /\ \A i \in Elements(tree.zero_idxs) : i \in Nat /\ i < Len(tree.leaf_nodes)
      /\ \A x \in Nat : NoneLostBut(tree, x)
  BY IInvFacts
<1>2. idx \in Nat
  BY BoundsAssumption
<1>3. tree.count <= MaxOf(Len(tree.leaf_nodes), idx + 1)
  BY <1>1, <1>2 DEF MaxOf
<1>4. tree' = update_leaf_node(tree, h, idx) /\ last' = [call |-> "write", idx |-> idx]
  BY DEF Write
<1>5. /\ tree' \in TreeValue
      /\ tree'.leaf_nodes = WriteLeaf(tree.leaf_nodes, idx, h)
      /\ tree'.count <= Len(tree'.leaf_nodes)
      /\ \A x \in Nat : NoneLostBut(tree', x)
      /\ \A i \in Elements(tree'.zero_idxs) : i \in Elements(tree.zero_idxs) \/ i <= idx
  BY <1>1, <1>2, <1>3, <1>4, UpdateLeafNodeSound
<1>6. Len(tree'.leaf_nodes) = MaxOf(Len(tree.leaf_nodes), idx + 1)
  BY <1>1, <1>2, <1>5, WriteLeafShape
<1>7. Len(tree'.leaf_nodes) \in Nat
  BY <1>1, <1>2, <1>6 DEF MaxOf
<1>8. Elements(tree'.zero_idxs) \subseteq Nat
  BY <1>5 DEF TreeValue, Elements
<1>9. \A i \in Elements(tree'.zero_idxs) : i < Len(tree'.leaf_nodes)
  BY <1>1, <1>2, <1>5, <1>6, <1>8 DEF MaxOf
<1>10. last' \in [call : {"none", "allocate", "write", "refresh"}, idx : Nat]
  BY <1>2, <1>4
<1> QED BY <1>5, <1>7, <1>9, <1>10, IInvFromFacts

\* What a refresh does, for the invariant and for the action property.
LEMMA RefreshSound ==
  ASSUME IInv, Refresh
  PROVE  /\ IInv'
         /\ tree'.leaf_nodes = tree.leaf_nodes /\ tree'.count = tree.count
         /\ Elements(tree'.zero_idxs) = EmptySlots(tree.leaf_nodes)
<1>1. /\ tree \in TreeValue
      /\ tree.leaf_nodes \in Seq(Hash) /\ Len(tree.leaf_nodes) \in Nat
      /\ tree.count \in Nat
      /\ tree.count <= Len(tree.leaf_nodes)
  BY IInvFacts
<1>2. /\ tree' \in TreeValue
      /\ tree'.leaf_nodes = tree.leaf_nodes /\ tree'.count = tree.count
      /\ Elements(tree'.zero_idxs) = EmptySlots(tree.leaf_nodes)
  BY <1>1, UpdateZeroIdxsSound DEF Refresh
<1>3. \A i \in Elements(tree'.zero_idxs) : i < Len(tree'.leaf_nodes)
  BY <1>1, <1>2, EmptySlotsType
<1>4. NoneLostBut(tree', Len(tree'.leaf_nodes))
  <2>1. ASSUME NEW i \in Nat, i < tree'.count, IsFree(tree', i)
        PROVE  i \in EmptySlots(tree.leaf_nodes)
    BY <1>1, <1>2, <2>1 DEF EmptySlots, IsFree
  <2> QED BY <1>2, <2>1 DEF NoneLostBut
<1>5. last' \in [call : {"none", "allocate", "write", "refresh"}, idx : Nat]
  BY DEF Refresh
<1> QED BY <1>1, <1>2, <1>3, <1>4, <1>5, IInvFromFacts

\* Every step preserves the invariant.
LEMMA NextIInv == IInv /\ [Next]_vars => IInv'
<1> SUFFICES ASSUME IInv, [Next]_vars PROVE IInv'
  OBVIOUS
<1>1. ASSUME NEW h \in Hash, Allocate(h) PROVE IInv'
  BY <1>1, AllocateSound
<1>2. ASSUME NEW h \in Hash, NEW i \in 0..MaxIdx, Write(h, i) PROVE IInv'
  BY <1>2, WriteSound
<1>3. CASE Refresh
  BY <1>3, RefreshSound
<1>4. CASE UNCHANGED vars
  BY <1>4 DEF vars, IInv, TypeOK, CountWithinTable, StackWithinTable, NoSlotLost, IsFree
<1> QED BY <1>1, <1>2, <1>3, <1>4 DEF Next

-----------------------------------------------------------------------------
(***************************************************************************)
(* The leaf table always has its type: leaves are field elements, count    *)
(* and the stack hold slot numbers.                                        *)
(***************************************************************************)
THEOREM TypeCorrect == Spec => []TypeOK
<1>1. IInv => TypeOK
  BY DEF IInv
<1> QED BY InitIInv, NextIInv, <1>1, PTL DEF Spec

(***************************************************************************)
(* No sequence of calls loses a slot: an empty slot that counting has      *)
(* passed is always on the stack, so first_zero_idx can hand it out again. *)
(***************************************************************************)
THEOREM NoSlotEverLost == Spec => []NoSlotLost
<1>1. IInv => NoSlotLost
  BY DEF IInv
<1> QED BY InitIInv, NextIInv, <1>1, PTL DEF Spec

(***************************************************************************)
(* The slot a handler writes was empty, and its write changes no other     *)
(* leaf: no accepted request is ever overwritten by a later one.           *)
(***************************************************************************)
THEOREM AllocationTakesFreeSlot == Spec => AllocateTakesFreeSlot
<1> DEFINE Good ==
      last'.call = "allocate" =>
        /\ IsFree(tree, last'.idx)
        /\ \A i \in 0..(Len(tree.leaf_nodes) - 1) :
             i # last'.idx =>
               nth_leaf_node(tree'.leaf_nodes, i) = nth_leaf_node(tree.leaf_nodes, i)
<1>1. ASSUME IInv, Next PROVE Good
  <2>1. ASSUME NEW h \in Hash, Allocate(h) PROVE Good
    <3>1. /\ last'.idx \in Nat /\ IsFree(tree, last'.idx)
          /\ tree'.leaf_nodes = WriteLeaf(tree.leaf_nodes, last'.idx, h)
      BY <1>1, <2>1, AllocateSound
    <3>2. tree.leaf_nodes \in Seq(Hash) /\ Len(tree.leaf_nodes) \in Nat
      BY <1>1, IInvFacts
    <3> DEFINE leaves == tree.leaf_nodes
               x == last'.idx
    <3>3. leaves \in Seq(Hash) /\ x \in Nat /\ h \in Hash
      BY <2>1, <3>1, <3>2
    <3>4. ASSUME NEW i \in 0..(Len(leaves) - 1), i # x
          PROVE  nth_leaf_node(tree'.leaf_nodes, i) = nth_leaf_node(leaves, i)
      <4>1. i \in Nat
        OBVIOUS
      <4> HIDE DEF leaves, x
      <4>2. nth_leaf_node(WriteLeaf(leaves, x, h), i) = nth_leaf_node(leaves, i)
        BY <3>3, <3>4, <4>1, WriteLeafReads
      <4> QED BY <3>1, <4>2 DEF leaves, x
    <3> QED BY <3>1, <3>4
  <2>2. ASSUME NEW h \in Hash, NEW i \in 0..MaxIdx, Write(h, i) PROVE Good
    BY <2>2 DEF Write
  <2>3. CASE Refresh
    BY <2>3 DEF Refresh
  <2> QED BY <1>1, <2>1, <2>2, <2>3 DEF Next
<1>2. IInv /\ [Next]_vars => [Good]_vars
  BY <1>1
<1>3. Spec => [][Good]_vars
  BY InitIInv, NextIInv, <1>2, PTL DEF Spec
<1> QED BY <1>3 DEF AllocateTakesFreeSlot

(***************************************************************************)
(* The tree takes a new leaf only when none of its leaves is empty.        *)
(***************************************************************************)
THEOREM TableGrowsOnlyWhenFull == Spec => GrowsOnlyWhenFull
<1> DEFINE Good ==
      last'.call = "allocate" /\ last'.idx >= Len(tree.leaf_nodes)
        => EmptySlots(tree.leaf_nodes) = {}
<1>1. ASSUME IInv, Next PROVE Good
  <2>1. ASSUME NEW h \in Hash, Allocate(h), last'.idx >= Len(tree.leaf_nodes)
        PROVE  EmptySlots(tree.leaf_nodes) = {}
    <3>1. /\ tree \in TreeValue
          /\ tree.leaf_nodes \in Seq(Hash) /\ Len(tree.leaf_nodes) \in Nat
          /\ tree.count \in Nat /\ tree.count <= Len(tree.leaf_nodes)
          /\ \A i \in Elements(tree.zero_idxs) : i \in Nat /\ i < Len(tree.leaf_nodes)
          /\ \A x \in Nat : NoneLostBut(tree, x)
      BY <1>1, IInvFacts
    <3>2. last'.idx = first_zero_idx(tree).idx
      BY <2>1 DEF Allocate
    <3>3. FreeOnStack(tree) = {}
      <4>1. SUFFICES ASSUME FreeOnStack(tree) # {} PROVE FALSE
        OBVIOUS
      <4>2. LastFreeOnStack(tree) \in DOMAIN tree.zero_idxs
        BY <3>1, <4>1, LastFreeChosen DEF FreeOnStack
      <4>3. last'.idx = tree.zero_idxs[LastFreeOnStack(tree)]
        BY <3>2, <4>1 DEF first_zero_idx
      <4>4. last'.idx \in Elements(tree.zero_idxs)
        BY <4>2, <4>3 DEF Elements
      <4> QED BY <2>1, <3>1, <4>4
    <3>4. last'.idx = FirstFreeFromCount(tree)
      BY <3>2, <3>3 DEF first_zero_idx
    <3>5. /\ last'.idx \in Nat
          /\ \A j \in tree.count..(last'.idx - 1) : ~IsFree(tree, j)
      BY <3>1, <3>4, FirstFreeChosen
    <3>6. ASSUME NEW i \in EmptySlots(tree.leaf_nodes) PROVE FALSE
      <4>1. i \in Nat /\ i < Len(tree.leaf_nodes) /\ IsFree(tree, i)
        BY <3>1 DEF EmptySlots, IsFree
      <4>2. CASE i < tree.count
        <5>1. i \in Elements(tree.zero_idxs)
          <6>1. NoneLostBut(tree, i + 1) /\ i # i + 1
            BY <3>1, <4>1
          <6> QED BY <4>1, <4>2, <6>1 DEF NoneLostBut
        <5>2. PICK m \in DOMAIN tree.zero_idxs : tree.zero_idxs[m] = i
          BY <5>1 DEF Elements
        <5> QED BY <3>3, <4>1, <5>2 DEF FreeOnStack
      <4>3. CASE ~(i < tree.count)
        <5>1. i \in tree.count..(last'.idx - 1)
          BY <2>1, <3>1, <3>5, <4>1, <4>3
        <5> QED BY <3>5, <4>1, <5>1
      <4> QED BY <4>2, <4>3
    <3> QED BY <3>6
  <2>2. ASSUME NEW h \in Hash, NEW i \in 0..MaxIdx, Write(h, i) PROVE Good
    BY <2>2 DEF Write
  <2>3. CASE Refresh
    BY <2>3 DEF Refresh
  <2> QED BY <1>1, <2>1, <2>2, <2>3 DEF Next
<1>2. IInv /\ [Next]_vars => [Good]_vars
  BY <1>1
<1>3. Spec => [][Good]_vars
  BY InitIInv, NextIInv, <1>2, PTL DEF Spec
<1> QED BY <1>3 DEF GrowsOnlyWhenFull

(***************************************************************************)
(* finalize_batch's refresh of the stack leaves the slots that later       *)
(* allocations can reach exactly as they were.                             *)
(***************************************************************************)
THEOREM RefreshKeepsReachable == Spec => RefreshKeepsSlots
<1> DEFINE Good == last'.call = "refresh" => Reachable(tree') = Reachable(tree)
<1>1. ASSUME IInv, Next PROVE Good
  <2>1. CASE Refresh
    <3>1. /\ tree'.leaf_nodes = tree.leaf_nodes /\ tree'.count = tree.count
          /\ Elements(tree'.zero_idxs) = EmptySlots(tree.leaf_nodes)
      BY <1>1, <2>1, RefreshSound
    <3>2. /\ Len(tree.leaf_nodes) \in Nat
          /\ tree.count \in Nat /\ tree.count <= Len(tree.leaf_nodes)
          /\ \A x \in Nat : NoneLostBut(tree, x)
      BY <1>1, IInvFacts
    <3>3. ASSUME NEW i \in 0..(Len(tree.leaf_nodes) + MaxIdx), IsFree(tree, i)
          PROVE  (i \in EmptySlots(tree.leaf_nodes) \/ i >= tree.count)
                   <=> (i \in Elements(tree.zero_idxs) \/ i >= tree.count)
      <4>1. i \in Nat /\ i + 1 \in Nat /\ i # i + 1
        OBVIOUS
      <4>2. CASE i >= tree.count
        BY <4>2
      <4>3. CASE ~(i >= tree.count)
        <5>1. i < tree.count /\ i \in 0..(Len(tree.leaf_nodes) - 1)
          BY <3>2, <4>1, <4>3
        <5>2. i \in EmptySlots(tree.leaf_nodes)
          BY <3>3, <5>1 DEF EmptySlots, IsFree
        <5>3. i \in Elements(tree.zero_idxs)
          BY <3>2, <3>3, <4>1, <5>1 DEF NoneLostBut
        <5> QED BY <5>2, <5>3
      <4> QED BY <4>2, <4>3
    <3>4. \A i : IsFree(tree', i) <=> IsFree(tree, i)
      BY <3>1 DEF IsFree
    <3> QED BY <3>1, <3>3, <3>4 DEF Reachable
  <2>2. ASSUME NEW h \in Hash, NEW i \in 0..MaxIdx, Write(h, i) PROVE Good
    BY <2>2 DEF Write
  <2>3. ASSUME NEW h \in Hash, Allocate(h) PROVE Good
    BY <2>3 DEF Allocate
  <2> QED BY <1>1, <2>1, <2>2, <2>3 DEF Next
<1>2. IInv /\ [Next]_vars => [Good]_vars
  BY <1>1
<1>3. Spec => [][Good]_vars
  BY InitIInv, NextIInv, <1>2, PTL DEF Spec
<1> QED BY <1>3 DEF RefreshKeepsSlots
=============================================================================
