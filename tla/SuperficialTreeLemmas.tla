------------------------- MODULE SuperficialTreeLemmas -------------------------
(***************************************************************************)
(* Facts about the operators of SuperficialTree: what each method of the   *)
(* leaf table preserves.                                                   *)
(***************************************************************************)
EXTENDS SuperficialTree, EnumerationLemmas

-----------------------------------------------------------------------------
\* Without keeps exactly the elements that differ.
LEMMA WithoutElements ==
  ASSUME NEW s \in Seq(Nat), NEW x
  PROVE  /\ Without(s, x) \in Seq(Nat)
         /\ Elements(Without(s, x)) = Elements(s) \ {x}
<1> DEFINE K == {k \in DOMAIN s : s[k] # x}
           V == {s[k] : k \in K}
<1>1. Without(s, x) \in Seq(V) /\ Elements(Without(s, x)) = V
  BY SubsequenceElements DEF Without
<1>2. V = Elements(s) \ {x}
  BY DEF Elements
<1>3. V \subseteq Nat
  OBVIOUS
<1> QED BY <1>1, <1>2, <1>3, SeqMonotonic

-----------------------------------------------------------------------------
(***************************************************************************)
(* Elements of sequences put together or cut.                              *)
(***************************************************************************)
\* Appending adds one element.
LEMMA AppendElements ==
  ASSUME NEW s \in Seq(Nat), NEW x \in Nat
  PROVE  Elements(Append(s, x)) = Elements(s) \union {x}
<1> DEFINE a == Append(s, x)
<1>1. /\ Len(s) \in Nat /\ DOMAIN s = 1..Len(s) /\ DOMAIN a = 1..(Len(s) + 1)
      /\ a[Len(s) + 1] = x /\ \A i \in 1..Len(s) : a[i] = s[i]
  OBVIOUS
<1> HIDE DEF a
<1>2. ASSUME NEW i \in DOMAIN a PROVE a[i] \in Elements(s) \union {x}
  <2>1. i \in DOMAIN s \/ i = Len(s) + 1
    BY <1>1
  <2> QED BY <1>1, <2>1 DEF Elements
<1>3. ASSUME NEW i \in DOMAIN s PROVE s[i] \in Elements(a)
  <2>1. i \in DOMAIN a /\ a[i] = s[i]
    BY <1>1
  <2> QED BY <2>1 DEF Elements
<1>4. x \in Elements(a)
  <2>1. Len(s) + 1 \in DOMAIN a
    BY <1>1
  <2> QED BY <1>1, <2>1 DEF Elements
<1>5. Elements(a) \subseteq Elements(s) \union {x}
  BY <1>2 DEF Elements
<1>6. Elements(s) \subseteq Elements(a)
  BY <1>3 DEF Elements
<1> QED BY <1>4, <1>5, <1>6 DEF a

\* A concatenation has the elements of its two parts.
LEMMA ConcatElements ==
  ASSUME NEW s \in Seq(Nat), NEW t \in Seq(Nat)
  PROVE  /\ s \o t \in Seq(Nat)
         /\ Elements(s \o t) = Elements(s) \union Elements(t)
<1> DEFINE c == s \o t
<1>1. /\ c \in Seq(Nat) /\ Len(c) = Len(s) + Len(t)
      /\ \A i \in 1..(Len(s) + Len(t)) : c[i] = IF i <= Len(s) THEN s[i] ELSE t[i - Len(s)]
  BY ConcatProperties
<1>2. /\ Len(s) \in Nat /\ DOMAIN s = 1..Len(s)
      /\ Len(t) \in Nat /\ DOMAIN t = 1..Len(t)
  OBVIOUS
<1> HIDE DEF c
<1>3. DOMAIN c = 1..(Len(s) + Len(t))
  BY <1>1
<1>4. ASSUME NEW i \in DOMAIN c PROVE c[i] \in Elements(s) \union Elements(t)
  <2>1. CASE i <= Len(s)
    <3>1. i \in DOMAIN s /\ c[i] = s[i]
      BY <1>1, <1>2, <1>3, <2>1
    <3> QED BY <3>1 DEF Elements
  <2>2. CASE ~(i <= Len(s))
    <3>1. i - Len(s) \in DOMAIN t /\ c[i] = t[i - Len(s)]
      BY <1>1, <1>2, <1>3, <2>2
    <3> QED BY <3>1 DEF Elements
  <2> QED BY <2>1, <2>2
<1>5. ASSUME NEW i \in DOMAIN s PROVE s[i] \in Elements(c)
  <2>1. i \in DOMAIN c /\ c[i] = s[i]
    BY <1>1, <1>2, <1>3
  <2> QED BY <2>1 DEF Elements
<1>6. ASSUME NEW i \in DOMAIN t PROVE t[i] \in Elements(c)
  <2>1. /\ Len(s) + i \in DOMAIN c /\ ~(Len(s) + i <= Len(s))
        /\ (Len(s) + i) - Len(s) = i
    BY <1>2, <1>3
  <2>2. c[Len(s) + i] = t[i]
    BY <1>1, <1>3, <2>1
  <2> QED BY <2>1, <2>2 DEF Elements
<1>7. Elements(c) \subseteq Elements(s) \union Elements(t)
  BY <1>4 DEF Elements
<1>8. Elements(s) \subseteq Elements(c) /\ Elements(t) \subseteq Elements(c)
  BY <1>5, <1>6 DEF Elements
<1> QED BY <1>1, <1>7, <1>8 DEF c

-----------------------------------------------------------------------------
(***************************************************************************)
(* The leaf table.                                                         *)
(***************************************************************************)
\* The empty slots of a table are finitely many slots of it.
LEMMA EmptySlotsType ==
  ASSUME NEW leaves \in Seq(Hash)
  PROVE  /\ EmptySlots(leaves) \in SUBSET Nat
         /\ IsFiniteSet(EmptySlots(leaves))
         /\ \A i \in EmptySlots(leaves) : i < Len(leaves)
<1>1. Len(leaves) \in Nat
  OBVIOUS
<1>2. EmptySlots(leaves) \in SUBSET (0..(Len(leaves) - 1))
  BY DEF EmptySlots
<1>3. IsFiniteSet(0..(Len(leaves) - 1))
  BY <1>1, FS_Interval
<1>4. IsFiniteSet(EmptySlots(leaves))
  BY <1>2, <1>3, FS_Subset
<1>5. \A i \in EmptySlots(leaves) : i \in Nat /\ i < Len(leaves)
  BY <1>1, <1>2
<1> QED BY <1>4, <1>5

\* A leaf of a table, and a slot beyond it, read as a field element.
LEMMA NthLeafType ==
  ASSUME NEW leaves \in Seq(Hash), NEW n \in Nat
  PROVE  nth_leaf_node(leaves, n) \in Hash
BY ZeroAssumption DEF nth_leaf_node

\* WriteLeaf makes the table reach the slot it writes.
LEMMA WriteLeafShape ==
  ASSUME NEW leaves \in Seq(Hash), NEW idx \in Nat, NEW leaf_hash \in Hash
  PROVE  /\ WriteLeaf(leaves, idx, leaf_hash) \in Seq(Hash)
         /\ Len(WriteLeaf(leaves, idx, leaf_hash)) = MaxOf(Len(leaves), idx + 1)
<1> DEFINE n == MaxOf(Len(leaves), idx + 1)
           w == WriteLeaf(leaves, idx, leaf_hash)
<1>1. n \in Nat
  BY DEF MaxOf
<1>2. w = [i \in 1..n |-> IF i = idx + 1 THEN leaf_hash ELSE nth_leaf_node(leaves, i - 1)]
  BY DEF WriteLeaf
<1> HIDE DEF n, w
<1>3. ASSUME NEW i \in 1..n PROVE w[i] \in Hash
  <2>1. i - 1 \in Nat
    BY <1>1
  <2>2. nth_leaf_node(leaves, i - 1) \in Hash
    BY <2>1, NthLeafType
  <2> QED BY <1>2, <2>2
<1>4. w \in [1..n -> Hash]
  BY <1>2, <1>3
<1>5. w \in Seq(Hash) /\ Len(w) = n
  BY <1>1, <1>4, SeqDef
<1> QED BY <1>5 DEF n, w

\* WriteLeaf changes how one slot reads, and no other.
LEMMA WriteLeafReads ==
  ASSUME NEW leaves \in Seq(Hash), NEW idx \in Nat, NEW leaf_hash \in Hash, NEW i \in Nat
  PROVE  /\ i = idx => nth_leaf_node(WriteLeaf(leaves, idx, leaf_hash), i) = leaf_hash
         /\ i # idx => nth_leaf_node(WriteLeaf(leaves, idx, leaf_hash), i)
                         = nth_leaf_node(leaves, i)
<1> DEFINE n == MaxOf(Len(leaves), idx + 1)
           w == WriteLeaf(leaves, idx, leaf_hash)
<1>1. Len(leaves) \in Nat /\ n \in Nat /\ n >= Len(leaves) /\ n >= idx + 1
  BY DEF MaxOf
<1>2. w = [j \in 1..n |-> IF j = idx + 1 THEN leaf_hash ELSE nth_leaf_node(leaves, j - 1)]
  BY DEF WriteLeaf
<1>3. Len(w) = n
  BY WriteLeafShape
<1> HIDE DEF n, w
<1>4. CASE i < n
  <2>1. i + 1 \in 1..n /\ (i + 1) - 1 = i
    BY <1>1, <1>4
  <2>2. nth_leaf_node(w, i) = w[i + 1]
    BY <1>3, <1>4 DEF nth_leaf_node
  <2>3. w[i + 1] = IF i = idx THEN leaf_hash ELSE nth_leaf_node(leaves, i)
    BY <1>2, <2>1
  <2>4. /\ i = idx => nth_leaf_node(w, i) = leaf_hash
        /\ i # idx => nth_leaf_node(w, i) = nth_leaf_node(leaves, i)
    BY <2>2, <2>3
  <2> QED BY <2>4 DEF w
<1>5. CASE ~(i < n)
  <2>1. i # idx
    BY <1>1, <1>5
  <2>2. nth_leaf_node(w, i) = nth_leaf_node(leaves, i)
    BY <1>1, <1>3, <1>5 DEF nth_leaf_node
  <2> QED BY <2>1, <2>2 DEF w
<1> QED BY <1>4, <1>5

-----------------------------------------------------------------------------
(***************************************************************************)
(* first_zero_idx and update_leaf_node.                                    *)
(***************************************************************************)
\* Every empty slot that counting has passed is on the stack, except slot x.
NoneLostBut(t, x) ==
  \A i \in Nat : i < t.count /\ i # x /\ IsFree(t, i) => i \in Elements(t.zero_idxs)

\* The slot at which counting stops is empty, and is the first such slot.
LEMMA FirstFreeChosen ==
  ASSUME NEW t \in TreeValue
  PROVE  /\ FirstFreeFromCount(t) \in Nat
         /\ FirstFreeFromCount(t) >= t.count
         /\ FirstFreeFromCount(t) <= MaxOf(t.count, Len(t.leaf_nodes))
         /\ IsFree(t, FirstFreeFromCount(t))
         /\ \A j \in t.count..(FirstFreeFromCount(t) - 1) : ~IsFree(t, j)
<1> DEFINE top == MaxOf(t.count, Len(t.leaf_nodes))
           S   == {i \in t.count..top : IsFree(t, i)}
           P(i) == IsFree(t, i) /\ \A j \in t.count..(i - 1) : ~IsFree(t, j)
<1>1. t.count \in Nat /\ Len(t.leaf_nodes) \in Nat
  BY DEF TreeValue
<1>2. top \in Nat /\ t.count <= top /\ ~(top < Len(t.leaf_nodes))
  BY <1>1 DEF MaxOf
<1>3. IsFree(t, top)
  BY <1>2 DEF IsFree, nth_leaf_node
<1> HIDE DEF top
<1>4. S \in SUBSET Nat /\ S # {}
  BY <1>1, <1>2, <1>3
<1>5. PICK m \in S : \A k \in S : m <= k
  BY <1>4, LeastElement
<1>6. m \in t.count..top /\ P(m)
  <2>1. m \in t.count..top /\ IsFree(t, m)
    OBVIOUS
  <2>2. ASSUME NEW j \in t.count..(m - 1), IsFree(t, j) PROVE FALSE
    <3>1. j \in t.count..top /\ j < m
      BY <1>1, <1>2, <2>1
    <3>2. m <= j
      BY <1>5, <2>2, <3>1
    <3> QED BY <1>1, <1>2, <2>1, <3>1, <3>2
  <2> QED BY <2>1, <2>2
<1>7. FirstFreeFromCount(t) \in t.count..top /\ P(FirstFreeFromCount(t))
  <2> DEFINE c == CHOOSE i \in t.count..top : P(i)
  <2>1. c \in t.count..top /\ P(c)
    BY <1>6
  <2>2. FirstFreeFromCount(t) = c
    BY DEF FirstFreeFromCount, top
  <2> QED BY <2>1, <2>2
<1> QED BY <1>1, <1>2, <1>7 DEF top

\* The position from which first_zero_idx takes a slot is the last free one.
LEMMA LastFreeChosen ==
  ASSUME NEW t \in TreeValue, FreeOnStack(t) # {}
  PROVE  /\ LastFreeOnStack(t) \in FreeOnStack(t)
         /\ \A m \in FreeOnStack(t) : m <= LastFreeOnStack(t)
<1>1. t.zero_idxs \in Seq(Nat) /\ Len(t.zero_idxs) \in Nat
  BY DEF TreeValue
<1>2. FreeOnStack(t) \in SUBSET (0..Len(t.zero_idxs))
  BY <1>1 DEF FreeOnStack
<1>3. \E k \in FreeOnStack(t) : \A m \in FreeOnStack(t) : m <= k
  BY <1>1, <1>2, GreatestElement
<1> QED BY <1>3 DEF LastFreeOnStack
\* first_zero_idx returns an empty slot and a tree with the same leaves, which
\* forgets no other empty slot; only the slot returned may be past the table.
LEMMA FirstZeroIdxSound ==
  ASSUME NEW t \in TreeValue, t.count <= Len(t.leaf_nodes), NoneLostBut(t, t.count)
  PROVE  LET got == first_zero_idx(t)
         IN  /\ got.idx \in Nat
             /\ IsFree(t, got.idx)
             /\ got.tree \in TreeValue
             /\ got.tree.leaf_nodes = t.leaf_nodes
             /\ got.tree.count <= MaxOf(Len(t.leaf_nodes), got.idx + 1)
             /\ Elements(got.tree.zero_idxs) \subseteq Elements(t.zero_idxs)
             /\ NoneLostBut(got.tree, got.idx)
<1> DEFINE got == first_zero_idx(t)
<1>1. /\ t.count \in Nat /\ Len(t.leaf_nodes) \in Nat
      /\ t.leaf_nodes \in Seq(Hash)
      /\ t.zero_idxs \in Seq(Nat) /\ Len(t.zero_idxs) \in Nat
      /\ DOMAIN t.zero_idxs = 1..Len(t.zero_idxs)
      /\ t = [leaf_nodes |-> t.leaf_nodes, count |-> t.count, zero_idxs |-> t.zero_idxs]
  BY DEF TreeValue
<1>2. CASE FreeOnStack(t) # {}
  <2> DEFINE k == LastFreeOnStack(t)
             r == SubSeq(t.zero_idxs, 1, k - 1)
  <2>1. k \in FreeOnStack(t) /\ \A m \in FreeOnStack(t) : m <= k
    BY <1>2, LastFreeChosen
  <2>2. k \in 1..Len(t.zero_idxs) /\ IsFree(t, t.zero_idxs[k]) /\ t.zero_idxs[k] \in Nat
    BY <1>1, <2>1 DEF FreeOnStack
  <2>3. got = [idx  |-> t.zero_idxs[k],
               tree |-> [leaf_nodes |-> t.leaf_nodes, count |-> t.count, zero_idxs |-> r]]
    BY <1>1, <1>2 DEF first_zero_idx
  <2> HIDE DEF k
  <2>4. /\ r \in Seq(Nat) /\ Len(r) = k - 1
        /\ \A m \in 1..(k - 1) : r[m] = t.zero_idxs[m]
    BY <1>1, <2>2
  <2> HIDE DEF r, got
  <2>5. got.tree \in TreeValue
    BY <1>1, <2>3, <2>4 DEF TreeValue
  <2>6. DOMAIN r = 1..(k - 1)
    BY <2>2, <2>4
  <2>7. Elements(r) \subseteq Elements(t.zero_idxs)
    <3>1. ASSUME NEW m \in DOMAIN r PROVE r[m] \in Elements(t.zero_idxs)
      <4>1. m \in DOMAIN t.zero_idxs /\ r[m] = t.zero_idxs[m]
        BY <1>1, <2>2, <2>4, <2>6
      <4> QED BY <4>1 DEF Elements
    <3> QED BY <3>1 DEF Elements
  <2>8. ASSUME NEW i \in Nat, i < t.count, i # got.idx, IsFree(t, i)
        PROVE  i \in Elements(r)
    <3>1. i \in Elements(t.zero_idxs)
      BY <1>1, <2>8 DEF NoneLostBut
    <3>2. PICK m \in 1..Len(t.zero_idxs) : t.zero_idxs[m] = i
      BY <1>1, <3>1 DEF Elements
    <3>3. m \in FreeOnStack(t)
      BY <1>1, <2>8, <3>2 DEF FreeOnStack
    <3>4. m <= k /\ m # k
      BY <2>1, <2>3, <2>8, <3>2, <3>3
    <3>5. m \in 1..(k - 1)
      BY <1>1, <2>2, <3>4
    <3> QED BY <2>4, <2>6, <3>2, <3>5 DEF Elements
  <2>9. NoneLostBut(got.tree, got.idx)
    BY <2>3, <2>8 DEF NoneLostBut, IsFree
  <2>10. got.tree.count <= MaxOf(Len(t.leaf_nodes), got.idx + 1)
    BY <1>1, <2>2, <2>3 DEF MaxOf
  <2> QED BY <2>2, <2>3, <2>5, <2>7, <2>9, <2>10 DEF got
<1>3. CASE FreeOnStack(t) = {}
  <2> DEFINE f == FirstFreeFromCount(t)
  <2>1. /\ f \in Nat /\ f >= t.count /\ f <= MaxOf(t.count, Len(t.leaf_nodes))
        /\ IsFree(t, f)
        /\ \A j \in t.count..(f - 1) : ~IsFree(t, j)
    BY FirstFreeChosen
  <2>2. got = [idx  |-> f,
               tree |-> [leaf_nodes |-> t.leaf_nodes, count |-> f + 1, zero_idxs |-> <<>>]]
    BY <1>1, <1>3 DEF first_zero_idx
  <2> HIDE DEF f, got
  <2>3. got.tree \in TreeValue
    BY <1>1, <2>1, <2>2 DEF TreeValue
  <2>4. Elements(<<>>) = {}
    BY DEF Elements
  <2>5. ASSUME NEW i \in Nat, i < f + 1, i # f, IsFree(t, i) PROVE FALSE
    <3>1. CASE i < t.count
      <4>1. i \in Elements(t.zero_idxs)
        BY <1>1, <2>5, <3>1 DEF NoneLostBut
      <4>2. PICK m \in DOMAIN t.zero_idxs : t.zero_idxs[m] = i
        BY <4>1 DEF Elements
      <4> QED BY <1>3, <2>5, <4>2 DEF FreeOnStack
    <3>2. CASE ~(i < t.count)
      <4>1. i \in t.count..(f - 1)
        BY <1>1, <2>1, <2>5, <3>2
      <4> QED BY <2>1, <2>5, <4>1
    <3> QED BY <3>1, <3>2
  <2>6. NoneLostBut(got.tree, got.idx)
    BY <2>2, <2>5 DEF NoneLostBut, IsFree
  <2>7. got.tree.count <= MaxOf(Len(t.leaf_nodes), got.idx + 1)
    BY <1>1, <2>1, <2>2 DEF MaxOf
  <2> QED BY <2>1, <2>2, <2>3, <2>4, <2>6, <2>7 DEF got
<1> QED BY <1>2, <1>3

\* update_leaf_node writes one leaf, keeps count within the table, and forgets
\* no empty slot, whichever of its branches it takes.
LEMMA UpdateLeafNodeSound ==
  ASSUME NEW t \in TreeValue, NEW h \in Hash, NEW idx \in Nat,
         t.count <= MaxOf(Len(t.leaf_nodes), idx + 1),
         NoneLostBut(t, idx)
  PROVE  LET u == update_leaf_node(t, h, idx)
         IN  /\ u \in TreeValue
             /\ u.leaf_nodes = WriteLeaf(t.leaf_nodes, idx, h)
             /\ u.count <= Len(u.leaf_nodes)
             /\ \A x \in Nat : NoneLostBut(u, x)
             /\ \A i \in Elements(u.zero_idxs) : i \in Elements(t.zero_idxs) \/ i <= idx
<1> DEFINE u == update_leaf_node(t, h, idx)
           n == MaxOf(Len(t.leaf_nodes), idx + 1)
           gap == [i \in 1..(idx - t.count) |-> t.count + i - 1]
<1>1. /\ t.count \in Nat /\ Len(t.leaf_nodes) \in Nat
      /\ t.leaf_nodes \in Seq(Hash)
      /\ t.zero_idxs \in Seq(Nat) /\ Len(t.zero_idxs) \in Nat
      /\ DOMAIN t.zero_idxs = 1..Len(t.zero_idxs)
  BY DEF TreeValue
<1>2. n \in Nat /\ n >= Len(t.leaf_nodes) /\ n >= idx + 1
  BY <1>1 DEF MaxOf
<1>3. /\ u.leaf_nodes = WriteLeaf(t.leaf_nodes, idx, h)
      /\ u.leaf_nodes \in Seq(Hash)
      /\ Len(u.leaf_nodes) = n
      /\ \A i \in Nat : IsFree(u, i) <=> IF i = idx THEN h = Zero ELSE IsFree(t, i)
  <2> DEFINE leaves == t.leaf_nodes
             w == WriteLeaf(leaves, idx, h)
  <2>1. u.leaf_nodes = w
    BY DEF update_leaf_node
  <2>2. leaves \in Seq(Hash)
    BY <1>1
  <2> HIDE DEF u, leaves
  <2>3. w \in Seq(Hash) /\ Len(w) = MaxOf(Len(leaves), idx + 1)
    BY <2>2, WriteLeafShape
  <2>4. ASSUME NEW i \in Nat
        PROVE  IsFree(u, i) <=> IF i = idx THEN h = Zero ELSE IsFree(t, i)
    <3>1. /\ i = idx => nth_leaf_node(w, i) = h
          /\ i # idx => nth_leaf_node(w, i) = nth_leaf_node(leaves, i)
      BY <2>2, WriteLeafReads
    <3> HIDE DEF w
    <3> QED BY <2>1, <3>1 DEF IsFree, leaves
  <2> HIDE DEF w
  <2>5. u.leaf_nodes \in Seq(Hash) /\ Len(u.leaf_nodes) = n
    BY <2>1, <2>3 DEF leaves
  <2> QED BY <2>1, <2>4, <2>5 DEF w, leaves
<1>4. CASE h = Zero
  <2>1. u.count = t.count /\ u.zero_idxs = Append(t.zero_idxs, idx)
    BY <1>4 DEF update_leaf_node
  <2>2. Append(t.zero_idxs, idx) \in Seq(Nat)
    BY <1>1
  <2>3. Elements(Append(t.zero_idxs, idx)) = Elements(t.zero_idxs) \union {idx}
    BY <1>1, AppendElements
  <2>4. u \in TreeValue
    BY <1>1, <1>3, <2>1, <2>2 DEF TreeValue, update_leaf_node
  <2>5. \A x \in Nat : NoneLostBut(u, x)
    BY <1>3, <2>1, <2>3 DEF NoneLostBut
  <2> QED BY <1>1, <1>2, <1>3, <2>1, <2>3, <2>4, <2>5
<1>5. CASE h # Zero /\ idx > t.count
  <2>1. u.count = idx /\ u.zero_idxs = t.zero_idxs \o gap
    <3>1. ~(h = Zero \/ idx < t.count)
      BY <1>1, <1>5
    <3> QED BY <1>5, <3>1 DEF update_leaf_node
  <2>2. gap \in Seq(Nat) /\ Len(gap) = idx - t.count
    BY <1>1, <1>5
  <2>3. t.zero_idxs \o gap \in Seq(Nat)
    BY <1>1, <2>2, ConcatElements
  <2>4. Elements(gap) = t.count..(idx - 1)
    <3>1. ASSUME NEW i \in t.count..(idx - 1) PROVE i \in Elements(gap)
      <4>1. (i - t.count) + 1 \in 1..(idx - t.count)
        BY <1>1
      <4>2. gap[(i - t.count) + 1] = i
        BY <1>1, <4>1
      <4> QED BY <4>1, <4>2 DEF Elements
    <3>2. ASSUME NEW i \in DOMAIN gap PROVE gap[i] \in t.count..(idx - 1)
      BY <1>1, <1>5
    <3>3. Elements(gap) \subseteq t.count..(idx - 1)
      <4> HIDE DEF gap
      <4> QED BY <3>2 DEF Elements
    <3> QED BY <3>1, <3>3
  <2>5. Elements(t.zero_idxs \o gap) = Elements(t.zero_idxs) \union Elements(gap)
    BY <1>1, <2>2, ConcatElements
  <2>6. u \in TreeValue
    BY <1>1, <1>3, <2>1, <2>3 DEF TreeValue, update_leaf_node
  <2> HIDE DEF u, gap
  <2>7. ASSUME NEW x \in Nat PROVE NoneLostBut(u, x)
    <3>1. ASSUME NEW i \in Nat, i < idx, IsFree(u, i)
          PROVE  i \in Elements(t.zero_idxs) \union Elements(gap)
      <4>1. IsFree(t, i)
        BY <1>3, <3>1
      <4>2. CASE i < t.count
        BY <3>1, <4>1, <4>2 DEF NoneLostBut
      <4>3. CASE ~(i < t.count)
        BY <1>1, <2>4, <3>1, <4>3
      <4> QED BY <4>2, <4>3
    <3> QED BY <2>1, <2>5, <3>1 DEF NoneLostBut
  <2>8. u.count <= Len(u.leaf_nodes)
    BY <1>2, <1>3, <2>1
  <2>9. \A i \in Elements(u.zero_idxs) : i \in Elements(t.zero_idxs) \/ i <= idx
    BY <1>1, <2>1, <2>4, <2>5
  <2> QED BY <1>3, <2>6, <2>7, <2>8, <2>9 DEF u
<1>6. CASE h # Zero /\ idx = t.count
  <2>1. u.count = t.count + 1 /\ u.zero_idxs = t.zero_idxs
    BY <1>1, <1>6 DEF update_leaf_node
  <2>2. u \in TreeValue
    BY <1>1, <1>3, <2>1 DEF TreeValue, update_leaf_node
  <2> HIDE DEF u
  <2>3. \A x \in Nat : NoneLostBut(u, x)
    BY <1>1, <1>3, <1>6, <2>1 DEF NoneLostBut
  <2> QED BY <1>2, <1>3, <1>6, <2>1, <2>2, <2>3 DEF u
<1>7. CASE h # Zero /\ idx < t.count
  <2>1. u.count = t.count /\ u.zero_idxs = Without(t.zero_idxs, idx)
    BY <1>1, <1>7 DEF update_leaf_node
  <2>2. /\ Without(t.zero_idxs, idx) \in Seq(Nat)
        /\ Elements(Without(t.zero_idxs, idx)) = Elements(t.zero_idxs) \ {idx}
    BY <1>1, WithoutElements
  <2>3. u \in TreeValue
    BY <1>1, <1>3, <2>1, <2>2 DEF TreeValue, update_leaf_node
  <2> HIDE DEF u
  <2>4. \A x \in Nat : NoneLostBut(u, x)
    BY <1>3, <1>7, <2>1, <2>2 DEF NoneLostBut
  <2> QED BY <1>2, <1>3, <2>1, <2>2, <2>3, <2>4 DEF u
<1> QED BY <1>1, <1>4, <1>5, <1>6, <1>7

\* update_zero_idxs leaves exactly the empty slots of the table on the stack.
LEMMA UpdateZeroIdxsSound ==
  ASSUME NEW t \in TreeValue
  PROVE  LET u == update_zero_idxs(t)
         IN  /\ u \in TreeValue
             /\ u.leaf_nodes = t.leaf_nodes /\ u.count = t.count
             /\ Elements(u.zero_idxs) = EmptySlots(t.leaf_nodes)
<1> DEFINE E == EmptySlots(t.leaf_nodes)
<1>1. t.leaf_nodes \in Seq(Hash) /\ t.count \in Nat
  BY DEF TreeValue
<1>2. E \in SUBSET Nat /\ IsFiniteSet(E)
  BY <1>1, EmptySlotsType
<1>3. update_zero_idxs(t) = [leaf_nodes |-> t.leaf_nodes, count |-> t.count, zero_idxs |-> Ascending(E)]
  BY DEF update_zero_idxs, TreeValue
<1> HIDE DEF E
<1>4. Ascending(E) \in Seq(E) /\ Elements(Ascending(E)) = E
  BY <1>2, AscendingElements
<1>5. Ascending(E) \in Seq(Nat)
  <2> DEFINE a == Ascending(E)
  <2> HIDE DEF a
  <2>1. Len(a) \in Nat /\ a \in [1..Len(a) -> E]
    BY <1>4 DEF a
  <2>2. a \in [1..Len(a) -> Nat]
    BY <1>2, <2>1
  <2> QED BY <2>1, <2>2, SeqDef DEF a
<1> QED BY <1>1, <1>3, <1>4, <1>5 DEF TreeValue, E
-----------------------------------------------------------------------------
(***************************************************************************)
(* A dense table, the only kind the request handlers make: every leaf is   *)
(* filled, count is the number of leaves and the stack is empty.           *)
(***************************************************************************)
Dense(leaves) == [leaf_nodes |-> leaves, count |-> Len(leaves), zero_idxs |-> <<>>]

\* A refresh finds no empty slot in a dense table.
LEMMA DenseRefresh ==
  ASSUME NEW leaves \in Seq(Hash \ {Zero})
  PROVE  update_zero_idxs(Dense(leaves)) = Dense(leaves)
<1>1. Len(leaves) \in Nat /\ \A i \in 1..Len(leaves) : leaves[i] # Zero
  OBVIOUS
<1>2. EmptySlots(leaves) = {}
  <2>1. ASSUME NEW i \in 0..(Len(leaves) - 1) PROVE nth_leaf_node(leaves, i) # Zero
    <3>1. i + 1 \in 1..Len(leaves) /\ i < Len(leaves)
      BY <1>1
    <3> QED BY <1>1, <3>1 DEF nth_leaf_node
  <2> QED BY <2>1 DEF EmptySlots
<1> DEFINE t == Dense(leaves)
<1>3. t = [leaf_nodes |-> leaves, count |-> Len(leaves), zero_idxs |-> <<>>]
  BY DEF Dense
<1>4. t.leaf_nodes = leaves
  BY <1>3
<1> HIDE DEF t
<1>5. update_zero_idxs(t) = t
  <2>1. update_zero_idxs(t) = [t EXCEPT !.zero_idxs = <<>>]
    BY <1>2, <1>4, AscendingEmpty DEF update_zero_idxs
  <2> QED BY <1>3, <2>1
<1> QED BY <1>5 DEF t

\* A handler takes the slot after the last of a dense table, and appends its leaf.
LEMMA DenseAppend ==
  ASSUME NEW leaves \in Seq(Hash \ {Zero}), NEW h \in Hash \ {Zero}
  PROVE  LET got == first_zero_idx(Dense(leaves))
         IN  /\ got.idx = Len(leaves)
             /\ update_leaf_node(got.tree, h, got.idx) = Dense(Append(leaves, h))
<1> DEFINE t == Dense(leaves)
           n == Len(leaves)
           got == first_zero_idx(t)
<1>1. /\ n \in Nat /\ leaves \in Seq(Hash)
      /\ \A i \in 1..n : leaves[i] \in Hash \ {Zero}
  <2>1. n \in Nat /\ \A i \in 1..n : leaves[i] \in Hash \ {Zero}
    OBVIOUS
  <2> QED BY <2>1, SeqMonotonic
<1>2. t.leaf_nodes = leaves /\ t.count = n /\ t.zero_idxs = <<>> /\ t \in TreeValue
  BY <1>1 DEF Dense, TreeValue
<1>3. FreeOnStack(t) = {}
  BY <1>2 DEF FreeOnStack
<1> HIDE DEF t
<1>4. FirstFreeFromCount(t) = n
  <2>1. MaxOf(n, n) = n
    BY <1>1 DEF MaxOf
  <2> QED BY <1>1, <1>2, <2>1, FirstFreeChosen
<1>5. got.idx = n /\ got.tree = [leaf_nodes |-> leaves, count |-> n + 1, zero_idxs |-> <<>>]
  <2>1. t = [leaf_nodes |-> leaves, count |-> n, zero_idxs |-> <<>>]
    BY DEF t, Dense
  <2> QED BY <1>3, <1>4, <2>1 DEF first_zero_idx
<1>6. Without(<<>>, n) = <<>>
  <2> DEFINE w == Without(<<>>, n)
  <2>0. <<>> \in Seq(Nat)
    OBVIOUS
  <2>1. w \in Seq(Nat) /\ Elements(w) = Elements(<<>>) \ {n}
    BY <2>0, WithoutElements
  <2>2. Elements(<<>>) = {}
    BY DEF Elements
  <2> HIDE DEF w
  <2>3. ASSUME w # <<>> PROVE FALSE
    <3>1. 1 \in DOMAIN w
      BY <2>1, <2>3
    <3> QED BY <2>1, <2>2, <3>1 DEF Elements
  <2> QED BY <2>3 DEF w
<1>7. WriteLeaf(leaves, n, h) = Append(leaves, h)
  <2>1. MaxOf(n, n + 1) = n + 1
    BY <1>1 DEF MaxOf
  <2>2. Append(leaves, h) = [i \in 1..(n + 1) |-> IF i = n + 1 THEN h ELSE leaves[i]]
    <3> DEFINE a == Append(leaves, h)
    <3>1. /\ a \in Seq(Hash) /\ Len(a) = n + 1
          /\ \A i \in 1..n : a[i] = leaves[i]
          /\ a[n + 1] = h
      BY <1>1, AppendProperties
    <3> HIDE DEF a
    <3>2. a = [i \in 1..(n + 1) |-> a[i]]
      BY <1>1, <3>1
    <3>3. \A i \in 1..(n + 1) : a[i] = IF i = n + 1 THEN h ELSE leaves[i]
      BY <1>1, <3>1
    <3> QED BY <3>2, <3>3 DEF a
  <2>3. \A i \in 1..(n + 1) : i # n + 1 => nth_leaf_node(leaves, i - 1) = leaves[i]
    BY <1>1 DEF nth_leaf_node
  <2> QED BY <2>1, <2>2, <2>3 DEF WriteLeaf
<1>8. update_leaf_node(got.tree, h, got.idx) = Dense(Append(leaves, h))
  <2>1. Len(Append(leaves, h)) = n + 1
    BY <1>1
  <2>2. h # Zero /\ n < n + 1
    BY <1>1
  <2> HIDE DEF got
  <2>3. update_leaf_node(got.tree, h, n) =
          [leaf_nodes |-> WriteLeaf(leaves, n, h), count |-> n + 1,
           zero_idxs |-> Without(<<>>, n)]
    BY <1>1, <1>5, <2>2 DEF update_leaf_node
  <2> QED BY <1>5, <1>6, <1>7, <2>1, <2>3 DEF Dense
<1> QED BY <1>5, <1>8 DEF t
=============================================================================
