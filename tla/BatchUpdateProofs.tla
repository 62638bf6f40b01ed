--------------------------- MODULE BatchUpdateProofs ---------------------------
(***************************************************************************)
(* Theorems about BatchUpdate: whatever the order in which the tasks of a  *)
(* row take their steps, no row outgrows its level, every preimage entry   *)
(* is sound, the rows that are done are those of the Merkle tree of the    *)
(* new leaves, and a batch takes effect at once, as MerkleCommitment says. *)
(***************************************************************************)
EXTENDS BatchUpdate, EnumerationLemmas

-----------------------------------------------------------------------------
(***************************************************************************)
(* Rows and places.                                                        *)
(***************************************************************************)
\* The number of nodes i levels up, and where they are.
Width(i) == 2 ^ (Depth - i)

Places(i) == 0..(Width(i) - 1)

\* Each row is half of the one below it, and the last is the root alone.
LEMMA Widths ==
  /\ \A i \in 0..Depth : Width(i) \in Nat \ {0}
  /\ \A i \in 0..(Depth - 1) : Width(i) = 2 * Width(i + 1)
  /\ Width(Depth) = 1
<1>1. ASSUME NEW i \in 0..Depth PROVE Width(i) \in Nat \ {0}
  <2>1. Depth - i \in Nat
    BY TreeAssumption
  <2> QED BY <2>1, TwoPower DEF Width
<1>2. ASSUME NEW i \in 0..(Depth - 1) PROVE Width(i) = 2 * Width(i + 1)
  <2>1. Depth - (i + 1) \in Nat /\ Depth - i = (Depth - (i + 1)) + 1
    BY TreeAssumption
  <2> QED BY <2>1, TwoPower DEF Width
<1>3. Width(Depth) = 1
  <2>1. Depth - Depth = 0 /\ 2 ^ 0 = 1
    BY TreeAssumption
  <2> QED BY <2>1 DEF Width
<1> QED BY <1>1, <1>2, <1>3

\* The two children of a node, and the parent of a child, are in their rows.
LEMMA Children ==
  ASSUME NEW i \in 0..(Depth - 1)
  PROVE  /\ \A p \in Places(i + 1) : 2 * p \in Places(i) /\ 2 * p + 1 \in Places(i)
         /\ \A j \in Places(i) : /\ Parent(j) \in Places(i + 1)
                                 /\ j = 2 * Parent(j) \/ j = 2 * Parent(j) + 1
                                 /\ IsLeft(j) <=> j = 2 * Parent(j)
<1>1. /\ Width(i) \in Nat \ {0} /\ Width(i + 1) \in Nat \ {0}
      /\ Width(i) = 2 * Width(i + 1)
  BY Widths, TreeAssumption
<1> QED BY <1>1 DEF Places, Parent, IsLeft

-----------------------------------------------------------------------------
(***************************************************************************)
(* Vectors.                                                                *)
(***************************************************************************)
Vector(s) == Len(s) \in Nat /\ DOMAIN s = 1..Len(s)

\* A write changes one place, reads as padding everything it adds below it,
\* and makes the vector no longer than it must be.
LEMMA PutGet ==
  ASSUME NEW s, Vector(s), NEW i \in Nat, NEW v, NEW pad
  PROVE  /\ Vector(Put(s, i, v, pad))
         /\ Len(Put(s, i, v, pad)) = IF i < Len(s) THEN Len(s) ELSE i + 1
         /\ Put(s, i, v, pad)[i + 1] = v
         /\ \A k \in Nat : Get(Put(s, i, v, pad), k, pad) = IF k = i THEN v ELSE Get(s, k, pad)
<1> DEFINE n == IF i < Len(s) THEN Len(s) ELSE i + 1
           p == Put(s, i, v, pad)
<1>1. n \in Nat /\ i < n /\ Len(s) <= n
  BY DEF Vector
<1>2. p = [k \in 1..n |-> IF k = i + 1 THEN v ELSE Get(s, k - 1, pad)]
  BY DEF Put
<1>3. DOMAIN p = 1..n /\ Len(p) = n
  <2> HIDE DEF n, p
  <2> QED BY <1>1, <1>2
<1>4. ASSUME NEW k \in Nat PROVE Get(p, k, pad) = IF k = i THEN v ELSE Get(s, k, pad)
  <2> HIDE DEF n, p
  <2>1. CASE k < n
    <3>1. p[k + 1] = IF k + 1 = i + 1 THEN v ELSE Get(s, (k + 1) - 1, pad)
      BY <1>1, <1>2, <2>1
    <3>2. (k + 1) - 1 = k
      OBVIOUS
    <3> QED BY <1>3, <2>1, <3>1, <3>2 DEF Get
  <2>2. CASE ~(k < n)
    BY <1>1, <1>3, <2>2 DEF Get, Vector
  <2> QED BY <2>1, <2>2
<1>5. p[i + 1] = v
  <2> HIDE DEF n, p
  <2> QED BY <1>1, <1>2
<1> QED BY <1>1, <1>3, <1>4, <1>5 DEF Vector

-----------------------------------------------------------------------------
(***************************************************************************)
(* The chunks of a row.                                                    *)
(***************************************************************************)
\* Chunks of Stride entries cover a row.
LEMMA ChunksCover ==
  ASSUME NEW n \in Nat, NEW k \in 1..n
  PROVE  \E t \in 1..((n + Stride - 1) \div Stride) : (t - 1) * Stride + 1 <= k /\ k <= t * Stride
<1> DEFINE q == (k - 1) \div Stride
           d == (n + Stride - 1) \div Stride
<1> USE TreeAssumption
<1>1. q \in Nat /\ q * Stride <= k - 1 /\ k - 1 < (q + 1) * Stride
  OBVIOUS
<1>2. d \in Nat /\ n + Stride - 1 < (d + 1) * Stride
  OBVIOUS
<1> HIDE DEF q, d
<1>3. q < d
  <2> SUFFICES ASSUME d <= q PROVE FALSE
    BY <1>1, <1>2
  <2>1. (d + 1) * Stride = d * Stride + Stride /\ d * Stride \in Nat /\ q * Stride \in Nat
    BY <1>1, <1>2
  <2>2. d * Stride <= q * Stride
    BY <1>1, <1>2
  <2> QED BY <1>1, <1>2, <2>1, <2>2
<1>4. q + 1 \in 1..d
  BY <1>1, <1>2, <1>3
<1>5. ((q + 1) - 1) * Stride + 1 <= k /\ k <= (q + 1) * Stride
  BY <1>1
<1> QED BY <1>4, <1>5 DEF d

\* Different chunks have no position in common.
LEMMA ChunksApart ==
  ASSUME NEW t \in Nat, NEW u \in Nat, t < u
  PROVE  t * Stride <= (u - 1) * Stride
BY TreeAssumption

-----------------------------------------------------------------------------
(***************************************************************************)
(* The two recursions, over the table of zero hashes and over the rows of  *)
(* the abstract tree: a function with the defining equation exists.        *)
(***************************************************************************)
ZeroHashStep(g, i) == IF i = 0 THEN Zero ELSE pedersen(g[i - 1], g[i - 1])

\* Up to every entry there is a table of zero hashes.
LEMMA ZeroHashTables ==
  ASSUME NEW n \in Nat
  PROVE  \E g : g = [i \in 0..n |-> ZeroHashStep(g, i)]
<1> DEFINE S == {m \in Nat : ~ \E g : g = [i \in 0..m |-> ZeroHashStep(g, i)]}
<1> SUFFICES S = {}
  OBVIOUS
<1> SUFFICES ASSUME S # {} PROVE FALSE
  OBVIOUS
<1>1. PICK m \in S : \A k \in S : m <= k
  BY LeastElement
<1>2. CASE m = 0
  <2> DEFINE g == [i \in 0..0 |-> Zero]
  <2>1. g = [i \in 0..0 |-> ZeroHashStep(g, i)]
    BY DEF ZeroHashStep
  <2> QED BY <1>1, <1>2, <2>1
<1>3. CASE m # 0
  <2>1. m \in Nat /\ m - 1 \in Nat /\ m - 1 \notin S
    BY <1>1, <1>3
  <2>2. PICK g : g = [i \in 0..(m - 1) |-> ZeroHashStep(g, i)]
    BY <2>1
  <2> DEFINE h == [i \in 0..m |-> IF i = m THEN ZeroHashStep(g, m) ELSE g[i]]
  <2>3. ASSUME NEW i \in 0..m PROVE h[i] = ZeroHashStep(h, i)
    <3>1. CASE i = m
      BY <2>1, <1>3, <3>1 DEF ZeroHashStep
    <3>2. CASE i # m /\ i # 0
      <4>1. i - 1 \in 0..m /\ i - 1 # m /\ i \in 0..(m - 1)
        BY <2>1, <3>2
      <4>2. h[i - 1] = g[i - 1]
        BY <4>1
      <4> QED BY <2>2, <3>2, <4>1, <4>2 DEF ZeroHashStep
    <3>3. CASE i # m /\ i = 0
      BY <2>1, <2>2, <3>3 DEF ZeroHashStep
    <3> QED BY <3>1, <3>2, <3>3
  <2>4. h = [i \in 0..m |-> ZeroHashStep(h, i)]
    BY <2>3
  <2> QED BY <1>1, <2>4
<1> QED BY <1>2, <1>3

\* The zero hash of a level is the hash of that below with itself.
LEMMA ZeroHashes ==
  /\ get_zero_hash(0) = ZERO_HASHES[Shift]
  /\ ZERO_HASHES[0] = Zero
  /\ \A i \in 1..Depth : get_zero_hash(i) = pedersen(get_zero_hash(i - 1), get_zero_hash(i - 1))
<1> DEFINE N == Depth + Shift
<1>1. N \in Nat
  BY TreeAssumption
<1>2. ZERO_HASHES = [i \in 0..N |-> ZeroHashStep(ZERO_HASHES, i)]
  <2>1. PICK g : g = [i \in 0..N |-> ZeroHashStep(g, i)]
    BY <1>1, ZeroHashTables
  <2> QED BY <2>1 DEF ZERO_HASHES, ZeroHashStep
<1>3. \A i \in 0..N : ZERO_HASHES[i] = ZeroHashStep(ZERO_HASHES, i)
  BY <1>2
<1>4. ASSUME NEW i \in 1..Depth
      PROVE  get_zero_hash(i) = pedersen(get_zero_hash(i - 1), get_zero_hash(i - 1))
  <2>1. i + Shift \in 0..N /\ i + Shift # 0 /\ (i + Shift) - 1 = (i - 1) + Shift
    BY TreeAssumption
  <2> QED BY <1>3, <2>1 DEF ZeroHashStep, get_zero_hash
<1>5. ZERO_HASHES[0] = Zero
  BY <1>1, <1>3 DEF ZeroHashStep
<1>6. get_zero_hash(0) = ZERO_HASHES[Shift]
  <2>1. 0 + Shift = Shift
    BY TreeAssumption
  <2> QED BY <2>1 DEF get_zero_hash
<1> QED BY <1>4, <1>5, <1>6

NodeStep(g, l, i) ==
  IF i = 0 THEN l
  ELSE [j \in Places(i) |-> pedersen(g[i - 1][2 * j], g[i - 1][2 * j + 1])]

\* Up to every level there are rows of nodes over the leaves.
LEMMA NodeTables ==
  ASSUME NEW l, NEW n \in Nat
  PROVE  \E g : g = [i \in 0..n |-> NodeStep(g, l, i)]
<1> DEFINE S == {m \in Nat : ~ \E g : g = [i \in 0..m |-> NodeStep(g, l, i)]}
<1> SUFFICES S = {}
  OBVIOUS
<1> SUFFICES ASSUME S # {} PROVE FALSE
  OBVIOUS
<1>1. PICK m \in S : \A k \in S : m <= k
  BY LeastElement
<1>2. CASE m = 0
  <2> DEFINE g == [i \in 0..0 |-> l]
  <2>1. g = [i \in 0..0 |-> NodeStep(g, l, i)]
    BY DEF NodeStep
  <2> QED BY <1>1, <1>2, <2>1
<1>3. CASE m # 0
  <2>1. m \in Nat /\ m - 1 \in Nat /\ m - 1 \notin S
    BY <1>1, <1>3
  <2>2. PICK g : g = [i \in 0..(m - 1) |-> NodeStep(g, l, i)]
    BY <2>1
  <2> DEFINE h == [i \in 0..m |-> IF i = m THEN NodeStep(g, l, m) ELSE g[i]]
  <2>3. ASSUME NEW i \in 0..m PROVE h[i] = NodeStep(h, l, i)
    <3>1. CASE i = 0
      BY <2>1, <2>2, <1>3, <3>1 DEF NodeStep
    <3>2. CASE i # 0
      <4>1. i - 1 \in 0..m /\ i - 1 # m
        BY <2>1, <3>2
      <4>2. h[i - 1] = g[i - 1]
        BY <4>1
      <4>3. NodeStep(h, l, i) = NodeStep(g, l, i)
        BY <3>2, <4>2 DEF NodeStep
      <4>4. CASE i = m
        BY <4>3, <4>4
      <4>5. CASE i # m
        <5>1. i \in 0..(m - 1)
          BY <2>1, <4>5
        <5>2. h[i] = g[i] /\ g[i] = NodeStep(g, l, i)
          BY <2>2, <4>5, <5>1
        <5> QED BY <4>3, <5>2
      <4> QED BY <4>4, <4>5
    <3> QED BY <3>1, <3>2
  <2>4. h = [i \in 0..m |-> NodeStep(h, l, i)]
    <3> HIDE DEF h
    <3>1. DOMAIN h = 0..m /\ h = [i \in 0..m |-> h[i]]
      BY DEF h
    <3> QED BY <2>3, <3>1
  <2> QED BY <1>1, <2>4
<1> QED BY <1>2, <1>3

\* The rows of the abstract tree: the leaves, and above them the hashes of
\* the two children.
LEMMA Nodes ==
  ASSUME NEW l
  PROVE  /\ Commitment!NodesOf(l)[0] = l
         /\ \A i \in 0..(Depth - 1) : \A p \in Places(i + 1) :
              Commitment!NodesOf(l)[i + 1][p] =
                pedersen(Commitment!NodesOf(l)[i][2 * p], Commitment!NodesOf(l)[i][2 * p + 1])
<1> DEFINE node == Commitment!NodesOf(l)
<1>1. Depth \in Nat
  BY TreeAssumption
<1>2. node = [i \in 0..Depth |-> NodeStep(node, l, i)]
  <2>1. PICK g : g = [i \in 0..Depth |-> NodeStep(g, l, i)]
    BY <1>1, NodeTables
  <2> QED BY <2>1 DEF Commitment!NodesOf, NodeStep, Places, Width
<1> HIDE DEF node
<1>3. \A i \in 0..Depth : node[i] = NodeStep(node, l, i)
  BY <1>2
<1>4. node[0] = l
  <2>1. 0 \in 0..Depth
    BY <1>1
  <2>2. node[0] = NodeStep(node, l, 0)
    BY <1>3, <2>1
  <2> QED BY <2>2 DEF NodeStep
<1>5. ASSUME NEW i \in 0..(Depth - 1), NEW p \in Places(i + 1)
      PROVE  node[i + 1][p] = pedersen(node[i][2 * p], node[i][2 * p + 1])
  <2>1. i + 1 \in 0..Depth /\ i + 1 # 0 /\ (i + 1) - 1 = i
    BY <1>1
  <2>2. node[i + 1] = [j \in Places(i + 1) |-> pedersen(node[i][2 * j], node[i][2 * j + 1])]
    BY <1>3, <2>1 DEF NodeStep
  <2> QED BY <2>2
<1> QED BY <1>4, <1>5 DEF node

-----------------------------------------------------------------------------
(***************************************************************************)
(* The first half of the inductive invariant: the shape of the state.      *)
(* Each task stays at the positions of its own chunk, and what it holds is *)
(* the entry at its position, one that is not left to the sibling.         *)
(***************************************************************************)
Skipped(idx) == IsLeft(idx) /\ idx + 1 \in DOMAIN hashes

Positions(t) == ((t - 1) * Stride + 1)..LastOf(t)

Holding == {"update", "preimage", "leaf"}

TaskShape(t) ==
  /\ DOMAIN task[t] = {"pos", "pc", "entry", "found"}
  /\ task[t].pos \in ((t - 1) * Stride + 1)..(LastOf(t) + 1)
  /\ task[t].pc \in {"read", "done"} \union Holding
  /\ task[t].pc = "done" => task[t].pos = LastOf(t) + 1
  /\ DOMAIN task[t].entry =
       {"idx", "left", "right", "prev_left", "prev_right", "prev_res"}
  /\ task[t].pc \in Holding =>
       /\ task[t].pos \in Positions(t)
       /\ task[t].entry.idx = order[task[t].pos]
       /\ ~ Skipped(task[t].entry.idx)
  /\ task[t].pc = "leaf" => row = 0 /\ IsLeft(task[t].entry.idx)
  /\ DOMAIN task[t].found \subseteq Places(row + 1)

RowShape ==
  /\ row \in 0..(Depth - 1)
  /\ DOMAIN hashes \subseteq Places(row)
  /\ DOMAIN next_row \subseteq Places(row + 1)
  /\ order \in Orders(hashes)
  /\ DOMAIN task = Tasks(hashes)
  /\ \A t \in DOMAIN task : TaskShape(t)

TreeShape ==
  /\ Vector(leaf_nodes) /\ Len(leaf_nodes) <= Width(0)
  /\ DOMAIN inner_nodes = 1..Depth
  /\ \A i \in 1..Depth : Vector(inner_nodes[i]) /\ Len(inner_nodes[i]) <= Width(i)

ShapeInv ==
  /\ TreeShape
  /\ RowShape
  /\ busy \in BOOLEAN
  /\ ~busy => row = 0 /\ hashes = EmptyMap
  /\ applied \in 0..MaxBatches

\* The invariant says what TypeOK does, and more.
LEMMA ShapeIsType == ShapeInv => TypeOK
<1> SUFFICES ASSUME ShapeInv PROVE TypeOK
  OBVIOUS
<1> USE DEF ShapeInv, TreeShape, RowShape
<1>1. Len(leaf_nodes) <= 2 ^ Depth
  <2>1. Depth - 0 = Depth
    BY TreeAssumption
  <2> QED BY <2>1 DEF Width
<1>2. DOMAIN next_row \subseteq 0..(2 ^ (Depth - row - 1) - 1)
  <2>1. Depth - (row + 1) = Depth - row - 1
    BY TreeAssumption
  <2> QED BY <2>1 DEF Places, Width
<1>3. \A i \in 1..Depth : Len(inner_nodes[i]) <= 2 ^ (Depth - i)
  BY DEF Width
<1>4. DOMAIN hashes \subseteq 0..(2 ^ (Depth - row) - 1)
  BY DEF Places, Width
<1>5. \A t \in DOMAIN task :
        /\ task[t].pos \in ((t - 1) * Stride + 1)..(LastOf(t) + 1)
        /\ task[t].pc \in {"read", "update", "preimage", "leaf", "done"}
  BY DEF TaskShape, Holding
<1> QED BY <1>1, <1>2, <1>3, <1>4, <1>5 DEF TypeOK

\* The order of a row lists each of its updates once.
LEMMA OrderFacts ==
  ASSUME NEW map, NEW i \in 0..Depth, DOMAIN map \subseteq Places(i), NEW o \in Orders(map)
  PROVE  /\ Cardinality(DOMAIN map) \in Nat
         /\ Len(o) = Cardinality(DOMAIN map)
         /\ o \in [1..Len(o) -> DOMAIN map]
         /\ \A j, k \in 1..Len(o) : o[j] = o[k] => j = k
         /\ \A idx \in DOMAIN map : \E k \in 1..Len(o) : o[k] = idx
<1> DEFINE S == DOMAIN map
           n == Cardinality(S)
<1>1. IsFiniteSet(S) /\ n \in Nat
  <2>1. Width(i) \in Nat
    BY Widths
  <2>2. IsFiniteSet(Places(i))
    BY <2>1, FS_Interval DEF Places
  <2> QED BY <2>2, FS_Subset, FS_CardinalityType
<1>2. o \in [1..n -> S] /\ \A j, k \in 1..n : o[j] = o[k] => j = k
  BY DEF Orders
<1> HIDE DEF S, n
<1>3. Len(o) = n
  BY <1>1, <1>2
<1>4. o \in Injection(1..n, S)
  BY <1>2 DEF Injection, IsInjective
<1>5. IsFiniteSet(1..n) /\ Cardinality(1..n) = n
  BY <1>1, FS_Interval
<1>6. o \in Surjection(1..n, S)
  BY <1>1, <1>4, <1>5, FS_Injection DEF n
<1>7. \A idx \in S : \E k \in 1..n : o[k] = idx
  BY <1>6 DEF Surjection
<1> QED BY <1>1, <1>2, <1>3, <1>7 DEF S, n

\* A task begins at the first of at least one position.
LEMMA ChunkBegins ==
  ASSUME NEW n \in Nat, NEW t \in 1..((n + Stride - 1) \div Stride)
  PROVE  (t - 1) * Stride \in Nat /\ (t - 1) * Stride < n /\ t * Stride = (t - 1) * Stride + Stride
<1> DEFINE d == (n + Stride - 1) \div Stride
<1> USE TreeAssumption
<1>1. d \in Nat /\ d * Stride <= n + Stride - 1
  OBVIOUS
<1> HIDE DEF d
<1>2. t \in Nat /\ t <= d /\ t - 1 \in Nat
  BY <1>1 DEF d
<1>3. t * Stride <= d * Stride /\ t * Stride \in Nat /\ d * Stride \in Nat
  BY <1>1, <1>2
<1>4. t * Stride = (t - 1) * Stride + Stride /\ (t - 1) * Stride \in Nat
  BY <1>2
<1> QED BY <1>1, <1>3, <1>4

\* A row begins in shape, whatever the order of its updates.
LEMMA StartRowShape ==
  ASSUME NEW r \in 0..(Depth - 1), NEW map, DOMAIN map \subseteq Places(r), StartRow(r, map)
  PROVE  RowShape'
<1> DEFINE n == Cardinality(DOMAIN map)
<1>1. /\ row' = r /\ hashes' = map /\ order' \in Orders(map) /\ task' = NewTasks(map)
      /\ next_row' = EmptyMap
  BY DEF StartRow
<1>2. n \in Nat /\ Len(order') = n
  <2>1. r \in 0..Depth
    BY TreeAssumption
  <2> QED BY <1>1, <2>1, OrderFacts
<1>3. DOMAIN task' = Tasks(map)
  BY <1>1 DEF NewTasks
<1>4. ASSUME NEW t \in Tasks(map) PROVE TaskShape(t)'
  <2>1. task'[t] = [pos |-> (t - 1) * Stride + 1, pc |-> "read", entry |-> NoEntry,
                    found |-> EmptyMap]
    BY <1>1, <1>4 DEF NewTasks
  <2>2. (t - 1) * Stride \in Nat /\ (t - 1) * Stride < n /\ t * Stride = (t - 1) * Stride + Stride
    BY <1>2, <1>4, ChunkBegins DEF Tasks
  <2>3. LastOf(t)' = IF t * Stride < n THEN t * Stride ELSE n
    BY <1>2 DEF LastOf
  <2>4. LastOf(t)' \in Nat /\ (t - 1) * Stride + 1 <= LastOf(t)'
    BY <1>2, <2>2, <2>3, TreeAssumption
  <2>5. task'[t].pos \in ((t - 1) * Stride + 1)..(LastOf(t)' + 1)
    BY <2>1, <2>2, <2>4
  <2>6. DOMAIN task'[t].found = {}
    BY <2>1 DEF EmptyMap
  <2> QED BY <2>1, <2>5, <2>6 DEF TaskShape, Holding, NoEntry
<1>5. DOMAIN next_row' = {}
  BY <1>1 DEF EmptyMap
<1> QED BY <1>1, <1>3, <1>4, <1>5 DEF RowShape

\* A step of one task leaves the others as they are.
OnlyTask(t) ==
  /\ UNCHANGED <<busy, row, hashes, order, applied, before>>
  /\ DOMAIN task' = DOMAIN task
  /\ \A u \in DOMAIN task : u # t => task'[u] = task[u]

\* A step of a task leaves the other tasks and the row they work on alone.
LEMMA OneTask ==
  ASSUME ShapeInv, NEW t \in DOMAIN task, TaskStep(t)
  PROVE  OnlyTask(t)
BY DEF ShapeInv, RowShape, TaskStep, OnlyTask, Skip, ReadFirstLeft, ReadFirstRight,
       ReadNextLeft, ReadNextRight, Take, UpdateParent, InsertPreimages, WriteLeftLeaf,
       MergeFound, tree

\* A position of a task holds an update of the row.
LEMMA PositionFacts ==
  ASSUME ShapeInv, NEW t \in DOMAIN task
  PROVE  /\ LastOf(t) \in Nat /\ (t - 1) * Stride \in Nat /\ t \in Nat
         /\ (t - 1) * Stride + 1 <= LastOf(t)
         /\ Positions(t) \subseteq 1..Len(order)
         /\ \A k \in Positions(t) : order[k] \in DOMAIN hashes /\ order[k] \in Places(row)
         /\ task[t].pos \in Nat
<1> DEFINE n == Cardinality(DOMAIN hashes)
<1>1. n \in Nat /\ Len(order) = n /\ order \in [1..n -> DOMAIN hashes]
  <2>1. row \in 0..Depth
    BY TreeAssumption DEF ShapeInv, RowShape
  <2>2. DOMAIN hashes \subseteq Places(row) /\ order \in Orders(hashes)
    BY DEF ShapeInv, RowShape
  <2> HIDE DEF n
  <2>3. /\ Cardinality(DOMAIN hashes) \in Nat
        /\ Len(order) = Cardinality(DOMAIN hashes)
        /\ order \in [1..Len(order) -> DOMAIN hashes]
    BY <2>1, <2>2, OrderFacts
  <2> QED BY <2>3 DEF n
<1>2. t \in 1..((n + Stride - 1) \div Stride)
  BY DEF ShapeInv, RowShape, Tasks
<1>3. (t - 1) * Stride \in Nat /\ (t - 1) * Stride < n /\ t * Stride = (t - 1) * Stride + Stride
  BY <1>1, <1>2, ChunkBegins
<1>4. t \in Nat
  <2>1. (n + Stride - 1) \div Stride \in Int
    BY <1>1, TreeAssumption
  <2> QED BY <1>2, <2>1
<1>5. LastOf(t) = IF t * Stride < n THEN t * Stride ELSE n
  BY <1>1 DEF LastOf
<1>6. LastOf(t) \in Nat /\ LastOf(t) <= n /\ (t - 1) * Stride + 1 <= LastOf(t)
  BY <1>1, <1>3, <1>5, TreeAssumption
<1>7. Positions(t) \subseteq 1..n
  BY <1>1, <1>3, <1>6 DEF Positions
<1>8. task[t].pos \in ((t - 1) * Stride + 1)..(LastOf(t) + 1)
  BY DEF ShapeInv, RowShape, TaskShape
<1> QED BY <1>1, <1>3, <1>4, <1>6, <1>7, <1>8 DEF ShapeInv, RowShape

\* What a reading task is at.
LEMMA ReadsFacts ==
  ASSUME ShapeInv, NEW t \in DOMAIN task, NEW idx \in DOMAIN hashes, Reads(t, idx)
  PROVE  /\ busy /\ task[t].pc = "read" /\ task[t].pos \in Positions(t)
         /\ order[task[t].pos] = idx /\ idx \in Places(row)
         /\ task[t].pos + 1 \in ((t - 1) * Stride + 1)..(LastOf(t) + 1)
<1>1. task[t].pos \in ((t - 1) * Stride + 1)..(LastOf(t) + 1) /\ task[t].pos <= LastOf(t)
  BY DEF ShapeInv, RowShape, TaskShape, Reads
<1>2. (t - 1) * Stride \in Nat /\ LastOf(t) \in Nat
  BY PositionFacts
<1> QED BY <1>1, <1>2 DEF Reads, At, Positions, ShapeInv, RowShape

\* What a task that holds an entry is at.
LEMMA HoldingFacts ==
  ASSUME ShapeInv, NEW t \in DOMAIN task, task[t].pc \in Holding
  PROVE  /\ task[t].pos \in Positions(t)
         /\ task[t].entry.idx = order[task[t].pos]
         /\ task[t].entry.idx \in DOMAIN hashes /\ task[t].entry.idx \in Places(row)
         /\ Parent(task[t].entry.idx) \in Places(row + 1)
         /\ ~ Skipped(task[t].entry.idx)
         /\ task[t].pos + 1 \in ((t - 1) * Stride + 1)..(LastOf(t) + 1)
<1>1. /\ task[t].pos \in Positions(t)
      /\ task[t].entry.idx = order[task[t].pos]
      /\ ~ Skipped(task[t].entry.idx)
  BY DEF ShapeInv, RowShape, TaskShape
<1>2. task[t].entry.idx \in DOMAIN hashes /\ task[t].entry.idx \in Places(row)
  BY <1>1, PositionFacts
<1>3. Parent(task[t].entry.idx) \in Places(row + 1)
  BY <1>2, Children DEF ShapeInv, RowShape
<1>4. task[t].pos + 1 \in ((t - 1) * Stride + 1)..(LastOf(t) + 1)
  <2>1. (t - 1) * Stride \in Nat /\ LastOf(t) \in Nat
    BY PositionFacts
  <2> QED BY <1>1, <2>1 DEF Positions
<1> QED BY <1>1, <1>2, <1>3, <1>4

\* The row stays in shape when the one task that moved does.
LEMMA RowShapeKept ==
  ASSUME ShapeInv, NEW t \in DOMAIN task, OnlyTask(t), TaskShape(t)',
         DOMAIN next_row' \subseteq Places(row + 1)
  PROVE  RowShape'
<1>1. UNCHANGED <<row, hashes, order>> /\ DOMAIN task' = DOMAIN task
  BY DEF OnlyTask
<1>2. ASSUME NEW u \in DOMAIN task, u # t PROVE TaskShape(u)'
  <2>1. task'[u] = task[u]
    BY <1>2 DEF OnlyTask
  <2>2. TaskShape(u)
    BY DEF ShapeInv, RowShape
  <2> QED BY <1>1, <2>1, <2>2 DEF TaskShape, LastOf, Positions, Skipped
<1> QED BY <1>1, <1>2 DEF ShapeInv, RowShape

\* Reading an entry leaves the task holding it.
LEMMA TakeShape ==
  ASSUME ShapeInv, NEW t \in DOMAIN task, NEW idx \in DOMAIN hashes, Reads(t, idx),
         ~ Skipped(idx), NEW e, Take(t, e), e.idx = idx,
         DOMAIN e = {"idx", "left", "right", "prev_left", "prev_right", "prev_res"},
         OnlyTask(t)
  PROVE  RowShape' /\ task'[t] = [task[t] EXCEPT !.pc = "update", !.entry = e]
<1>1. TaskShape(t)
  BY DEF ShapeInv, RowShape
<1>2. task'[t] = [task[t] EXCEPT !.pc = "update", !.entry = e]
  BY DEF Take
<1>3. /\ DOMAIN task'[t] = DOMAIN task[t]
      /\ task'[t].pos = task[t].pos /\ task'[t].pc = "update"
      /\ task'[t].entry = e /\ task'[t].found = task[t].found
  BY <1>1, <1>2 DEF TaskShape
<1>4. UNCHANGED <<row, hashes, order, next_row>>
  BY DEF Take
<1>5. TaskShape(t)'
  BY <1>1, <1>3, <1>4, ReadsFacts DEF TaskShape, LastOf, Positions, Skipped, Holding
<1> QED BY <1>2, <1>4, <1>5, RowShapeKept DEF ShapeInv, RowShape

\* The entry that a reading task takes, and what it writes to the leaves.
EntryKeys == {"idx", "left", "right", "prev_left", "prev_right", "prev_res"}

\* Whatever a task reads, the row keeps its shape.
LEMMA ReadShape ==
  ASSUME ShapeInv, NEW t \in DOMAIN task, OnlyTask(t),
         ReadFirstLeft(t) \/ ReadFirstRight(t) \/ ReadNextLeft(t) \/ ReadNextRight(t)
  PROVE  RowShape'
<1>1. CASE ReadFirstLeft(t)
  <2>1. PICK idx \in DOMAIN hashes :
          /\ Reads(t, idx) /\ IsLeft(idx) /\ idx + 1 \notin DOMAIN hashes
          /\ Take(t, [idx |-> idx,
                  left |-> hashes[idx],
                  right |-> nth_leaf_node(idx + 1),
                  prev_left |-> nth_leaf_node(idx),
                  prev_right |-> nth_leaf_node(idx + 1),
                  prev_res |-> Zero])
    BY <1>1 DEF ReadFirstLeft
  <2> DEFINE e == [idx |-> idx,
                  left |-> hashes[idx],
                  right |-> nth_leaf_node(idx + 1),
                  prev_left |-> nth_leaf_node(idx),
                  prev_right |-> nth_leaf_node(idx + 1),
                  prev_res |-> Zero]
  <2>2. e.idx = idx /\ DOMAIN e = EntryKeys /\ ~ Skipped(idx) /\ Take(t, e)
    BY <2>1 DEF Skipped, EntryKeys
  <2> HIDE DEF e
  <2> QED BY <2>1, <2>2, TakeShape DEF EntryKeys
<1>2. CASE ReadFirstRight(t)
  <2>1. PICK idx \in DOMAIN hashes :
          /\ Reads(t, idx) /\ ~ IsLeft(idx)
          /\ Take(t, [idx |-> idx,
                  left |-> IF idx - 1 \in DOMAIN hashes THEN hashes[idx - 1]
                          ELSE nth_leaf_node(idx - 1),
                  right |-> hashes[idx],
                  prev_left |-> nth_leaf_node(idx - 1),
                  prev_right |-> nth_leaf_node(idx),
                  prev_res |-> Zero])
    BY <1>2 DEF ReadFirstRight
  <2> DEFINE e == [idx |-> idx,
                  left |-> IF idx - 1 \in DOMAIN hashes THEN hashes[idx - 1]
                          ELSE nth_leaf_node(idx - 1),
                  right |-> hashes[idx],
                  prev_left |-> nth_leaf_node(idx - 1),
                  prev_right |-> nth_leaf_node(idx),
                  prev_res |-> Zero]
  <2>2. e.idx = idx /\ DOMAIN e = EntryKeys /\ ~ Skipped(idx) /\ Take(t, e)
    BY <2>1 DEF Skipped, EntryKeys
  <2> HIDE DEF e
  <2> QED BY <2>1, <2>2, TakeShape DEF EntryKeys
<1>3. CASE ReadNextLeft(t)
  <2>1. PICK idx \in DOMAIN hashes :
          /\ Reads(t, idx) /\ IsLeft(idx) /\ idx + 1 \notin DOMAIN hashes
          /\ Take(t, [idx |-> idx,
                  left |-> ith_inner_node(row, idx),
                  right |-> ith_inner_node(row, idx + 1),
                  prev_left |-> hashes[idx],
                  prev_right |-> ith_inner_node(row, idx + 1),
                  prev_res |-> Zero])
    BY <1>3 DEF ReadNextLeft
  <2> DEFINE e == [idx |-> idx,
                  left |-> ith_inner_node(row, idx),
                  right |-> ith_inner_node(row, idx + 1),
                  prev_left |-> hashes[idx],
                  prev_right |-> ith_inner_node(row, idx + 1),
                  prev_res |-> Zero]
  <2>2. e.idx = idx /\ DOMAIN e = EntryKeys /\ ~ Skipped(idx) /\ Take(t, e)
    BY <2>1 DEF Skipped, EntryKeys
  <2> HIDE DEF e
  <2> QED BY <2>1, <2>2, TakeShape DEF EntryKeys
<1>4. CASE ReadNextRight(t)
  <2>1. PICK idx \in DOMAIN hashes :
          /\ Reads(t, idx) /\ ~ IsLeft(idx)
          /\ Take(t, [idx |-> idx,
                  left |-> ith_inner_node(row, idx - 1),
                  right |-> ith_inner_node(row, idx),
                  prev_left |-> PrevLeftSibling(idx),
                  prev_right |-> hashes[idx],
                  prev_res |-> Zero])
    BY <1>4 DEF ReadNextRight
  <2> DEFINE e == [idx |-> idx,
                  left |-> ith_inner_node(row, idx - 1),
                  right |-> ith_inner_node(row, idx),
                  prev_left |-> PrevLeftSibling(idx),
                  prev_right |-> hashes[idx],
                  prev_res |-> Zero]
  <2>2. e.idx = idx /\ DOMAIN e = EntryKeys /\ ~ Skipped(idx) /\ Take(t, e)
    BY <2>1 DEF Skipped, EntryKeys
  <2> HIDE DEF e
  <2> QED BY <2>1, <2>2, TakeShape DEF EntryKeys
<1> QED BY <1>1, <1>2, <1>3, <1>4

\* Every place that a task writes is a place of the tree, so that no row
\* outgrows its level.
LEMMA TreeShapeKept ==
  ASSUME ShapeInv, NEW t \in DOMAIN task, TaskStep(t)
  PROVE  TreeShape'
<1> USE DEF ShapeInv, TreeShape
<1>1. Width(0) \in Nat /\ \A i \in 1..Depth : Width(i) \in Nat
  BY Widths, TreeAssumption
<1>2. ASSUME NEW s, Vector(s), NEW i \in 0..Depth, Len(s) <= Width(i), NEW j \in Places(i),
             NEW v, NEW pad
      PROVE  Vector(Put(s, j, v, pad)) /\ Len(Put(s, j, v, pad)) <= Width(i)
  <2>1. j \in Nat /\ j + 1 <= Width(i) /\ Width(i) \in Nat
    BY Widths DEF Places
  <2> QED BY <1>2, <2>1, PutGet DEF Vector
<1>3. CASE ReadFirstRight(t)
  <2>1. PICK idx \in DOMAIN hashes :
          /\ Reads(t, idx) /\ row = 0 /\ ~ IsLeft(idx)
          /\ inner_nodes' = inner_nodes
          /\ leaf_nodes' = update_leaf_node(IF idx - 1 \in DOMAIN hashes
                                            THEN update_leaf_node(leaf_nodes, hashes[idx - 1], idx - 1)
                                            ELSE leaf_nodes,
                                            hashes[idx], idx)
    BY <1>3 DEF ReadFirstRight, Take
  <2>2. idx \in Places(0) /\ (idx - 1 \in DOMAIN hashes => idx - 1 \in Places(0))
    BY <2>1 DEF RowShape
  <2>3. 0 \in 0..Depth
    BY TreeAssumption
  <2> DEFINE l == IF idx - 1 \in DOMAIN hashes
                  THEN update_leaf_node(leaf_nodes, hashes[idx - 1], idx - 1) ELSE leaf_nodes
  <2>4. Vector(l) /\ Len(l) <= Width(0)
    BY <1>2, <2>2, <2>3 DEF update_leaf_node
  <2> HIDE DEF l
  <2>5. Vector(Put(l, idx, hashes[idx], Zero)) /\ Len(Put(l, idx, hashes[idx], Zero)) <= Width(0)
    BY <1>2, <2>2, <2>3, <2>4
  <2> QED BY <2>1, <2>5 DEF l, update_leaf_node
<1>4. CASE WriteLeftLeaf(t)
  <2> DEFINE e == task[t].entry
  <2>1. /\ task[t].pc = "leaf" /\ inner_nodes' = inner_nodes
        /\ leaf_nodes' = Put(leaf_nodes, e.idx, e.left, Zero)
    BY <1>4 DEF WriteLeftLeaf, At, update_leaf_node
  <2>2. row = 0 /\ e.idx \in Places(0)
    BY <2>1, HoldingFacts DEF Holding, RowShape, TaskShape
  <2>3. 0 \in 0..Depth
    BY TreeAssumption
  <2> HIDE DEF e
  <2> QED BY <1>2, <2>1, <2>2, <2>3
<1>5. CASE UpdateParent(t)
  <2> DEFINE e == task[t].entry
             p == Parent(e.idx)
             v == pedersen(e.left, e.right)
  <2>1. /\ task[t].pc = "update" /\ leaf_nodes' = leaf_nodes
        /\ inner_nodes' = [inner_nodes EXCEPT ![row + 1] = Put(@, p, v, get_zero_hash(row + 1))]
    BY <1>5 DEF UpdateParent, At, update_inner_node
  <2>2. p \in Places(row + 1) /\ row + 1 \in 1..Depth /\ row + 1 \in 0..Depth
    BY <2>1, HoldingFacts, TreeAssumption DEF Holding, RowShape
  <2> HIDE DEF p, v
  <2> QED BY <1>2, <2>1, <2>2
<1>6. CASE Skip(t) \/ ReadFirstLeft(t) \/ ReadNextLeft(t) \/ ReadNextRight(t)
           \/ InsertPreimages(t) \/ MergeFound(t)
  <2>1. UNCHANGED <<leaf_nodes, inner_nodes>>
    BY <1>6 DEF Skip, ReadFirstLeft, ReadNextLeft, ReadNextRight, Take, InsertPreimages,
                MergeFound, tree
  <2> QED BY <2>1
<1> QED BY <1>3, <1>4, <1>5, <1>6 DEF TaskStep

\* A task that finishes an entry goes on to the next position.
LEMMA FinishedShape ==
  ASSUME ShapeInv, NEW t \in DOMAIN task, OnlyTask(t), task[t].pc \in Holding,
         task'[t] = Finished(t), next_row' = next_row
  PROVE  /\ RowShape'
         /\ task'[t].pos = task[t].pos + 1 /\ task'[t].pc = "read"
         /\ task'[t].found = task[t].found
<1>1. TaskShape(t)
  BY DEF ShapeInv, RowShape
<1>2. /\ DOMAIN task'[t] = DOMAIN task[t]
      /\ task'[t].pos = task[t].pos + 1 /\ task'[t].pc = "read"
      /\ task'[t].entry = NoEntry /\ task'[t].found = task[t].found
  BY <1>1 DEF TaskShape, Finished
<1>3. UNCHANGED <<row, hashes, order>>
  BY DEF OnlyTask
<1>4. TaskShape(t)'
  BY <1>1, <1>2, <1>3, HoldingFacts DEF TaskShape, LastOf, Positions, Holding, NoEntry
<1> QED BY <1>2, <1>4, RowShapeKept DEF ShapeInv, RowShape

\* The other steps of a task.
LEMMA SkipShape ==
  ASSUME ShapeInv, NEW t \in DOMAIN task, OnlyTask(t), Skip(t)
  PROVE  /\ RowShape'
         /\ task'[t] = [task[t] EXCEPT !.pos = task[t].pos + 1]
         /\ task[t].pos \in Positions(t) /\ Skipped(order[task[t].pos])
<1>1. TaskShape(t)
  BY DEF ShapeInv, RowShape
<1>2. PICK idx \in DOMAIN hashes : Reads(t, idx) /\ Skipped(idx)
  BY DEF Skip, Skipped
<1>3. task'[t] = [task[t] EXCEPT !.pos = task[t].pos + 1]
  BY DEF Skip
<1>4. /\ DOMAIN task'[t] = DOMAIN task[t]
      /\ task'[t].pos = task[t].pos + 1 /\ task'[t].pc = task[t].pc
      /\ task'[t].entry = task[t].entry /\ task'[t].found = task[t].found
  BY <1>1, <1>3 DEF TaskShape
<1>5. UNCHANGED <<row, hashes, order, next_row>>
  BY DEF Skip
<1>6. TaskShape(t)'
  BY <1>1, <1>2, <1>4, <1>5, ReadsFacts DEF TaskShape, LastOf, Positions, Holding
<1> QED BY <1>2, <1>3, <1>5, <1>6, RowShapeKept, ReadsFacts DEF ShapeInv, RowShape

\* A task writes the parent.
LEMMA UpdateParentShape ==
  ASSUME ShapeInv, NEW t \in DOMAIN task, OnlyTask(t), UpdateParent(t)
  PROVE  /\ RowShape'
         /\ task[t].pc = "update"
         /\ task'[t].pos = task[t].pos /\ task'[t].pc = "preimage"
         /\ task'[t].entry =
              [task[t].entry EXCEPT
                 !.prev_res = ith_inner_node(row + 1, Parent(task[t].entry.idx))]
         /\ task'[t].found =
              Insert(task[t].found, Parent(task[t].entry.idx),
                     ith_inner_node(row + 1, Parent(task[t].entry.idx)))
<1> DEFINE e == task[t].entry
           old == ith_inner_node(row + 1, Parent(e.idx))
<1>1. TaskShape(t)
  BY DEF ShapeInv, RowShape
<1>2. /\ task[t].pc = "update"
      /\ task' = [task EXCEPT ![t].pc = "preimage", ![t].entry.prev_res = old,
                              ![t].found = Insert(@, Parent(e.idx), old)]
  BY DEF UpdateParent, At
<1> HIDE DEF old
<1>3. /\ DOMAIN task'[t] = DOMAIN task[t]
      /\ task'[t].pos = task[t].pos /\ task'[t].pc = "preimage"
      /\ task'[t].entry = [task[t].entry EXCEPT !.prev_res = old]
      /\ task'[t].found = Insert(task[t].found, Parent(e.idx), old)
  BY <1>1, <1>2 DEF TaskShape
<1>4. UNCHANGED <<row, hashes, order, next_row>>
  BY DEF UpdateParent
<1>5. /\ DOMAIN task'[t].entry = DOMAIN task[t].entry
      /\ task'[t].entry.idx = e.idx
  BY <1>1, <1>3 DEF TaskShape
<1>6. DOMAIN task'[t].found \subseteq Places(row + 1)
  <2>1. DOMAIN task'[t].found = DOMAIN task[t].found \union {Parent(e.idx)}
    BY <1>3 DEF Insert
  <2>2. Parent(e.idx) \in Places(row + 1)
    BY <1>2, HoldingFacts DEF Holding
  <2> QED BY <1>1, <2>1, <2>2 DEF TaskShape
<1>7. TaskShape(t)'
  BY <1>1, <1>2, <1>3, <1>4, <1>5, <1>6 DEF TaskShape, LastOf, Positions, Skipped, Holding
<1> QED BY <1>2, <1>3, <1>4, <1>7, RowShapeKept DEF ShapeInv, RowShape, old

\* A task keeps the preimage of a parent, and goes on to the leaf or to its next
\* position.
LEMMA InsertPreimagesShape ==
  ASSUME ShapeInv, NEW t \in DOMAIN task, OnlyTask(t), InsertPreimages(t)
  PROVE  /\ RowShape'
         /\ task[t].pc = "preimage"
         /\ IF row = 0 /\ IsLeft(task[t].entry.idx)
            THEN task'[t] = [task[t] EXCEPT !.pc = "leaf"] ELSE task'[t] = Finished(t)
<1>1. TaskShape(t) /\ task[t].pc = "preimage" /\ UNCHANGED <<row, hashes, order, next_row>>
  BY DEF ShapeInv, RowShape, InsertPreimages, At
<1>2. IF row = 0 /\ IsLeft(task[t].entry.idx)
      THEN task'[t] = [task[t] EXCEPT !.pc = "leaf"] ELSE task'[t] = Finished(t)
  BY DEF InsertPreimages
<1>3. CASE row = 0 /\ IsLeft(task[t].entry.idx)
  <2>1. /\ DOMAIN task'[t] = DOMAIN task[t]
        /\ task'[t].pos = task[t].pos /\ task'[t].pc = "leaf"
        /\ task'[t].entry = task[t].entry /\ task'[t].found = task[t].found
    BY <1>1, <1>2, <1>3 DEF TaskShape
  <2>2. TaskShape(t)'
    BY <1>1, <1>3, <2>1 DEF TaskShape, LastOf, Positions, Skipped, Holding
  <2> QED BY <1>1, <1>2, <2>2, RowShapeKept DEF ShapeInv, RowShape
<1>4. CASE ~ (row = 0 /\ IsLeft(task[t].entry.idx))
  BY <1>1, <1>2, <1>4, FinishedShape DEF Holding
<1> QED BY <1>1, <1>2, <1>3, <1>4

\* A task that has passed its last position merges what it found.
LEMMA MergeFoundShape ==
  ASSUME ShapeInv, NEW t \in DOMAIN task, OnlyTask(t), MergeFound(t)
  PROVE  /\ RowShape'
         /\ task[t].pc = "read" /\ task[t].pos = LastOf(t) + 1
         /\ task'[t] = [task[t] EXCEPT !.pc = "done"]
<1>1. TaskShape(t) /\ UNCHANGED <<row, hashes, order>>
  BY DEF ShapeInv, RowShape, MergeFound
<1>2. task[t].pc = "read" /\ task[t].pos = LastOf(t) + 1
  <2>1. task[t].pos > LastOf(t) /\ task[t].pos \in ((t - 1) * Stride + 1)..(LastOf(t) + 1)
    BY <1>1 DEF MergeFound, TaskShape
  <2>2. LastOf(t) \in Nat /\ (t - 1) * Stride \in Nat
    BY PositionFacts
  <2> QED BY <2>1, <2>2 DEF MergeFound, At
<1>3. task'[t] = [task[t] EXCEPT !.pc = "done"]
  BY DEF MergeFound
<1>4. /\ DOMAIN task'[t] = DOMAIN task[t]
      /\ task'[t].pos = task[t].pos /\ task'[t].pc = "done"
      /\ task'[t].entry = task[t].entry /\ task'[t].found = task[t].found
  BY <1>1, <1>3 DEF TaskShape
<1>5. TaskShape(t)'
  BY <1>1, <1>2, <1>4 DEF TaskShape, LastOf, Positions, Holding
<1>6. DOMAIN next_row' \subseteq Places(row + 1)
  <2>1. DOMAIN next_row' = DOMAIN next_row \union DOMAIN task[t].found
    BY DEF MergeFound, Merge
  <2> QED BY <1>1, <2>1 DEF ShapeInv, RowShape, TaskShape
<1> QED BY <1>2, <1>3, <1>5, <1>6, RowShapeKept

\* Every step of a task keeps the shape.
LEMMA TaskStepShape ==
  ASSUME ShapeInv, NEW t \in DOMAIN task, TaskStep(t)
  PROVE  ShapeInv'
<1>1. OnlyTask(t)
  BY OneTask
<1>2. TreeShape'
  BY TreeShapeKept
<1>3. RowShape'
  <2>1. CASE ReadFirstLeft(t) \/ ReadFirstRight(t) \/ ReadNextLeft(t) \/ ReadNextRight(t)
    BY <1>1, <2>1, ReadShape
  <2>2. CASE WriteLeftLeaf(t)
    BY <1>1, <2>2, FinishedShape DEF WriteLeftLeaf, At, Holding
  <2> QED BY <1>1, <2>1, <2>2, SkipShape, UpdateParentShape, InsertPreimagesShape,
             MergeFoundShape DEF TaskStep
<1> QED BY <1>1, <1>2, <1>3 DEF ShapeInv, OnlyTask

\* The empty row between batches.
LEMMA RestShape == DOMAIN EmptyMap = {} /\ Cardinality(DOMAIN EmptyMap) = 0 /\ Tasks(EmptyMap) = {}
<1>1. DOMAIN EmptyMap = {} /\ Cardinality(DOMAIN EmptyMap) = 0
  BY FS_EmptySet DEF EmptyMap
<1>2. (0 + Stride - 1) \div Stride = 0
  BY TreeAssumption
<1>3. Tasks(EmptyMap) = 1..0
  BY <1>1, <1>2 DEF Tasks
<1> QED BY <1>1, <1>3

\* The shape at the start.
LEMMA InitShape == Init => ShapeInv
<1> SUFFICES ASSUME Init PROVE ShapeInv
  OBVIOUS
<1> USE TreeAssumption
<1>1. TreeShape
  <2>1. /\ \A i \in 1..Depth : Width(i) \in Nat
        /\ Width(0) \in Nat
    BY Widths
  <2>2. Vector(<<>>) /\ Len(<<>>) = 0
    BY DEF Vector
  <2> QED BY <2>1, <2>2 DEF Init, TreeShape
<1>2. RowShape
  <2>1. DOMAIN hashes = {} /\ DOMAIN next_row = {} /\ Cardinality(DOMAIN hashes) = 0
    BY RestShape DEF Init
  <2>2. DOMAIN task = {} /\ Tasks(hashes) = {}
    BY RestShape DEF Init, NewTasks
  <2>3. order \in Orders(hashes)
    BY <2>1 DEF Init, Orders
  <2> QED BY <2>1, <2>2, <2>3 DEF Init, RowShape
<1>3. busy = FALSE /\ row = 0 /\ hashes = EmptyMap /\ applied = 0
  BY DEF Init
<1>4. applied \in 0..MaxBatches
  BY <1>3, BatchUpdateAssumption
<1> QED BY <1>1, <1>2, <1>3, <1>4 DEF ShapeInv

\* The steps between the rows.
LEMMA RowStepShape ==
  ASSUME ShapeInv, (\E b \in Batches : BeginBatch(b)) \/ NextRow \/ EndBatch
  PROVE  ShapeInv'
<1> USE TreeAssumption DEF ShapeInv
<1>1. TreeShape'
  BY DEF TreeShape, BeginBatch, NextRow, EndBatch, tree
<1>2. CASE \E b \in Batches : BeginBatch(b)
  <2>1. PICK b \in Batches : BeginBatch(b)
    BY <1>2
  <2>2. DOMAIN b \subseteq Places(0)
    <3>1. Depth - 0 = Depth
      OBVIOUS
    <3> QED BY <3>1, BatchUpdateAssumption DEF Places, Width
  <2>3. RowShape'
    BY <2>1, <2>2, StartRowShape DEF BeginBatch
  <2>4. applied' \in 0..MaxBatches
    BY <2>1, BatchUpdateAssumption DEF BeginBatch
  <2> QED BY <1>1, <2>1, <2>3, <2>4 DEF BeginBatch
<1>3. CASE NextRow
  <2>1. row + 1 \in 0..(Depth - 1) /\ DOMAIN next_row \subseteq Places(row + 1)
    BY <1>3 DEF NextRow, RowShape
  <2>2. RowShape'
    BY <1>3, <2>1, StartRowShape DEF NextRow
  <2> QED BY <1>1, <1>3, <2>2 DEF NextRow, RowDone
<1>4. CASE EndBatch
  <2>1. RowShape'
    BY <1>4, StartRowShape, RestShape DEF EndBatch
  <2> QED BY <1>1, <1>4, <2>1 DEF EndBatch, StartRow
<1> QED BY <1>2, <1>3, <1>4

\* The shape when nothing happens.
LEMMA StutterShape == ShapeInv /\ UNCHANGED vars => ShapeInv'
<1> SUFFICES ASSUME ShapeInv, UNCHANGED vars PROVE ShapeInv'
  OBVIOUS
<1>1. TreeShape'
  BY DEF ShapeInv, TreeShape, vars, tree
<1>2. UNCHANGED <<row, hashes, order, task, next_row, busy, applied>>
  BY DEF vars
<1>3. ASSUME NEW t \in DOMAIN task PROVE TaskShape(t)'
  <2>1. TaskShape(t)
    BY DEF ShapeInv, RowShape
  <2> QED BY <1>2, <2>1 DEF TaskShape, LastOf, Positions, Skipped
<1>4. RowShape'
  BY <1>2, <1>3 DEF ShapeInv, RowShape
<1> QED BY <1>1, <1>2, <1>4 DEF ShapeInv

\* The shape holds in every state.
LEMMA ShapeInvariant == Spec => []ShapeInv
<1>1. ShapeInv /\ [Next]_vars => ShapeInv'
  BY TaskStepShape, RowStepShape, StutterShape DEF Next
<1> QED BY <1>1, InitShape, PTL DEF Spec

(***************************************************************************)
(* No row outgrows its level of the tree, and every task stays in its      *)
(* chunk, for every depth, chunk size and batch.                           *)
(***************************************************************************)
THEOREM TypeCorrect == Spec => []TypeOK
BY ShapeInvariant, ShapeIsType, PTL

-----------------------------------------------------------------------------
(***************************************************************************)
(* The second half of the inductive invariant: the contents.  A parent is  *)
(* replaced by the one task that handles it, once; until then it is the    *)
(* node over the old leaves, from then on the node over the new ones.  The *)
(* tree of a running batch lies between two abstract trees.                *)
(***************************************************************************)
OldNode == Commitment!NodesOf(before.leaves)

NewLeaves == Commitment!Apply(before.batch, before.leaves)

NewNode == Commitment!NodesOf(NewLeaves)

\* The task t has replaced the parent of the entry at position k.
Marks(t, k) ==
  k < task[t].pos \/ (k = task[t].pos /\ task[t].pc \in {"preimage", "leaf"})

\* It has written the leaves of that entry: a right child's when it is read,
\* a left child's when it is finished.
Wrote(t, k) ==
  k < task[t].pos \/ (k = task[t].pos /\ task[t].pc \in Holding /\ ~ IsLeft(order[k]))

Handles(t, k, p) == k \in Positions(t) /\ ~ Skipped(order[k]) /\ Parent(order[k]) = p

UpdatedBy(t, p) == \E k \in Positions(t) : Handles(t, k, p) /\ Marks(t, k)

Updated(p) == \E t \in DOMAIN task : UpdatedBy(t, p)

Written(p) == \E t \in DOMAIN task : \E k \in Positions(t) : Handles(t, k, p) /\ Wrote(t, k)

\* What the batch is, and which nodes of the row it replaced.
RowInv ==
  /\ before.batch \in Batches
  /\ before.leaves = [j \in LeafIndexes |-> before.leaves[j]]
  /\ root = OldNode[Depth][0]
  /\ DOMAIN hashes # {}
  /\ row = 0 => hashes = before.batch
  /\ row > 0 => \A j \in DOMAIN hashes : hashes[j] = OldNode[row][j]
  /\ \A j \in Places(row) \ DOMAIN hashes : OldNode[row][j] = NewNode[row][j]

LeavesInv ==
  /\ row = 0 =>
       \A p \in Places(1) : \A j \in {2 * p, 2 * p + 1} :
         nth_leaf_node(j) = IF Written(p) THEN NewLeaves[j] ELSE before.leaves[j]
  /\ row > 0 => \A j \in LeafIndexes : nth_leaf_node(j) = NewLeaves[j]

NodesInv ==
  /\ \A i \in 1..row : \A j \in Places(i) : ith_inner_node(i, j) = NewNode[i][j]
  /\ \A i \in (row + 2)..Depth : \A j \in Places(i) : ith_inner_node(i, j) = OldNode[i][j]
  /\ \A p \in Places(row + 1) :
       ith_inner_node(row + 1, p) = IF Updated(p) THEN NewNode[row + 1][p] ELSE OldNode[row + 1][p]
  /\ \A p \in Places(row + 1) : Updated(p) => p < Len(inner_nodes[row + 1])

\* The replaced parents, in the tasks' own lists and merged.
FoundInv ==
  /\ \A t \in DOMAIN task : \A p \in Places(row + 1) :
       /\ p \in DOMAIN task[t].found <=> UpdatedBy(t, p)
       /\ p \in DOMAIN task[t].found => task[t].found[p] = OldNode[row + 1][p]
  /\ \A p \in Places(row + 1) :
       /\ p \in DOMAIN next_row <=> \E t \in DOMAIN task : task[t].pc = "done" /\ UpdatedBy(t, p)
       /\ p \in DOMAIN next_row => next_row[p] = OldNode[row + 1][p]

\* What a task holds: both children of one parent, before and after.
EntryInv ==
  \A t \in DOMAIN task :
    task[t].pc \in Holding =>
      LET e == task[t].entry
          p == Parent(e.idx)
      IN  /\ e.left = NewNode[row][2 * p] /\ e.right = NewNode[row][2 * p + 1]
          /\ e.prev_left = OldNode[row][2 * p] /\ e.prev_right = OldNode[row][2 * p + 1]
          /\ task[t].pc \in {"preimage", "leaf"} => e.prev_res = OldNode[row + 1][p]

BatchInv == RowInv /\ LeavesInv /\ NodesInv /\ FoundInv /\ EntryInv

\* Between batches the tree is the abstract tree of its leaves.
RestInv ==
  /\ \A i \in 1..Depth : \A j \in Places(i) :
       ith_inner_node(i, j) = Commitment!NodesOf(CurrentLeaves)[i][j]
  /\ root = Commitment!NodesOf(CurrentLeaves)[Depth][0]

TreeInv ==
  /\ ShapeInv
  /\ IF busy THEN BatchInv ELSE RestInv
  /\ PreimageSound

-----------------------------------------------------------------------------
\* No two positions of a row have the same parent to replace.
LEMMA HandlersApart ==
  ASSUME ShapeInv, NEW t \in DOMAIN task, NEW u \in DOMAIN task, NEW k, NEW m, NEW p,
         Handles(t, k, p), Handles(u, m, p)
  PROVE  t = u /\ k = m
<1>1. /\ k \in 1..Len(order) /\ order[k] \in DOMAIN hashes /\ order[k] \in Places(row)
      /\ m \in 1..Len(order) /\ order[m] \in DOMAIN hashes /\ order[m] \in Places(row)
      /\ t \in Nat /\ u \in Nat
  BY PositionFacts DEF Handles
<1>2. /\ order[k] = 2 * p \/ order[k] = 2 * p + 1
      /\ order[m] = 2 * p \/ order[m] = 2 * p + 1
      /\ IsLeft(order[k]) <=> order[k] = 2 * p
      /\ IsLeft(order[m]) <=> order[m] = 2 * p
  <2>1. row \in 0..(Depth - 1)
    BY DEF ShapeInv, RowShape
  <2> QED BY <1>1, <2>1, Children DEF Handles
<1>3. order[k] = order[m]
  BY <1>1, <1>2 DEF Handles, Skipped
<1>4. k = m
  <2>1. row \in 0..Depth /\ DOMAIN hashes \subseteq Places(row) /\ order \in Orders(hashes)
    BY TreeAssumption DEF ShapeInv, RowShape
  <2> QED BY <1>1, <1>3, <2>1, OrderFacts
<1>5. ASSUME NEW a \in Nat, NEW b \in Nat, a \in DOMAIN task, b \in DOMAIN task, a < b,
             k \in Positions(a), k \in Positions(b)
      PROVE  FALSE
  <2>1. a * Stride <= (b - 1) * Stride
    BY <1>5, ChunksApart
  <2>2. /\ (b - 1) * Stride \in Nat /\ a * Stride \in Nat /\ LastOf(a) \in Nat
        /\ LastOf(b) \in Nat /\ Len(order) \in Nat /\ k \in Nat
    <3>1. /\ (b - 1) * Stride \in Nat /\ LastOf(a) \in Nat /\ LastOf(b) \in Nat
      BY <1>5, PositionFacts
    <3>2. a * Stride \in Nat
      BY TreeAssumption
    <3>3. Len(order) \in Nat /\ k \in Nat
      <4>1. row \in 0..Depth /\ DOMAIN hashes \subseteq Places(row) /\ order \in Orders(hashes)
        BY TreeAssumption DEF ShapeInv, RowShape
      <4> QED BY <1>1, <4>1, OrderFacts
    <3> QED BY <3>1, <3>2, <3>3
  <2>3. k <= LastOf(a) /\ (b - 1) * Stride + 1 <= k
    BY <1>5, <2>2 DEF Positions
  <2>4. LastOf(a) <= a * Stride
    BY <2>2 DEF LastOf
  <2> QED BY <2>1, <2>2, <2>3, <2>4
<1>6. t = u
  <2>1. k \in Positions(t) /\ k \in Positions(u)
    BY <1>4 DEF Handles
  <2> QED BY <1>1, <1>5, <2>1
<1> QED BY <1>4, <1>6

\* The parent of every update of the row is replaced by some task.
LEMMA EveryParentHandled ==
  ASSUME ShapeInv, NEW idx \in DOMAIN hashes
  PROVE  \E t \in DOMAIN task : \E k \in Positions(t) : Handles(t, k, Parent(idx))
<1> DEFINE n == Len(order)
<1>1. /\ row \in 0..(Depth - 1) /\ row \in 0..Depth /\ DOMAIN hashes \subseteq Places(row)
      /\ order \in Orders(hashes)
  BY TreeAssumption DEF ShapeInv, RowShape
<1>2. /\ n \in Nat /\ n = Cardinality(DOMAIN hashes)
      /\ \A j \in DOMAIN hashes : \E k \in 1..n : order[k] = j
  BY <1>1, OrderFacts
<1>3. ASSUME NEW k \in 1..n PROVE \E t \in DOMAIN task : k \in Positions(t)
  <2>1. PICK t \in 1..((n + Stride - 1) \div Stride) :
          (t - 1) * Stride + 1 <= k /\ k <= t * Stride
    BY <1>2, ChunksCover
  <2>2. t \in DOMAIN task
    BY <1>2, <2>1 DEF ShapeInv, RowShape, Tasks
  <2>3. (t - 1) * Stride \in Nat /\ LastOf(t) \in Nat /\ k <= LastOf(t)
    BY <1>2, <2>1, <2>2, PositionFacts DEF LastOf
  <2> QED BY <2>1, <2>2, <2>3 DEF Positions
<1>4. idx \in Places(row) /\ idx \in Nat /\ (IsLeft(idx) => Parent(idx + 1) = Parent(idx))
  BY <1>1 DEF Places, IsLeft, Parent
<1>5. CASE Skipped(idx)
  <2>1. idx + 1 \in DOMAIN hashes /\ ~ IsLeft(idx + 1)
    BY <1>4, <1>5 DEF Skipped, IsLeft
  <2>2. PICK k \in 1..n : order[k] = idx + 1
    BY <1>2, <2>1
  <2> QED BY <1>3, <1>4, <1>5, <2>1, <2>2 DEF Handles, Skipped
<1>6. CASE ~ Skipped(idx)
  <2>1. PICK k \in 1..n : order[k] = idx
    BY <1>2
  <2> QED BY <1>3, <1>6, <2>1 DEF Handles
<1> QED BY <1>5, <1>6

\* A parent that a task handles is the parent of an update of the row.
LEMMA HandledIsParent ==
  ASSUME ShapeInv, NEW t \in DOMAIN task, NEW k, NEW p, Handles(t, k, p)
  PROVE  \E idx \in DOMAIN hashes : Parent(idx) = p
BY PositionFacts DEF Handles

-----------------------------------------------------------------------------
(***************************************************************************)
(* What the steps of a task change of Updated and Written.                 *)
(***************************************************************************)
\* The positions, and who handles what, are fixed while a row is updated.
LEMMA HandlesFixed ==
  ASSUME UNCHANGED <<hashes, order>>, NEW t, NEW k, NEW p
  PROVE  /\ Positions(t)' = Positions(t)
         /\ Handles(t, k, p)' <=> Handles(t, k, p)
BY DEF Handles, Positions, LastOf, Skipped

\* Only a task that replaces a parent changes which parents are replaced.
LEMMA UpdatedKept ==
  ASSUME ShapeInv, NEW t \in DOMAIN task, OnlyTask(t),
         \A k \in Positions(t) : ~ Skipped(order[k]) => (Marks(t, k)' <=> Marks(t, k))
  PROVE  /\ \A u \in DOMAIN task, p \in Places(row + 1) : UpdatedBy(u, p)' <=> UpdatedBy(u, p)
         /\ \A p \in Places(row + 1) : Updated(p)' <=> Updated(p)
<1>1. UNCHANGED <<hashes, order>> /\ DOMAIN task' = DOMAIN task
  BY DEF OnlyTask
<1>2. ASSUME NEW u \in DOMAIN task, NEW p PROVE UpdatedBy(u, p)' <=> UpdatedBy(u, p)
  <2>1. ASSUME NEW k \in Positions(u), Handles(u, k, p) PROVE Marks(u, k)' <=> Marks(u, k)
    <3>1. CASE u = t
      BY <2>1, <3>1 DEF Handles
    <3>2. CASE u # t
      <4>1. task'[u] = task[u]
        BY <3>2 DEF OnlyTask
      <4> QED BY <4>1 DEF Marks
    <3> QED BY <3>1, <3>2
  <2>2. Positions(u)' = Positions(u) /\ \A k : Handles(u, k, p)' <=> Handles(u, k, p)
    BY <1>1, HandlesFixed
  <2> QED BY <2>1, <2>2 DEF UpdatedBy
<1> QED BY <1>1, <1>2 DEF Updated

\* Only a task that writes a leaf changes whose leaves are written.
LEMMA WrittenKept ==
  ASSUME ShapeInv, NEW t \in DOMAIN task, OnlyTask(t),
         \A k \in Positions(t) : ~ Skipped(order[k]) => (Wrote(t, k)' <=> Wrote(t, k))
  PROVE  \A p : Written(p)' <=> Written(p)
<1>1. UNCHANGED <<hashes, order>> /\ DOMAIN task' = DOMAIN task
  BY DEF OnlyTask
<1>2. ASSUME NEW u \in DOMAIN task, NEW p, NEW k \in Positions(u), Handles(u, k, p)
      PROVE  Wrote(u, k)' <=> Wrote(u, k)
  <2>1. CASE u = t
    BY <1>2, <2>1 DEF Handles
  <2>2. CASE u # t
    <3>1. task'[u] = task[u] /\ order' = order
      BY <2>2 DEF OnlyTask
    <3> QED BY <3>1 DEF Wrote
  <2> QED BY <2>1, <2>2
<1>3. ASSUME NEW u \in DOMAIN task, NEW p
      PROVE  Positions(u)' = Positions(u) /\ \A k : Handles(u, k, p)' <=> Handles(u, k, p)
  BY <1>1, HandlesFixed
<1> QED BY <1>1, <1>2, <1>3 DEF Written

\* A parent that is handled at the position of a task in some step has not
\* been replaced, or its leaves written, by any other.
LEMMA FreshParent ==
  ASSUME ShapeInv, NEW t \in DOMAIN task, task[t].pos \in Positions(t),
         NEW p, Handles(t, task[t].pos, p)
  PROVE  /\ task[t].pc \notin {"preimage", "leaf"} => ~ Updated(p)
         /\ task[t].pc \notin Holding => ~ Written(p)
<1>1. task[t].pos \in Nat
  BY PositionFacts
<1>2. ASSUME NEW u \in DOMAIN task, NEW k \in Positions(u), Handles(u, k, p)
      PROVE  u = t /\ k = task[t].pos
  BY <1>2, HandlersApart
<1>3. ~ (task[t].pos < task[t].pos)
  BY <1>1
<1> QED BY <1>2, <1>3 DEF Updated, UpdatedBy, Written, Marks, Wrote

\* A task that moves on has marked, and written, what it leaves behind.
LEMMA MovesOn ==
  ASSUME ShapeInv, NEW t \in DOMAIN task, OnlyTask(t),
         task'[t].pos = task[t].pos + 1, task'[t].pc = "read", NEW k \in Positions(t)
  PROVE  /\ Marks(t, k)' <=> k <= task[t].pos
         /\ Wrote(t, k)' <=> k <= task[t].pos
         /\ Marks(t, k) => k <= task[t].pos
         /\ Wrote(t, k) => k <= task[t].pos
         /\ k <= task[t].pos /\ k # task[t].pos => Marks(t, k) /\ Wrote(t, k)
<1>1. k \in Nat /\ task[t].pos \in Nat
  <2>1. Positions(t) \subseteq 1..Len(order) /\ task[t].pos \in Nat
    BY PositionFacts
  <2>2. LastOf(t) \in Nat /\ (t - 1) * Stride \in Nat
    BY PositionFacts
  <2> QED BY <2>1, <2>2 DEF Positions
<1>2. UNCHANGED order
  BY DEF OnlyTask
<1> QED BY <1>1, <1>2 DEF Marks, Wrote, Holding

-----------------------------------------------------------------------------
(***************************************************************************)
(* What a step keeps of each part of the invariant.                        *)
(***************************************************************************)
LEMMA NodesFixed ==
  ASSUME UNCHANGED before
  PROVE  OldNode' = OldNode /\ NewLeaves' = NewLeaves /\ NewNode' = NewNode
BY DEF OldNode, NewLeaves, NewNode

\* The row that is being computed, over a step that leaves it alone.
LEMMA RowInvKept ==
  ASSUME RowInv, NEW t, OnlyTask(t), root' = root
  PROVE  RowInv'
<1>1. OldNode' = OldNode /\ NewNode' = NewNode
  BY NodesFixed DEF OnlyTask
<1>2. UNCHANGED <<row, hashes, before, root>>
  BY DEF OnlyTask
<1> QED BY <1>1, <1>2 DEF RowInv

\* The leaves, over a step that leaves them alone.
LEMMA LeavesInvKept ==
  ASSUME LeavesInv, NEW t, OnlyTask(t), leaf_nodes' = leaf_nodes,
         \A p : Written(p)' <=> Written(p)
  PROVE  LeavesInv'
<1>1. UNCHANGED <<row, before, NewLeaves>>
  BY NodesFixed DEF OnlyTask
<1> QED BY <1>1 DEF LeavesInv, nth_leaf_node

\* The inner nodes, over a step that leaves them alone.
LEMMA NodesInvKept ==
  ASSUME NodesInv, NEW t, OnlyTask(t), inner_nodes' = inner_nodes,
         \A p \in Places(row + 1) : Updated(p)' <=> Updated(p)
  PROVE  NodesInv'
<1>1. UNCHANGED <<row, OldNode, NewNode>>
  BY NodesFixed DEF OnlyTask
<1> QED BY <1>1 DEF NodesInv, ith_inner_node

\* The replaced parents, over a step that leaves them alone.
LEMMA FoundInvKept ==
  ASSUME FoundInv, NEW t \in DOMAIN task, OnlyTask(t), next_row' = next_row,
         task'[t].found = task[t].found, task[t].pc # "done", task'[t].pc # "done",
         \A u \in DOMAIN task, p \in Places(row + 1) : UpdatedBy(u, p)' <=> UpdatedBy(u, p)
  PROVE  FoundInv'
<1>1. UNCHANGED <<row, OldNode, DOMAIN task>>
  BY NodesFixed DEF OnlyTask
<1>2. \A u \in DOMAIN task : /\ task'[u].found = task[u].found
                             /\ task'[u].pc = "done" <=> task[u].pc = "done"
  BY DEF OnlyTask
<1> QED BY <1>1, <1>2 DEF FoundInv

EntryOf(t) ==
  LET e == task[t].entry
      p == Parent(e.idx)
  IN  /\ e.left = NewNode[row][2 * p] /\ e.right = NewNode[row][2 * p + 1]
      /\ e.prev_left = OldNode[row][2 * p] /\ e.prev_right = OldNode[row][2 * p + 1]
      /\ task[t].pc \in {"preimage", "leaf"} => e.prev_res = OldNode[row + 1][p]

\* The entry a task is at, over a step that leaves it alone.
LEMMA EntryInvKept ==
  ASSUME EntryInv, NEW t \in DOMAIN task, OnlyTask(t),
         task'[t].pc \in Holding => EntryOf(t)'
  PROVE  EntryInv'
<1>1. UNCHANGED <<row, OldNode, NewNode>> /\ DOMAIN task' = DOMAIN task
  BY NodesFixed DEF OnlyTask
<1>2. ASSUME NEW u \in DOMAIN task, task'[u].pc \in Holding PROVE EntryOf(u)'
  <2>1. CASE u = t
    BY <1>2, <2>1
  <2>2. CASE u # t
    <3>1. task'[u] = task[u]
      BY <2>2 DEF OnlyTask
    <3>2. EntryOf(u)
      BY <1>2, <3>1 DEF EntryInv, EntryOf
    <3> QED BY <1>1, <3>1, <3>2 DEF EntryOf
  <2> QED BY <2>1, <2>2
<1> QED BY <1>1, <1>2 DEF EntryInv, EntryOf

-----------------------------------------------------------------------------
(***************************************************************************)
(* The steps of a task.                                                    *)
(***************************************************************************)
LEMMA SkipContent ==
  ASSUME ShapeInv, BatchInv, NEW t \in DOMAIN task, OnlyTask(t), Skip(t)
  PROVE  BatchInv'
<1>1. /\ task'[t] = [task[t] EXCEPT !.pos = task[t].pos + 1]
      /\ task[t].pos \in Positions(t) /\ Skipped(order[task[t].pos])
      /\ DOMAIN task[t] = {"pos", "pc", "entry", "found"}
  BY SkipShape DEF ShapeInv, RowShape, TaskShape
<1>2. /\ task'[t].pos = task[t].pos + 1 /\ task'[t].pc = "read" /\ task[t].pc = "read"
      /\ task'[t].found = task[t].found
  BY <1>1 DEF Skip, Reads, At
<1>3. \A k \in Positions(t) : ~ Skipped(order[k]) =>
        (Marks(t, k)' <=> Marks(t, k)) /\ (Wrote(t, k)' <=> Wrote(t, k))
  BY <1>1, <1>2, MovesOn
<1>4. UNCHANGED <<leaf_nodes, inner_nodes, root, next_row>>
  BY DEF Skip, tree
<1> QED BY <1>2, <1>3, <1>4, UpdatedKept, WrittenKept, RowInvKept, LeavesInvKept, NodesInvKept,
           FoundInvKept, EntryInvKept DEF BatchInv, Holding

\* A merge passes the replaced parents on to the next row.
LEMMA MergeFoundContent ==
  ASSUME ShapeInv, BatchInv, NEW t \in DOMAIN task, OnlyTask(t), MergeFound(t)
  PROVE  BatchInv'
<1>1. /\ task'[t] = [task[t] EXCEPT !.pc = "done"]
      /\ task[t].pc = "read" /\ task[t].pos = LastOf(t) + 1
      /\ DOMAIN task[t] = {"pos", "pc", "entry", "found"}
  BY MergeFoundShape DEF ShapeInv, RowShape, TaskShape
<1>2. /\ task'[t].pos = task[t].pos /\ task'[t].pc = "done"
      /\ task'[t].found = task[t].found
  BY <1>1
<1>3. \A k \in Positions(t) : (Marks(t, k)' <=> Marks(t, k)) /\ (Wrote(t, k)' <=> Wrote(t, k))
  BY <1>1, <1>2 DEF Marks, Wrote, Holding, OnlyTask
<1>4. UNCHANGED <<leaf_nodes, inner_nodes, root>>
  BY DEF MergeFound, tree
<1>5. /\ \A u \in DOMAIN task, p \in Places(row + 1) : UpdatedBy(u, p)' <=> UpdatedBy(u, p)
      /\ \A p \in Places(row + 1) : Updated(p)' <=> Updated(p)
      /\ \A p : Written(p)' <=> Written(p)
  BY <1>3, UpdatedKept, WrittenKept
<1>6. FoundInv'
  <2>1. UNCHANGED <<row, OldNode>> /\ DOMAIN task' = DOMAIN task
    BY NodesFixed DEF OnlyTask
  <2>2. \A u \in DOMAIN task : /\ task'[u].found = task[u].found
                               /\ task'[u].pc = "done" <=> task[u].pc = "done" \/ u = t
    BY <1>2 DEF OnlyTask
  <2>3. next_row' = Merge(next_row, task[t].found)
    BY DEF MergeFound
  <2>4. ASSUME NEW p \in Places(row + 1)
        PROVE  /\ p \in DOMAIN next_row' <=> p \in DOMAIN next_row \/ p \in DOMAIN task[t].found
               /\ p \in DOMAIN next_row' => next_row'[p] = OldNode[row + 1][p]
    BY <2>3 DEF Merge, FoundInv, BatchInv
  <2> QED BY <1>5, <2>1, <2>2, <2>4 DEF FoundInv, BatchInv
<1>7. EntryInv'
  BY <1>2, EntryInvKept DEF Holding, BatchInv
<1> QED BY <1>4, <1>5, <1>6, <1>7, RowInvKept, LeavesInvKept, NodesInvKept DEF BatchInv

\* A parent that is replaced gets the node of the new tree.
LEMMA UpdateParentContent ==
  ASSUME ShapeInv, BatchInv, NEW t \in DOMAIN task, OnlyTask(t), UpdateParent(t)
  PROVE  BatchInv'
<1> DEFINE e == task[t].entry
           p == Parent(e.idx)
           v == pedersen(e.left, e.right)
           old == ith_inner_node(row + 1, p)
<1>1. /\ task[t].pc = "update" /\ task'[t].pos = task[t].pos /\ task'[t].pc = "preimage"
      /\ task'[t].entry = [e EXCEPT !.prev_res = old]
      /\ task'[t].found = Insert(task[t].found, p, old)
      /\ DOMAIN e = {"idx", "left", "right", "prev_left", "prev_right", "prev_res"}
  BY UpdateParentShape DEF ShapeInv, RowShape, TaskShape
<1>2. /\ UNCHANGED <<leaf_nodes, root, next_row>>
      /\ inner_nodes' = [inner_nodes EXCEPT ![row + 1] = Put(@, p, v, get_zero_hash(row + 1))]
  BY DEF UpdateParent, update_inner_node
<1>3. /\ task[t].pos \in Positions(t) /\ e.idx = order[task[t].pos]
      /\ p \in Places(row + 1) /\ Handles(t, task[t].pos, p)
  BY <1>1, HoldingFacts DEF Holding, Handles
<1>4. row \in 0..(Depth - 1) /\ row + 1 \in 1..Depth /\ UNCHANGED row
  BY TreeAssumption DEF ShapeInv, RowShape, OnlyTask
<1>5. EntryOf(t) /\ old = OldNode[row + 1][p]
  <2>1. ~ Updated(p)
    BY <1>1, <1>3, FreshParent
  <2>2. EntryOf(t)
    BY <1>1 DEF BatchInv, EntryInv, EntryOf, Holding
  <2> QED BY <1>3, <2>1, <2>2 DEF BatchInv, NodesInv
<1>6. v = NewNode[row + 1][p]
  <2>1. v = pedersen(NewNode[row][2 * p], NewNode[row][2 * p + 1])
    BY <1>5 DEF EntryOf
  <2> HIDE DEF p, v
  <2> QED BY <1>3, <1>4, <2>1, Nodes DEF NewNode
<1> HIDE DEF p, v, old, e
<1>7. \A k \in Positions(t) : Wrote(t, k)' <=> Wrote(t, k)
  BY <1>1 DEF Wrote, Holding, OnlyTask
<1>8. \A k \in Positions(t) : Marks(t, k)' <=> Marks(t, k) \/ k = task[t].pos
  BY <1>1 DEF Marks, OnlyTask
<1>9. UNCHANGED <<hashes, order>> /\ DOMAIN task' = DOMAIN task
  BY DEF OnlyTask
<1>10. \A q : UpdatedBy(t, q)' <=> UpdatedBy(t, q) \/ q = p
  <2>1. Positions(t)' = Positions(t) /\ \A k, q : Handles(t, k, q)' <=> Handles(t, k, q)
    BY <1>9, HandlesFixed
  <2>2. \A q : Handles(t, task[t].pos, q) <=> q = p
    BY <1>3 DEF Handles
  <2> QED BY <1>3, <1>8, <2>1, <2>2 DEF UpdatedBy
<1>11. \A u \in DOMAIN task : u # t => \A q : UpdatedBy(u, q)' <=> UpdatedBy(u, q)
  <2>1. ASSUME NEW u \in DOMAIN task, u # t, NEW q PROVE UpdatedBy(u, q)' <=> UpdatedBy(u, q)
    <3>1. Positions(u)' = Positions(u) /\ \A k : Handles(u, k, q)' <=> Handles(u, k, q)
      BY <1>9, HandlesFixed
    <3>2. task'[u] = task[u]
      BY <2>1 DEF OnlyTask
    <3>3. \A k : Marks(u, k)' <=> Marks(u, k)
      BY <3>2 DEF Marks
    <3> QED BY <3>1, <3>3 DEF UpdatedBy
  <2> QED BY <2>1
<1>12. \A q : Updated(q)' <=> Updated(q) \/ q = p
  BY <1>9, <1>10, <1>11 DEF Updated
<1>13. UNCHANGED <<OldNode, NewNode>>
  BY NodesFixed DEF OnlyTask
<1>14. NodesInv'
  <2>1. p \in Nat /\ Vector(inner_nodes[row + 1]) /\ DOMAIN inner_nodes = 1..Depth
    BY <1>3, <1>4 DEF ShapeInv, TreeShape, Places
  <2>2. inner_nodes'[row + 1] = Put(inner_nodes[row + 1], p, v, get_zero_hash(row + 1))
    BY <1>2, <1>4, <2>1
  <2>3. \A i \in 1..Depth : i # row + 1 => inner_nodes'[i] = inner_nodes[i]
    BY <1>2, <1>4, <2>1
  <2>4. /\ \A q \in Nat : ith_inner_node(row + 1, q)' =
                            IF q = p THEN v ELSE ith_inner_node(row + 1, q)
        /\ p < Len(inner_nodes'[row + 1])
        /\ Len(inner_nodes'[row + 1]) \in Nat
        /\ Len(inner_nodes[row + 1]) <= Len(inner_nodes'[row + 1])
    <3>1. Len(inner_nodes[row + 1]) \in Nat
      BY <2>1 DEF Vector
    <3> QED BY <1>4, <2>1, <2>2, <3>1, PutGet DEF ith_inner_node, Vector
  <2>5. \A i \in 1..Depth : i # row + 1 => \A j : ith_inner_node(i, j)' = ith_inner_node(i, j)
    BY <2>3 DEF ith_inner_node
  <2>6. \A q \in Places(row + 1) :
          /\ ith_inner_node(row + 1, q)' =
               IF Updated(q)' THEN NewNode[row + 1][q] ELSE OldNode[row + 1][q]
          /\ Updated(q)' => q < Len(inner_nodes'[row + 1])
    <3>1. SUFFICES ASSUME NEW q \in Places(row + 1)
                   PROVE  /\ ith_inner_node(row + 1, q)' =
                               IF Updated(q)' THEN NewNode[row + 1][q] ELSE OldNode[row + 1][q]
                          /\ Updated(q)' => q < Len(inner_nodes'[row + 1])
      OBVIOUS
    <3>2. q \in Nat /\ Len(inner_nodes[row + 1]) \in Nat
      BY <2>1 DEF Vector, Places
    <3> QED BY <1>6, <1>12, <2>4, <3>2 DEF BatchInv, NodesInv
  <2>7. \A i \in 1..row : \A j \in Places(i) : ith_inner_node(i, j)' = NewNode[i][j]
    <3>1. \A i \in 1..row : i \in 1..Depth /\ i # row + 1
      BY <1>4, TreeAssumption
    <3> QED BY <2>5, <3>1 DEF BatchInv, NodesInv
  <2>8. \A i \in (row + 2)..Depth : \A j \in Places(i) : ith_inner_node(i, j)' = OldNode[i][j]
    <3>1. \A i \in (row + 2)..Depth : i \in 1..Depth /\ i # row + 1
      BY <1>4
    <3> QED BY <2>5, <3>1 DEF BatchInv, NodesInv
  <2> QED BY <1>4, <1>13, <2>6, <2>7, <2>8 DEF NodesInv
<1>15. FoundInv'
  <2>1. \A q : /\ q \in DOMAIN task'[t].found <=> q \in DOMAIN task[t].found \/ q = p
               /\ q \in DOMAIN task'[t].found =>
                    task'[t].found[q] = IF q = p THEN old ELSE task[t].found[q]
    BY <1>1 DEF Insert
  <2>2. \A u \in DOMAIN task : /\ task'[u].pc = "done" <=> task[u].pc = "done"
                               /\ u # t => task'[u].found = task[u].found
                               /\ task[t].pc # "done"
    BY <1>1 DEF OnlyTask
  <2>3. \A u \in DOMAIN task, q \in Places(row + 1) :
          /\ q \in DOMAIN task'[u].found <=> UpdatedBy(u, q)'
          /\ q \in DOMAIN task'[u].found => task'[u].found[q] = OldNode[row + 1][q]
    BY <1>5, <1>10, <1>11, <2>1, <2>2 DEF BatchInv, FoundInv
  <2>4. \A u \in DOMAIN task, q \in Places(row + 1) :
          task'[u].pc = "done" /\ UpdatedBy(u, q)' <=> task[u].pc = "done" /\ UpdatedBy(u, q)
    BY <1>11, <2>2
  <2> QED BY <1>2, <1>4, <1>9, <1>13, <2>3, <2>4 DEF BatchInv, FoundInv
<1>16. EntryInv'
  <2>1. EntryOf(t)'
    <3>1. /\ task'[t].entry.idx = e.idx /\ task'[t].entry.left = e.left
          /\ task'[t].entry.right = e.right /\ task'[t].entry.prev_left = e.prev_left
          /\ task'[t].entry.prev_right = e.prev_right /\ task'[t].entry.prev_res = old
      BY <1>1
    <3> QED BY <1>4, <1>5, <1>13, <3>1 DEF EntryOf, e, p
  <2> QED BY <2>1, EntryInvKept DEF BatchInv
<1> QED BY <1>2, <1>7, <1>14, <1>15, <1>16, WrittenKept, RowInvKept, LeavesInvKept DEF BatchInv

\* A write adds the leaves of one parent.
LEMMA WrittenMore ==
  ASSUME ShapeInv, NEW t \in DOMAIN task, OnlyTask(t), task[t].pos \in Positions(t),
         NEW p, Handles(t, task[t].pos, p),
         \A k \in Positions(t) : ~ Skipped(order[k]) =>
           (Wrote(t, k)' <=> Wrote(t, k) \/ k = task[t].pos)
  PROVE  \A q : Written(q)' <=> Written(q) \/ q = p
<1>1. UNCHANGED <<hashes, order>> /\ DOMAIN task' = DOMAIN task
  BY DEF OnlyTask
<1>2. \A u \in DOMAIN task : /\ Positions(u)' = Positions(u)
                             /\ \A k, q : Handles(u, k, q)' <=> Handles(u, k, q)
  BY <1>1, HandlesFixed
<1>3. \A u \in DOMAIN task : u # t => \A k : Wrote(u, k)' <=> Wrote(u, k)
  <2>1. ASSUME NEW u \in DOMAIN task, u # t, NEW k PROVE Wrote(u, k)' <=> Wrote(u, k)
    <3>1. task'[u] = task[u] /\ order' = order
      BY <2>1 DEF OnlyTask
    <3> QED BY <3>1 DEF Wrote
  <2> QED BY <2>1
<1>4. \A q : Handles(t, task[t].pos, q) <=> q = p
  BY DEF Handles
<1>5. \A k, q : Handles(t, k, q) => (Wrote(t, k)' <=> Wrote(t, k) \/ k = task[t].pos)
  BY DEF Handles
<1> QED BY <1>1, <1>2, <1>3, <1>4, <1>5 DEF Written

\* A task that inserted the preimages of an entry in a row above the leaves,
\* or of a right leaf, is finished with it.
LEMMA InsertPreimagesContent ==
  ASSUME ShapeInv, BatchInv, NEW t \in DOMAIN task, OnlyTask(t), InsertPreimages(t)
  PROVE  BatchInv'
<1>1. /\ task[t].pc = "preimage"
      /\ DOMAIN task[t] = {"pos", "pc", "entry", "found"}
      /\ task[t].entry.idx = order[task[t].pos]
      /\ UNCHANGED <<leaf_nodes, inner_nodes, root, next_row>>
  BY HoldingFacts DEF ShapeInv, RowShape, TaskShape, InsertPreimages, At, Holding, tree
<1>2. CASE row = 0 /\ IsLeft(task[t].entry.idx)
  <2>1. task'[t] = [task[t] EXCEPT !.pc = "leaf"]
    BY <1>2, InsertPreimagesShape
  <2>2. /\ task'[t].pos = task[t].pos /\ task'[t].pc = "leaf"
        /\ task'[t].entry = task[t].entry /\ task'[t].found = task[t].found
    BY <1>1, <2>1
  <2>3. \A k \in Positions(t) : (Marks(t, k)' <=> Marks(t, k)) /\ (Wrote(t, k)' <=> Wrote(t, k))
    BY <1>1, <2>2 DEF Marks, Wrote, Holding, OnlyTask
  <2>4. EntryOf(t)'
    <3>1. EntryOf(t)
      BY <1>1 DEF BatchInv, EntryInv, EntryOf, Holding
    <3>2. UNCHANGED <<row, OldNode, NewNode>>
      BY NodesFixed DEF OnlyTask
    <3> QED BY <1>1, <2>2, <3>1, <3>2 DEF EntryOf
  <2> QED BY <1>1, <2>2, <2>3, <2>4, UpdatedKept, WrittenKept, RowInvKept, LeavesInvKept,
             NodesInvKept, FoundInvKept, EntryInvKept DEF BatchInv
<1>3. CASE ~ (row = 0 /\ IsLeft(task[t].entry.idx))
  <2>1. task'[t] = Finished(t)
    BY <1>3, InsertPreimagesShape
  <2>2. /\ task'[t].pos = task[t].pos + 1 /\ task'[t].pc = "read"
        /\ task'[t].found = task[t].found
    BY <1>1, <2>1, FinishedShape DEF Holding
  <2>3. \A k \in Positions(t) : Marks(t, k)' <=> Marks(t, k)
    BY <1>1, <2>2, MovesOn DEF Marks
  <2>4. LeavesInv'
    <3>1. CASE row = 0
      <4>1. \A k \in Positions(t) : Wrote(t, k)' <=> Wrote(t, k)
        BY <1>1, <1>3, <2>2, <3>1, MovesOn DEF Wrote, Holding
      <4> QED BY <1>1, <4>1, WrittenKept, LeavesInvKept DEF BatchInv
    <3>2. CASE row # 0
      <4>1. UNCHANGED <<row, before, NewLeaves, leaf_nodes>>
        BY <1>1, NodesFixed DEF OnlyTask
      <4> QED BY <3>2, <4>1 DEF BatchInv, LeavesInv, nth_leaf_node
    <3> QED BY <3>1, <3>2
  <2> QED BY <1>1, <2>2, <2>3, <2>4, UpdatedKept, RowInvKept,
             NodesInvKept, FoundInvKept, EntryInvKept DEF BatchInv, Holding
<1> QED BY <1>2, <1>3

\* With tables that start at zero, a write to the leaves changes one of them.
LEMMA LeafWrite ==
  ASSUME Shift = 0, NEW s, Vector(s), NEW i \in Nat, NEW v
  PROVE  /\ Vector(update_leaf_node(s, v, i))
         /\ \A j \in Nat : Get(update_leaf_node(s, v, i), j, get_zero_hash(0)) =
                             IF j = i THEN v ELSE Get(s, j, get_zero_hash(0))
<1>1. get_zero_hash(0) = Zero
  BY ZeroHashes
<1> QED BY <1>1, PutGet DEF update_leaf_node

\* The leaves of the first row, by parent.
LEMMA FirstRow ==
  ASSUME BatchInv, ShapeInv, row = 0
  PROVE  /\ OldNode[0] = before.leaves /\ NewNode[0] = NewLeaves
         /\ hashes = before.batch
         /\ LeafIndexes = Places(0)
         /\ \A j \in LeafIndexes :
              NewLeaves[j] = IF j \in DOMAIN hashes THEN hashes[j] ELSE before.leaves[j]
         /\ \A p \in Places(1) : 2 * p \in LeafIndexes /\ 2 * p + 1 \in LeafIndexes
<1>1. OldNode[0] = before.leaves /\ NewNode[0] = NewLeaves
  BY Nodes DEF OldNode, NewNode
<1>2. hashes = before.batch
  BY DEF BatchInv, RowInv
<1>3. LeafIndexes = Places(0)
  <2>1. Depth - 0 = Depth
    BY TreeAssumption
  <2> QED BY <2>1 DEF LeafIndexes, Places, Width
<1>4. \A j \in LeafIndexes :
        NewLeaves[j] = IF j \in DOMAIN hashes THEN hashes[j] ELSE before.leaves[j]
  BY <1>2 DEF NewLeaves, Commitment!Apply, Commitment!LeafIndexes, LeafIndexes
<1>5. \A p \in Places(1) : 2 * p \in LeafIndexes /\ 2 * p + 1 \in LeafIndexes
  <2>1. 0 \in 0..(Depth - 1) /\ 0 + 1 = 1
    BY TreeAssumption
  <2> QED BY <1>3, <2>1, Children
<1> QED BY <1>1, <1>2, <1>3, <1>4, <1>5

\* A left leaf of the batch is written with its sibling.
LEMMA WriteLeftLeafContent ==
  ASSUME Shift = 0, ShapeInv, BatchInv, NEW t \in DOMAIN task, OnlyTask(t), WriteLeftLeaf(t)
  PROVE  BatchInv'
<1> DEFINE e == task[t].entry
           p == Parent(e.idx)
<1>1. /\ task[t].pc = "leaf" /\ task'[t] = Finished(t) /\ row = 0 /\ IsLeft(e.idx)
      /\ leaf_nodes' = update_leaf_node(leaf_nodes, e.left, e.idx)
      /\ UNCHANGED <<inner_nodes, root, next_row>>
  BY DEF WriteLeftLeaf, At, ShapeInv, RowShape, TaskShape
<1>2. /\ task'[t].pos = task[t].pos + 1 /\ task'[t].pc = "read"
      /\ task'[t].found = task[t].found
  BY <1>1, FinishedShape DEF Holding
<1>3. /\ task[t].pos \in Positions(t) /\ e.idx = order[task[t].pos]
      /\ e.idx \in DOMAIN hashes /\ e.idx \in Places(0)
      /\ p \in Places(1) /\ Handles(t, task[t].pos, p) /\ e.idx + 1 \notin DOMAIN hashes
  BY <1>1, HoldingFacts DEF Holding, Handles, Skipped
<1>4. \A k \in Positions(t) : Marks(t, k)' <=> Marks(t, k)
  BY <1>1, <1>2, MovesOn DEF Marks
<1>5. \A q : Written(q)' <=> Written(q) \/ q = p
  <2>1. ASSUME NEW k \in Positions(t)
        PROVE  Wrote(t, k)' <=> Wrote(t, k) \/ k = task[t].pos
    <3>1. task[t].pos \in Nat
      BY PositionFacts
    <3> QED BY <1>2, <3>1, MovesOn
  <2> QED BY <1>3, <2>1, WrittenMore
<1>6. LeavesInv'
  <2>1. UNCHANGED <<row, before, NewLeaves>>
    BY NodesFixed DEF OnlyTask
  <2>2. e.idx = 2 * p /\ e.idx \in Nat
    <3>1. 0 \in 0..(Depth - 1)
      BY TreeAssumption
    <3> QED BY <1>1, <1>3, <3>1, Children DEF Places
  <2>3. e.left = NewLeaves[2 * p]
    BY <1>1, FirstRow DEF BatchInv, EntryInv, Holding
  <2> HIDE DEF e, p
  <2>4. \A j \in Nat : nth_leaf_node(j)' = IF j = 2 * p THEN NewLeaves[2 * p] ELSE nth_leaf_node(j)
    <3>1. Vector(leaf_nodes)
      BY DEF ShapeInv, TreeShape
    <3> QED BY <1>1, <2>2, <2>3, <3>1, LeafWrite DEF nth_leaf_node
  <2>5. ASSUME NEW q \in Places(1), NEW j \in {2 * q, 2 * q + 1}
        PROVE  nth_leaf_node(j)' = IF Written(q)' THEN NewLeaves[j] ELSE before.leaves[j]
    <3>1. q \in Nat /\ p \in Nat /\ j \in Nat
      BY <1>3 DEF Places
    <3>2. nth_leaf_node(j) = IF Written(q) THEN NewLeaves[j] ELSE before.leaves[j]
      BY <1>1 DEF BatchInv, LeavesInv
    <3>3. CASE q # p
      BY <1>5, <2>4, <3>1, <3>2, <3>3
    <3>4. CASE q = p /\ j = 2 * p
      BY <1>5, <2>4, <3>1, <3>4
    <3>5. CASE q = p /\ j = 2 * p + 1
      <4>1. j \notin DOMAIN hashes
        BY <1>3, <2>2, <3>5
      <4>2. NewLeaves[j] = before.leaves[j]
        BY <1>1, <1>3, <3>5, <4>1, FirstRow
      <4> QED BY <1>5, <2>4, <3>1, <3>2, <3>5, <4>2
    <3> QED BY <3>3, <3>4, <3>5
  <2> QED BY <1>1, <2>1, <2>5 DEF LeavesInv
<1> QED BY <1>1, <1>2, <1>4, <1>6, UpdatedKept, RowInvKept, NodesInvKept,
           FoundInvKept, EntryInvKept DEF BatchInv, Holding

\* Reading an entry takes the two children of its parent, before and after.
LEMMA TakeContent ==
  ASSUME ShapeInv, BatchInv, NEW t \in DOMAIN task, OnlyTask(t), task[t].pc = "read",
         NEW e, Take(t, e), EntryOf(t)', LeavesInv'
  PROVE  BatchInv'
<1>1. /\ task'[t] = [task[t] EXCEPT !.pc = "update", !.entry = e]
      /\ DOMAIN task[t] = {"pos", "pc", "entry", "found"}
      /\ UNCHANGED <<inner_nodes, root, next_row>>
  BY DEF Take, ShapeInv, RowShape, TaskShape
<1>2. /\ task'[t].pos = task[t].pos /\ task'[t].pc = "update"
      /\ task'[t].found = task[t].found
  BY <1>1
<1>3. \A k \in Positions(t) : Marks(t, k)' <=> Marks(t, k)
  BY <1>2 DEF Marks
<1> QED BY <1>1, <1>2, <1>3, UpdatedKept, RowInvKept, NodesInvKept, FoundInvKept,
           EntryInvKept DEF BatchInv, Holding

\* What a task knows when it reads the entry idx: the parent is its own.
LEMMA ReadsOwnParent ==
  ASSUME ShapeInv, BatchInv, NEW t \in DOMAIN task, NEW idx \in DOMAIN hashes,
         Reads(t, idx), ~ Skipped(idx), NEW p, p = Parent(idx)
  PROVE  /\ Handles(t, task[t].pos, p) /\ ~ Updated(p) /\ ~ Written(p)
         /\ p \in Places(row + 1) /\ p \in Nat /\ idx \in Nat
         /\ IF IsLeft(idx) THEN idx = 2 * p ELSE idx = 2 * p + 1
         /\ 2 * p \in Places(row) /\ 2 * p + 1 \in Places(row)
<1>1. /\ task[t].pc = "read" /\ task[t].pos \in Positions(t)
      /\ order[task[t].pos] = idx /\ idx \in Places(row)
  BY ReadsFacts
<1>2. Handles(t, task[t].pos, p)
  BY <1>1 DEF Handles
<1>3. row \in 0..(Depth - 1)
  BY DEF ShapeInv, RowShape
<1>4. /\ p \in Places(row + 1) /\ p \in Nat /\ idx \in Nat
      /\ IF IsLeft(idx) THEN idx = 2 * p ELSE idx = 2 * p + 1
      /\ 2 * p \in Places(row) /\ 2 * p + 1 \in Places(row)
  BY <1>1, <1>3, Children DEF Places
<1> QED BY <1>1, <1>2, <1>4, FreshParent DEF Holding

\* A left leaf alone is read with the sibling that is there.
LEMMA ReadFirstLeftContent ==
  ASSUME ShapeInv, BatchInv, NEW t \in DOMAIN task, OnlyTask(t), ReadFirstLeft(t)
  PROVE  BatchInv'
<1>1. PICK idx \in DOMAIN hashes :
        /\ Reads(t, idx) /\ row = 0 /\ IsLeft(idx) /\ idx + 1 \notin DOMAIN hashes
        /\ Take(t, [idx |-> idx, left |-> hashes[idx], right |-> nth_leaf_node(idx + 1),
                    prev_left |-> nth_leaf_node(idx), prev_right |-> nth_leaf_node(idx + 1),
                    prev_res |-> Zero])
        /\ UNCHANGED leaf_nodes
  BY DEF ReadFirstLeft
<1> DEFINE e == [idx |-> idx, left |-> hashes[idx], right |-> nth_leaf_node(idx + 1),
                 prev_left |-> nth_leaf_node(idx), prev_right |-> nth_leaf_node(idx + 1),
                 prev_res |-> Zero]
           p == Parent(idx)
<1>2. /\ Handles(t, task[t].pos, p) /\ ~ Written(p) /\ p \in Places(1)
      /\ p \in Nat /\ idx = 2 * p
  <2>1. ~ Skipped(idx)
    BY <1>1 DEF Skipped
  <2> QED BY <1>1, <2>1, ReadsOwnParent
<1>3. /\ nth_leaf_node(idx) = before.leaves[2 * p]
      /\ nth_leaf_node(idx + 1) = before.leaves[2 * p + 1]
  BY <1>1, <1>2 DEF BatchInv, LeavesInv
<1>4. /\ hashes[idx] = NewLeaves[2 * p]
      /\ before.leaves[2 * p + 1] = NewLeaves[2 * p + 1]
      /\ OldNode[0] = before.leaves /\ NewNode[0] = NewLeaves
  BY <1>1, <1>2, FirstRow
<1>5. /\ task'[t].pc = "update" /\ task'[t].entry = e /\ task'[t].pos = task[t].pos
      /\ task[t].pc = "read"
  <2>1. DOMAIN task[t] = {"pos", "pc", "entry", "found"}
    BY DEF ShapeInv, RowShape, TaskShape
  <2> QED BY <1>1, <2>1 DEF Take, Reads, At
<1>6. UNCHANGED <<row, OldNode, NewNode, NewLeaves>>
  BY NodesFixed DEF OnlyTask
<1>7. EntryOf(t)'
  <2>1. /\ e.idx = idx /\ e.left = NewNode[0][2 * p] /\ e.right = NewNode[0][2 * p + 1]
        /\ e.prev_left = OldNode[0][2 * p] /\ e.prev_right = OldNode[0][2 * p + 1]
    BY <1>3, <1>4
  <2> HIDE DEF e
  <2> QED BY <1>1, <1>5, <1>6, <2>1 DEF EntryOf
<1>8. LeavesInv'
  <2>1. \A k \in Positions(t) : Wrote(t, k)' <=> Wrote(t, k)
    <3>1. order' = order /\ order[task[t].pos] = idx
      BY <1>1, ReadsFacts DEF OnlyTask
    <3> QED BY <1>1, <1>5, <3>1 DEF Wrote, Holding
  <2> QED BY <1>1, <2>1, WrittenKept, LeavesInvKept DEF BatchInv
<1> QED BY <1>1, <1>5, <1>7, <1>8, TakeContent

\* A right leaf is read with the batch's left one, or with the one that is there.
LEMMA ReadFirstRightContent ==
  ASSUME Shift = 0, ShapeInv, BatchInv, NEW t \in DOMAIN task, OnlyTask(t), ReadFirstRight(t)
  PROVE  BatchInv'
<1>1. PICK idx \in DOMAIN hashes :
        /\ Reads(t, idx) /\ row = 0 /\ ~ IsLeft(idx)
        /\ Take(t, [idx |-> idx,
                    left |-> IF idx - 1 \in DOMAIN hashes THEN hashes[idx - 1]
                             ELSE nth_leaf_node(idx - 1),
                    right |-> hashes[idx],
                    prev_left |-> nth_leaf_node(idx - 1), prev_right |-> nth_leaf_node(idx),
                    prev_res |-> Zero])
        /\ leaf_nodes' = update_leaf_node(IF idx - 1 \in DOMAIN hashes
                                          THEN update_leaf_node(leaf_nodes, hashes[idx - 1], idx - 1)
                                          ELSE leaf_nodes,
                                          hashes[idx], idx)
  BY DEF ReadFirstRight
<1> DEFINE e == [idx |-> idx,
                 left |-> IF idx - 1 \in DOMAIN hashes THEN hashes[idx - 1]
                          ELSE nth_leaf_node(idx - 1),
                 right |-> hashes[idx],
                 prev_left |-> nth_leaf_node(idx - 1), prev_right |-> nth_leaf_node(idx),
                 prev_res |-> Zero]
           p == Parent(idx)
           l == IF idx - 1 \in DOMAIN hashes
                THEN update_leaf_node(leaf_nodes, hashes[idx - 1], idx - 1) ELSE leaf_nodes
<1>2. /\ Handles(t, task[t].pos, p) /\ ~ Written(p) /\ p \in Places(1)
      /\ p \in Nat /\ idx = 2 * p + 1 /\ idx - 1 = 2 * p
  <2>1. ~ Skipped(idx)
    BY <1>1 DEF Skipped
  <2> QED BY <1>1, <2>1, ReadsOwnParent
<1>3. /\ nth_leaf_node(idx - 1) = before.leaves[2 * p]
      /\ nth_leaf_node(idx) = before.leaves[2 * p + 1]
  BY <1>1, <1>2 DEF BatchInv, LeavesInv
<1>4. /\ hashes[idx] = NewLeaves[2 * p + 1]
      /\ IF idx - 1 \in DOMAIN hashes THEN hashes[idx - 1] = NewLeaves[2 * p]
         ELSE before.leaves[2 * p] = NewLeaves[2 * p]
      /\ OldNode[0] = before.leaves /\ NewNode[0] = NewLeaves
  BY <1>1, <1>2, FirstRow
<1>5. /\ task'[t].pc = "update" /\ task'[t].entry = e /\ task'[t].pos = task[t].pos
      /\ task[t].pc = "read"
  <2>1. DOMAIN task[t] = {"pos", "pc", "entry", "found"}
    BY DEF ShapeInv, RowShape, TaskShape
  <2>2. Take(t, e) /\ task[t].pc = "read"
    BY <1>1 DEF Reads, At
  <2> HIDE DEF e
  <2> QED BY <2>1, <2>2 DEF Take
<1>6. UNCHANGED <<row, before, OldNode, NewNode, NewLeaves>>
  BY NodesFixed DEF OnlyTask
<1>7. EntryOf(t)'
  <2>1. /\ e.idx = idx /\ e.left = NewNode[0][2 * p] /\ e.right = NewNode[0][2 * p + 1]
        /\ e.prev_left = OldNode[0][2 * p] /\ e.prev_right = OldNode[0][2 * p + 1]
    BY <1>3, <1>4
  <2> HIDE DEF e
  <2> QED BY <1>1, <1>5, <1>6, <2>1 DEF EntryOf
<1>8. \A q : Written(q)' <=> Written(q) \/ q = p
  <2>1. ASSUME NEW k \in Positions(t) PROVE Wrote(t, k)' <=> Wrote(t, k) \/ k = task[t].pos
    <3>1. order' = order /\ order[task[t].pos] = idx
      BY <1>1, ReadsFacts DEF OnlyTask
    <3> HIDE DEF e
    <3> QED BY <1>1, <1>5, <3>1 DEF Wrote, Holding
  <2>2. task[t].pos \in Positions(t)
    BY <1>1, ReadsFacts
  <2> QED BY <1>2, <2>1, <2>2, WrittenMore
<1>9. \A j \in Nat : nth_leaf_node(j)' = IF j = 2 * p \/ j = 2 * p + 1 THEN NewLeaves[j]
                                         ELSE nth_leaf_node(j)
  <2>1. Vector(leaf_nodes)
    BY DEF ShapeInv, TreeShape
  <2>2. /\ Vector(l)
        /\ \A j \in Nat : Get(l, j, get_zero_hash(0)) =
                            IF j = 2 * p THEN NewLeaves[j] ELSE nth_leaf_node(j)
    <3>1. CASE idx - 1 \in DOMAIN hashes
      BY <1>2, <1>4, <2>1, <3>1, LeafWrite DEF nth_leaf_node
    <3>2. CASE idx - 1 \notin DOMAIN hashes
      BY <1>2, <1>3, <1>4, <2>1, <3>2 DEF nth_leaf_node
    <3> QED BY <3>1, <3>2
  <2>3. leaf_nodes' = update_leaf_node(l, hashes[idx], idx)
    BY <1>1
  <2> HIDE DEF l, p
  <2> QED BY <1>2, <1>4, <2>2, <2>3, LeafWrite DEF nth_leaf_node
<1>10. LeavesInv'
  <2>1. ASSUME NEW q \in Places(1), NEW j \in {2 * q, 2 * q + 1}
        PROVE  nth_leaf_node(j)' = IF Written(q)' THEN NewLeaves[j] ELSE before.leaves[j]
    <3>1. q \in Nat /\ j \in Nat /\ (q # p => j # 2 * p /\ j # 2 * p + 1)
      BY <1>2 DEF Places
    <3>2. nth_leaf_node(j) = IF Written(q) THEN NewLeaves[j] ELSE before.leaves[j]
      BY <1>1 DEF BatchInv, LeavesInv
    <3> HIDE DEF p
    <3> QED BY <1>8, <1>9, <3>1, <3>2
  <2> QED BY <1>1, <1>6, <2>1 DEF LeavesInv
<1> QED BY <1>1, <1>5, <1>7, <1>10, TakeContent

\* Above the leaves, a task takes four nodes of the row below its parent.
LEMMA TakeAbove ==
  ASSUME ShapeInv, BatchInv, NEW t \in DOMAIN task, OnlyTask(t), NEW idx \in DOMAIN hashes,
         Reads(t, idx), ~ Skipped(idx), row > 0, leaf_nodes' = leaf_nodes,
         NEW e, Take(t, e), e.idx = idx,
         e.left = NewNode[row][2 * Parent(idx)],
         e.right = NewNode[row][2 * Parent(idx) + 1],
         e.prev_left = OldNode[row][2 * Parent(idx)],
         e.prev_right = OldNode[row][2 * Parent(idx) + 1]
  PROVE  BatchInv'
<1>1. /\ task'[t].pc = "update" /\ task'[t].entry = e
      /\ task[t].pc = "read"
  <2>1. DOMAIN task[t] = {"pos", "pc", "entry", "found"} /\ task[t].pc = "read"
    BY DEF ShapeInv, RowShape, TaskShape, Reads, At
  <2> QED BY <2>1 DEF Take
<1>2. UNCHANGED <<row, before, OldNode, NewNode, NewLeaves>>
  BY NodesFixed DEF OnlyTask
<1>3. EntryOf(t)'
  BY <1>1, <1>2 DEF EntryOf
<1>4. LeavesInv'
  <2>1. row # 0
    BY DEF ShapeInv, RowShape
  <2> QED BY <1>2, <2>1 DEF BatchInv, LeavesInv, nth_leaf_node
<1> QED BY <1>1, <1>3, <1>4, TakeContent

\* In the rows above, both children are read as they are now.
LEMMA ReadNextContent ==
  ASSUME ShapeInv, BatchInv, NEW t \in DOMAIN task, OnlyTask(t),
         ReadNextLeft(t) \/ ReadNextRight(t)
  PROVE  BatchInv'
<1>1. ASSUME row > 0
      PROVE  /\ \A j \in Places(row) : ith_inner_node(row, j) = NewNode[row][j]
             /\ \A j \in DOMAIN hashes : hashes[j] = OldNode[row][j]
             /\ \A j \in Places(row) \ DOMAIN hashes : OldNode[row][j] = NewNode[row][j]
  <2>1. row \in 1..row
    BY <1>1 DEF ShapeInv, RowShape
  <2> QED BY <1>1, <2>1 DEF BatchInv, RowInv, NodesInv
<1>2. CASE ReadNextLeft(t)
  <2>1. PICK idx \in DOMAIN hashes :
          /\ Reads(t, idx) /\ row > 0 /\ IsLeft(idx) /\ idx + 1 \notin DOMAIN hashes
          /\ Take(t, [idx |-> idx,
                      left |-> ith_inner_node(row, idx), right |-> ith_inner_node(row, idx + 1),
                      prev_left |-> hashes[idx], prev_right |-> ith_inner_node(row, idx + 1),
                      prev_res |-> Zero])
          /\ UNCHANGED leaf_nodes
    BY <1>2 DEF ReadNextLeft
  <2> DEFINE e == [idx |-> idx,
                   left |-> ith_inner_node(row, idx), right |-> ith_inner_node(row, idx + 1),
                   prev_left |-> hashes[idx], prev_right |-> ith_inner_node(row, idx + 1),
                   prev_res |-> Zero]
             p == Parent(idx)
  <2>2. ~ Skipped(idx)
    BY <2>1 DEF Skipped
  <2>3. idx = 2 * p /\ 2 * p \in Places(row) /\ 2 * p + 1 \in Places(row)
    BY <2>1, <2>2, ReadsOwnParent
  <2>4. /\ e.idx = idx /\ e.left = NewNode[row][2 * p] /\ e.right = NewNode[row][2 * p + 1]
        /\ e.prev_left = OldNode[row][2 * p] /\ e.prev_right = OldNode[row][2 * p + 1]
    BY <1>1, <2>1, <2>3
  <2>5. Take(t, e)
    BY <2>1
  <2> HIDE DEF e
  <2> QED BY <2>1, <2>2, <2>4, <2>5, TakeAbove
<1>3. CASE ReadNextRight(t)
  <2>1. PICK idx \in DOMAIN hashes :
          /\ Reads(t, idx) /\ row > 0 /\ ~ IsLeft(idx)
          /\ Take(t, [idx |-> idx,
                      left |-> ith_inner_node(row, idx - 1), right |-> ith_inner_node(row, idx),
                      prev_left |-> PrevLeftSibling(idx), prev_right |-> hashes[idx],
                      prev_res |-> Zero])
          /\ UNCHANGED leaf_nodes
    BY <1>3 DEF ReadNextRight
  <2> DEFINE e == [idx |-> idx,
                   left |-> ith_inner_node(row, idx - 1), right |-> ith_inner_node(row, idx),
                   prev_left |-> PrevLeftSibling(idx), prev_right |-> hashes[idx],
                   prev_res |-> Zero]
             p == Parent(idx)
  <2>2. ~ Skipped(idx)
    BY <2>1 DEF Skipped
  <2>3. /\ idx = 2 * p + 1 /\ idx - 1 = 2 * p
        /\ 2 * p \in Places(row) /\ 2 * p + 1 \in Places(row)
    BY <2>1, <2>2, ReadsOwnParent
  <2>4. PrevLeftSibling(idx) = OldNode[row][2 * p]
    BY <1>1, <2>1, <2>3 DEF PrevLeftSibling
  <2>5. /\ e.idx = idx /\ e.left = NewNode[row][2 * p] /\ e.right = NewNode[row][2 * p + 1]
        /\ e.prev_left = OldNode[row][2 * p] /\ e.prev_right = OldNode[row][2 * p + 1]
    BY <1>1, <2>1, <2>3, <2>4
  <2>6. Take(t, e)
    BY <2>1
  <2> HIDE DEF e
  <2> QED BY <2>1, <2>2, <2>5, <2>6, TakeAbove
<1> QED BY <1>2, <1>3

\* Every step of a task keeps the content.
LEMMA TaskStepContent ==
  ASSUME Shift = 0, ShapeInv, BatchInv, NEW t \in DOMAIN task, TaskStep(t)
  PROVE  BatchInv'
<1>1. OnlyTask(t)
  BY OneTask
<1> QED BY <1>1, SkipContent, ReadFirstLeftContent, ReadFirstRightContent, ReadNextContent,
           UpdateParentContent, InsertPreimagesContent, WriteLeftLeafContent,
           MergeFoundContent DEF TaskStep

\* Whatever a task inserts into the preimage map hashes to its key.
LEMMA PreimageStep ==
  ASSUME ShapeInv, BatchInv, PreimageSound, NEW t \in DOMAIN task, TaskStep(t)
  PROVE  PreimageSound'
<1>1. CASE InsertPreimages(t)
  <2> DEFINE e == task[t].entry
             p == Parent(e.idx)
  <2>1. EntryOf(t) /\ e.prev_res = OldNode[row + 1][p] /\ p \in Places(row + 1)
    BY <1>1, HoldingFacts DEF InsertPreimages, At, BatchInv, EntryInv, EntryOf, Holding
  <2>2. row \in 0..(Depth - 1)
    BY DEF ShapeInv, RowShape
  <2>3. e.prev_res = pedersen(e.prev_left, e.prev_right)
    <3> HIDE DEF e
    <3>1. OldNode[row + 1][p] = pedersen(OldNode[row][2 * p], OldNode[row][2 * p + 1])
      BY <2>1, <2>2, Nodes DEF OldNode
    <3> QED BY <2>1, <3>1 DEF EntryOf, e
  <2>4. preimage' = WithPreimages(e)
    BY <1>1 DEF InsertPreimages
  <2> HIDE DEF e
  <2> QED BY <2>3, <2>4 DEF PreimageSound, WithPreimages, Insert
<1>2. CASE ~ InsertPreimages(t)
  <2>1. UNCHANGED preimage
    BY <1>2 DEF TaskStep, Skip, ReadFirstLeft, ReadFirstRight, ReadNextLeft, ReadNextRight,
                Take, UpdateParent, WriteLeftLeaf, MergeFound
  <2> QED BY <2>1 DEF PreimageSound
<1> QED BY <1>1, <1>2

-----------------------------------------------------------------------------
(***************************************************************************)
(* The steps between the rows.                                             *)
(***************************************************************************)
\* The tasks of a new row have replaced nothing.
LEMMA StartRowFresh ==
  ASSUME NEW r \in 0..(Depth - 1), NEW map, DOMAIN map \subseteq Places(r),
         StartRow(r, map)
  PROVE  /\ row' = r /\ hashes' = map
         /\ \A p : ~ Updated(p)' /\ ~ Written(p)'
         /\ FoundInv' /\ EntryInv'
<1>1. row' = r /\ hashes' = map /\ task' = NewTasks(map) /\ next_row' = EmptyMap
  BY DEF StartRow
<1>2. ASSUME NEW t \in DOMAIN task'
      PROVE  /\ task'[t].pc = "read" /\ task'[t].pos = (t - 1) * Stride + 1
             /\ DOMAIN task'[t].found = {}
  BY <1>1 DEF NewTasks, EmptyMap
<1>3. ASSUME NEW t \in DOMAIN task', NEW k \in Positions(t)'
      PROVE  ~ Marks(t, k)' /\ ~ Wrote(t, k)'
  <2>1. (t - 1) * Stride \in Nat
    <3>1. r \in 0..Depth /\ order' \in Orders(map) /\ t \in Tasks(map)
      BY <1>1, TreeAssumption DEF StartRow, NewTasks
    <3>2. Cardinality(DOMAIN map) \in Nat
      BY <3>1, OrderFacts
    <3> QED BY <3>1, <3>2, ChunkBegins DEF Tasks
  <2>2. k \in Nat /\ (t - 1) * Stride + 1 <= k
    BY <2>1 DEF Positions
  <2> QED BY <1>2, <2>1, <2>2 DEF Marks, Wrote, Holding
<1>4. \A p : ~ Updated(p)' /\ ~ Written(p)' /\ \A t \in DOMAIN task' : ~ UpdatedBy(t, p)'
  BY <1>3 DEF Updated, UpdatedBy, Written
<1>5. DOMAIN next_row' = {}
  BY <1>1 DEF EmptyMap
<1>6. FoundInv'
  BY <1>2, <1>4, <1>5 DEF FoundInv
<1>7. EntryInv'
  BY <1>2 DEF EntryInv, Holding
<1> QED BY <1>1, <1>4, <1>6, <1>7

\* When the tasks of a row have ended, the parents of all its updates are
\* replaced, and next_row holds exactly them.
LEMMA RowDoneFacts ==
  ASSUME ShapeInv, BatchInv, RowDone
  PROVE  /\ \A p \in Places(row + 1) : p \in DOMAIN next_row <=> Updated(p)
         /\ \A p \in Places(row + 1) : Updated(p) <=> \E idx \in DOMAIN hashes : Parent(idx) = p
         /\ \A p \in Places(row + 1) : Written(p) <=> Updated(p)
         /\ \A p \in Places(row + 1) : p \in DOMAIN next_row => next_row[p] = OldNode[row + 1][p]
         /\ \A p \in Places(row + 1) : ~ Updated(p) => OldNode[row + 1][p] = NewNode[row + 1][p]
         /\ \A p \in Places(row + 1) : ith_inner_node(row + 1, p) = NewNode[row + 1][p]
         /\ DOMAIN next_row # {}
<1>1. \A t \in DOMAIN task : task[t].pc = "done"
  BY DEF RowDone
<1>2. ASSUME NEW t \in DOMAIN task, NEW k \in Positions(t) PROVE Marks(t, k) /\ Wrote(t, k)
  <2>1. task[t].pos = LastOf(t) + 1
    BY <1>1 DEF ShapeInv, RowShape, TaskShape
  <2>2. LastOf(t) \in Nat /\ (t - 1) * Stride \in Nat
    BY PositionFacts
  <2>3. k \in Nat /\ k <= LastOf(t)
    BY <2>2 DEF Positions
  <2> QED BY <2>1, <2>2, <2>3 DEF Marks, Wrote
<1>3. \A p \in Places(row + 1) : p \in DOMAIN next_row <=> Updated(p)
  BY <1>1 DEF BatchInv, FoundInv, Updated
<1>4. \A p : Updated(p) <=> \E idx \in DOMAIN hashes : Parent(idx) = p
  <2>1. \A p : Updated(p) <=> \E t \in DOMAIN task : \E k \in Positions(t) : Handles(t, k, p)
    BY <1>2 DEF Updated, UpdatedBy
  <2>2. \A p : (\E t \in DOMAIN task : \E k \in Positions(t) : Handles(t, k, p)) =>
                 \E idx \in DOMAIN hashes : Parent(idx) = p
    BY HandledIsParent
  <2> QED BY <2>1, <2>2, EveryParentHandled
<1>5. \A p : Written(p) <=> Updated(p)
  BY <1>2 DEF Written, Updated, UpdatedBy
<1>6. row \in 0..(Depth - 1) /\ DOMAIN hashes \subseteq Places(row)
  BY DEF ShapeInv, RowShape
<1>7. ASSUME NEW p \in Places(row + 1), ~ Updated(p)
      PROVE  OldNode[row + 1][p] = NewNode[row + 1][p]
  <2>1. 2 * p \in Places(row) /\ 2 * p + 1 \in Places(row)
    BY <1>6, Children
  <2>2. Parent(2 * p) = p /\ Parent(2 * p + 1) = p
    BY Widths, <1>6 DEF Parent, Places
  <2>3. 2 * p \notin DOMAIN hashes /\ 2 * p + 1 \notin DOMAIN hashes
    BY <1>4, <1>7, <2>2
  <2>4. OldNode[row][2 * p] = NewNode[row][2 * p] /\ OldNode[row][2 * p + 1] = NewNode[row][2 * p + 1]
    BY <2>1, <2>3 DEF BatchInv, RowInv
  <2>5. OldNode[row + 1][p] = pedersen(OldNode[row][2 * p], OldNode[row][2 * p + 1])
    BY <1>6, Nodes DEF OldNode
  <2>6. NewNode[row + 1][p] = pedersen(NewNode[row][2 * p], NewNode[row][2 * p + 1])
    BY <1>6, Nodes DEF NewNode
  <2> QED BY <2>4, <2>5, <2>6
<1>8. \A p \in Places(row + 1) : ith_inner_node(row + 1, p) = NewNode[row + 1][p]
  BY <1>7 DEF BatchInv, NodesInv
<1>9. DOMAIN next_row # {}
  <2>1. PICK idx \in DOMAIN hashes : TRUE
    BY DEF BatchInv, RowInv
  <2>2. Parent(idx) \in Places(row + 1)
    BY <1>6, Children
  <2> QED BY <1>3, <1>4, <2>2
<1> QED BY <1>3, <1>4, <1>5, <1>7, <1>8, <1>9 DEF BatchInv, FoundInv

\* When the first row is done, or in any row above it, the leaves are new.
LEMMA LeavesDone ==
  ASSUME ShapeInv, BatchInv, row > 0 \/ RowDone
  PROVE  /\ \A j \in LeafIndexes : nth_leaf_node(j) = NewLeaves[j]
         /\ CurrentLeaves = NewLeaves
<1>1. \A j \in LeafIndexes : nth_leaf_node(j) = NewLeaves[j]
  <2>1. CASE row > 0
    BY <2>1 DEF BatchInv, LeavesInv
  <2>2. CASE row = 0 /\ RowDone
    <3> SUFFICES ASSUME NEW j \in LeafIndexes PROVE nth_leaf_node(j) = NewLeaves[j]
      OBVIOUS
    <3> DEFINE p == Parent(j)
    <3>1. 0 \in 0..(Depth - 1) /\ 0 + 1 = 1
      BY TreeAssumption
    <3>2. j \in Places(0) /\ p \in Places(1) /\ (j = 2 * p \/ j = 2 * p + 1)
      BY <2>2, <3>1, FirstRow, Children
    <3>3. nth_leaf_node(j) = IF Written(p) THEN NewLeaves[j] ELSE before.leaves[j]
      BY <2>2, <3>2 DEF BatchInv, LeavesInv
    <3>4. ~ Written(p) => j \notin DOMAIN hashes
      BY <2>2, <3>1, <3>2, RowDoneFacts
    <3> QED BY <2>2, <3>3, <3>4, FirstRow
  <2>3. row > 0 \/ row = 0
    BY DEF ShapeInv, RowShape
  <2> QED BY <2>1, <2>2, <2>3
<1>2. NewLeaves = [j \in LeafIndexes |-> NewLeaves[j]]
  BY DEF NewLeaves, Commitment!Apply, Commitment!LeafIndexes, LeafIndexes
<1> QED BY <1>1, <1>2 DEF CurrentLeaves

\* When every task of a row is done, the row is finished.
LEMMA NextRowContent ==
  ASSUME ShapeInv, BatchInv, NextRow
  PROVE  BatchInv'
<1>1. /\ RowDone /\ StartRow(row + 1, next_row)
      /\ UNCHANGED <<leaf_nodes, inner_nodes, root, before>>
  BY DEF NextRow, tree
<1>2. /\ row \in 0..(Depth - 1) /\ row + 1 \in 0..(Depth - 1)
      /\ DOMAIN next_row \subseteq Places(row + 1)
  BY TreeAssumption DEF NextRow, ShapeInv, RowShape
<1>3. /\ row' = row + 1 /\ hashes' = next_row
      /\ \A p : ~ Updated(p)' /\ ~ Written(p)'
      /\ FoundInv' /\ EntryInv'
  BY <1>1, <1>2, StartRowFresh
<1>4. UNCHANGED <<OldNode, NewNode, NewLeaves>>
  BY <1>1, NodesFixed
<1>5. RowInv'
  <2>1. \A j \in DOMAIN next_row : next_row[j] = OldNode[row + 1][j]
    BY <1>1, <1>2, RowDoneFacts
  <2>2. \A j \in Places(row + 1) \ DOMAIN next_row : OldNode[row + 1][j] = NewNode[row + 1][j]
    BY <1>1, RowDoneFacts
  <2>3. DOMAIN next_row # {} /\ row + 1 # 0
    BY <1>1, <1>2, RowDoneFacts
  <2> QED BY <1>1, <1>3, <1>4, <2>1, <2>2, <2>3 DEF BatchInv, RowInv
<1>6. LeavesInv'
  <2>1. \A j \in LeafIndexes : nth_leaf_node(j)' = NewLeaves[j]
    BY <1>1, LeavesDone DEF nth_leaf_node
  <2>2. row + 1 # 0
    BY <1>2
  <2> QED BY <1>3, <1>4, <2>1, <2>2 DEF LeavesInv
<1>7. NodesInv'
  <2>1. \A i, j : ith_inner_node(i, j)' = ith_inner_node(i, j)
    BY <1>1 DEF ith_inner_node
  <2>2. ASSUME NEW i \in 1..(row + 1), NEW j \in Places(i) PROVE ith_inner_node(i, j) = NewNode[i][j]
    <3>1. CASE i = row + 1
      BY <1>1, <2>2, <3>1, RowDoneFacts
    <3>2. CASE i # row + 1
      <4>1. i \in 1..row
        BY <1>2, <3>2
      <4> QED BY <2>2, <4>1 DEF BatchInv, NodesInv
    <3> QED BY <3>1, <3>2
  <2>3. ASSUME NEW i \in (row + 2)..Depth, NEW j \in Places(i)
        PROVE  ith_inner_node(i, j) = OldNode[i][j]
    BY DEF BatchInv, NodesInv
  <2>4. /\ \A i \in (row + 3)..Depth : i \in (row + 2)..Depth
        /\ row + 2 \in (row + 2)..Depth /\ (row + 1) + 1 = row + 2 /\ (row + 1) + 2 = row + 3
    BY <1>2, TreeAssumption
  <2> QED BY <1>3, <1>4, <2>1, <2>2, <2>3, <2>4 DEF NodesInv
<1> QED BY <1>3, <1>5, <1>6, <1>7 DEF BatchInv

\* After the last row the whole tree is.
LEMMA EndBatchContent ==
  ASSUME ShapeInv, BatchInv, EndBatch
  PROVE  /\ RestInv'
         /\ CurrentLeaves' = NewLeaves
         /\ root' = Commitment!NodesOf(NewLeaves)[Depth][0]
<1>1. /\ RowDone /\ row + 1 = Depth /\ root' = inner_nodes[Depth][1]
      /\ UNCHANGED <<leaf_nodes, inner_nodes>>
  BY DEF EndBatch
<1>2. row \in 0..(Depth - 1)
  BY DEF ShapeInv, RowShape
<1>3. CurrentLeaves' = NewLeaves
  <2>1. CurrentLeaves' = CurrentLeaves
    BY <1>1 DEF CurrentLeaves, nth_leaf_node
  <2> QED BY <1>1, <2>1, LeavesDone
<1>4. ASSUME NEW i \in 1..Depth, NEW j \in Places(i) PROVE ith_inner_node(i, j)' = NewNode[i][j]
  <2>1. ith_inner_node(i, j)' = ith_inner_node(i, j)
    BY <1>1 DEF ith_inner_node
  <2>2. CASE i = row + 1
    BY <1>1, <1>4, <2>1, <2>2, RowDoneFacts
  <2>3. CASE i # row + 1
    <3>1. i \in 1..row
      BY <1>1, <1>2, <2>3, TreeAssumption
    <3> QED BY <1>4, <2>1, <3>1 DEF BatchInv, NodesInv
  <2> QED BY <2>2, <2>3
<1>5. root' = NewNode[Depth][0]
  <2>1. Places(Depth) = {0}
    BY Widths DEF Places
  <2>2. PICK p \in Places(row + 1) : Updated(p)
    <3>1. DOMAIN next_row \subseteq Places(row + 1)
      BY DEF ShapeInv, RowShape
    <3> QED BY <1>1, <3>1, RowDoneFacts
  <2>3. p = 0 /\ 0 < Len(inner_nodes[Depth])
    BY <1>1, <2>1, <2>2 DEF BatchInv, NodesInv
  <2>4. ith_inner_node(Depth, 0) = inner_nodes[Depth][1]
    BY <2>3 DEF ith_inner_node, Get
  <2>5. ith_inner_node(Depth, 0) = NewNode[Depth][0]
    BY <1>1, <2>1, RowDoneFacts
  <2> QED BY <1>1, <2>4, <2>5
<1> QED BY <1>3, <1>4, <1>5 DEF RestInv, NewNode

\* The tree over leaves that were never written is made of zero hashes.
LEMMA EmptyTree ==
  ASSUME NEW i \in 0..Depth, NEW j \in Places(i)
  PROVE  Commitment!NodesOf(Commitment!NoLeaves)[i][j] = get_zero_hash(i)
<1> DEFINE node == Commitment!NodesOf(Commitment!NoLeaves)
           S == {m \in 0..Depth : ~ \A k \in Places(m) : node[m][k] = get_zero_hash(m)}
<1> SUFFICES S = {}
  OBVIOUS
<1> SUFFICES ASSUME S # {} PROVE FALSE
  OBVIOUS
<1>1. S \in SUBSET Nat
  BY TreeAssumption
<1>2. PICK m \in S : \A k \in S : m <= k
  BY <1>1, LeastElement
<1>3. CASE m = 0
  <2>1. node[0] = [k \in 0..(2 ^ Depth - 1) |-> get_zero_hash(0)]
    BY Nodes DEF Commitment!NoLeaves, Commitment!LeafIndexes
  <2>2. Depth - 0 = Depth
    BY TreeAssumption
  <2> HIDE DEF node
  <2> QED BY <1>2, <1>3, <2>1, <2>2 DEF Places, Width
<1>4. CASE m # 0
  <2>1. m - 1 \in 0..(Depth - 1) /\ (m - 1) + 1 = m /\ m \in 1..Depth /\ m - 1 \in 0..Depth
    BY <1>2, <1>4, TreeAssumption
  <2>2. m - 1 \notin S
    BY <1>2, <2>1
  <2>3. ASSUME NEW k \in Places(m) PROVE node[m][k] = get_zero_hash(m)
    <3>1. 2 * k \in Places(m - 1) /\ 2 * k + 1 \in Places(m - 1)
      BY <2>1, Children
    <3>2. node[m][k] = pedersen(node[m - 1][2 * k], node[m - 1][2 * k + 1])
      BY <2>1, Nodes
    <3>3. node[m - 1][2 * k] = get_zero_hash(m - 1) /\ node[m - 1][2 * k + 1] = get_zero_hash(m - 1)
      BY <2>1, <2>2, <3>1
    <3> QED BY <2>1, <3>2, <3>3, ZeroHashes
  <2> QED BY <1>2, <2>3
<1> QED BY <1>3, <1>4

\* The content at the start.
LEMMA InitContent ==
  ASSUME Init
  PROVE  RestInv /\ PreimageSound /\ CurrentLeaves = Commitment!NoLeaves
<1>1. \A j \in LeafIndexes : nth_leaf_node(j) = get_zero_hash(0)
  <2>1. \A j \in LeafIndexes : j >= 0
    BY DEF LeafIndexes
  <2> QED BY <2>1 DEF Init, nth_leaf_node, Get, LeafIndexes
<1>2. CurrentLeaves = Commitment!NoLeaves
  BY <1>1 DEF CurrentLeaves, LeafIndexes, Commitment!NoLeaves, Commitment!LeafIndexes
<1>3. ASSUME NEW i \in 1..Depth, NEW j \in Places(i)
      PROVE  ith_inner_node(i, j) = Commitment!NodesOf(CurrentLeaves)[i][j]
  <2>1. i \in 0..Depth /\ ~ (j < Len(<<>>))
    BY TreeAssumption DEF Places
  <2>2. inner_nodes[i] = <<>>
    BY DEF Init
  <2>3. ith_inner_node(i, j) = get_zero_hash(i)
    BY <2>1, <2>2 DEF ith_inner_node, Get
  <2> QED BY <1>2, <2>1, <2>3, EmptyTree
<1>4. root = Commitment!NodesOf(CurrentLeaves)[Depth][0]
  <2>1. Depth \in 0..Depth /\ 0 \in Places(Depth)
    BY TreeAssumption, Widths DEF Places
  <2> QED BY <1>2, <2>1, EmptyTree DEF Init
<1>5. PreimageSound
  BY DEF Init, PreimageSound
<1> QED BY <1>2, <1>3, <1>4, <1>5 DEF RestInv

\* A batch begins over a finished tree.
LEMMA BeginBatchContent ==
  ASSUME ShapeInv, RestInv, NEW b \in Batches, BeginBatch(b)
  PROVE  BatchInv' /\ PreimageSound' /\ before'.leaves = CurrentLeaves
<1>1. /\ StartRow(0, b) /\ DOMAIN b # {} /\ before'.batch = b
      /\ before'.root = root /\ preimage' = [k \in {} |-> <<Zero, Zero>>]
      /\ UNCHANGED <<leaf_nodes, inner_nodes, root>>
  BY DEF BeginBatch, tree
<1>2. before'.leaves = CurrentLeaves
  BY DEF BeginBatch, CurrentLeaves, LeafIndexes
<1>3. /\ OldNode' = Commitment!NodesOf(CurrentLeaves)
      /\ NewLeaves' = Commitment!Apply(b, CurrentLeaves)
      /\ NewNode' = Commitment!NodesOf(NewLeaves')
  BY <1>1, <1>2 DEF OldNode, NewLeaves, NewNode
<1>4. 0 \in 0..(Depth - 1) /\ Depth - 0 = Depth /\ LeafIndexes = Places(0)
  <2>1. 0 \in 0..(Depth - 1) /\ Depth - 0 = Depth
    BY TreeAssumption
  <2> QED BY <2>1 DEF LeafIndexes, Places, Width
<1>5. DOMAIN b \subseteq Places(0)
  BY <1>4, BatchUpdateAssumption DEF Places, Width
<1>6. /\ row' = 0 /\ hashes' = b
      /\ \A p : ~ Updated(p)' /\ ~ Written(p)'
      /\ FoundInv' /\ EntryInv'
  BY <1>1, <1>4, <1>5, StartRowFresh
<1>7. RowInv'
  <2>1. OldNode'[0] = CurrentLeaves /\ NewNode'[0] = NewLeaves'
    BY <1>3, Nodes
  <2>2. \A j \in Places(0) \ DOMAIN b : OldNode'[0][j] = NewNode'[0][j]
    BY <1>3, <1>4, <2>1 DEF Commitment!Apply, Commitment!LeafIndexes, LeafIndexes
  <2>3. before'.leaves = [j \in LeafIndexes |-> before'.leaves[j]]
    BY <1>2 DEF CurrentLeaves
  <2>4. root' = OldNode'[Depth][0]
    BY <1>1, <1>3 DEF RestInv
  <2> QED BY <1>1, <1>6, <2>2, <2>3, <2>4 DEF RowInv
<1>8. LeavesInv'
  <2>1. ASSUME NEW p \in Places(1), NEW j \in {2 * p, 2 * p + 1}
        PROVE  nth_leaf_node(j)' = before'.leaves[j]
    <3>1. 0 + 1 = 1 /\ j \in LeafIndexes
      BY <1>4, Children
    <3>2. nth_leaf_node(j)' = nth_leaf_node(j)
      BY <1>1 DEF nth_leaf_node
    <3> QED BY <1>2, <3>1, <3>2 DEF CurrentLeaves
  <2> QED BY <1>6, <2>1 DEF LeavesInv
<1>9. NodesInv'
  <2>1. \A i, j : ith_inner_node(i, j)' = ith_inner_node(i, j)
    BY <1>1 DEF ith_inner_node
  <2>2. \A i \in 1..Depth : \A j \in Places(i) : ith_inner_node(i, j) = OldNode'[i][j]
    BY <1>3 DEF RestInv
  <2>3. /\ 1..0 = {} /\ 0 + 1 = 1 /\ 0 + 2 = 2
        /\ 1 \in 1..Depth /\ \A i \in 2..Depth : i \in 1..Depth
    BY TreeAssumption
  <2> QED BY <1>6, <2>1, <2>2, <2>3 DEF NodesInv
<1>10. PreimageSound'
  BY <1>1 DEF PreimageSound
<1> QED BY <1>2, <1>6, <1>7, <1>8, <1>9, <1>10 DEF BatchInv

-----------------------------------------------------------------------------
(***************************************************************************)
(* The invariant, and what it says.  The table of zero hashes starts at    *)
(* its first entry: update_leaf_node pads with zero, so that with a shift  *)
(* a leaf below the first one written reads as zero, and not as the zero   *)
(* hash that the tree was committed to.                                    *)
(***************************************************************************)
LEMMA TreeInvStep ==
  ASSUME Shift = 0, TreeInv, [Next]_vars
  PROVE  TreeInv'
<1>1. ShapeInv'
  BY TaskStepShape, RowStepShape, StutterShape DEF Next, TreeInv
<1>2. CASE \E b \in Batches : BeginBatch(b)
  BY <1>1, <1>2, BeginBatchContent DEF TreeInv, BeginBatch
<1>3. CASE \E t \in DOMAIN task : TaskStep(t)
  <2>1. PICK t \in DOMAIN task : TaskStep(t)
    BY <1>3
  <2>2. busy /\ busy' = busy
    BY <2>1, OneTask DEF OnlyTask, TaskStep, Skip, ReadFirstLeft, ReadFirstRight, ReadNextLeft,
       ReadNextRight, Reads, UpdateParent, InsertPreimages, WriteLeftLeaf, MergeFound, At, TreeInv
  <2> QED BY <1>1, <2>1, <2>2, TaskStepContent, PreimageStep DEF TreeInv
<1>4. CASE NextRow
  <2>1. busy /\ busy' = busy /\ preimage' = preimage
    BY <1>4 DEF NextRow, RowDone
  <2>2. BatchInv'
    BY <1>4, <2>1, NextRowContent DEF TreeInv
  <2> QED BY <1>1, <2>1, <2>2 DEF TreeInv, PreimageSound
<1>5. CASE EndBatch
  <2>1. busy /\ ~ busy' /\ preimage' = preimage
    BY <1>5 DEF EndBatch, RowDone
  <2>2. RestInv'
    BY <1>5, <2>1, EndBatchContent DEF TreeInv
  <2> QED BY <1>1, <2>1, <2>2 DEF TreeInv, PreimageSound
<1>6. CASE UNCHANGED vars
  <2>1. UNCHANGED <<leaf_nodes, inner_nodes, root, busy, row, hashes, order, task, next_row,
                    preimage, before>>
    BY <1>6 DEF vars, tree
  <2>2. UNCHANGED <<OldNode, NewLeaves, NewNode, CurrentLeaves>>
    BY <2>1, NodesFixed DEF CurrentLeaves, nth_leaf_node
  <2>3. /\ \A p : Updated(p)' = Updated(p) /\ Written(p)' = Written(p)
        /\ \A t, p : UpdatedBy(t, p)' = UpdatedBy(t, p)
    BY <2>1 DEF Updated, UpdatedBy, Written, Handles, Marks, Wrote, Skipped, Positions, LastOf
  <2>4. /\ \A i, j : ith_inner_node(i, j)' = ith_inner_node(i, j)
        /\ \A j : nth_leaf_node(j)' = nth_leaf_node(j)
    BY <2>1 DEF ith_inner_node, nth_leaf_node
  <2>5. RestInv => RestInv'
    BY <2>1, <2>2, <2>4 DEF RestInv
  <2>6. BatchInv => BatchInv'
    <3> SUFFICES ASSUME BatchInv PROVE BatchInv'
      OBVIOUS
    <3>1. RowInv'
      BY <2>1, <2>2 DEF BatchInv, RowInv
    <3>2. LeavesInv'
      BY <2>1, <2>2, <2>3, <2>4 DEF BatchInv, LeavesInv
    <3>3. NodesInv'
      BY <2>1, <2>2, <2>3, <2>4 DEF BatchInv, NodesInv
    <3>4. FoundInv'
      BY <2>1, <2>2, <2>3 DEF BatchInv, FoundInv
    <3>5. EntryInv'
      BY <2>1, <2>2 DEF BatchInv, EntryInv
    <3> QED BY <3>1, <3>2, <3>3, <3>4, <3>5 DEF BatchInv
  <2> QED BY <1>1, <2>1, <2>5, <2>6 DEF TreeInv, PreimageSound
<1> QED BY <1>2, <1>3, <1>4, <1>5, <1>6 DEF Next

\* Shape and content hold in every state.
LEMMA TreeInvariant ==
  ASSUME Shift = 0
  PROVE  Spec => []TreeInv
<1>1. Init => TreeInv
  BY InitShape, InitContent DEF TreeInv, Init
<1>2. TreeInv /\ [Next]_vars => TreeInv'
  BY TreeInvStep
<1> QED BY <1>1, <1>2, PTL DEF Spec

(***************************************************************************)
(* The parallel update of a row is the update of the abstract tree, for    *)
(* every depth, chunk size and batch and whatever the tasks' interleaving. *)
(***************************************************************************)
THEOREM RowsAlwaysAgree ==
  ASSUME Shift = 0
  PROVE  Spec => []RowsAgree
<1>1. TreeInv => RowsAgree
  <2> SUFFICES ASSUME TreeInv,
                      NEW i \in 1..(IF ~busy THEN Depth ELSE IF RowDone THEN row + 1 ELSE row),
                      NEW j \in Places(i)
               PROVE  ith_inner_node(i, j) = Commitment!NodesOf(CurrentLeaves)[i][j]
    BY DEF RowsAgree, Places, Width
  <2>1. CASE ~ busy
    BY <2>1 DEF TreeInv, RestInv
  <2>2. CASE busy
    <3>1. row \in 0..(Depth - 1)
      BY DEF TreeInv, ShapeInv, RowShape
    <3>2. row > 0 \/ RowDone
      BY <2>2, <3>1
    <3>3. CurrentLeaves = NewLeaves
      BY <2>2, <3>2, LeavesDone DEF TreeInv
    <3>4. CASE i \in 1..row
      BY <2>2, <3>3, <3>4 DEF TreeInv, BatchInv, NodesInv, NewNode
    <3>5. CASE i = row + 1 /\ RowDone
      BY <2>2, <3>3, <3>5, RowDoneFacts DEF TreeInv, NewNode
    <3>6. i \in 1..row \/ (i = row + 1 /\ RowDone)
      BY <2>2, <3>1
    <3> QED BY <3>4, <3>5, <3>6
  <2> QED BY <2>1, <2>2
<1> QED BY <1>1, TreeInvariant, PTL

(***************************************************************************)
(* Every entry of the preimage map hashes to its key, at every moment of   *)
(* a batch: no task pairs a replaced node with a current one.              *)
(***************************************************************************)
THEOREM PreimagesSound ==
  ASSUME Shift = 0
  PROVE  Spec => []PreimageSound
BY TreeInvariant, PTL DEF TreeInv

(***************************************************************************)
(* A batch takes effect at once: BeginBatch and every step of a task or    *)
(* between rows is a step of the tree that changes nothing, and EndBatch   *)
(* moves the root to the root of the leaves with the whole batch applied.  *)
(***************************************************************************)
THEOREM BatchesAreAtomic ==
  ASSUME Shift = 0
  PROVE  Spec => ImplementsCommitment
<1> DEFINE leaves == IF busy THEN before.leaves ELSE CurrentLeaves
<1>1. Init => Commitment!Init
  BY InitContent DEF Init, Commitment!Init, Commitment!RootOf, RestInv
<1>2. TreeInv /\ [Next]_vars => [Commitment!Update]_(Commitment!vars)
  <2> SUFFICES ASSUME TreeInv, [Next]_vars
               PROVE  Commitment!Update \/ UNCHANGED <<leaves, root>>
    BY DEF Commitment!vars
  <2>1. CASE \E b \in Batches : BeginBatch(b)
    <3>1. ~ busy /\ busy' /\ root' = root
      BY <2>1 DEF BeginBatch, tree
    <3>2. before'.leaves = CurrentLeaves
      BY <2>1, <3>1, BeginBatchContent DEF TreeInv
    <3> QED BY <3>1, <3>2
  <2>2. CASE \E t \in DOMAIN task : TaskStep(t)
    <3>1. PICK t \in DOMAIN task : TaskStep(t)
      BY <2>2
    <3>2. busy /\ UNCHANGED <<busy, before, root>>
      BY <3>1 DEF TaskStep, Skip, ReadFirstLeft, ReadFirstRight, ReadNextLeft, ReadNextRight,
         Take, Reads, UpdateParent, InsertPreimages, WriteLeftLeaf, MergeFound, At, tree
    <3> QED BY <3>2
  <2>3. CASE NextRow
    <3>1. busy /\ UNCHANGED <<busy, before, root>>
      BY <2>3 DEF NextRow, RowDone, tree
    <3> QED BY <3>1
  <2>4. CASE EndBatch
    <3>1. busy /\ ~ busy'
      BY <2>4 DEF EndBatch, RowDone
    <3>2. /\ before.batch \in Batches
          /\ leaves' = Commitment!Apply(before.batch, leaves)
          /\ root' = Commitment!RootOf(leaves')
      BY <2>4, <3>1, EndBatchContent DEF TreeInv, BatchInv, RowInv, NewLeaves, Commitment!RootOf
    <3> QED BY <3>2 DEF Commitment!Update
  <2>5. CASE UNCHANGED vars
    BY <2>5 DEF vars, tree, CurrentLeaves, nth_leaf_node
  <2> QED BY <2>1, <2>2, <2>3, <2>4, <2>5 DEF Next
<1> QED BY <1>1, <1>2, TreeInvariant, PTL DEF Spec, ImplementsCommitment, Commitment!Spec

-----------------------------------------------------------------------------
(***************************************************************************)
(* Between batches: the sequential half of the tree.                       *)
(***************************************************************************)
\* The ancestor of a leaf k levels up.
Ancestor(idx, k) == idx \div 2 ^ k

\* The ancestor one level up is the parent, and the bit of the index says
\* which of its children the path comes from.
LEMMA Ancestors ==
  ASSUME NEW idx \in LeafIndexes, NEW k \in 0..(Depth - 1)
  PROVE  /\ Ancestor(idx, 0) = idx
         /\ Ancestor(idx, k) \in Places(k) /\ Ancestor(idx, k + 1) \in Places(k + 1)
         /\ Ancestor(idx, k + 1) = Parent(Ancestor(idx, k))
<1> USE TreeAssumption
<1>1. idx \in Nat /\ idx < 2 ^ Depth
  <2>1. Depth \in Nat
    OBVIOUS
  <2> QED BY <2>1, TwoPower DEF LeafIndexes
<1>2. ASSUME NEW a \in Nat, NEW p \in Nat \ {0} PROVE a \div (2 * p) = (a \div p) \div 2
  <2> DEFINE q == a \div p
             h == q \div 2
  <2>1. q \in Nat /\ p * q <= a /\ a < p * q + p
    OBVIOUS
  <2>2. h \in Nat /\ (q = 2 * h \/ q = 2 * h + 1)
    BY <2>1
  <2>3. (2 * p) * h <= a /\ a < (2 * p) * h + 2 * p
    <3> HIDE DEF q, h
    <3>1. CASE q = 2 * h
      <4>1. p * q = (2 * p) * h
        BY <3>1, <2>2
      <4> QED BY <2>1, <2>2, <4>1
    <3>2. CASE q = 2 * h + 1
      <4>1. p * q = (2 * p) * h + p
        BY <3>2, <2>2
      <4> QED BY <2>1, <2>2, <4>1
    <3> QED BY <2>2, <3>1, <3>2
  <2>4. a \div (2 * p) = h
    <3> DEFINE d == 2 * p
    <3>1. d \in Nat \ {0} /\ d * h <= a /\ a < d * h + d
      BY <2>3
    <3> HIDE DEF d, h, q
    <3>2. a \div d \in Int /\ d * (a \div d) <= a /\ a < d * (a \div d) + d
      BY <3>1
    <3>3. a \div d = h
      <4> DEFINE e == a \div d
      <4> HIDE DEF e
      <4>1. ~ (e < h)
        <5> SUFFICES ASSUME e < h PROVE FALSE
          OBVIOUS
        <5>1. e + 1 <= h /\ d * (e + 1) <= d * h
          BY <2>2, <3>1, <3>2 DEF e
        <5>2. d * (e + 1) = d * e + d
          BY <3>1, <3>2 DEF e
        <5> QED BY <2>2, <3>1, <3>2, <5>1, <5>2 DEF e
      <4>2. ~ (h < e)
        <5> SUFFICES ASSUME h < e PROVE FALSE
          OBVIOUS
        <5>1. h + 1 <= e /\ d * (h + 1) <= d * e
          BY <2>2, <3>1, <3>2 DEF e
        <5>2. d * (h + 1) = d * h + d
          BY <2>2, <3>1
        <5> QED BY <2>2, <3>1, <3>2, <5>1, <5>2 DEF e
      <4> QED BY <2>2, <3>2, <4>1, <4>2 DEF e
    <3> QED BY <3>3 DEF d
  <2> QED BY <2>4
<1>3. ASSUME NEW i \in Nat PROVE Ancestor(idx, i + 1) = Parent(Ancestor(idx, i))
  <2>1. 2 ^ i \in Nat \ {0} /\ 2 ^ (i + 1) = 2 * 2 ^ i
    BY TwoPower
  <2> QED BY <1>1, <1>2, <2>1 DEF Ancestor, Parent
<1>4. Ancestor(idx, 0) = idx
  <2>1. 2 ^ 0 = 1
    OBVIOUS
  <2> QED BY <1>1, <2>1 DEF Ancestor
<1>5. \A i \in 0..Depth : Ancestor(idx, i) \in Places(i)
  <2> DEFINE S == {i \in 0..Depth : Ancestor(idx, i) \notin Places(i)}
  <2> SUFFICES ASSUME S # {} PROVE FALSE
    OBVIOUS
  <2>1. S \in SUBSET Nat
    OBVIOUS
  <2>2. PICK m \in S : \A i \in S : m <= i
    BY <2>1, LeastElement
  <2>3. CASE m = 0
    <3>1. Depth - 0 = Depth
      OBVIOUS
    <3> QED BY <1>4, <2>2, <2>3, <3>1 DEF LeafIndexes, Places, Width
  <2>4. CASE m # 0
    <3>1. m - 1 \in 0..(Depth - 1) /\ m - 1 \in Nat /\ (m - 1) + 1 = m /\ m - 1 \in 0..Depth
      BY <2>2, <2>4
    <3>2. Ancestor(idx, m - 1) \in Places(m - 1)
      BY <2>2, <3>1
    <3>3. Ancestor(idx, m) = Parent(Ancestor(idx, m - 1))
      BY <1>3, <3>1
    <3> QED BY <2>2, <3>1, <3>2, <3>3, Children
  <2> QED BY <2>3, <2>4
<1> QED BY <1>3, <1>4, <1>5

\* The root is above every leaf.
LEMMA LastAncestor ==
  ASSUME NEW idx \in LeafIndexes
  PROVE  Ancestor(idx, Depth) = 0
<1>1. Depth - 1 \in 0..(Depth - 1) /\ (Depth - 1) + 1 = Depth
  BY TreeAssumption
<1>2. Ancestor(idx, Depth) \in Places(Depth)
  BY <1>1, Ancestors
<1> QED BY <1>2, Widths DEF Places

HashStep(g, l, i) == pairwise_hash(IF i = 1 THEN l ELSE g[i - 1])

\* Up to every level there are rows hashed from the leaves.
LEMMA HashTables ==
  ASSUME NEW l, NEW n \in Nat
  PROVE  \E g : g = [i \in 1..n |-> HashStep(g, l, i)]
<1> DEFINE S == {m \in Nat : ~ \E g : g = [i \in 1..m |-> HashStep(g, l, i)]}
<1> SUFFICES S = {}
  OBVIOUS
<1> SUFFICES ASSUME S # {} PROVE FALSE
  OBVIOUS
<1>1. PICK m \in S : \A k \in S : m <= k
  BY LeastElement
<1>2. CASE m = 0
  <2> DEFINE g == [i \in 1..0 |-> l]
  <2>1. g = [i \in 1..0 |-> HashStep(g, l, i)]
    OBVIOUS
  <2> QED BY <1>1, <1>2, <2>1
<1>3. CASE m # 0
  <2>1. m \in Nat /\ m - 1 \in Nat /\ m - 1 \notin S
    BY <1>1, <1>3
  <2>2. PICK g : g = [i \in 1..(m - 1) |-> HashStep(g, l, i)]
    BY <2>1
  <2> DEFINE h == [i \in 1..m |-> IF i = m THEN HashStep(g, l, m) ELSE g[i]]
  <2>3. ASSUME NEW i \in 1..m PROVE h[i] = HashStep(h, l, i)
    <3>1. HashStep(h, l, i) = HashStep(g, l, i)
      <4>1. CASE i = 1
        BY <4>1 DEF HashStep
      <4>2. CASE i # 1
        <5>1. i - 1 \in 1..m /\ i - 1 # m
          BY <2>1, <4>2
        <5>2. h[i - 1] = g[i - 1]
          BY <5>1
        <5> QED BY <4>2, <5>2 DEF HashStep
      <4> QED BY <4>1, <4>2
    <3>2. CASE i = m
      BY <3>1, <3>2
    <3>3. CASE i # m
      <4>1. i \in 1..(m - 1)
        BY <2>1, <3>3
      <4>2. h[i] = g[i] /\ g[i] = HashStep(g, l, i)
        BY <2>2, <3>3, <4>1
      <4> QED BY <3>1, <4>2
    <3> QED BY <3>2, <3>3
  <2>4. h = [i \in 1..m |-> HashStep(h, l, i)]
    <3> HIDE DEF h
    <3>1. DOMAIN h = 1..m /\ h = [i \in 1..m |-> h[i]]
      BY DEF h
    <3> QED BY <2>3, <3>1
  <2> QED BY <1>1, <2>4
<1> QED BY <1>2, <1>3

\* A row of pairs is hashed pair by pair.
LEMMA PairwiseHash ==
  ASSUME NEW s, Vector(s), NEW m \in Nat, Len(s) = 2 * m
  PROVE  /\ Vector(pairwise_hash(s)) /\ Len(pairwise_hash(s)) = m
         /\ \A j \in 0..(m - 1) :
              pairwise_hash(s)[j + 1] = pedersen(s[2 * j + 1], s[(2 * j + 1) + 1])
<1> DEFINE h == pairwise_hash(s)
<1>1. Len(s) \div 2 = m
  OBVIOUS
<1>2. h = [k \in 1..m |-> pedersen(s[2 * k - 1], s[2 * k])]
  BY <1>1 DEF pairwise_hash
<1> HIDE DEF h
<1>3. DOMAIN h = 1..m /\ Len(h) = m
  BY <1>2
<1>4. ASSUME NEW j \in 0..(m - 1) PROVE h[j + 1] = pedersen(s[2 * j + 1], s[(2 * j + 1) + 1])
  <2>1. j + 1 \in 1..m /\ 2 * (j + 1) - 1 = 2 * j + 1 /\ 2 * (j + 1) = (2 * j + 1) + 1
    OBVIOUS
  <2>2. h[j + 1] = pedersen(s[2 * (j + 1) - 1], s[2 * (j + 1)])
    BY <1>2, <2>1
  <2> QED BY <2>1, <2>2
<1> QED BY <1>3, <1>4 DEF Vector, h

\* The rows that are built from the leaves, one by one.
LEMMA HashedRows ==
  ASSUME NEW l
  PROVE  \A i \in 1..Depth :
           inner_from_leaf_nodes(l)[i] = HashStep(inner_from_leaf_nodes(l), l, i)
<1> DEFINE rows == inner_from_leaf_nodes(l)
<1>1. Depth \in Nat
  BY TreeAssumption
<1>2. PICK g : g = [i \in 1..Depth |-> HashStep(g, l, i)]
  BY <1>1, HashTables
<1>3. rows = [i \in 1..Depth |-> HashStep(rows, l, i)]
  BY <1>2 DEF inner_from_leaf_nodes, HashStep
<1> HIDE DEF rows
<1>4. \A i \in 1..Depth : rows[i] = HashStep(rows, l, i)
  BY <1>3
<1> QED BY <1>4 DEF rows

\* verify_root hashes the abstract tree, its leaves padded with zero.
LEMMA HashedAgain ==
  ASSUME Shift = 0, TreeShape
  PROVE  \A i \in 1..Depth : \A j \in Places(i) :
           inner_from_leaf_nodes(pad_leaf_nodes(leaf_nodes, Zero))[i][j + 1] =
             Commitment!NodesOf(CurrentLeaves)[i][j]
<1> DEFINE pad  == pad_leaf_nodes(leaf_nodes, Zero)
           rows == inner_from_leaf_nodes(pad)
           node == Commitment!NodesOf(CurrentLeaves)
           Row(i) == IF i = 0 THEN pad ELSE rows[i]
           Good(i) == /\ Vector(Row(i)) /\ Len(Row(i)) = Width(i)
                      /\ \A j \in Places(i) : Row(i)[j + 1] = node[i][j]
           S == {i \in 0..Depth : ~ Good(i)}
<1> USE TreeAssumption
<1>1. \A i \in 1..Depth : rows[i] = HashStep(rows, pad, i)
  BY HashedRows
<1>2. Good(0)
  <2>1. Width(0) \in Nat /\ Width(0) = 2 ^ Depth /\ LeafIndexes = Places(0)
    <3>1. Depth - 0 = Depth /\ 0 \in 0..Depth
      OBVIOUS
    <3> QED BY <3>1, Widths DEF Width, LeafIndexes, Places
  <2>2. pad = [k \in 1..Width(0) |-> IF k <= Len(leaf_nodes) THEN leaf_nodes[k] ELSE Zero]
    BY <2>1 DEF pad_leaf_nodes
  <2>3. Vector(pad) /\ Len(pad) = Width(0)
    <3> HIDE DEF pad
    <3> QED BY <2>1, <2>2 DEF Vector
  <2>4. ASSUME NEW j \in Places(0) PROVE pad[j + 1] = node[0][j]
    <3>1. j + 1 \in 1..Width(0) /\ j \in Nat /\ Len(leaf_nodes) \in Nat
      BY <2>1 DEF Places, TreeShape, Vector
    <3>2. pad[j + 1] = IF j + 1 <= Len(leaf_nodes) THEN leaf_nodes[j + 1] ELSE Zero
      <4> HIDE DEF pad
      <4> QED BY <2>2, <3>1
    <3>3. get_zero_hash(0) = Zero
      BY ZeroHashes
    <3>4. node[0][j] = nth_leaf_node(j)
      BY <2>1, Nodes DEF CurrentLeaves
    <3> QED BY <3>1, <3>2, <3>3, <3>4 DEF nth_leaf_node, Get
  <2> HIDE DEF pad, node
  <2> QED BY <2>3, <2>4
<1>3. S = {}
  <2> SUFFICES ASSUME S # {} PROVE FALSE
    OBVIOUS
  <2>1. S \in SUBSET Nat
    OBVIOUS
  <2>2. PICK m \in S : \A i \in S : m <= i
    BY <2>1, LeastElement
  <2>3. m \in 0..Depth /\ ~ Good(m) /\ m # 0
    BY <1>2, <2>2
  <2>4. m - 1 \in 0..(Depth - 1) /\ m - 1 \in 0..Depth /\ (m - 1) + 1 = m /\ m \in 1..Depth
    BY <2>3
  <2>5. Good(m - 1)
    BY <2>2, <2>4
  <2>6. Width(m) \in Nat /\ Width(m - 1) = 2 * Width(m)
    BY <2>4, Widths
  <2>7. Row(m) = pairwise_hash(Row(m - 1))
    <3> HIDE DEF rows, pad
    <3> QED BY <1>1, <2>3, <2>4 DEF HashStep
  <2> HIDE DEF Row, node
  <2>8. /\ Vector(Row(m)) /\ Len(Row(m)) = Width(m)
        /\ \A j \in 0..(Width(m) - 1) :
             Row(m)[j + 1] = pedersen(Row(m - 1)[2 * j + 1], Row(m - 1)[(2 * j + 1) + 1])
    BY <2>5, <2>6, <2>7, PairwiseHash
  <2>9. ASSUME NEW j \in Places(m) PROVE Row(m)[j + 1] = node[m][j]
    <3>1. 2 * j \in Places(m - 1) /\ 2 * j + 1 \in Places(m - 1)
      BY <2>4, Children
    <3>2. node[m][j] = pedersen(node[m - 1][2 * j], node[m - 1][2 * j + 1])
      BY <2>4, Nodes DEF node
    <3> QED BY <2>5, <2>8, <3>1, <3>2 DEF Places
  <2> QED BY <2>3, <2>8, <2>9
<1> HIDE DEF node, rows, pad
<1> QED BY <1>3 DEF node, rows, pad

(***************************************************************************)
(* verify_root accepts the root of every finished batch.                   *)
(***************************************************************************)
THEOREM RootAlwaysVerifies ==
  ASSUME Shift = 0
  PROVE  Spec => []RootVerifies
<1>1. TreeInv => RootVerifies
  <2> SUFFICES ASSUME TreeInv, ~ busy PROVE verify_root(leaf_nodes, root)
    BY DEF RootVerifies
  <2>1. Depth \in 1..Depth /\ 0 \in Places(Depth) /\ 0 + 1 = 1
    BY TreeAssumption, Widths DEF Places
  <2>2. inner_from_leaf_nodes(pad_leaf_nodes(leaf_nodes, Zero))[Depth][0 + 1] =
          Commitment!NodesOf(CurrentLeaves)[Depth][0]
    BY <2>1, HashedAgain DEF TreeInv, ShapeInv
  <2> QED BY <2>1, <2>2 DEF TreeInv, RestInv, verify_root
<1> QED BY <1>1, TreeInvariant, PTL

Sibling(idx) == IF IsLeft(idx) THEN idx + 1 ELSE idx - 1

PosStep(g, idx, i) ==
  IF i = 0 THEN IF idx % 2 = 0 THEN idx + 1 ELSE idx - 1
  ELSE IF idx_to_binary_pos(idx)[i + 1] = 1 THEN g[i - 1] \div 2 - 1 ELSE g[i - 1] \div 2 + 1

\* Up to every level there are the positions of a proof.
LEMMA PosTables ==
  ASSUME NEW idx, NEW n \in Nat
  PROVE  \E g : g = [i \in 0..n |-> PosStep(g, idx, i)]
<1> DEFINE S == {m \in Nat : ~ \E g : g = [i \in 0..m |-> PosStep(g, idx, i)]}
<1> SUFFICES S = {}
  OBVIOUS
<1> SUFFICES ASSUME S # {} PROVE FALSE
  OBVIOUS
<1>1. PICK m \in S : \A k \in S : m <= k
  BY LeastElement
<1>2. CASE m = 0
  <2> DEFINE g == [i \in 0..0 |-> IF idx % 2 = 0 THEN idx + 1 ELSE idx - 1]
  <2>1. g = [i \in 0..0 |-> PosStep(g, idx, i)]
    BY DEF PosStep
  <2> QED BY <1>1, <1>2, <2>1
<1>3. CASE m # 0
  <2>1. m \in Nat /\ m - 1 \in Nat /\ m - 1 \notin S
    BY <1>1, <1>3
  <2>2. PICK g : g = [i \in 0..(m - 1) |-> PosStep(g, idx, i)]
    BY <2>1
  <2> DEFINE h == [i \in 0..m |-> IF i = m THEN PosStep(g, idx, m) ELSE g[i]]
  <2>3. ASSUME NEW i \in 0..m PROVE h[i] = PosStep(h, idx, i)
    <3>1. PosStep(h, idx, i) = PosStep(g, idx, i)
      <4>1. CASE i = 0
        BY <4>1 DEF PosStep
      <4>2. CASE i # 0
        <5>1. i - 1 \in 0..m /\ i - 1 # m
          BY <2>1, <4>2
        <5>2. h[i - 1] = g[i - 1]
          BY <5>1
        <5> QED BY <4>2, <5>2 DEF PosStep
      <4> QED BY <4>1, <4>2
    <3>2. CASE i = m
      BY <3>1, <3>2
    <3>3. CASE i # m
      <4>1. i \in 0..(m - 1)
        BY <2>1, <3>3
      <4>2. h[i] = g[i] /\ g[i] = PosStep(g, idx, i)
        BY <2>2, <3>3, <4>1
      <4> QED BY <3>1, <4>2
    <3> QED BY <3>2, <3>3
  <2>4. h = [i \in 0..m |-> PosStep(h, idx, i)]
    <3> HIDE DEF h
    <3>1. DOMAIN h = 0..m /\ h = [i \in 0..m |-> h[i]]
      BY DEF h
    <3> QED BY <2>3, <3>1
  <2> QED BY <1>1, <2>4
<1> QED BY <1>2, <1>3

\* Each position of a proof is that of the sibling of an ancestor.
LEMMA ProofPositions ==
  ASSUME NEW idx \in LeafIndexes
  PROVE  \A i \in 0..(Depth - 1) :
           /\ proof_pos(idx)[i] = Sibling(Ancestor(idx, i))
           /\ idx_to_binary_pos(idx)[i + 1] = Ancestor(idx, i) % 2
<1> DEFINE pos == proof_pos(idx)
           S == {i \in 0..(Depth - 1) : pos[i] # Sibling(Ancestor(idx, i))}
<1> USE TreeAssumption
<1>1. \A i \in 0..(Depth - 1) : pos[i] = PosStep(pos, idx, i)
  <2>1. Depth - 1 \in Nat
    OBVIOUS
  <2>2. PICK g : g = [i \in 0..(Depth - 1) |-> PosStep(g, idx, i)]
    BY <2>1, PosTables
  <2>3. pos = [i \in 0..(Depth - 1) |-> PosStep(pos, idx, i)]
    BY <2>2 DEF proof_pos, PosStep
  <2> HIDE DEF pos
  <2> QED BY <2>3
<1>2. ASSUME NEW i \in 0..(Depth - 1)
      PROVE  idx_to_binary_pos(idx)[i + 1] = Ancestor(idx, i) % 2
  <2>1. i + 1 \in 1..Depth /\ (i + 1) - 1 = i
    OBVIOUS
  <2> QED BY <2>1 DEF idx_to_binary_pos, Ancestor
<1> HIDE DEF pos
<1>3. S = {}
  <2> SUFFICES ASSUME S # {} PROVE FALSE
    OBVIOUS
  <2>1. S \in SUBSET Nat
    OBVIOUS
  <2>2. PICK m \in S : \A i \in S : m <= i
    BY <2>1, LeastElement
  <2>3. m \in 0..(Depth - 1)
    BY <2>2
  <2>4. CASE m = 0
    <3>1. pos[0] = IF idx % 2 = 0 THEN idx + 1 ELSE idx - 1
      BY <1>1, <2>3, <2>4 DEF PosStep
    <3>2. Ancestor(idx, 0) = idx
      BY <2>3, Ancestors
    <3> QED BY <2>2, <2>4, <3>1, <3>2 DEF Sibling, IsLeft
  <2>5. CASE m # 0
    <3> DEFINE a == Ancestor(idx, m - 1)
               b == Ancestor(idx, m)
    <3>1. m - 1 \in 0..(Depth - 1) /\ (m - 1) + 1 = m
      BY <2>3, <2>5
    <3>2. pos[m - 1] = Sibling(a)
      BY <2>2, <3>1
    <3>3. b = Parent(a) /\ a \in Places(m - 1) /\ b \in Places(m)
      BY <3>1, Ancestors
    <3>4. a \in Nat /\ b \in Nat
      BY <3>3 DEF Places
    <3>5. Sibling(a) \div 2 = b
      <4> HIDE DEF a, b
      <4> QED BY <3>3, <3>4 DEF Sibling, Parent, IsLeft
    <3>6. pos[m] = IF b % 2 = 1 THEN b - 1 ELSE b + 1
      BY <1>1, <1>2, <2>3, <2>5, <3>2, <3>5 DEF PosStep
    <3>7. pos[m] = Sibling(b)
      <4> HIDE DEF b
      <4> QED BY <3>4, <3>6 DEF Sibling, IsLeft
    <3> QED BY <2>2, <3>7
  <2> QED BY <2>4, <2>5
<1> QED BY <1>2, <1>3 DEF pos

ClimbStep(g, idx, k) ==
  LET p == get_proof(idx)
  IN  IF k = 0 THEN nth_leaf_node(idx)
      ELSE IF p.binary_pos[k] = 1 THEN pedersen(p.proof[k], g[k - 1])
      ELSE pedersen(g[k - 1], p.proof[k])

\* Up to every level there are nodes on the way up.
LEMMA ClimbTables ==
  ASSUME NEW idx, NEW n \in Nat
  PROVE  \E g : g = [i \in 0..n |-> ClimbStep(g, idx, i)]
<1> DEFINE S == {m \in Nat : ~ \E g : g = [i \in 0..m |-> ClimbStep(g, idx, i)]}
<1> SUFFICES S = {}
  OBVIOUS
<1> SUFFICES ASSUME S # {} PROVE FALSE
  OBVIOUS
<1>1. PICK m \in S : \A k \in S : m <= k
  BY LeastElement
<1>2. CASE m = 0
  <2> DEFINE g == [i \in 0..0 |-> nth_leaf_node(idx)]
  <2>1. g = [i \in 0..0 |-> ClimbStep(g, idx, i)]
    BY DEF ClimbStep
  <2> QED BY <1>1, <1>2, <2>1
<1>3. CASE m # 0
  <2>1. m \in Nat /\ m - 1 \in Nat /\ m - 1 \notin S
    BY <1>1, <1>3
  <2>2. PICK g : g = [i \in 0..(m - 1) |-> ClimbStep(g, idx, i)]
    BY <2>1
  <2> DEFINE h == [i \in 0..m |-> IF i = m THEN ClimbStep(g, idx, m) ELSE g[i]]
  <2>3. ASSUME NEW i \in 0..m PROVE h[i] = ClimbStep(h, idx, i)
    <3>1. ClimbStep(h, idx, i) = ClimbStep(g, idx, i)
      <4>1. CASE i = 0
        BY <4>1 DEF ClimbStep
      <4>2. CASE i # 0
        <5>1. i - 1 \in 0..m /\ i - 1 # m
          BY <2>1, <4>2
        <5>2. h[i - 1] = g[i - 1]
          BY <5>1
        <5> QED BY <4>2, <5>2 DEF ClimbStep
      <4> QED BY <4>1, <4>2
    <3>2. CASE i = m
      BY <3>1, <3>2
    <3>3. CASE i # m
      <4>1. i \in 0..(m - 1)
        BY <2>1, <3>3
      <4>2. h[i] = g[i] /\ g[i] = ClimbStep(g, idx, i)
        BY <2>2, <3>3, <4>1
      <4> QED BY <3>1, <4>2
    <3> QED BY <3>2, <3>3
  <2>4. h = [i \in 0..m |-> ClimbStep(h, idx, i)]
    <3> HIDE DEF h
    <3>1. DOMAIN h = 0..m /\ h = [i \in 0..m |-> h[i]]
      BY DEF h
    <3> QED BY <2>3, <3>1
  <2> QED BY <1>1, <2>4
<1> QED BY <1>2, <1>3

\* In a tree at rest the way up passes through the abstract tree.
LEMMA ClimbsTheTree ==
  ASSUME RestInv, NEW idx \in LeafIndexes
  PROVE  \A i \in 0..Depth : Climb(idx)[i] = Commitment!NodesOf(CurrentLeaves)[i][Ancestor(idx, i)]
<1> DEFINE climb == Climb(idx)
           node == Commitment!NodesOf(CurrentLeaves)
           S == {i \in 0..Depth : climb[i] # node[i][Ancestor(idx, i)]}
<1> USE TreeAssumption
<1>1. \A i \in 0..Depth : climb[i] = ClimbStep(climb, idx, i)
  <2>1. Depth \in Nat
    OBVIOUS
  <2>2. PICK g : g = [i \in 0..Depth |-> ClimbStep(g, idx, i)]
    BY <2>1, ClimbTables
  <2>3. climb = [i \in 0..Depth |-> ClimbStep(climb, idx, i)]
    BY <2>2 DEF Climb, ClimbStep
  <2> HIDE DEF climb
  <2> QED BY <2>3
<1> HIDE DEF climb
<1>2. LeafIndexes = Places(0) /\ 0 \in 0..(Depth - 1)
  <2>1. Depth - 0 = Depth
    OBVIOUS
  <2> QED BY <2>1 DEF LeafIndexes, Places, Width
<1>3. \A j \in Places(0) : node[0][j] = nth_leaf_node(j)
  BY <1>2, Nodes DEF CurrentLeaves
<1>4. climb[0] = node[0][Ancestor(idx, 0)]
  <2>1. Ancestor(idx, 0) = idx
    BY <1>2, Ancestors
  <2> QED BY <1>1, <1>2, <1>3, <2>1 DEF ClimbStep
<1>5. ASSUME NEW i \in 0..(Depth - 1), NEW j \in Places(i)
      PROVE  node[i][j] = IF i = 0 THEN nth_leaf_node(j) ELSE ith_inner_node(i, j)
  <2>1. CASE i = 0
    BY <1>3, <1>5, <2>1
  <2>2. CASE i # 0
    <3>1. i \in 1..Depth
      BY <2>2
    <3> QED BY <1>5, <2>2, <3>1 DEF RestInv
  <2> QED BY <2>1, <2>2
<1> HIDE DEF node
<1>6. ASSUME NEW i \in 0..(Depth - 1), climb[i] = node[i][Ancestor(idx, i)]
      PROVE  climb[i + 1] = node[i + 1][Ancestor(idx, i + 1)]
  <2> DEFINE a == Ancestor(idx, i)
             p == Ancestor(idx, i + 1)
             proof == get_proof(idx)
  <2>1. i + 1 \in 1..Depth /\ i + 1 \in 0..Depth /\ i + 1 # 0 /\ (i + 1) - 1 = i
    OBVIOUS
  <2>2. p = Parent(a) /\ a \in Places(i) /\ p \in Places(i + 1)
    BY Ancestors
  <2>3. Sibling(a) \in Places(i) /\ a \in Nat
    BY <2>2, Children DEF Sibling, Places, Parent, IsLeft
  <2>4. proof.binary_pos[i + 1] = a % 2 /\ proof_pos(idx)[i] = Sibling(a)
    BY ProofPositions DEF get_proof
  <2>5. proof.proof[i + 1] = node[i][Sibling(a)]
    <3>1. proof.proof[i + 1] = IF i + 1 = 1 THEN nth_leaf_node(proof_pos(idx)[0])
                               ELSE ith_inner_node(i, proof_pos(idx)[i])
      BY <2>1 DEF get_proof
    <3>2. i + 1 = 1 <=> i = 0
      OBVIOUS
    <3> HIDE DEF proof, a
    <3> QED BY <1>5, <2>3, <2>4, <3>1, <3>2
  <2>6. climb[i + 1] = IF a % 2 = 1 THEN pedersen(node[i][Sibling(a)], node[i][a])
                       ELSE pedersen(node[i][a], node[i][Sibling(a)])
    <3>1. climb[i + 1] = IF proof.binary_pos[i + 1] = 1
                         THEN pedersen(proof.proof[i + 1], climb[i])
                         ELSE pedersen(climb[i], proof.proof[i + 1])
      BY <1>1, <2>1 DEF ClimbStep
    <3> HIDE DEF proof, a
    <3> QED BY <1>6, <2>4, <2>5, <3>1 DEF a
  <2>7. node[i + 1][p] = pedersen(node[i][2 * p], node[i][2 * p + 1])
    BY <2>2, Nodes DEF node
  <2> HIDE DEF a, p
  <2>8. CASE a % 2 = 1
    <3>1. a = 2 * p + 1 /\ Sibling(a) = 2 * p
      BY <2>2, <2>3, <2>8 DEF Sibling, IsLeft, Parent
    <3> QED BY <2>6, <2>7, <2>8, <3>1 DEF p
  <2>9. CASE a % 2 # 1
    <3>1. a = 2 * p /\ Sibling(a) = 2 * p + 1
      BY <2>2, <2>3, <2>9 DEF Sibling, IsLeft, Parent
    <3> QED BY <2>6, <2>7, <2>9, <3>1 DEF p
  <2> QED BY <2>8, <2>9
<1>7. S = {}
  <2> SUFFICES ASSUME S # {} PROVE FALSE
    OBVIOUS
  <2>1. S \in SUBSET Nat
    OBVIOUS
  <2>2. PICK m \in S : \A i \in S : m <= i
    BY <2>1, LeastElement
  <2>3. m \in 0..Depth /\ m # 0
    BY <1>4, <2>2
  <2>4. m - 1 \in 0..(Depth - 1) /\ m - 1 \in 0..Depth /\ (m - 1) + 1 = m /\ m - 1 \notin S
    BY <2>2, <2>3
  <2>5. climb[m] = node[m][Ancestor(idx, m)]
    BY <1>6, <2>4
  <2> QED BY <2>2, <2>5
<1> QED BY <1>7 DEF climb, node

(***************************************************************************)
(* Between batches the proof that get_proof gives of any leaf, an empty    *)
(* one included, leads to the root.                                        *)
(***************************************************************************)
THEOREM ProofsAlwaysOpen ==
  ASSUME Shift = 0
  PROVE  Spec => []ProofsOpen
<1>1. TreeInv => ProofsOpen
  <2> SUFFICES ASSUME TreeInv, ~ busy, NEW idx \in LeafIndexes PROVE Climb(idx)[Depth] = root
    BY DEF ProofsOpen
  <2>1. Depth \in 0..Depth
    BY TreeAssumption
  <2>2. Climb(idx)[Depth] = Commitment!NodesOf(CurrentLeaves)[Depth][0]
    BY <2>1, LastAncestor, ClimbsTheTree DEF TreeInv
  <2> QED BY <2>2 DEF TreeInv, RestInv
<1> QED BY <1>1, TreeInvariant, PTL

-----------------------------------------------------------------------------
(***************************************************************************)
(* The preimages of a batch.  What the map holds are pairs of nodes of the *)
(* old tree or of the new one, and above every updated leaf it has both    *)
(* the replaced node and the new one, up to the row that is done.          *)
(***************************************************************************)
\* The two children of every inner node of the old tree and of the new one.
PairsOf(node, i) == {<<node[i][2 * p], node[i][2 * p + 1]>> : p \in Places(i + 1)}

HashedPairs == UNION {PairsOf(OldNode, i) \union PairsOf(NewNode, i) : i \in 0..(Depth - 1)}

\* No two of them that differ have the same hash.
NoCollision ==
  \A m, n \in HashedPairs : pedersen(m[1], m[2]) = pedersen(n[1], n[2]) => m = n

\* The preimages of the parent of the entry at position k are in the map.
Kept(t, k) == k < task[t].pos \/ (k = task[t].pos /\ task[t].pc = "leaf")

Inserted(p) == \E t \in DOMAIN task : \E k \in Positions(t) : Handles(t, k, p) /\ Kept(t, k)

HasBoth(i, p) == OldNode[i][p] \in DOMAIN preimage /\ NewNode[i][p] \in DOMAIN preimage

\* The rows up to n have the preimages of every node above an updated leaf.
PathsKept(n) == \A i \in 1..n : \A j \in DOMAIN before.batch : HasBoth(i, Ancestor(j, i))

PairsInv == \A k \in DOMAIN preimage : preimage[k] \in HashedPairs

PathInv ==
  /\ before.root = OldNode[Depth][0]
  /\ PathsKept(row)
  /\ \A j \in DOMAIN before.batch : Ancestor(j, row) \in DOMAIN hashes
  /\ \A p \in Places(row + 1) : Inserted(p) => HasBoth(row + 1, p)

\* When a batch has ended.
EndedInv ==
  /\ before.batch \in Batches
  /\ before.root = OldNode[Depth][0]
  /\ root = NewNode[Depth][0]
  /\ PathsKept(Depth)

OpeningInv ==
  /\ TreeInv
  /\ applied > 0 => PairsInv
  /\ busy => applied > 0 /\ PathInv
  /\ ~busy /\ applied > 0 => EndedInv

\* A task only keeps the preimages of a parent by inserting them.
LEMMA KeptStep ==
  ASSUME ShapeInv, NEW t \in DOMAIN task, OnlyTask(t), TaskStep(t),
         NEW k \in Positions(t), ~ Skipped(order[k]), Kept(t, k)'
  PROVE  Kept(t, k) \/ (InsertPreimages(t) /\ k = task[t].pos)
<1>1. k \in Nat /\ task[t].pos \in Nat /\ DOMAIN task[t] = {"pos", "pc", "entry", "found"}
  BY PositionFacts DEF ShapeInv, RowShape, TaskShape, Positions
<1>2. CASE Skip(t)
  <2>1. task'[t].pos = task[t].pos + 1 /\ task'[t].pc = "read" /\ Skipped(order[task[t].pos])
    BY <1>1, <1>2, SkipShape DEF Skip, Reads, At
  <2> QED BY <1>1, <2>1 DEF Kept
<1>3. CASE ReadFirstLeft(t) \/ ReadFirstRight(t) \/ ReadNextLeft(t) \/ ReadNextRight(t)
  <2>1. \E e : task' = [task EXCEPT ![t].pc = "update", ![t].entry = e]
    BY <1>3 DEF ReadFirstLeft, ReadFirstRight, ReadNextLeft, ReadNextRight, Take
  <2>2. task'[t].pos = task[t].pos /\ task'[t].pc = "update"
    BY <1>1, <2>1
  <2> QED BY <1>1, <2>2 DEF Kept
<1>4. CASE UpdateParent(t)
  <2>1. task'[t].pos = task[t].pos /\ task'[t].pc = "preimage"
    BY <1>4, UpdateParentShape
  <2> QED BY <1>1, <2>1 DEF Kept
<1>5. CASE InsertPreimages(t)
  <2>1. \/ task'[t].pos = task[t].pos
        \/ task'[t].pos = task[t].pos + 1 /\ task'[t].pc = "read"
    <3>1. CASE row = 0 /\ IsLeft(task[t].entry.idx)
      BY <1>1, <1>5, <3>1, InsertPreimagesShape
    <3>2. CASE ~ (row = 0 /\ IsLeft(task[t].entry.idx))
      <4>1. task[t].pc = "preimage" /\ task'[t] = Finished(t)
        BY <1>5, <3>2, InsertPreimagesShape
      <4>2. next_row' = next_row
        BY <1>5 DEF InsertPreimages
      <4> QED BY <4>1, <4>2, FinishedShape DEF Holding
    <3> QED BY <3>1, <3>2
  <2> QED BY <1>1, <1>5, <2>1 DEF Kept
<1>6. CASE WriteLeftLeaf(t)
  <2>1. task[t].pc = "leaf" /\ task'[t] = Finished(t) /\ next_row' = next_row
    BY <1>6 DEF WriteLeftLeaf, At
  <2>2. task'[t].pos = task[t].pos + 1 /\ task'[t].pc = "read"
    BY <2>1, FinishedShape DEF Holding
  <2> QED BY <1>1, <2>1, <2>2 DEF Kept
<1>7. CASE MergeFound(t)
  <2>1. task'[t].pos = task[t].pos /\ task'[t].pc = "done"
    BY <1>1, <1>7, MergeFoundShape
  <2> QED BY <1>1, <2>1 DEF Kept
<1> QED BY <1>2, <1>3, <1>4, <1>5, <1>6, <1>7 DEF TaskStep

\* A preimage is inserted by the step that inserts it, and by no other.
LEMMA InsertedStep ==
  ASSUME ShapeInv, NEW t \in DOMAIN task, OnlyTask(t), TaskStep(t), NEW p, Inserted(p)'
  PROVE  Inserted(p) \/ (InsertPreimages(t) /\ p = Parent(task[t].entry.idx))
<1>1. UNCHANGED <<hashes, order>> /\ DOMAIN task' = DOMAIN task
  BY DEF OnlyTask
<1>2. PICK u \in DOMAIN task : \E k \in Positions(u)' : Handles(u, k, p)' /\ Kept(u, k)'
  BY <1>1 DEF Inserted
<1>3. PICK k \in Positions(u)' : Handles(u, k, p)' /\ Kept(u, k)'
  BY <1>2
<1>4. k \in Positions(u) /\ Handles(u, k, p) /\ ~ Skipped(order[k]) /\ Parent(order[k]) = p
  <2>1. k \in Positions(u) /\ Handles(u, k, p)
    BY <1>1, <1>3, HandlesFixed
  <2> QED BY <2>1 DEF Handles
<1>5. CASE u = t
  <2>1. Kept(t, k) \/ (InsertPreimages(t) /\ k = task[t].pos)
    BY <1>3, <1>4, <1>5, KeptStep
  <2>2. CASE Kept(t, k)
    BY <1>4, <1>5, <2>2 DEF Inserted
  <2>3. CASE InsertPreimages(t) /\ k = task[t].pos
    BY <1>4, <2>3, HoldingFacts DEF InsertPreimages, At, Holding
  <2> QED BY <2>1, <2>2, <2>3
<1>6. CASE u # t
  <2>1. task'[u] = task[u]
    BY <1>6 DEF OnlyTask
  <2>2. Kept(u, k)
    BY <1>3, <2>1 DEF Kept
  <2> QED BY <1>4, <2>2 DEF Inserted
<1> QED BY <1>5, <1>6

\* What a task inserts are two nodes of one place, and their children.
LEMMA InsertsBoth ==
  ASSUME ShapeInv, BatchInv, NEW t \in DOMAIN task, InsertPreimages(t)
  PROVE  LET e == task[t].entry
             p == Parent(e.idx)
         IN  /\ p \in Places(row + 1)
             /\ e.prev_res = OldNode[row + 1][p]
             /\ pedersen(e.left, e.right) = NewNode[row + 1][p]
             /\ <<e.prev_left, e.prev_right>> \in HashedPairs
             /\ <<e.left, e.right>> \in HashedPairs
             /\ DOMAIN preimage' = DOMAIN preimage \union {e.prev_res, pedersen(e.left, e.right)}
             /\ \A k \in DOMAIN preimage' :
                  \/ k \in DOMAIN preimage /\ preimage'[k] = preimage[k]
                  \/ preimage'[k] = <<e.prev_left, e.prev_right>>
                  \/ preimage'[k] = <<e.left, e.right>>
<1> DEFINE e == task[t].entry
           p == Parent(e.idx)
<1>1. EntryOf(t) /\ e.prev_res = OldNode[row + 1][p] /\ p \in Places(row + 1)
  BY HoldingFacts DEF InsertPreimages, At, BatchInv, EntryInv, EntryOf, Holding
<1>2. row \in 0..(Depth - 1)
  BY DEF ShapeInv, RowShape
<1>3. /\ <<e.left, e.right>> = <<NewNode[row][2 * p], NewNode[row][2 * p + 1]>>
      /\ <<e.prev_left, e.prev_right>> = <<OldNode[row][2 * p], OldNode[row][2 * p + 1]>>
  BY <1>1 DEF EntryOf
<1>4. preimage' = WithPreimages(e)
  BY DEF InsertPreimages
<1> HIDE DEF e, p
<1>5. pedersen(e.left, e.right) = NewNode[row + 1][p]
  <2>1. NewNode[row + 1][p] = pedersen(NewNode[row][2 * p], NewNode[row][2 * p + 1])
    BY <1>1, <1>2, Nodes DEF NewNode
  <2> QED BY <1>3, <2>1
<1>6. /\ <<e.left, e.right>> \in PairsOf(NewNode, row)
      /\ <<e.prev_left, e.prev_right>> \in PairsOf(OldNode, row)
  BY <1>1, <1>3 DEF PairsOf
<1>7. <<e.left, e.right>> \in HashedPairs /\ <<e.prev_left, e.prev_right>> \in HashedPairs
  BY <1>2, <1>6 DEF HashedPairs
<1>8. /\ DOMAIN preimage' = DOMAIN preimage \union {e.prev_res, pedersen(e.left, e.right)}
      /\ \A k \in DOMAIN preimage' :
                  \/ k \in DOMAIN preimage /\ preimage'[k] = preimage[k]
                  \/ preimage'[k] = <<e.prev_left, e.prev_right>>
                  \/ preimage'[k] = <<e.left, e.right>>
  BY <1>4 DEF WithPreimages, Insert
<1> QED BY <1>1, <1>5, <1>7, <1>8 DEF e, p

\* A step of a task keeps what is known of the pairs and the paths.
LEMMA TaskStepPaths ==
  ASSUME ShapeInv, BatchInv, PairsInv, PathInv, NEW t \in DOMAIN task, TaskStep(t)
  PROVE  PairsInv' /\ PathInv'
<1>1. OnlyTask(t)
  BY OneTask
<1>2. UNCHANGED <<row, hashes, before, OldNode, NewNode, HashedPairs>>
  BY <1>1, NodesFixed DEF OnlyTask, HashedPairs, PairsOf
<1>3. DOMAIN preimage \subseteq DOMAIN preimage' /\ PairsInv'
  <2>1. CASE InsertPreimages(t)
    BY <1>2, <2>1, InsertsBoth DEF PairsInv
  <2>2. CASE ~ InsertPreimages(t)
    <3>1. UNCHANGED preimage
      BY <2>2 DEF TaskStep, Skip, ReadFirstLeft, ReadFirstRight, ReadNextLeft, ReadNextRight,
                  Take, UpdateParent, WriteLeftLeaf, MergeFound
    <3> QED BY <1>2, <3>1 DEF PairsInv
  <2> QED BY <2>1, <2>2
<1>4. ASSUME NEW p \in Places(row + 1), Inserted(p)' PROVE HasBoth(row + 1, p)'
  <2>1. CASE Inserted(p)
    BY <1>2, <1>3, <2>1 DEF PathInv, HasBoth
  <2>2. CASE InsertPreimages(t) /\ p = Parent(task[t].entry.idx)
    BY <1>2, <2>2, InsertsBoth DEF HasBoth
  <2> QED BY <1>1, <1>4, <2>1, <2>2, InsertedStep
<1>5. PathsKept(row)'
  BY <1>2, <1>3 DEF PathInv, PathsKept, HasBoth, Ancestor
<1>6. \A j \in DOMAIN before'.batch : Ancestor(j, row)' \in DOMAIN hashes'
  BY <1>2 DEF PathInv, Ancestor
<1>7. before'.root = OldNode'[Depth][0]
  BY <1>2 DEF PathInv
<1> QED BY <1>2, <1>3, <1>4, <1>5, <1>6, <1>7 DEF PathInv

\* When a row is done, the row above it has both nodes over every updated leaf.
LEMMA RowDonePaths ==
  ASSUME ShapeInv, BatchInv, PathInv, RowDone
  PROVE  /\ PathsKept(row + 1)
         /\ \A j \in DOMAIN before.batch : Ancestor(j, row + 1) \in DOMAIN next_row
<1>1. row \in 0..(Depth - 1) /\ DOMAIN before.batch \subseteq LeafIndexes
  BY BatchUpdateAssumption DEF ShapeInv, RowShape, BatchInv, RowInv, LeafIndexes
<1>2. ASSUME NEW t \in DOMAIN task, NEW k \in Positions(t) PROVE Kept(t, k)
  <2>1. task[t].pos = LastOf(t) + 1
    BY DEF RowDone, ShapeInv, RowShape, TaskShape
  <2>2. LastOf(t) \in Nat /\ (t - 1) * Stride \in Nat
    BY PositionFacts
  <2>3. k \in Nat /\ k <= LastOf(t)
    BY <2>2 DEF Positions
  <2> QED BY <2>1, <2>2, <2>3 DEF Kept
<1>3. ASSUME NEW j \in DOMAIN before.batch
      PROVE  /\ HasBoth(row + 1, Ancestor(j, row + 1))
             /\ Ancestor(j, row + 1) \in DOMAIN next_row
  <2> DEFINE p == Ancestor(j, row + 1)
  <2>1. Ancestor(j, row) \in DOMAIN hashes
    BY DEF PathInv
  <2>2. p = Parent(Ancestor(j, row)) /\ p \in Places(row + 1)
    BY <1>1, Ancestors
  <2>3. PICK t \in DOMAIN task : \E k \in Positions(t) : Handles(t, k, p)
    BY <2>1, <2>2, EveryParentHandled
  <2>4. Inserted(p)
    BY <1>2, <2>3 DEF Inserted
  <2>5. p \in DOMAIN next_row
    BY <2>1, <2>2, RowDoneFacts
  <2> QED BY <2>2, <2>4, <2>5 DEF PathInv
<1>4. ASSUME NEW i \in 1..(row + 1), NEW j \in DOMAIN before.batch
      PROVE  HasBoth(i, Ancestor(j, i))
  <2>1. CASE i = row + 1
    BY <1>3, <2>1
  <2>2. CASE i # row + 1
    <3>1. i \in 1..row
      BY <1>1, <2>2
    <3> QED BY <3>1 DEF PathInv, PathsKept
  <2> QED BY <2>1, <2>2
<1> QED BY <1>3, <1>4 DEF PathsKept

\* Every step keeps what openings need.
LEMMA OpeningStep ==
  ASSUME Shift = 0, OpeningInv, [Next]_vars
  PROVE  OpeningInv'
<1>1. TreeInv /\ TreeInv' /\ ShapeInv
  BY TreeInvStep DEF OpeningInv, TreeInv
<1>2. CASE \E b \in Batches : BeginBatch(b)
  <2>1. PICK b \in Batches : BeginBatch(b)
    BY <1>2
  <2>2. /\ ~ busy /\ busy' /\ DOMAIN b # {} /\ before'.root = root /\ before'.batch = b
        /\ DOMAIN preimage' = {} /\ row' = 0 /\ hashes' = b /\ StartRow(0, b)
        /\ applied' = applied + 1 /\ applied \in Nat
    BY <1>1, <2>1, BatchUpdateAssumption DEF BeginBatch, StartRow, ShapeInv
  <2>3. before'.leaves = CurrentLeaves
    BY <1>1, <2>1, <2>2, BeginBatchContent DEF TreeInv
  <2>4. before'.root = OldNode'[Depth][0]
    BY <1>1, <2>2, <2>3 DEF OldNode, TreeInv, RestInv
  <2>5. 0 \in 0..(Depth - 1) /\ LeafIndexes = Places(0) /\ DOMAIN b \subseteq LeafIndexes
    <3>1. 0 \in 0..(Depth - 1) /\ Depth - 0 = Depth
      BY TreeAssumption
    <3> QED BY <3>1, BatchUpdateAssumption DEF LeafIndexes, Places, Width
  <2>6. \A j \in DOMAIN b : Ancestor(j, 0) = j
    BY <2>5, Ancestors
  <2>7. ASSUME NEW p PROVE ~ Inserted(p)'
    <3>1. ~ Updated(p)'
      BY <2>2, <2>5, StartRowFresh
    <3> QED BY <3>1 DEF Inserted, Updated, UpdatedBy, Kept, Marks
  <2>8. PathsKept(row)'
    <3>1. 1..0 = {}
      OBVIOUS
    <3> QED BY <2>2, <3>1 DEF PathsKept
  <2>9. PathInv'
    BY <2>2, <2>4, <2>6, <2>7, <2>8 DEF PathInv, Ancestor
  <2>10. PairsInv'
    BY <2>2 DEF PairsInv
  <2> QED BY <1>1, <2>2, <2>9, <2>10 DEF OpeningInv
<1>3. CASE \E t \in DOMAIN task : TaskStep(t)
  <2>1. PICK t \in DOMAIN task : TaskStep(t)
    BY <1>3
  <2>2. busy /\ UNCHANGED <<busy, applied>>
    BY <1>1, <2>1, OneTask DEF OnlyTask, TaskStep, Skip, ReadFirstLeft, ReadFirstRight, ReadNextLeft,
       ReadNextRight, Reads, UpdateParent, InsertPreimages, WriteLeftLeaf, MergeFound, At
  <2> QED BY <1>1, <2>1, <2>2, TaskStepPaths DEF OpeningInv, TreeInv
<1>4. CASE NextRow
  <2>1. /\ busy /\ RowDone /\ row' = row + 1 /\ hashes' = next_row /\ StartRow(row + 1, next_row)
        /\ row + 1 \in 0..(Depth - 1)
        /\ UNCHANGED <<busy, applied, preimage, before>>
    BY <1>1, <1>4, TreeAssumption DEF NextRow, RowDone, StartRow, ShapeInv, RowShape
  <2>2. UNCHANGED <<OldNode, NewNode, HashedPairs>>
    BY <2>1, NodesFixed DEF HashedPairs, PairsOf
  <2>3. /\ PathsKept(row + 1)
        /\ \A j \in DOMAIN before.batch : Ancestor(j, row + 1) \in DOMAIN next_row
    BY <1>1, <2>1, RowDonePaths DEF OpeningInv, TreeInv
  <2>4. ASSUME NEW p PROVE ~ Inserted(p)'
    <3>1. DOMAIN next_row \subseteq Places(row + 1)
      BY <1>1 DEF ShapeInv, RowShape
    <3>2. ~ Updated(p)'
      BY <2>1, <3>1, StartRowFresh
    <3> QED BY <3>2 DEF Inserted, Updated, UpdatedBy, Kept, Marks
  <2>5. PathsKept(row)'
    BY <2>1, <2>2, <2>3 DEF PathsKept, HasBoth, Ancestor
  <2>6. PathInv'
    <3>1. before'.root = OldNode'[Depth][0]
      BY <2>1, <2>2 DEF OpeningInv, PathInv
    <3>2. \A j \in DOMAIN before'.batch : Ancestor(j, row)' \in DOMAIN hashes'
      BY <2>1, <2>3 DEF Ancestor
    <3> QED BY <2>4, <2>5, <3>1, <3>2 DEF PathInv
  <2>7. PairsInv'
    BY <2>1, <2>2 DEF OpeningInv, PairsInv
  <2> QED BY <1>1, <2>1, <2>6, <2>7 DEF OpeningInv
<1>5. CASE EndBatch
  <2>1. busy /\ ~ busy' /\ RowDone /\ row + 1 = Depth /\ UNCHANGED <<applied, preimage, before>>
    BY <1>5 DEF EndBatch, RowDone
  <2>2. UNCHANGED <<OldNode, NewNode, HashedPairs>>
    BY <2>1, NodesFixed DEF HashedPairs, PairsOf
  <2>3. PathsKept(Depth)
    BY <1>1, <2>1, RowDonePaths DEF OpeningInv, TreeInv
  <2>4. PathsKept(Depth)'
    BY <2>1, <2>2, <2>3 DEF PathsKept, HasBoth, Ancestor
  <2>5. root' = NewNode'[Depth][0]
    BY <1>1, <1>5, <2>1, <2>2, EndBatchContent DEF NewNode, TreeInv
  <2>6. before'.batch \in Batches /\ before'.root = OldNode'[Depth][0]
    BY <2>1, <2>2 DEF OpeningInv, TreeInv, BatchInv, RowInv, PathInv
  <2>7. PairsInv'
    BY <2>1, <2>2 DEF OpeningInv, PairsInv
  <2> QED BY <1>1, <2>1, <2>4, <2>5, <2>6, <2>7 DEF OpeningInv, EndedInv
<1>6. CASE UNCHANGED vars
  <2>1. UNCHANGED <<root, busy, row, hashes, order, task, preimage, applied, before>>
    BY <1>6 DEF vars, tree
  <2>2. UNCHANGED <<OldNode, NewNode, HashedPairs>>
    BY <2>1, NodesFixed DEF HashedPairs, PairsOf
  <2>3. \A n : PathsKept(n)' <=> PathsKept(n)
    BY <2>1, <2>2 DEF PathsKept, HasBoth, Ancestor
  <2>4. \A p : Inserted(p)' <=> Inserted(p)
    BY <2>1 DEF Inserted, Handles, Kept, Skipped, Positions, LastOf
  <2>5. PairsInv => PairsInv'
    BY <2>1, <2>2 DEF PairsInv
  <2>6. PathInv => PathInv'
    <3> SUFFICES ASSUME PathInv PROVE PathInv'
      OBVIOUS
    <3>1. before'.root = OldNode'[Depth][0]
      BY <2>1, <2>2 DEF PathInv
    <3>2. PathsKept(row)'
      BY <2>1, <2>2 DEF PathInv, PathsKept, HasBoth, Ancestor
    <3>3. \A j \in DOMAIN before'.batch : Ancestor(j, row)' \in DOMAIN hashes'
      BY <2>1 DEF PathInv, Ancestor
    <3>4. \A p \in Places(row + 1)' : Inserted(p)' => HasBoth(row + 1, p)'
      BY <2>1, <2>2, <2>4 DEF PathInv, HasBoth
    <3> QED BY <3>1, <3>2, <3>3, <3>4 DEF PathInv
  <2>7. EndedInv => EndedInv'
    BY <2>1, <2>2, <2>3 DEF EndedInv
  <2> QED BY <1>1, <2>1, <2>5, <2>6, <2>7 DEF OpeningInv
<1> QED BY <1>2, <1>3, <1>4, <1>5, <1>6 DEF Next

\* It holds in every state.
LEMMA OpeningInvariant ==
  ASSUME Shift = 0
  PROVE  Spec => []OpeningInv
<1>1. Init => OpeningInv
  <2> SUFFICES ASSUME Init PROVE OpeningInv
    OBVIOUS
  <2>1. ~ busy /\ applied = 0
    BY DEF Init
  <2> QED BY <2>1, InitShape, InitContent DEF OpeningInv, TreeInv
<1>2. OpeningInv /\ [Next]_vars => OpeningInv'
  BY OpeningStep
<1> QED BY <1>1, <1>2, PTL DEF Spec

FoundStep(g, r, j, i) ==
  IF i = Depth THEN {r}
  ELSE {preimage[n][1 + ((j \div 2 ^ i) % 2)] : n \in g[i + 1] \cap DOMAIN preimage}

\* The nodes found on the way down are given by their recursion: down to every
\* level there is a table of them.
LEMMA FoundOnPath ==
  ASSUME NEW r, NEW j
  PROVE  \A i \in 0..Depth : OnPath(r, j)[i] = FoundStep(OnPath(r, j), r, j, i)
<1> DEFINE S == {m \in 0..Depth : ~ \E g : g = [i \in m..Depth |-> FoundStep(g, r, j, i)]}
           found == OnPath(r, j)
<1>1. S = {}
  <2> SUFFICES ASSUME S # {} PROVE FALSE
    OBVIOUS
  <2> USE TreeAssumption
  <2>1. PICK m \in S : \A k \in S : k <= m
    <3>1. S \in SUBSET (0..Depth) /\ Depth \in Nat
      OBVIOUS
    <3> HIDE DEF S
    <3> QED BY <3>1, GreatestElement
  <2>2. CASE m = Depth
    <3> DEFINE g == [i \in Depth..Depth |-> {r}]
    <3>1. g = [i \in Depth..Depth |-> FoundStep(g, r, j, i)]
      BY DEF FoundStep
    <3> QED BY <2>1, <2>2, <3>1
  <2>3. CASE m # Depth
    <3>1. m \in 0..Depth /\ m + 1 \in 0..Depth /\ m + 1 \notin S
      BY <2>1, <2>3
    <3>2. PICK g : g = [i \in (m + 1)..Depth |-> FoundStep(g, r, j, i)]
      BY <3>1
    <3> DEFINE h == [i \in m..Depth |-> IF i = m THEN FoundStep(g, r, j, m) ELSE g[i]]
    <3>3. ASSUME NEW i \in m..Depth PROVE h[i] = FoundStep(h, r, j, i)
      <4>1. FoundStep(h, r, j, i) = FoundStep(g, r, j, i)
        <5>1. CASE i = Depth
          BY <5>1 DEF FoundStep
        <5>2. CASE i # Depth
          <6>1. i + 1 \in m..Depth /\ i + 1 # m
            BY <3>1, <5>2
          <6>2. h[i + 1] = g[i + 1]
            BY <6>1
          <6> QED BY <5>2, <6>2 DEF FoundStep
        <5> QED BY <5>1, <5>2
      <4>2. CASE i = m
        BY <3>1, <4>1, <4>2
      <4>3. CASE i # m
        <5>1. i \in (m + 1)..Depth
          BY <3>1, <4>3
        <5>2. h[i] = g[i] /\ g[i] = FoundStep(g, r, j, i)
          BY <3>2, <4>3, <5>1
        <5> QED BY <4>1, <5>2
      <4> QED BY <4>2, <4>3
    <3>4. h = [i \in m..Depth |-> FoundStep(h, r, j, i)]
      <4> HIDE DEF h
      <4>1. DOMAIN h = m..Depth /\ h = [i \in m..Depth |-> h[i]]
        BY DEF h
      <4> QED BY <3>3, <4>1
    <3> QED BY <2>1, <3>4
  <2> QED BY <2>2, <2>3
<1>2. PICK g : g = [i \in 0..Depth |-> FoundStep(g, r, j, i)]
  <2>1. 0 \in 0..Depth
    BY TreeAssumption
  <2> QED BY <1>1, <2>1
<1>3. found = [i \in 0..Depth |-> FoundStep(found, r, j, i)]
  BY <1>2 DEF OnPath, FoundStep
<1> HIDE DEF found
<1>4. \A i \in 0..Depth : found[i] = FoundStep(found, r, j, i)
  BY <1>3
<1> QED BY <1>4 DEF found

\* A node of either tree that has a preimage opens to its children.
LEMMA Opens ==
  ASSUME PairsInv, PreimageSound, NoCollision, NEW l, NEW i \in 0..(Depth - 1),
         l \in {before.leaves, NewLeaves}, NEW p \in Places(i + 1),
         Commitment!NodesOf(l)[i + 1][p] \in DOMAIN preimage
  PROVE  LET node == Commitment!NodesOf(l)
         IN  preimage[node[i + 1][p]] = <<node[i][2 * p], node[i][2 * p + 1]>>
<1> DEFINE node == Commitment!NodesOf(l)
           m == <<node[i][2 * p], node[i][2 * p + 1]>>
           n == preimage[node[i + 1][p]]
<1>1. node[i + 1][p] = pedersen(m[1], m[2])
  BY Nodes
<1>2. m \in HashedPairs
  <2>1. node = OldNode \/ node = NewNode
    BY DEF OldNode, NewNode
  <2> HIDE DEF node
  <2> QED BY <2>1 DEF HashedPairs, PairsOf
<1>3. n \in HashedPairs /\ node[i + 1][p] = pedersen(n[1], n[2])
  BY DEF PairsInv, PreimageSound
<1> HIDE DEF m, n, node
<1>4. m = n
  BY <1>1, <1>2, <1>3 DEF NoCollision
<1> QED BY <1>4 DEF m, n, node

\* Looking up preimages from the root down leads to the leaf.
LEMMA FindsTheLeaf ==
  ASSUME PairsInv, PreimageSound, NoCollision, NEW l, l \in {before.leaves, NewLeaves},
         NEW j \in LeafIndexes,
         \A i \in 1..Depth : Commitment!NodesOf(l)[i][Ancestor(j, i)] \in DOMAIN preimage
  PROVE  OnPath(Commitment!NodesOf(l)[Depth][0], j)[0] = {l[j]}
<1> DEFINE node == Commitment!NodesOf(l)
           r == node[Depth][0]
           found == OnPath(r, j)
           S == {i \in 0..Depth : found[i] # {node[i][Ancestor(j, i)]}}
<1> USE TreeAssumption
<1>1. \A i \in 0..Depth : found[i] = FoundStep(found, r, j, i)
  BY FoundOnPath
<1> HIDE DEF found, node
<1>2. found[Depth] = {node[Depth][Ancestor(j, Depth)]}
  <2>1. Depth \in 0..Depth
    OBVIOUS
  <2> QED BY <1>1, <2>1, LastAncestor DEF FoundStep
<1>3. ASSUME NEW i \in 0..(Depth - 1), found[i + 1] = {node[i + 1][Ancestor(j, i + 1)]}
      PROVE  found[i] = {node[i][Ancestor(j, i)]}
  <2> DEFINE a == Ancestor(j, i)
             p == Ancestor(j, i + 1)
  <2>1. i \in 0..Depth /\ i # Depth /\ i + 1 \in 1..Depth
    OBVIOUS
  <2>2. p = Parent(a) /\ a \in Places(i) /\ p \in Places(i + 1) /\ a \in Nat
    BY Ancestors DEF Places
  <2>3. node[i + 1][p] \in DOMAIN preimage
    BY <2>1 DEF node
  <2>4. preimage[node[i + 1][p]] = <<node[i][2 * p], node[i][2 * p + 1]>>
    BY <2>2, <2>3, Opens DEF node
  <2>5. found[i] = {preimage[n][1 + (a % 2)] : n \in found[i + 1] \cap DOMAIN preimage}
    BY <1>1, <2>1 DEF FoundStep, Ancestor
  <2> HIDE DEF a, p
  <2>6. found[i] = {preimage[node[i + 1][p]][1 + (a % 2)]}
    BY <1>3, <2>3, <2>5 DEF p
  <2>7. preimage[node[i + 1][p]][1 + (a % 2)] = node[i][a]
    <3>1. CASE a % 2 = 0
      <4>1. a = 2 * p
        BY <2>2, <3>1 DEF Parent
      <4> QED BY <2>4, <3>1, <4>1
    <3>2. CASE a % 2 = 1
      <4>1. a = 2 * p + 1
        BY <2>2, <3>2 DEF Parent
      <4> QED BY <2>4, <3>2, <4>1
    <3> QED BY <2>2, <3>1, <3>2
  <2> QED BY <2>6, <2>7 DEF a
<1>4. S = {}
  <2> SUFFICES ASSUME S # {} PROVE FALSE
    OBVIOUS
  <2>1. S \in SUBSET (0..Depth) /\ Depth \in Nat
    OBVIOUS
  <2>2. PICK m \in S : \A i \in S : i <= m
    <3> HIDE DEF S
    <3> QED BY <2>1, GreatestElement
  <2>3. m \in 0..Depth /\ m # Depth
    BY <1>2, <2>2
  <2>4. m \in 0..(Depth - 1) /\ m + 1 \in 0..Depth /\ m + 1 \notin S
    BY <2>2, <2>3
  <2>5. found[m] = {node[m][Ancestor(j, m)]}
    BY <1>3, <2>4
  <2> QED BY <2>2, <2>5
<1>5. Ancestor(j, 0) = j /\ 0 \in 0..Depth /\ node[0] = l
  <2>1. 0 \in 0..(Depth - 1) /\ 0 \in 0..Depth
    OBVIOUS
  <2> QED BY <2>1, Ancestors, Nodes DEF node
<1>6. found[0] = {l[j]}
  BY <1>4, <1>5
<1> QED BY <1>6 DEF found, node

(***************************************************************************)
(* The preimages of a finished batch open the old root to the old value    *)
(* and the new root to the new one at every updated leaf, unless two of    *)
(* the nodes that the two trees are made of collide under the hash.        *)
(***************************************************************************)
THEOREM PreimagesOpenRoots ==
  ASSUME Shift = 0
  PROVE  Spec => [](NoCollision => PreimageOpens)
<1>1. OpeningInv => (NoCollision => PreimageOpens)
  <2> SUFFICES ASSUME OpeningInv, NoCollision, ~ busy, applied > 0, NEW j \in DOMAIN before.batch
               PROVE  /\ OnPath(before.root, j)[0] = {before.leaves[j]}
                      /\ OnPath(root, j)[0] = {before.batch[j]}
    BY DEF PreimageOpens
  <2>1. EndedInv /\ PairsInv /\ PreimageSound
    BY DEF OpeningInv, TreeInv
  <2>2. j \in LeafIndexes
    BY <2>1, BatchUpdateAssumption DEF EndedInv, LeafIndexes
  <2>3. \A i \in 1..Depth : HasBoth(i, Ancestor(j, i))
    BY <2>1 DEF EndedInv, PathsKept
  <2>4. OnPath(OldNode[Depth][0], j)[0] = {before.leaves[j]}
    <3>1. \A i \in 1..Depth :
            Commitment!NodesOf(before.leaves)[i][Ancestor(j, i)] \in DOMAIN preimage
      BY <2>3 DEF HasBoth, OldNode
    <3> QED BY <2>1, <2>2, <3>1, FindsTheLeaf DEF OldNode
  <2>5. OnPath(NewNode[Depth][0], j)[0] = {NewLeaves[j]}
    <3>1. \A i \in 1..Depth :
            Commitment!NodesOf(NewLeaves)[i][Ancestor(j, i)] \in DOMAIN preimage
      BY <2>3 DEF HasBoth, NewNode
    <3> QED BY <2>1, <2>2, <3>1, FindsTheLeaf DEF NewNode
  <2>6. NewLeaves[j] = before.batch[j]
    BY <2>2 DEF NewLeaves, Commitment!Apply, Commitment!LeafIndexes, LeafIndexes
  <2> QED BY <2>1, <2>4, <2>5, <2>6 DEF EndedInv
<1> QED BY <1>1, OpeningInvariant, PTL
=============================================================================
