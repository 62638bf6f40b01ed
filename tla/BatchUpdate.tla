------------------------------- MODULE BatchUpdate -------------------------------
(***************************************************************************)
(* Tree::batch_transition_updates of src/trees/mod.rs: the parallel update *)
(* of a Merkle tree with a batch of leaves.                                *)
(*                                                                         *)
(* The rows of the tree are updated one after the other.  A row's updates  *)
(* are a hash map; its entries, in the map's arbitrary order, are cut into *)
(* chunks of STRIDE, and rayon::join runs one task per chunk in parallel.  *)
(* The tasks share the tree and the preimage map, each under its mutex,    *)
(* and take and release a mutex several times for every entry: each locked *)
(* section is a step.  A task ends by merging the parents it updated into  *)
(* next_row, the updates of the next row.                                  *)
(***************************************************************************)
EXTENDS TreeAlgorithms, FiniteSets

CONSTANTS
  Batches,         \* the update maps callers pass
  MaxBatches       \* bound: batches applied to one tree

ASSUME BatchUpdateAssumption ==
  /\ MaxBatches \in Nat
  /\ \A b \in Batches : DOMAIN b \subseteq 0..(2 ^ Depth - 1)

VARIABLES
  leaf_nodes, inner_nodes, root,  \* the Tree; inner_nodes[i] is the row i levels up
  busy,      \* whether batch_transition_updates is running
  row,       \* the row being updated, 0 for the leaves
  hashes,    \* the row's updates: new leaves in row 0, replaced nodes above it
  order,     \* the iteration order of hashes
  task,      \* the tasks of the row
  next_row,  \* the parents merged so far, with the values they replaced
  preimage,  \* the preimage map of the batch
  applied,   \* batches begun
  before     \* history: the batch, and the leaves and the root before it

tree == <<leaf_nodes, inner_nodes, root>>
vars == <<tree, busy, row, hashes, order, task, next_row, preimage, applied, before>>

EmptyMap == [i \in {} |-> Zero]

Insert(f, k, v) == [i \in DOMAIN f \union {k} |-> IF i = k THEN v ELSE f[i]]

Merge(f, g) == [i \in DOMAIN f \union DOMAIN g |-> IF i \in DOMAIN g THEN g[i] ELSE f[i]]

\* Vec::get with a default, and a write that pads the vector up to the index.
Get(s, i, default) == IF i < Len(s) THEN s[i + 1] ELSE default

Put(s, i, v, pad) ==
  [k \in 1..(IF i < Len(s) THEN Len(s) ELSE i + 1) |->
     IF k = i + 1 THEN v ELSE Get(s, k - 1, pad)]

nth_leaf_node(n) == Get(leaf_nodes, n, get_zero_hash(0))

\* update_leaf_node pads with zero, whatever the shift.
update_leaf_node(leaves, hash, idx) == Put(leaves, idx, hash, Zero)

ith_inner_node(i, j) == Get(inner_nodes[i], j, get_zero_hash(i))

\* Padding with the zero hash of the row below.
update_inner_node_pads_low(i, j, value) ==
  inner_nodes' = [inner_nodes EXCEPT ![i] = Put(@, j, value, get_zero_hash(i - 1))]

update_inner_node(i, j, value) ==
  inner_nodes' = [inner_nodes EXCEPT ![i] = Put(@, j, value, get_zero_hash(i))]

\* The sibling of every node from a leaf to below the root, the leaf's first,
\* and the sides the leaf's path takes.
get_proof(leaf_idx) ==
  [proof |-> [k \in 1..Depth |->
                IF k = 1 THEN nth_leaf_node(proof_pos(leaf_idx)[0])
                ELSE ith_inner_node(k - 1, proof_pos(leaf_idx)[k - 1])],
   binary_pos |-> idx_to_binary_pos(leaf_idx)]

-----------------------------------------------------------------------------
(***************************************************************************)
(* The split of a row into tasks (split_and_run_first_row, _next_row).     *)
(***************************************************************************)
Orders(map) ==
  {o \in [1..Cardinality(DOMAIN map) -> DOMAIN map] :
     \A j, k \in DOMAIN o : o[j] = o[k] => j = k}

Tasks(map) == 1..((Cardinality(DOMAIN map) + Stride - 1) \div Stride)

\* Where chunk t ends: skip(n * STRIDE).take(STRIDE).
LastOf(t) == IF t * Stride < Len(order) THEN t * Stride ELSE Len(order)

NoEntry == [idx |-> 0, left |-> Zero, right |-> Zero,
            prev_left |-> Zero, prev_right |-> Zero, prev_res |-> Zero]

NewTasks(map) ==
  [t \in Tasks(map) |-> [pos |-> (t - 1) * Stride + 1, pc |-> "read",
                         entry |-> NoEntry, found |-> EmptyMap]]

StartRow(i, map) ==
  /\ row' = i
  /\ hashes' = map
  /\ order' \in Orders(map)
  /\ task' = NewTasks(map)
  /\ next_row' = EmptyMap

Init ==
  /\ leaf_nodes = <<>>
  /\ inner_nodes = [i \in 1..Depth |-> <<>>]
  /\ root = get_zero_hash(Depth)
  /\ busy = FALSE
  /\ row = 0
  /\ hashes = EmptyMap
  /\ order = <<>>
  /\ task = NewTasks(EmptyMap)
  /\ next_row = EmptyMap
  /\ preimage = [k \in {} |-> <<Zero, Zero>>]
  /\ applied = 0
  /\ before = [leaves |-> [j \in 0..(2 ^ Depth - 1) |-> get_zero_hash(0)],
               root   |-> get_zero_hash(Depth),
               batch  |-> EmptyMap]

\* An empty batch returns at once; update_trees starts every batch with an
\* empty preimage map.
BeginBatch(b) ==
  /\ ~busy
  /\ applied < MaxBatches
  /\ DOMAIN b # {}
  /\ busy' = TRUE
  /\ StartRow(0, b)
  /\ preimage' = [k \in {} |-> <<Zero, Zero>>]
  /\ applied' = applied + 1
  /\ before' = [leaves |-> [j \in 0..(2 ^ Depth - 1) |-> nth_leaf_node(j)],
                root   |-> root,
                batch  |-> b]
  /\ UNCHANGED tree

-----------------------------------------------------------------------------
(***************************************************************************)
(* One entry of a chunk.                                                   *)
(***************************************************************************)
\* The index rounded the wrong way.
Parent_up(idx) == (idx + 1) \div 2

Parent(idx) == idx \div 2

At(t, pc) == busy /\ t \in DOMAIN task /\ task[t].pc = pc

IsLeft(idx) == idx % 2 = 0

\* The entry task t is at, if it has one left.
Reads(t, idx) == At(t, "read") /\ task[t].pos <= LastOf(t) /\ order[task[t].pos] = idx

\* A left child whose sibling is updated too is left to the sibling.
Skip(t) ==
  /\ \E idx \in DOMAIN hashes : Reads(t, idx) /\ IsLeft(idx) /\ idx + 1 \in DOMAIN hashes
  /\ task' = [task EXCEPT ![t].pos = @ + 1]
  /\ UNCHANGED <<tree, busy, row, hashes, order, next_row, preimage, applied, before>>

Take(t, entry) ==
  /\ task' = [task EXCEPT ![t].pc = "update", ![t].entry = entry]
  /\ UNCHANGED <<inner_nodes, root, busy, row, hashes, order, next_row, preimage,
                 applied, before>>

\* First row, left child: the sibling is not updated.
ReadFirstLeft(t) == \E idx \in DOMAIN hashes :
  /\ Reads(t, idx) /\ row = 0 /\ IsLeft(idx) /\ idx + 1 \notin DOMAIN hashes
  /\ Take(t, [idx |-> idx, left |-> hashes[idx], right |-> nth_leaf_node(idx + 1),
              prev_left |-> nth_leaf_node(idx), prev_right |-> nth_leaf_node(idx + 1),
              prev_res |-> Zero])
  /\ UNCHANGED leaf_nodes

\* First row, right child: it writes its own leaf and its left sibling's,
\* when that is updated too.
ReadFirstRight(t) == \E idx \in DOMAIN hashes :
  /\ Reads(t, idx) /\ row = 0 /\ ~IsLeft(idx)
  /\ Take(t, [idx |-> idx,
              left |-> IF idx - 1 \in DOMAIN hashes THEN hashes[idx - 1]
                       ELSE nth_leaf_node(idx - 1),
              right |-> hashes[idx],
              prev_left |-> nth_leaf_node(idx - 1), prev_right |-> nth_leaf_node(idx),
              prev_res |-> Zero])
  /\ leaf_nodes' = update_leaf_node(IF idx - 1 \in DOMAIN hashes
                                    THEN update_leaf_node(leaf_nodes, hashes[idx - 1], idx - 1)
                                    ELSE leaf_nodes,
                                    hashes[idx], idx)

\* Rows above: the map holds the nodes that the row below replaced.
ReadNextLeft(t) == \E idx \in DOMAIN hashes :
  /\ Reads(t, idx) /\ row > 0 /\ IsLeft(idx) /\ idx + 1 \notin DOMAIN hashes
  /\ Take(t, [idx |-> idx,
              left |-> ith_inner_node(row, idx), right |-> ith_inner_node(row, idx + 1),
              prev_left |-> hashes[idx], prev_right |-> ith_inner_node(row, idx + 1),
              prev_res |-> Zero])
  /\ UNCHANGED leaf_nodes

\* What the left sibling is now, not what it was.
PrevLeftSibling_current(idx) == ith_inner_node(row, idx - 1)

PrevLeftSibling(idx) ==
  IF idx - 1 \in DOMAIN hashes THEN hashes[idx - 1] ELSE ith_inner_node(row, idx - 1)

ReadNextRight(t) == \E idx \in DOMAIN hashes :
  /\ Reads(t, idx) /\ row > 0 /\ ~IsLeft(idx)
  /\ Take(t, [idx |-> idx,
              left |-> ith_inner_node(row, idx - 1), right |-> ith_inner_node(row, idx),
              prev_left |-> PrevLeftSibling(idx), prev_right |-> hashes[idx],
              prev_res |-> Zero])
  /\ UNCHANGED leaf_nodes

-----------------------------------------------------------------------------
(***************************************************************************)
(* The parent is read and replaced in one locked section, and remembered   *)
(* in the task's own list.                                                 *)
(***************************************************************************)
UpdateParent(t) ==
  LET e == task[t].entry
      parent == Parent(e.idx)
      prev_res == ith_inner_node(row + 1, parent)
  IN  /\ At(t, "update")
      /\ update_inner_node(row + 1, parent, pedersen(e.left, e.right))
      /\ task' = [task EXCEPT ![t].pc = "preimage", ![t].entry.prev_res = prev_res,
                              ![t].found = Insert(@, parent, prev_res)]
      /\ UNCHANGED <<leaf_nodes, root, busy, row, hashes, order, next_row, preimage,
                     applied, before>>

Finished(t) == [task[t] EXCEPT !.pc = "read", !.pos = @ + 1, !.entry = NoEntry]

\* Only the new parent's preimage is kept.
WithPreimages_new_only(e) == Insert(preimage, pedersen(e.left, e.right), <<e.left, e.right>>)

\* The replaced parent keeps the preimage it has; the new one is always inserted.
WithPreimages(e) ==
  LET old == IF e.prev_res \in DOMAIN preimage THEN preimage
             ELSE Insert(preimage, e.prev_res, <<e.prev_left, e.prev_right>>)
  IN  Insert(old, pedersen(e.left, e.right), <<e.left, e.right>>)

InsertPreimages(t) ==
  LET e == task[t].entry
  IN  /\ At(t, "preimage")
      /\ preimage' = WithPreimages(e)
      /\ task' = [task EXCEPT ![t] = IF row = 0 /\ IsLeft(e.idx)
                                     THEN [@ EXCEPT !.pc = "leaf"] ELSE Finished(t)]
      /\ UNCHANGED <<tree, busy, row, hashes, order, next_row, applied, before>>

\* The left child of the first row is written last.
WriteLeftLeaf(t) ==
  LET e == task[t].entry
  IN  /\ At(t, "leaf")
      /\ leaf_nodes' = update_leaf_node(leaf_nodes, e.left, e.idx)
      /\ task' = [task EXCEPT ![t] = Finished(t)]
      /\ UNCHANGED <<inner_nodes, root, busy, row, hashes, order, next_row, preimage,
                     applied, before>>

\* The chunk is done: merge the task's list into next_row.
MergeFound(t) ==
  /\ At(t, "read") /\ task[t].pos > LastOf(t)
  /\ next_row' = Merge(next_row, task[t].found)
  /\ task' = [task EXCEPT ![t].pc = "done"]
  /\ UNCHANGED <<tree, busy, row, hashes, order, preimage, applied, before>>

TaskStep(t) ==
  \/ Skip(t)
  \/ ReadFirstLeft(t)
  \/ ReadFirstRight(t)
  \/ ReadNextLeft(t)
  \/ ReadNextRight(t)
  \/ UpdateParent(t)
  \/ InsertPreimages(t)
  \/ WriteLeftLeaf(t)
  \/ MergeFound(t)

-----------------------------------------------------------------------------
(***************************************************************************)
(* The joins: a row begins when every task of the row before has ended.    *)
(***************************************************************************)
\* One side of the join is not waited for.
RowDone_some_task == busy /\ \E t \in DOMAIN task : task[t].pc = "done"

\* The empty chunk at the end of the recursion is waited for too.
RowDone_and_tail ==
  busy /\ \A t \in 1..(Cardinality(DOMAIN task) + 1) :
            t \in DOMAIN task /\ task[t].pc = "done"

RowDone == busy /\ \A t \in DOMAIN task : task[t].pc = "done"

NextRow ==
  /\ RowDone
  /\ row + 1 < Depth
  /\ StartRow(row + 1, next_row)
  /\ UNCHANGED <<tree, busy, preimage, applied, before>>

\* The root is read from the row below.
EndBatch_low_row ==
  /\ RowDone
  /\ row + 1 = Depth
  /\ root' = ith_inner_node(Depth - 1, 0)
  /\ busy' = FALSE
  /\ StartRow(0, EmptyMap)
  /\ UNCHANGED <<leaf_nodes, inner_nodes, preimage, applied, before>>

EndBatch ==
  /\ RowDone
  /\ row + 1 = Depth
  /\ root' = inner_nodes[Depth][1]
  /\ busy' = FALSE
  /\ StartRow(0, EmptyMap)
  /\ UNCHANGED <<leaf_nodes, inner_nodes, preimage, applied, before>>

Next ==
  \/ \E b \in Batches : BeginBatch(b)
  \/ \E t \in DOMAIN task : TaskStep(t)
  \/ NextRow
  \/ EndBatch

Spec == Init /\ [][Next]_vars

(***************************************************************************)
(* rayon runs every task of a join, and join returns when both sides have. *)
(***************************************************************************)
FairSpec ==
  /\ Spec
  /\ \A t \in 1..2 ^ Depth : WF_vars(TaskStep(t))
  /\ WF_vars(NextRow) /\ WF_vars(EndBatch)
-----------------------------------------------------------------------------
(***************************************************************************)
(* Properties.                                                             *)
(***************************************************************************)
LeafIndexes == 0..(2 ^ Depth - 1)

CurrentLeaves == [j \in LeafIndexes |-> nth_leaf_node(j)]

Commitment == INSTANCE MerkleCommitment WITH
  EmptyLeaf <- get_zero_hash(0),
  leaves    <- IF busy THEN before.leaves ELSE CurrentLeaves

(***************************************************************************)
(* Type invariant: no row outgrows its level of the tree, and every task   *)
(* stays in its chunk.                                                     *)
(***************************************************************************)
TypeOK ==
  /\ Len(leaf_nodes) <= 2 ^ Depth
  /\ DOMAIN inner_nodes = 1..Depth
  /\ \A i \in 1..Depth : Len(inner_nodes[i]) <= 2 ^ (Depth - i)
  /\ busy \in BOOLEAN
  /\ row \in 0..(Depth - 1)
  /\ DOMAIN hashes \subseteq 0..(2 ^ (Depth - row) - 1)
  /\ DOMAIN next_row \subseteq 0..(2 ^ (Depth - row - 1) - 1)
  /\ order \in Orders(hashes)
  /\ DOMAIN task = Tasks(hashes)
  /\ \A t \in DOMAIN task :
       /\ task[t].pos \in ((t - 1) * Stride + 1)..(LastOf(t) + 1)
       /\ task[t].pc \in {"read", "update", "preimage", "leaf", "done"}
  /\ applied \in 0..MaxBatches

(***************************************************************************)
(* The update of a row is the update of the abstract tree: when the tasks  *)
(* of a row have ended, in whatever order they ran, the row above holds    *)
(* the nodes that the definition of a Merkle tree gives for the leaves.    *)
(***************************************************************************)
RowsAgree ==
  LET node == Commitment!NodesOf(CurrentLeaves)
  IN  \A i \in 1..(IF ~busy THEN Depth ELSE IF RowDone THEN row + 1 ELSE row) :
        \A j \in 0..(2 ^ (Depth - i) - 1) : ith_inner_node(i, j) = node[i][j]

(***************************************************************************)
(* Every entry of the preimage map, at every moment, names two nodes that  *)
(* hash to its key: no task pairs a replaced node with a current one.      *)
(***************************************************************************)
PreimageSound ==
  \A k \in DOMAIN preimage : k = pedersen(preimage[k][1], preimage[k][2])

\* The nodes found on the way down from r to leaf j by looking up preimages.
OnPath(r, j) ==
  LET found[i \in 0..Depth] ==
        IF i = Depth THEN {r}
        ELSE {preimage[n][1 + ((j \div 2 ^ i) % 2)] : n \in found[i + 1] \cap DOMAIN preimage}
  IN  found

(***************************************************************************)
(* The preimages of a finished batch open both roots at every updated      *)
(* leaf: the old root to the old value, the new root to the new one.       *)
(***************************************************************************)
PreimageOpens ==
  ~busy /\ applied > 0 =>
    \A j \in DOMAIN before.batch :
      /\ OnPath(before.root, j)[0] = {before.leaves[j]}
      /\ OnPath(root, j)[0] = {before.batch[j]}

\* The nodes on the way up from leaf idx, hashed with the siblings of its proof.
Climb(idx) ==
  LET p == get_proof(idx)
      climb[k \in 0..Depth] ==
        IF k = 0 THEN nth_leaf_node(idx)
        ELSE IF p.binary_pos[k] = 1 THEN pedersen(p.proof[k], climb[k - 1])
        ELSE pedersen(climb[k - 1], p.proof[k])
  IN  climb

(***************************************************************************)
(* Between batches the tree is what its sequential half takes it for: the  *)
(* proof of every leaf, empty ones included, leads from the leaf to the    *)
(* root, and verify_root, which hashes the whole tree again, agrees.       *)
(***************************************************************************)
ProofsOpen == ~busy => \A idx \in LeafIndexes : Climb(idx)[Depth] = root

RootVerifies == ~busy => verify_root(leaf_nodes, root)

(***************************************************************************)
(* A batch takes effect at once and as a whole, and the root is the root   *)
(* of the leaves.                                                          *)
(***************************************************************************)
ImplementsCommitment == Commitment!Spec

(***************************************************************************)
(* Every batch ends: no row waits for a task that never runs.              *)
(***************************************************************************)
BatchEnds == busy ~> ~busy
=============================================================================
