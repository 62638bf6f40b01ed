---------------------------- MODULE AlgorithmProofs ----------------------------
(***************************************************************************)
(* Theorems about the algorithms: that the storage reads what was stored,  *)
(* whatever the process was doing when it stopped, and that build_tree,    *)
(* Poseidon, the ranking, the conversions of numbers and short strings and *)
(* the hashes of contract classes give what they promise for every input.  *)
(***************************************************************************)
EXTENDS Algorithms, CairoStrings, EnumerationLemmas

CONSTANTS          \* what the hashes of contract classes are made of
  poseidon(_), pedersen_of(_, _), address_of(_), keccak(_), text_of(_), short_felt(_)

Classes == INSTANCE ClassHashes WITH
  pedersen_hash <- pedersen_of, poseidon_hash_many <- poseidon, normalize_address <- address_of,
  starknet_keccak <- keccak, to_string_pythonic <- text_of,
  cairo_short_string_to_felt <- short_felt

-----------------------------------------------------------------------------
(***************************************************************************)
(* The inductive invariant.  It relates the history to the entries below   *)
(* the count only, in memory and on disk, so that it does not matter when  *)
(* the entry above them reaches the disk: a call in progress has read the  *)
(* count that is still there, and only when it has written its entry does  *)
(* it go on to raise the count.                                            *)
(***************************************************************************)
Records ==
  [count : Entries \union {None}, entry : [Entries -> Verification \union {None}]]

Histories == [Problem -> Seq(Verification)]

TypeOK ==
  /\ db \in [Problem -> Records] /\ disk \in [Problem -> Records]
  /\ stored \in Histories /\ durable \in Histories

Holds(records, history) ==
  \A p \in Problem :
    records[p].count # None =>
      /\ Len(history[p]) = records[p].count
      /\ \A i \in 1..Len(history[p]) : records[p].entry[i - 1] = history[p][i]

CallSound ==
  \/ call = Idle
  \/ /\ call.step \in {"entry", "count"}
     /\ call.problem_id \in Problem /\ call.verification \in Verification
     /\ call.count \in 0..(MaxCount - 1)
     /\ db[call.problem_id].count = call.count
     /\ call.step = "count" => db[call.problem_id].entry[call.count] = call.verification

StorageInv == TypeOK /\ Holds(db, stored) /\ Holds(disk, durable) /\ CallSound

-----------------------------------------------------------------------------
\* Nothing is stored yet, and every count is zero or absent.
LEMMA InitInv == Init => StorageInv
<1> SUFFICES ASSUME Init PROVE StorageInv
  OBVIOUS
<1> USE StorageAssumption
<1>1. PICK prepared \in SUBSET Problem :
        db = [p \in Problem |-> [count |-> IF p \in prepared THEN 0 ELSE None,
                                 entry |-> [i \in Entries |-> None]]]
  BY DEF Init
<1>2. /\ disk = db /\ call = Idle /\ durable = stored
      /\ stored = [p \in Problem |-> <<>>]
  BY DEF Init
<1>3. db \in [Problem -> Records]
  BY <1>1 DEF Records, Entries
<1>4. stored \in Histories
  BY <1>2 DEF Histories
<1>5. Holds(db, stored)
  BY <1>1, <1>2 DEF Holds
<1> QED BY <1>2, <1>3, <1>4, <1>5 DEF StorageInv, TypeOK, CallSound

\* A call begins with the count that is there.
LEMMA ReadCountInv ==
  ASSUME StorageInv, NEW p \in Problem, NEW v \in Verification, ReadCount(p, v)
  PROVE  StorageInv'
<1> USE StorageAssumption DEF StorageInv
<1>1. /\ db[p].count \in 0..(MaxCount - 1)
      /\ call' = [step |-> "entry", problem_id |-> p, verification |-> v, count |-> db[p].count]
      /\ UNCHANGED <<db, disk, stored, durable>>
  BY DEF ReadCount
<1>2. CallSound'
  BY <1>1 DEF CallSound
<1> QED BY <1>1, <1>2 DEF TypeOK, Holds

\* The entry of a call in progress is above all that are read.
LEMMA InsertEntryInv ==
  ASSUME StorageInv, InsertEntry
  PROVE  StorageInv'
<1> USE StorageAssumption DEF StorageInv
<1> DEFINE p == call.problem_id
           c == call.count
           v == call.verification
<1>1. /\ call.step = "entry"
      /\ db' = [db EXCEPT ![p].entry[c] = v]
      /\ call' = [call EXCEPT !.step = "count"]
      /\ UNCHANGED <<disk, stored, durable>>
  BY DEF InsertEntry
<1>2. /\ p \in Problem /\ v \in Verification /\ c \in 0..(MaxCount - 1)
      /\ db[p].count = c /\ c \in Entries
  BY <1>1 DEF CallSound, Idle, Entries
<1>3. db[p] \in Records /\ db \in [Problem -> Records]
  BY <1>2 DEF TypeOK
<1>4. /\ db'[p].count = c
      /\ db'[p].entry = [db[p].entry EXCEPT ![c] = v]
      /\ \A q \in Problem : q # p => db'[q] = db[q]
  BY <1>1, <1>2, <1>3 DEF Records
<1>5. db' \in [Problem -> Records]
  <2>1. [db[p].entry EXCEPT ![c] = v] \in [Entries -> Verification \union {None}]
    BY <1>2, <1>3 DEF Records
  <2>2. [db[p] EXCEPT !.entry = [db[p].entry EXCEPT ![c] = v]] \in Records
    BY <1>3, <2>1 DEF Records
  <2>3. db' = [db EXCEPT ![p] = [db[p] EXCEPT !.entry = [db[p].entry EXCEPT ![c] = v]]]
    BY <1>1
  <2> QED BY <1>2, <1>3, <2>2, <2>3
<1>6. Holds(db, stored)'
  <2> SUFFICES ASSUME NEW q \in Problem, db'[q].count # None
               PROVE  /\ Len(stored[q]) = db'[q].count
                      /\ \A i \in 1..Len(stored[q]) : db'[q].entry[i - 1] = stored[q][i]
    BY <1>1 DEF Holds
  <2>1. CASE q = p
    <3>1. c # None
      BY <1>2
    <3>2. /\ Len(stored[p]) = c
          /\ \A i \in 1..Len(stored[p]) : db[p].entry[i - 1] = stored[p][i]
      BY <1>2, <3>1 DEF Holds
    <3>3. ASSUME NEW i \in 1..c PROVE db'[p].entry[i - 1] = db[p].entry[i - 1]
      <4>1. i - 1 \in Entries /\ i - 1 # c
        BY <1>2 DEF Entries
      <4>2. DOMAIN db[p].entry = Entries
        BY <1>3 DEF Records
      <4> QED BY <1>4, <4>1, <4>2
    <3> QED BY <1>4, <2>1, <3>2, <3>3
  <2>2. CASE q # p
    BY <1>4, <2>2 DEF Holds
  <2> QED BY <2>1, <2>2
<1>7. CallSound'
  <2>1. /\ call'.step = "count" /\ call'.problem_id = p /\ call'.verification = v /\ call'.count = c
    BY <1>1 DEF CallSound
  <2>2. db'[p].entry[c] = v
    BY <1>2, <1>3, <1>4 DEF Records
  <2> QED BY <1>2, <1>4, <2>1, <2>2 DEF CallSound
<1>8. Holds(disk, durable)'
  BY <1>1 DEF Holds
<1> QED BY <1>1, <1>5, <1>6, <1>7, <1>8 DEF TypeOK

\* The count that is raised takes in the entry that was written before it.
LEMMA InsertCountInv ==
  ASSUME StorageInv, InsertCount
  PROVE  StorageInv'
<1> USE StorageAssumption DEF StorageInv
<1> DEFINE p == call.problem_id
           c == call.count
           v == call.verification
<1>1. /\ call.step = "count"
      /\ db' = [db EXCEPT ![p].count = c + 1]
      /\ call' = Idle
      /\ stored' = [stored EXCEPT ![p] = Append(stored[p], v)]
      /\ UNCHANGED <<disk, durable>>
  BY DEF InsertCount
<1>2. /\ p \in Problem /\ v \in Verification /\ c \in 0..(MaxCount - 1)
      /\ db[p].count = c /\ db[p].entry[c] = v
  BY <1>1 DEF CallSound, Idle
<1>3. c + 1 \in Entries /\ c \in Nat /\ c # None
  BY <1>2 DEF Entries
<1>4. db[p] \in Records /\ stored[p] \in Seq(Verification)
  BY <1>2 DEF TypeOK, Histories
<1>5. /\ db'[p].count = c + 1 /\ db'[p].entry = db[p].entry
      /\ stored'[p] = Append(stored[p], v)
      /\ \A q \in Problem : q # p => db'[q] = db[q] /\ stored'[q] = stored[q]
  BY <1>1, <1>2, <1>4 DEF TypeOK, Records, Histories
<1>6. TypeOK'
  <2>1. [db[p] EXCEPT !.count = c + 1] \in Records
    BY <1>3, <1>4 DEF Records
  <2>2. db' = [db EXCEPT ![p] = [db[p] EXCEPT !.count = c + 1]]
    BY <1>1
  <2>3. Append(stored[p], v) \in Seq(Verification)
    BY <1>2, <1>4
  <2> QED BY <1>1, <1>2, <2>1, <2>2, <2>3 DEF TypeOK, Histories
<1>7. Holds(db, stored)'
  <2> SUFFICES ASSUME NEW q \in Problem, db'[q].count # None
               PROVE  /\ Len(stored'[q]) = db'[q].count
                      /\ \A i \in 1..Len(stored'[q]) : db'[q].entry[i - 1] = stored'[q][i]
    BY DEF Holds
  <2>1. CASE q = p
    <3>1. /\ Len(stored[p]) = c
          /\ \A i \in 1..Len(stored[p]) : db[p].entry[i - 1] = stored[p][i]
      BY <1>2, <1>3 DEF Holds
    <3>2. Len(stored'[p]) = c + 1
      BY <1>2, <1>4, <1>5, <3>1
    <3>3. ASSUME NEW i \in 1..(c + 1) PROVE db'[p].entry[i - 1] = stored'[p][i]
      <4>1. CASE i = c + 1
        <5>1. stored'[p][i] = v /\ i - 1 = c
          BY <1>2, <1>3, <1>4, <1>5, <3>1, <4>1
        <5> QED BY <1>2, <1>5, <5>1
      <4>2. CASE i # c + 1
        <5>1. i \in 1..c
          BY <1>3, <4>2
        <5>2. stored'[p][i] = stored[p][i]
          BY <1>2, <1>4, <1>5, <3>1, <5>1
        <5> QED BY <1>5, <3>1, <5>1, <5>2
      <4> QED BY <4>1, <4>2
    <3> QED BY <1>5, <2>1, <3>2, <3>3
  <2>2. CASE q # p
    BY <1>5, <2>2 DEF Holds
  <2> QED BY <2>1, <2>2
<1>8. Holds(disk, durable)' /\ CallSound'
  BY <1>1 DEF Holds, CallSound
<1> QED BY <1>6, <1>7, <1>8

\* The disk is what memory was, and memory what the disk is.
LEMMA DiskInv ==
  ASSUME StorageInv, Flush \/ Restart \/ UNCHANGED vars
  PROVE  StorageInv'
<1> USE DEF StorageInv, TypeOK
<1>1. CASE Flush
  BY <1>1 DEF Flush, Holds, CallSound
<1>2. CASE Restart
  BY <1>2 DEF Restart, Holds, CallSound
<1>3. CASE UNCHANGED vars
  BY <1>3 DEF vars, Holds, CallSound
<1> QED BY <1>1, <1>2, <1>3

\* The invariant is inductive.
LEMMA StorageInvariant == Spec => []StorageInv
<1>1. Init => StorageInv
  BY InitInv
<1>2. StorageInv /\ [Next]_vars => StorageInv'
  BY ReadCountInv, InsertEntryInv, InsertCountInv, DiskInv DEF Next
<1> QED BY <1>1, <1>2, PTL DEF Spec

-----------------------------------------------------------------------------
(***************************************************************************)
(* get_all_verifications always returns the verifications that were stored *)
(* and not lost with the process, once each and in order, for any number   *)
(* of problems, calls, stops and writes to the disk between the inserts.   *)
(***************************************************************************)
THEOREM AlwaysReadsWhatWasStored == Spec => []ReadsWhatWasStored
<1>1. StorageInv => ReadsWhatWasStored
  <2> SUFFICES ASSUME StorageInv, NEW p \in Problem, db[p].count # None
               PROVE  get_all_verifications(p) = stored[p]
    BY DEF ReadsWhatWasStored
  <2>1. stored[p] \in Seq(Verification)
    BY DEF StorageInv, TypeOK, Histories
  <2>2. /\ Len(stored[p]) = db[p].count
        /\ \A i \in 1..Len(stored[p]) : db[p].entry[i - 1] = stored[p][i]
    BY DEF StorageInv, Holds
  <2>3. stored[p] = [i \in 1..Len(stored[p]) |-> stored[p][i]]
    BY <2>1
  <2> QED BY <2>2, <2>3 DEF get_all_verifications
<1> QED BY <1>1, StorageInvariant, PTL

-----------------------------------------------------------------------------
(***************************************************************************)
(* Recursive functions.  A value that is computed in steps from the one    *)
(* before it exists up to every number of steps; this is proved once, for  *)
(* the steps of all the recursions of the algorithms.                      *)
(***************************************************************************)
\* The i-th step from the value before it; x holds what the step reads.
Step(of, x, before, i) ==
  CASE of = "get_zero_hash"          -> pedersen(before, before)
    [] of = "inner_from_leaf_nodes"  -> pairwise_hash(before)
    [] of = "inner_from_leaf_nodes2" -> hash_tree_level(before, i - 1)
    [] of = "Total"                  -> before + x[i]
    [] of = "power"                  -> x * before
    [] of = "quotients"              -> before \div x
    [] of = "numbers"                -> x.base * before + x.digits[i]
    [] of = "dec_reads"              ->
         IF ~before.ok THEN before
         ELSE IF x[i] \notin 0..9 THEN Err(InvalidCharacter)
         ELSE push_digit(before.value, x[i])
    [] of = "buffers"                ->
         IF ~before.ok THEN before
         ELSE IF x[i] # 0 THEN Ok(Append(before.value, x[i]))
         ELSE IF before.value # <<>> THEN Err("UnexpectedNullTerminator")
         ELSE before
    [] of = "hashes"                 -> pedersen_hash(before, x[i])
    [] of = "class hashes"           -> pedersen_of(before, x[i])
    [] of = "FlattenSeq"             -> before \o x[i + 1]
    [] of = "compress"               -> Plus(mix([before EXCEPT ![3] = 0]), x[HALF + i + 1])
    [] of = "permute_comp"           -> round_comp(before, x, KeyIndex(i), FullRound(i))
    [] of = "Permutation"            -> KeyedRound(before, x[i], FullRound(i))
    [] of = "hash_many"              ->
         poseidon_permute_comp(Plus(before, <<x.msgs[2 * i - 1], x.msgs[2 * i], 0>>), x.consts)
    [] of = "hasher"                 -> update(before, x.msgs[i], x.consts)

Computes(g, of, x, first, n) ==
  g = [i \in 0..n |-> IF i = 0 THEN first ELSE Step(of, x, g[i - 1], i)]

LEMMA Recursion ==
  ASSUME NEW of, NEW x, NEW first, NEW n \in Nat
  PROVE  \E g : Computes(g, of, x, first, n)
<1> DEFINE S == {m \in Nat : ~ \E g : Computes(g, of, x, first, m)}
<1> SUFFICES ASSUME S # {} PROVE FALSE
  OBVIOUS
<1>1. PICK m \in S : \A k \in S : m <= k
  BY LeastElement
<1>2. CASE m = 0
  <2> DEFINE g == [i \in 0..0 |-> first]
  <2>1. g = [i \in 0..0 |-> IF i = 0 THEN first ELSE Step(of, x, g[i - 1], i)]
    OBVIOUS
  <2> QED BY <1>1, <1>2, <2>1 DEF Computes
<1>3. CASE m # 0
  <2>1. m \in Nat /\ m - 1 \in Nat /\ m - 1 \notin S
    BY <1>1, <1>3
  <2>2. PICK g : g = [i \in 0..(m - 1) |-> IF i = 0 THEN first ELSE Step(of, x, g[i - 1], i)]
    BY <2>1 DEF Computes
  <2> DEFINE h == [i \in 0..m |-> IF i = m THEN Step(of, x, g[m - 1], m) ELSE g[i]]
  <2>3. ASSUME NEW i \in 0..m PROVE h[i] = IF i = 0 THEN first ELSE Step(of, x, h[i - 1], i)
    <3>1. CASE i = 0
      BY <2>1, <2>2, <1>3, <3>1
    <3>2. CASE i # 0
      <4>1. i - 1 \in 0..m /\ i - 1 # m
        BY <2>1, <3>2
      <4>2. h[i - 1] = g[i - 1]
        BY <4>1
      <4>3. CASE i = m
        BY <3>2, <4>2, <4>3
      <4>4. CASE i # m
        <5>1. i \in 0..(m - 1)
          BY <2>1, <4>4
        <5>2. h[i] = g[i] /\ g[i] = Step(of, x, g[i - 1], i)
          BY <2>2, <3>2, <4>4, <5>1
        <5> QED BY <3>2, <4>2, <5>2
      <4> QED BY <4>3, <4>4
    <3> QED BY <3>1, <3>2
  <2>4. h = [i \in 0..m |-> IF i = 0 THEN first ELSE Step(of, x, h[i - 1], i)]
    <3> HIDE DEF h
    <3>1. h = [i \in 0..m |-> h[i]]
      BY DEF h
    <3> QED BY <2>3, <3>1
  <2> HIDE DEF h
  <2> QED BY <1>1, <2>4 DEF Computes
<1> QED BY <1>2, <1>3

-----------------------------------------------------------------------------
(***************************************************************************)
(* The three recursions over rows.                                         *)
(***************************************************************************)
LEMMA ZeroHashes ==
  /\ get_zero_hash(0) = Zero
  /\ \A i \in 1..Depth : get_zero_hash(i) = pedersen(get_zero_hash(i - 1), get_zero_hash(i - 1))
<1> DEFINE N == Depth + Shift
<1>1. N \in Nat /\ Shift = 0 /\ Depth \in Nat
  BY TreeAssumption, BuildTreeAssumption
<1>2. ZERO_HASHES = [i \in 0..N |->
                       IF i = 0 THEN Zero ELSE pedersen(ZERO_HASHES[i - 1], ZERO_HASHES[i - 1])]
  <2>1. PICK g : Computes(g, "get_zero_hash", Zero, Zero, N)
    BY <1>1, Recursion
  <2>2. g = [i \in 0..N |-> IF i = 0 THEN Zero ELSE pedersen(g[i - 1], g[i - 1])]
    BY <2>1 DEF Computes, Step
  <2> QED BY <2>2 DEF ZERO_HASHES
<1>3. \A i \in 0..N : ZERO_HASHES[i] =
        IF i = 0 THEN Zero ELSE pedersen(ZERO_HASHES[i - 1], ZERO_HASHES[i - 1])
  BY <1>2
<1>4. \A i \in 0..Depth : get_zero_hash(i) = ZERO_HASHES[i]
  BY <1>1 DEF get_zero_hash
<1> QED BY <1>1, <1>3, <1>4

LEMMA HashedRows ==
  ASSUME NEW l
  PROVE  \A i \in 1..Depth :
           inner_from_leaf_nodes(l)[i] =
             pairwise_hash(IF i = 1 THEN l ELSE inner_from_leaf_nodes(l)[i - 1])
<1> DEFINE rows == inner_from_leaf_nodes(l)
<1>1. Depth \in Nat
  BY TreeAssumption
<1>2. PICK g : Computes(g, "inner_from_leaf_nodes", l, l, Depth)
  BY <1>1, Recursion
<1>3. \A i \in 0..Depth : g[i] = IF i = 0 THEN l ELSE pairwise_hash(g[i - 1])
  BY <1>2 DEF Computes, Step
<1> DEFINE h == [i \in 1..Depth |-> g[i]]
<1>4. h = [i \in 1..Depth |-> pairwise_hash(IF i = 1 THEN l ELSE h[i - 1])]
  BY <1>1, <1>3
<1> HIDE DEF h
<1>5. rows = [i \in 1..Depth |-> pairwise_hash(IF i = 1 THEN l ELSE rows[i - 1])]
  BY <1>4 DEF inner_from_leaf_nodes
<1> HIDE DEF rows
<1>6. \A i \in 1..Depth : rows[i] = pairwise_hash(IF i = 1 THEN l ELSE rows[i - 1])
  BY <1>5
<1> QED BY <1>6 DEF rows

LEMMA BuiltRows ==
  ASSUME NEW l
  PROVE  \A i \in 0..(Depth - 1) :
           inner_from_leaf_nodes2(l)[i] =
             hash_tree_level(IF i = 0 THEN l ELSE inner_from_leaf_nodes2(l)[i - 1], i)
<1> DEFINE rows == inner_from_leaf_nodes2(l)
<1>1. Depth \in Nat
  BY TreeAssumption
<1>2. PICK g : Computes(g, "inner_from_leaf_nodes2", l, l, Depth)
  BY <1>1, Recursion
<1>3. \A i \in 0..Depth : g[i] = IF i = 0 THEN l ELSE hash_tree_level(g[i - 1], i - 1)
  BY <1>2 DEF Computes, Step
<1> DEFINE h == [i \in 0..(Depth - 1) |-> g[i + 1]]
<1>4. ASSUME NEW i \in 0..(Depth - 1)
      PROVE  h[i] = hash_tree_level(IF i = 0 THEN l ELSE h[i - 1], i)
  <2>1. i + 1 \in 0..Depth /\ i + 1 # 0 /\ (i + 1) - 1 = i /\ i \in 0..Depth
    BY <1>1
  <2>2. h[i] = hash_tree_level(g[i], i)
    BY <1>3, <2>1
  <2>3. g[i] = IF i = 0 THEN l ELSE h[i - 1]
    <3>1. CASE i = 0
      BY <1>3, <2>1, <3>1
    <3>2. CASE i # 0
      <4>1. i - 1 \in 0..(Depth - 1) /\ (i - 1) + 1 = i
        BY <1>1, <3>2
      <4> QED BY <3>2, <4>1
    <3> QED BY <3>1, <3>2
  <2> HIDE DEF h
  <2> QED BY <2>2, <2>3
<1>5. h = [i \in 0..(Depth - 1) |-> hash_tree_level(IF i = 0 THEN l ELSE h[i - 1], i)]
  <2> HIDE DEF h
  <2>1. h = [i \in 0..(Depth - 1) |-> h[i]]
    BY DEF h
  <2> QED BY <1>4, <2>1
<1> HIDE DEF h
<1>6. rows = [i \in 0..(Depth - 1) |-> hash_tree_level(IF i = 0 THEN l ELSE rows[i - 1], i)]
  BY <1>5 DEF inner_from_leaf_nodes2
<1> HIDE DEF rows
<1>7. \A i \in 0..(Depth - 1) : rows[i] = hash_tree_level(IF i = 0 THEN l ELSE rows[i - 1], i)
  BY <1>6
<1> QED BY <1>7 DEF rows

-----------------------------------------------------------------------------
(***************************************************************************)
(* build_tree: the hashes of a chunk are those of its part of the row.     *)
(***************************************************************************)
Vector(s) == Len(s) \in Nat /\ s = [k \in 1..Len(s) |-> s[k]]

\* A function on 1..n is a vector of length n.
LEMMA VectorLength ==
  ASSUME NEW n \in Nat, NEW f, f = [k \in 1..n |-> f[k]]
  PROVE  Vector(f) /\ Len(f) = n /\ DOMAIN f = 1..n
<1> DEFINE T == {f[k] : k \in 1..n}
<1>1. f \in [1..n -> T]
  OBVIOUS
<1>2. f \in Seq(T) /\ DOMAIN f = 1..n
  BY <1>1, SeqDef
<1>3. Len(f) = n
  BY <1>2
<1> QED BY <1>2, <1>3 DEF Vector

\* A row of half the length, the last of an odd number paired with zero.
LEMMA RowHash ==
  ASSUME NEW s, Vector(s), NEW i
  PROVE  /\ Vector(pairwise_hash2(s, i)) /\ Len(pairwise_hash2(s, i)) = RowLength(s)
         /\ RowLength(s) \in Nat
         /\ \A k \in 1..RowLength(s) :
              pairwise_hash2(s, i)[k] =
                pedersen(s[2 * k - 1], IF 2 * k <= Len(s) THEN s[2 * k] ELSE get_zero_hash(i))
<1> DEFINE h == pairwise_hash2(s, i)
           m == RowLength(s)
<1>1. m \in Nat
  BY DEF Vector, RowLength
<1>2. h = [k \in 1..m |->
             pedersen(s[2 * k - 1], IF 2 * k <= Len(s) THEN s[2 * k] ELSE get_zero_hash(i))]
  BY DEF pairwise_hash2, RowLength
<1> HIDE DEF h, m
<1>3. DOMAIN h = 1..m /\ Len(h) = m
  BY <1>1, <1>2
<1> QED BY <1>1, <1>2, <1>3 DEF Vector, h, m

\* A chunk begins where Stride nodes of each chunk before it end, and has
\* Stride nodes or what is left of the row.
ChunkLength(s, n) == IF (n + 1) * Stride < Len(s) THEN Stride ELSE Len(s) - n * Stride

LEMMA ChunkNodes ==
  ASSUME NEW s, Vector(s), NEW n \in Chunks(s)
  PROVE  /\ ChunkLength(s, n) \in 1..Stride
         /\ n * Stride + ChunkLength(s, n) <= Len(s)
         /\ Vector(Chunk(s, n)) /\ Len(Chunk(s, n)) = ChunkLength(s, n)
         /\ \A k \in 1..ChunkLength(s, n) : Chunk(s, n)[k] = s[n * Stride + k]
<1> USE TreeAssumption
<1> DEFINE a == n * Stride
           c == ChunkLength(s, n)
<1>1. n \in Nat /\ a \in Nat /\ Len(s) \in Nat /\ a < Len(s)
  BY DEF Chunks, Vector
<1>2. (n + 1) * Stride = a + Stride
  BY <1>1
<1>3. /\ c = IF a + Stride < Len(s) THEN Stride ELSE Len(s) - a
      /\ Chunk(s, n) = SubSeq(s, a + 1, IF a + Stride < Len(s) THEN a + Stride ELSE Len(s))
  BY <1>2 DEF ChunkLength, Chunk
<1> HIDE DEF a, c
<1>4. c \in 1..Stride /\ a + c <= Len(s) /\ Chunk(s, n) = SubSeq(s, a + 1, a + c)
  BY <1>1, <1>3
<1>5. Chunk(s, n) = [k \in 1..c |-> s[a + k]]
  <2> DEFINE T == {s[k] : k \in 1..Len(s)}
  <2>1. s \in Seq(T)
    <3>1. s \in [1..Len(s) -> T]
      BY DEF Vector
    <3> QED BY <1>1, <3>1, SeqDef
  <2>2. SubSeq(s, a + 1, a + c) = [k \in 1..c |-> s[a + k]]
    BY <1>1, <1>4, <2>1
  <2> QED BY <1>4, <2>2
<1>6. Vector(Chunk(s, n)) /\ Len(Chunk(s, n)) = c
  <2>1. Chunk(s, n) = [k \in 1..c |-> Chunk(s, n)[k]]
    BY <1>5
  <2>2. c \in Nat
    BY <1>4
  <2> QED BY <2>1, <2>2, VectorLength
<1>7. \A k \in 1..c : Chunk(s, n)[k] = s[a + k]
  BY <1>5
<1> QED BY <1>4, <1>6, <1>7 DEF a, c

\* Half a chunk.
Half == Stride \div 2

\* Chunks of an even number of nodes begin at a pair.
LEMMA ChunkStart ==
  ASSUME NEW n \in Nat
  PROVE  /\ Half \in Nat \ {0} /\ Stride = 2 * Half
         /\ From(n) = n * Half /\ From(n) \in Nat /\ n * Stride = 2 * From(n)
<1>1. Half \in Nat \ {0} /\ Stride = 2 * Half
  BY TreeAssumption, BuildTreeAssumption DEF Half
<1> DEFINE b == n * Half
<1>2. b \in Nat /\ n * Stride = 2 * b
  BY <1>1
<1> HIDE DEF b
<1>3. (n * Stride) \div 2 = b
  BY <1>2
<1> QED BY <1>1, <1>2, <1>3 DEF From, b

\* What a chunk is hashed to is a part of the row above, fills the slice it is
\* copied to, and has half a chunk or ends with the row.
LEMMA ChunkHash ==
  ASSUME NEW s, Vector(s), NEW i, NEW n \in Chunks(s)
  PROVE  LET h == Hashes(s, i, n)
         IN  /\ Vector(h)
             /\ From(n) \in Nat /\ From(n) + Len(h) <= RowLength(s)
             /\ To(s, h, n) = From(n) + Len(h)
             /\ Len(h) = Half \/ From(n) + Len(h) = RowLength(s)
             /\ \A k \in 1..Len(h) : h[k] = pairwise_hash2(s, i)[From(n) + k]
<1> DEFINE c == ChunkLength(s, n)
           b == From(n)
           t == Chunk(s, n)
           h == Hashes(s, i, n)
           m == Len(h)
           L == Len(s)
<1>1. n \in Nat /\ L \in Nat
  BY DEF Chunks, Vector
<1>2. /\ Half \in Nat \ {0} /\ Stride = 2 * Half
      /\ b \in Nat /\ n * Stride = 2 * b
  BY <1>1, ChunkStart
<1>3. (n + 1) * Stride = 2 * b + 2 * Half
  BY <1>1, <1>2
<1>4. c = IF 2 * b + 2 * Half < L THEN 2 * Half ELSE L - 2 * b
  BY <1>2, <1>3 DEF ChunkLength
<1>5. /\ c \in 1..(2 * Half) /\ 2 * b + c <= L
      /\ Vector(t) /\ Len(t) = c
      /\ \A k \in 1..c : t[k] = s[2 * b + k]
  BY <1>2, ChunkNodes
<1>6. /\ Vector(h) /\ m = RowLength(t) /\ m \in Nat
      /\ \A k \in 1..m :
           h[k] = pedersen(t[2 * k - 1], IF 2 * k <= c THEN t[2 * k] ELSE get_zero_hash(i))
  BY <1>5, RowHash DEF Hashes
<1>7. m = (c + 1) \div 2 /\ RowLength(s) = (L + 1) \div 2
  BY <1>5, <1>6 DEF RowLength
<1> HIDE DEF c, b, t, h, m, L
<1>8. /\ b + m <= RowLength(s) /\ RowLength(s) \in Nat
      /\ m = Half \/ b + m = RowLength(s)
      /\ m <= Half
  BY <1>1, <1>2, <1>4, <1>5, <1>7
<1>9. To(s, h, n) = b + m
  <2>1. To(s, h, n) = IF RowLength(s) < b + Half \/ m < Half THEN RowLength(s) ELSE b + Half
    BY DEF To, Half, b, m
  <2> QED BY <1>2, <1>6, <1>8, <2>1
<1>10. ASSUME NEW k \in 1..m PROVE h[k] = pairwise_hash2(s, i)[b + k]
  <2> DEFINE j == b + k
  <2>1. j \in 1..RowLength(s) /\ 2 * k - 1 \in 1..c
    BY <1>2, <1>5, <1>6, <1>7, <1>8
  <2>2. pairwise_hash2(s, i)[j] =
          pedersen(s[2 * j - 1], IF 2 * j <= L THEN s[2 * j] ELSE get_zero_hash(i))
    BY <2>1, RowHash DEF L
  <2>3. t[2 * k - 1] = s[2 * j - 1]
    <3>1. 2 * b + (2 * k - 1) = 2 * j - 1
      BY <1>2, <1>6
    <3> QED BY <1>5, <2>1, <3>1
  <2>4. CASE 2 * k <= c
    <3>1. 2 * k \in 1..c /\ 2 * b + 2 * k = 2 * j /\ 2 * j <= L
      BY <1>1, <1>2, <1>5, <1>6, <2>4
    <3>2. t[2 * k] = s[2 * j]
      BY <1>5, <3>1
    <3> QED BY <1>6, <2>2, <2>3, <2>4, <3>1, <3>2
  <2>5. CASE ~ (2 * k <= c)
    <3>1. 2 * k = c + 1
      BY <1>2, <1>5, <1>6, <1>7, <2>5
    <3>2. c # 2 * Half
      BY <1>2, <1>6, <3>1
    <3>3. c = L - 2 * b
      BY <1>4, <3>2
    <3>4. 2 * j = L + 1
      BY <1>1, <1>2, <1>6, <3>1, <3>3
    <3>5. ~ (2 * j <= L)
      BY <1>1, <3>4
    <3> QED BY <1>6, <2>2, <2>3, <2>5, <3>5
  <2> QED BY <2>4, <2>5
<1> QED BY <1>2, <1>6, <1>8, <1>9, <1>10 DEF b, h, m

\* Every place of the row above is in the slice of a chunk.
LEMMA SlicesCover ==
  ASSUME NEW s, Vector(s), NEW j \in 1..RowLength(s)
  PROVE  \E n \in Chunks(s) : From(n) < j /\ j <= From(n) + Half
<1> DEFINE n == (j - 1) \div Half
           b == n * Half
           L == Len(s)
<1>1. L \in Nat /\ 2 * j <= L + 1 /\ j \in Nat /\ 1 <= j
  BY DEF Vector, RowLength
<1>2. Half \in Nat \ {0}
  BY ChunkStart
<1>3. n \in Nat /\ b <= j - 1 /\ j - 1 < b + Half /\ b \in Nat /\ n <= b
  BY <1>1, <1>2
<1>4. From(n) = b /\ n * Stride = 2 * b
  BY <1>3, ChunkStart
<1> HIDE DEF n, b
<1>5. n * Stride < L /\ n \in 0..L
  BY <1>1, <1>3, <1>4
<1>6. n \in Chunks(s)
  BY <1>5 DEF Chunks, L
<1> QED BY <1>1, <1>2, <1>3, <1>4, <1>6

\* The tasks of a row write the row that is hashed in one go, each place once.
LEMMA RowWrites ==
  ASSUME NEW s, Vector(s), NEW i
  PROVE  /\ CopiesFit(s, i)
         /\ Writes(s, i) = {<<j, pairwise_hash2(s, i)[j]>> : j \in 1..RowLength(s)}
<1> DEFINE r == pairwise_hash2(s, i)
           m == RowLength(s)
<1>1. m \in Nat
  BY RowHash
<1>2. CopiesFit(s, i)
  <2> SUFFICES ASSUME NEW n \in Chunks(s)
               PROVE  /\ To(s, Hashes(s, i, n), n) <= m
                      /\ Len(Hashes(s, i, n)) = To(s, Hashes(s, i, n), n) - From(n)
    BY DEF CopiesFit
  <2> DEFINE h == Hashes(s, i, n)
  <2>1. /\ Vector(h) /\ From(n) \in Nat /\ From(n) + Len(h) <= m
        /\ To(s, h, n) = From(n) + Len(h)
    BY ChunkHash
  <2> HIDE DEF h
  <2>2. Len(h) \in Nat
    BY <2>1 DEF Vector
  <2>3. To(s, h, n) <= m /\ Len(h) = To(s, h, n) - From(n)
    BY <1>1, <2>1, <2>2
  <2> QED BY <2>3 DEF h
<1>3. ASSUME NEW n \in Chunks(s), NEW k \in DOMAIN Hashes(s, i, n)
      PROVE  From(n) + k \in 1..m /\ Hashes(s, i, n)[k] = r[From(n) + k]
  <2> DEFINE h == Hashes(s, i, n)
  <2>1. /\ Vector(h) /\ From(n) \in Nat /\ From(n) + Len(h) <= m
        /\ \A l \in 1..Len(h) : h[l] = r[From(n) + l]
    BY ChunkHash
  <2> HIDE DEF h, r
  <2>2. k \in 1..Len(h) /\ Len(h) \in Nat
    BY <2>1 DEF Vector, h
  <2> QED BY <1>1, <2>1, <2>2 DEF h
<1>4. ASSUME NEW j \in 1..m
      PROVE  \E n \in Chunks(s) : \E k \in DOMAIN Hashes(s, i, n) :
               j = From(n) + k /\ Hashes(s, i, n)[k] = r[j]
  <2>1. PICK n \in Chunks(s) : From(n) < j /\ j <= From(n) + Half
    BY SlicesCover
  <2> DEFINE h == Hashes(s, i, n)
             k == j - From(n)
  <2>2. /\ Vector(h) /\ From(n) \in Nat
        /\ Len(h) = Half \/ From(n) + Len(h) = m
    BY ChunkHash
  <2> HIDE DEF h
  <2>3. k \in 1..Len(h)
    BY <1>1, <2>1, <2>2 DEF Vector
  <2>4. k \in DOMAIN h /\ From(n) + k = j
    BY <2>2, <2>3 DEF Vector
  <2> HIDE DEF k, r
  <2>5. h[k] = r[j]
    BY <1>3, <2>4 DEF h
  <2> QED BY <2>4, <2>5 DEF h
<1> HIDE DEF r, m
<1>5. ASSUME NEW w \in Writes(s, i) PROVE \E j \in 1..m : w = <<j, r[j]>>
  <2>1. PICK n \in Chunks(s) : \E k \in DOMAIN Hashes(s, i, n) :
          w = <<From(n) + k, Hashes(s, i, n)[k]>>
    BY DEF Writes
  <2> QED BY <1>3, <2>1
<1>6. ASSUME NEW j \in 1..m PROVE <<j, r[j]>> \in Writes(s, i)
  <2>1. PICK n \in Chunks(s) : \E k \in DOMAIN Hashes(s, i, n) :
          j = From(n) + k /\ Hashes(s, i, n)[k] = r[j]
    BY <1>4
  <2> QED BY <2>1 DEF Writes
<1>7. Writes(s, i) = {<<j, r[j]>> : j \in 1..m}
  BY <1>5, <1>6
<1> QED BY <1>2, <1>7 DEF r, m

\* A row is hashed as if in one go.
LEMMA LevelHashed ==
  ASSUME NEW s, Vector(s), NEW i
  PROVE  /\ hash_tree_level(s, i) = pairwise_hash2(s, i)
         /\ WritesOnce(s, i)
<1> DEFINE r == pairwise_hash2(s, i)
           m == RowLength(s)
           W == Writes(s, i)
<1>1. W = {<<j, r[j]>> : j \in 1..m}
  BY RowWrites
<1>2. Vector(r) /\ Len(r) = m
  BY RowHash
<1>3. hash_tree_level(s, i) = [j \in 1..m |-> (CHOOSE w \in W : w[1] = j)[2]]
  BY DEF hash_tree_level
<1> HIDE DEF r, m, W
<1>4. ASSUME NEW j \in 1..m
      PROVE  /\ <<j, r[j]>> \in W
             /\ \A w \in W : w[1] = j <=> w = <<j, r[j]>>
  BY <1>1
<1>5. ASSUME NEW j \in 1..m PROVE (CHOOSE w \in W : w[1] = j)[2] = r[j]
  <2> DEFINE x == CHOOSE w \in W : w[1] = j
  <2>1. x \in W /\ x[1] = j
    BY <1>4
  <2> HIDE DEF x
  <2>2. x = <<j, r[j]>>
    BY <1>4, <2>1
  <2>3. x[2] = r[j]
    BY <2>2
  <2> QED BY <2>3 DEF x
<1>6. r = [j \in 1..m |-> r[j]]
  BY <1>2 DEF Vector
<1>7. hash_tree_level(s, i) = r
  BY <1>3, <1>5, <1>6
<1>8. ASSUME NEW j \in 1..m
      PROVE  \E h \in {w[2] : w \in W} : \A w \in W : w[1] = j <=> w = <<j, h>>
  <2>1. r[j] \in {w[2] : w \in W}
    <3>1. <<j, r[j]>>[2] = r[j]
      OBVIOUS
    <3> QED BY <1>4, <3>1
  <2> QED BY <1>4, <2>1
<1> QED BY <1>7, <1>8 DEF WritesOnce, r, m, W

-----------------------------------------------------------------------------
(***************************************************************************)
(* The rows of build_tree are the beginnings of the rows of the full tree. *)
(***************************************************************************)
Width(i) == 2 ^ (Depth - i)

LEMMA Widths ==
  /\ \A i \in 0..Depth : Width(i) \in Nat \ {0}
  /\ \A i \in 0..(Depth - 1) : Width(i) = 2 * Width(i + 1)
  /\ Width(Depth) = 1 /\ Width(0) = 2 ^ Depth
<1>1. ASSUME NEW i \in 0..Depth PROVE Width(i) \in Nat \ {0}
  <2>1. Depth - i \in Nat
    BY TreeAssumption
  <2> QED BY <2>1, TwoPower DEF Width
<1>2. ASSUME NEW i \in 0..(Depth - 1) PROVE Width(i) = 2 * Width(i + 1)
  <2>1. Depth - (i + 1) \in Nat /\ Depth - i = (Depth - (i + 1)) + 1
    BY TreeAssumption
  <2> QED BY <2>1, TwoPower DEF Width
<1>3. Width(Depth) = 1 /\ Width(0) = 2 ^ Depth
  <2>1. Depth - Depth = 0 /\ 2 ^ 0 = 1 /\ Depth - 0 = Depth
    BY TreeAssumption
  <2> QED BY <2>1 DEF Width
<1> QED BY <1>1, <1>2, <1>3

\* full is row, and after it the hash of an empty subtree.
Extends(full, row, i) ==
  /\ Vector(full) /\ Len(full) = Width(i)
  /\ Vector(row) /\ Len(row) \in 1..Width(i)
  /\ \A j \in 1..Width(i) :
       full[j] = IF j <= Len(row) THEN row[j] ELSE get_zero_hash(i)

LEMMA ExtendsNext ==
  ASSUME NEW i \in 0..(Depth - 1), NEW full, NEW row, Extends(full, row, i)
  PROVE  Extends(pairwise_hash(full), pairwise_hash2(row, i), i + 1)
<1> DEFINE f == pairwise_hash(full)
           r == pairwise_hash2(row, i)
           n == Width(i + 1)
           m == RowLength(row)
<1>1. /\ Vector(full) /\ Len(full) = Width(i)
      /\ Vector(row) /\ Len(row) \in 1..Width(i)
      /\ \A j \in 1..Width(i) :
           full[j] = IF j <= Len(row) THEN row[j] ELSE get_zero_hash(i)
  BY DEF Extends
<1>2. n \in Nat /\ Width(i) = 2 * n
  <2>1. i + 1 \in 0..Depth
    BY TreeAssumption
  <2> QED BY <2>1, Widths
<1>3. /\ Vector(r) /\ Len(r) = m /\ m \in Nat
      /\ \A k \in 1..m :
           r[k] = pedersen(row[2 * k - 1],
                           IF 2 * k <= Len(row) THEN row[2 * k] ELSE get_zero_hash(i))
  BY <1>1, RowHash
<1>4. m = (Len(row) + 1) \div 2
  BY DEF RowLength
<1>5. Vector(f) /\ Len(f) = n /\ \A k \in 1..n : f[k] = pedersen(full[2 * k - 1], full[2 * k])
  <2>1. Len(full) \div 2 = n
    BY <1>1, <1>2
  <2>2. f = [k \in 1..n |-> pedersen(full[2 * k - 1], full[2 * k])]
    BY <2>1 DEF pairwise_hash
  <2> HIDE DEF f, n
  <2>3. f = [k \in 1..n |-> f[k]]
    BY <2>2
  <2> QED BY <1>2, <2>2, <2>3, VectorLength
<1>6. get_zero_hash(i + 1) = pedersen(get_zero_hash(i), get_zero_hash(i))
  <2>1. i + 1 \in 1..Depth /\ (i + 1) - 1 = i
    BY TreeAssumption
  <2> QED BY <2>1, ZeroHashes
<1> HIDE DEF f, r, n, m
<1>7. Len(row) \in Nat /\ m \in 1..n
  BY <1>1, <1>2, <1>4
<1>8. ASSUME NEW j \in 1..n PROVE f[j] = IF j <= m THEN r[j] ELSE get_zero_hash(i + 1)
  <2>1. 2 * j - 1 \in 1..Width(i) /\ 2 * j \in 1..Width(i)
    BY <1>2
  <2>2. f[j] = pedersen(IF 2 * j - 1 <= Len(row) THEN row[2 * j - 1] ELSE get_zero_hash(i),
                        IF 2 * j <= Len(row) THEN row[2 * j] ELSE get_zero_hash(i))
    BY <1>1, <1>5, <2>1
  <2>3. CASE j <= m
    <3>1. 2 * j - 1 <= Len(row) /\ j \in 1..m
      BY <1>4, <1>7, <2>3
    <3> QED BY <1>3, <2>2, <2>3, <3>1
  <2>4. CASE ~ (j <= m)
    <3>1. ~ (2 * j - 1 <= Len(row)) /\ ~ (2 * j <= Len(row))
      BY <1>2, <1>4, <1>7, <2>4
    <3> QED BY <1>6, <2>2, <2>4, <3>1
  <2> QED BY <2>3, <2>4
<1> QED BY <1>3, <1>5, <1>7, <1>8 DEF Extends, f, r, n

LEMMA BuiltTree ==
  ASSUME NEW l, Vector(l), Len(l) \in 1..2 ^ Depth
  PROVE  BuildTreeIsMerkle(l)
<1> DEFINE built == inner_from_leaf_nodes2(l)
           pad   == pad_leaf_nodes(l, Zero)
           inner == inner_from_leaf_nodes(pad)
           row(i)  == IF i = 0 THEN l ELSE built[i - 1]
           full(i) == IF i = 0 THEN pad ELSE inner[i]
           S == {i \in 0..Depth : ~ Extends(full(i), row(i), i)}
<1>1. Depth \in Nat \ {0}
  BY TreeAssumption
<1>2. Extends(full(0), row(0), 0)
  <2>1. Width(0) = 2 ^ Depth /\ Width(0) \in Nat /\ get_zero_hash(0) = Zero
    BY <1>1, Widths, ZeroHashes
  <2>2. pad = [k \in 1..Width(0) |-> IF k <= Len(l) THEN l[k] ELSE Zero]
    BY <2>1 DEF pad_leaf_nodes
  <2> HIDE DEF pad
  <2>3. pad = [k \in 1..Width(0) |-> pad[k]]
    BY <2>2
  <2>4. Vector(pad) /\ Len(pad) = Width(0)
    BY <2>1, <2>3, VectorLength
  <2> QED BY <2>1, <2>2, <2>4 DEF Extends
<1>3. ASSUME NEW i \in 0..(Depth - 1), Extends(full(i), row(i), i)
      PROVE  /\ row(i + 1) = pairwise_hash2(row(i), i)
             /\ Extends(full(i + 1), row(i + 1), i + 1)
  <2>1. i + 1 # 0 /\ (i + 1) - 1 = i /\ i + 1 \in 1..Depth /\ (i + 1 = 1 <=> i = 0)
    BY <1>1
  <2>2. built[i] = hash_tree_level(row(i), i)
    BY BuiltRows
  <2>3. row(i + 1) = pairwise_hash2(row(i), i)
    <3>1. Vector(row(i))
      BY <1>3 DEF Extends
    <3>2. hash_tree_level(row(i), i) = pairwise_hash2(row(i), i)
      BY <3>1, LevelHashed
    <3> QED BY <2>1, <2>2, <3>2
  <2>4. inner[i + 1] = pairwise_hash(IF i + 1 = 1 THEN pad ELSE inner[(i + 1) - 1])
    BY <2>1, HashedRows
  <2>5. full(i + 1) = pairwise_hash(full(i))
    BY <2>1, <2>4
  <2> HIDE DEF row, full
  <2> QED BY <1>3, <2>3, <2>5, ExtendsNext
<1>4. S = {}
  <2> SUFFICES ASSUME S # {} PROVE FALSE
    OBVIOUS
  <2> HIDE DEF row, full
  <2>1. PICK m \in S : \A k \in S : m <= k
    <3>1. S \in SUBSET Nat
      OBVIOUS
    <3> QED BY <3>1, LeastElement
  <2>2. m # 0 /\ m \in 0..Depth
    BY <1>2, <2>1
  <2>3. m - 1 \in 0..(Depth - 1) /\ m - 1 \in 0..Depth /\ (m - 1) + 1 = m /\ ~ (m <= m - 1)
    BY <1>1, <2>2
  <2>4. Extends(full(m - 1), row(m - 1), m - 1)
    BY <2>1, <2>3
  <2>5. Extends(full(m), row(m), m)
    BY <1>3, <2>3, <2>4
  <2> QED BY <2>1, <2>5
<1>5. ASSUME NEW i \in 0..(Depth - 1)
      PROVE  CopiesFit(row(i), i) /\ WritesOnce(row(i), i)
  <2> DEFINE s == row(i)
  <2>1. i \in 0..Depth
    BY <1>1
  <2>2. Vector(s)
    <3> HIDE DEF row, full
    <3> QED BY <1>4, <2>1 DEF Extends
  <2> HIDE DEF s
  <2>3. CopiesFit(s, i)
    BY <2>2, RowWrites
  <2>4. WritesOnce(s, i)
    BY <2>2, LevelHashed
  <2> QED BY <2>3, <2>4 DEF s
<1>6. verify_root(l, build_tree(l))
  <2>1. Extends(full(Depth), row(Depth), Depth)
    BY <1>1, <1>4
  <2>2. full(Depth) = inner[Depth] /\ row(Depth) = built[Depth - 1]
    BY <1>1
  <2> HIDE DEF row, full, inner, built
  <2>3. inner[Depth][1] = built[Depth - 1][1]
    BY <2>1, <2>2, Widths DEF Extends
  <2> QED BY <2>3 DEF verify_root, build_tree, inner, built
<1> QED BY <1>5, <1>6 DEF BuildTreeIsMerkle

-----------------------------------------------------------------------------
(***************************************************************************)
(* The input of a behavior is one of the inputs, or none.                  *)
(***************************************************************************)
LEMMA InputKept == AlgorithmsSpec => [](input \in Inputs \union {NoInput})
<1>1. AlgorithmsInit => input \in Inputs \union {NoInput}
  BY DEF AlgorithmsInit
<1>2. input \in Inputs \union {NoInput} /\ [AlgorithmsNext]_<<vars, input>>
        => (input \in Inputs \union {NoInput})'
  BY DEF AlgorithmsNext
<1> QED BY <1>1, <1>2, PTL DEF AlgorithmsSpec

(***************************************************************************)
(* build_tree copies without a panic, its tasks write each place of a row  *)
(* once, and its root is that of the tree hashed in one go: for trees of   *)
(* every depth, any even STRIDE, every number of leaves that fits, and     *)
(* whatever the hash function is.                                          *)
(***************************************************************************)
THEOREM AlwaysBuildsTree == AlgorithmsSpec => []BuildsTree
<1>1. input \in Inputs \union {NoInput} => BuildsTree
  <2> SUFFICES ASSUME input \in Inputs, input.kind = "tree" PROVE BuildTreeIsMerkle(input.leaves)
    BY DEF BuildsTree, Of, NoInput
  <2> DEFINE l == input.leaves
             T == Elements(l)
  <2>1. l \in Seq(T) /\ Len(l) \in 1..2 ^ Depth
    BY InputsAssumption DEF IsTree
  <2> HIDE DEF l, T
  <2>2. Vector(l)
    BY <2>1 DEF Vector
  <2>3. BuildTreeIsMerkle(l)
    BY <2>1, <2>2, BuiltTree
  <2> QED BY <2>3 DEF l
<1> QED BY <1>1, InputKept, PTL

-----------------------------------------------------------------------------
(***************************************************************************)
(* PoseidonHasher holds the state after the pairs it was given, and the    *)
(* message that has no other yet.                                          *)
(***************************************************************************)
LEMMA HashPairs ==
  ASSUME NEW msgs, Len(msgs) \in Nat, NEW consts
  PROVE  /\ hash_pairs(msgs, consts)[0] = <<0, 0, 0>>
         /\ \A k \in 1..(Len(msgs) \div 2) :
              hash_pairs(msgs, consts)[k] =
                poseidon_permute_comp(
                  Plus(hash_pairs(msgs, consts)[k - 1], <<msgs[2 * k - 1], msgs[2 * k], 0>>), consts)
<1> DEFINE n == Len(msgs) \div 2
           s == hash_pairs(msgs, consts)
           x == [msgs |-> msgs, consts |-> consts]
<1>1. n \in Nat
  OBVIOUS
<1>2. PICK g : Computes(g, "hash_many", x, <<0, 0, 0>>, n)
  BY <1>1, Recursion
<1>3. g = [k \in 0..n |->
             IF k = 0 THEN <<0, 0, 0>>
             ELSE poseidon_permute_comp(Plus(g[k - 1], <<msgs[2 * k - 1], msgs[2 * k], 0>>), consts)]
  BY <1>2 DEF Computes, Step
<1>4. s = [k \in 0..n |->
             IF k = 0 THEN <<0, 0, 0>>
             ELSE poseidon_permute_comp(Plus(s[k - 1], <<msgs[2 * k - 1], msgs[2 * k], 0>>), consts)]
  BY <1>3 DEF hash_pairs
<1> HIDE DEF s, n
<1>5. \A k \in 0..n : s[k] =
        IF k = 0 THEN <<0, 0, 0>>
        ELSE poseidon_permute_comp(Plus(s[k - 1], <<msgs[2 * k - 1], msgs[2 * k], 0>>), consts)
  BY <1>4
<1>6. s[0] = <<0, 0, 0>>
  <2>1. 0 \in 0..n /\ 0 = 0
    BY <1>1 DEF n
  <2> QED BY ONLY <1>4, <2>1
<1>7. \A k \in 1..n : s[k] =
        poseidon_permute_comp(Plus(s[k - 1], <<msgs[2 * k - 1], msgs[2 * k], 0>>), consts)
  BY <1>5
<1> QED BY <1>6, <1>7 DEF s, n

LEMMA HasherSteps ==
  ASSUME NEW msgs, Len(msgs) \in Nat, NEW consts
  PROVE  /\ Hashers(msgs, consts)[0] = NewHasher
         /\ \A n \in 1..Len(msgs) :
              Hashers(msgs, consts)[n] = update(Hashers(msgs, consts)[n - 1], msgs[n], consts)
<1> DEFINE h == Hashers(msgs, consts)
           x == [msgs |-> msgs, consts |-> consts]
<1>1. PICK g : Computes(g, "hasher", x, NewHasher, Len(msgs))
  BY Recursion
<1>2. g = [n \in 0..Len(msgs) |-> IF n = 0 THEN NewHasher ELSE update(g[n - 1], msgs[n], consts)]
  BY <1>1 DEF Computes, Step
<1>3. h = [n \in 0..Len(msgs) |-> IF n = 0 THEN NewHasher ELSE update(h[n - 1], msgs[n], consts)]
  BY <1>2 DEF Hashers
<1> HIDE DEF h
<1>4. \A n \in 0..Len(msgs) : h[n] = IF n = 0 THEN NewHasher ELSE update(h[n - 1], msgs[n], consts)
  BY <1>3
<1>5. h[0] = NewHasher /\ \A n \in 1..Len(msgs) : h[n] = update(h[n - 1], msgs[n], consts)
  BY <1>4
<1> QED BY <1>5 DEF h

HasherAfter(msgs, consts, n) ==
  [state  |-> hash_pairs(msgs, consts)[n \div 2],
   buffer |-> IF n % 2 = 0 THEN <<>> ELSE <<msgs[n]>>]

LEMMA HasherStates ==
  ASSUME NEW msgs, Len(msgs) \in Nat, NEW consts
  PROVE  \A n \in 0..Len(msgs) : Hashers(msgs, consts)[n] = HasherAfter(msgs, consts, n)
<1> DEFINE h == Hashers(msgs, consts)
           s == hash_pairs(msgs, consts)
           S == {n \in 0..Len(msgs) : h[n] # HasherAfter(msgs, consts, n)}
<1> SUFFICES ASSUME S # {} PROVE FALSE
  OBVIOUS
<1>1. PICK n \in S : \A k \in S : n <= k
  <2>1. S \in SUBSET Nat
    OBVIOUS
  <2> HIDE DEF S
  <2> QED BY <2>1, LeastElement
<1> HIDE DEF h, s
<1>2. CASE n = 0
  <2>1. 0 \div 2 = 0 /\ 0 % 2 = 0
    OBVIOUS
  <2>2. h[0] = NewHasher /\ s[0] = <<0, 0, 0>>
    BY HasherSteps, HashPairs DEF h, s
  <2>3. h[0] = HasherAfter(msgs, consts, 0)
    BY <2>1, <2>2 DEF HasherAfter, NewHasher, s
  <2> QED BY <1>1, <1>2, <2>3
<1>3. CASE n # 0
  <2>1. n \in 1..Len(msgs) /\ n - 1 \in 0..Len(msgs) /\ ~ (n <= n - 1)
    BY <1>1, <1>3
  <2>2. h[n - 1] = HasherAfter(msgs, consts, n - 1)
    BY <1>1, <2>1
  <2>3. h[n] = update(h[n - 1], msgs[n], consts)
    BY <2>1, HasherSteps DEF h
  <2>4. CASE n % 2 = 1
    <3>1. (n - 1) % 2 = 0 /\ (n - 1) \div 2 = n \div 2 /\ n % 2 # 0
      BY <2>1, <2>4
    <3>2. h[n - 1] = [state |-> s[n \div 2], buffer |-> <<>>]
      BY <2>2, <3>1 DEF HasherAfter, s
    <3>3. h[n] = [state |-> s[n \div 2], buffer |-> <<msgs[n]>>]
      BY <2>3, <3>2 DEF update
    <3>4. h[n] = HasherAfter(msgs, consts, n)
      BY <3>1, <3>3 DEF HasherAfter, s
    <3> QED BY <1>1, <3>4
  <2>5. CASE n % 2 = 0
    <3> DEFINE k == n \div 2
    <3>1. k \in 1..(Len(msgs) \div 2) /\ n = 2 * k
      BY <2>1, <2>5
    <3>2. (n - 1) % 2 # 0 /\ (n - 1) \div 2 = k - 1
      BY <3>1
    <3> HIDE DEF k
    <3>3. h[n - 1] = [state |-> s[k - 1], buffer |-> <<msgs[n - 1]>>]
      BY <2>2, <3>2 DEF HasherAfter, s
    <3>4. <<msgs[n - 1]>> # <<>>
      <4>1. Len(<<msgs[n - 1]>>) = 1 /\ Len(<<>>) = 0
        OBVIOUS
      <4> QED BY <4>1
    <3>5. h[n] = [state |-> poseidon_permute_comp(Plus(s[k - 1], <<msgs[n - 1], msgs[n], 0>>), consts),
                  buffer |-> <<>>]
      BY <2>3, <3>3, <3>4 DEF update
    <3>6. s[k] = poseidon_permute_comp(Plus(s[k - 1], <<msgs[n - 1], msgs[n], 0>>), consts)
      BY <3>1, HashPairs DEF s
    <3>7. h[n] = HasherAfter(msgs, consts, n)
      BY <2>5, <3>5, <3>6 DEF HasherAfter, s, k
    <3> QED BY <1>1, <3>7
  <2>6. n % 2 = 0 \/ n % 2 = 1
    BY <2>1
  <2> QED BY <2>4, <2>5, <2>6
<1> QED BY <1>2, <1>3

LEMMA HasherHashes ==
  ASSUME NEW T, NEW msgs \in Seq(T), NEW rcs
  PROVE  HasherAgrees(msgs, rcs)
<1> DEFINE consts == compress_roundkeys(rcs)
           n == Len(msgs)
           s == hash_pairs(msgs, consts)
           h == Hashers(msgs, consts)[n]
<1>1. n \in Nat
  OBVIOUS
<1> HIDE DEF consts
<1>2. h = HasherAfter(msgs, consts, n)
  BY <1>1, HasherStates
<1> HIDE DEF h
<1>3. CASE n % 2 = 0
  <2>1. h.state = s[n \div 2] /\ h.buffer = <<>> /\ n % 2 # 1
    BY <1>2, <1>3 DEF HasherAfter
  <2>2. finalize(h, consts) = poseidon_hash_many(msgs, consts)
    BY <2>1 DEF finalize, poseidon_hash_many
  <2> QED BY <2>2 DEF HasherAgrees, h, consts
<1>4. CASE n % 2 # 0
  <2>1. h.state = s[n \div 2] /\ h.buffer = <<msgs[n]>> /\ n % 2 = 1
    BY <1>1, <1>2, <1>4 DEF HasherAfter
  <2>2. h.buffer # <<>> /\ h.buffer[1] = msgs[n]
    <3>1. Len(<<msgs[n]>>) = 1 /\ Len(<<>>) = 0 /\ <<msgs[n]>>[1] = msgs[n]
      OBVIOUS
    <3> QED BY <2>1, <3>1
  <2>3. finalize(h, consts) = poseidon_hash_many(msgs, consts)
    BY <2>1, <2>2 DEF finalize, poseidon_hash_many
  <2> QED BY <2>3 DEF HasherAgrees, h, consts
<1> QED BY <1>3, <1>4

(***************************************************************************)
(* Using PoseidonHasher is the same as calling poseidon_hash_many, for     *)
(* every number of messages, every field and every set of round keys.      *)
(***************************************************************************)
THEOREM AlwaysHashersAgree == AlgorithmsSpec => []HashersAgree
<1>1. input \in Inputs \union {NoInput} => HashersAgree
  <2> SUFFICES ASSUME input \in Inputs, input.kind = "messages"
               PROVE  HasherAgrees(input.msgs, RoundKeys)
    BY DEF HashersAgree, Of, NoInput
  <2>1. input.msgs \in Seq(Field)
    BY InputsAssumption
  <2> QED BY <2>1, HasherHashes
<1> QED BY <1>1, InputKept, PTL

-----------------------------------------------------------------------------
(***************************************************************************)
(* Arithmetic of the field.                                                *)
(***************************************************************************)
LEMMA Quotient ==
  ASSUME NEW a \in Int
  PROVE  a \div P \in Int /\ a % P \in Field /\ a = P * (a \div P) + (a % P)
BY FieldAssumption DEF Field

\* A remainder is the only number in range that differs by a multiple.
LEMMA ModUnique ==
  ASSUME NEW a \in Int, NEW q \in Int, NEW r \in Field, a = P * q + r
  PROVE  a % P = r
<1> DEFINE d == a \div P
           m == a % P
<1>1. P \in Nat /\ 0 < P
  BY FieldAssumption
<1>2. d \in Int /\ m \in 0..(P - 1) /\ a = P * d + m
  BY Quotient DEF Field
<1> HIDE DEF d, m
<1>3. r \in Int /\ 0 <= r /\ r < P
  BY <1>1 DEF Field
<1>4. P * q - P * d = m - r
  BY <1>1, <1>2, <1>3
<1>5. P * (q - d) = P * q - P * d
  BY <1>1, <1>2
<1>6. ~ (d < q)
  <2> SUFFICES ASSUME d < q PROVE FALSE
    OBVIOUS
  <2>1. 1 <= q - d /\ q - d \in Int
    BY <1>2
  <2>2. P <= P * (q - d)
    BY <1>1, <2>1
  <2> QED BY <1>1, <1>2, <1>3, <1>4, <1>5, <2>2
<1>7. ~ (q < d)
  <2> SUFFICES ASSUME q < d PROVE FALSE
    OBVIOUS
  <2>1. q - d <= -1 /\ q - d \in Int
    BY <1>2
  <2>2. P * (q - d) <= -P
    BY <1>1, <2>1
  <2> QED BY <1>1, <1>2, <1>3, <1>4, <1>5, <2>2
<1>8. q = d
  BY <1>2, <1>6, <1>7
<1>9. m = r
  BY <1>1, <1>2, <1>3, <1>4, <1>8
<1> QED BY <1>9 DEF m

LEMMA ModInField ==
  ASSUME NEW a \in Int
  PROVE  a % P \in Field /\ a % P \in Int
BY FieldAssumption DEF Field

LEMMA FieldMod ==
  ASSUME NEW a \in Field
  PROVE  a % P = a /\ a \in Int
<1>1. a \in Int /\ 0 \in Int /\ a = P * 0 + a
  BY FieldAssumption DEF Field
<1> QED BY <1>1, ModUnique

\* Numbers that differ by a multiple have the same remainder.
LEMMA ModShift ==
  ASSUME NEW u \in Int, NEW v \in Int, NEW q \in Int, u = P * q + v
  PROVE  u % P = v % P
<1> DEFINE e == v \div P
           n == v % P
<1>1. e \in Int /\ n \in Field /\ v = P * e + n /\ P \in Nat
  BY Quotient, FieldAssumption
<1> HIDE DEF e, n
<1>2. P * (q + e) = P * q + P * e
  BY <1>1
<1>3. n \in Int /\ u = P * (q + e) + n /\ q + e \in Int
  BY <1>1, <1>2 DEF Field
<1>4. u % P = n
  BY <1>1, <1>3, ModUnique
<1> QED BY <1>4 DEF n

\* Remainders may be taken of a sum or of what is added or subtracted.
LEMMA ModAdd ==
  ASSUME NEW x \in Int, NEW y \in Int
  PROVE  /\ ((x % P) + y) % P = (x + y) % P
         /\ (y - (x % P)) % P = (y - x) % P
<1> DEFINE m == x % P
           d == x \div P
<1>1. P \in Nat /\ 0 < P
  BY FieldAssumption
<1>2. d \in Int /\ m \in Int /\ x = P * d + m
  BY <1>1
<1> HIDE DEF d, m
<1>4. (x + y) % P = (m + y) % P
  <2>1. x + y \in Int /\ m + y \in Int /\ x + y = P * d + (m + y)
    BY <1>1, <1>2
  <2> QED BY <1>2, <2>1, ModShift
<1>5. (y - x) % P = (y - m) % P
  <2>1. P * (-d) = -(P * d)
    BY <1>1, <1>2
  <2>2. y - x \in Int /\ y - m \in Int /\ -d \in Int /\ y - x = P * (-d) + (y - m)
    BY <1>1, <1>2, <2>1
  <2> QED BY <2>2, ModShift
<1> QED BY <1>4, <1>5 DEF m

LEMMA ModAddBoth ==
  ASSUME NEW x \in Int, NEW y \in Int
  PROVE  /\ ((x % P) + (y % P)) % P = (x + y) % P
         /\ (x + (y % P)) % P = (x + y) % P
         /\ ((x % P) - (y % P)) % P = (x - y) % P
<1> DEFINE m == x % P
           n == y % P
<1>1. m \in Int /\ n \in Int
  BY ModInField
<1>2. (m + n) % P = (x + n) % P
  BY <1>1, ModAdd
<1>3. (n + x) % P = (y + x) % P
  BY ModAdd
<1>4. (m - n) % P = (m - y) % P
  BY <1>1, ModAdd
<1>5. (m + (-y)) % P = (x + (-y)) % P
  <2>1. -y \in Int
    OBVIOUS
  <2> HIDE DEF n
  <2> QED BY <2>1, ModAdd
<1> HIDE DEF m, n
<1>6. n + x = x + n /\ y + x = x + y /\ m + (-y) = m - y /\ x + (-y) = x - y
  BY <1>1
<1>7. /\ (m + n) % P = (x + y) % P
      /\ (x + n) % P = (x + y) % P
      /\ (m - n) % P = (x - y) % P
  BY <1>2, <1>3, <1>4, <1>5, <1>6
<1> QED BY <1>7 DEF m, n

-----------------------------------------------------------------------------
(***************************************************************************)
(* The linear layer.                                                       *)
(***************************************************************************)
LEMMA FieldOps ==
  ASSUME NEW a \in Int, NEW b \in Int
  PROVE  a ++ b \in Field /\ a -- b \in Field /\ a ** b \in Field
<1>1. a + b \in Int /\ a - b \in Int /\ a * b \in Int
  OBVIOUS
<1> QED BY <1>1, ModInField DEF ++, --, **

LEMMA TripleInt ==
  ASSUME NEW s \in Triple
  PROVE  s[1] \in Int /\ s[2] \in Int /\ s[3] \in Int
BY FieldMod DEF Triple

\* Two triples are equal when their elements are.
LEMMA TripleEqual ==
  ASSUME NEW s \in Triple, NEW t \in Triple, s[1] = t[1], s[2] = t[2], s[3] = t[3]
  PROVE  s = t
<1>1. \A i \in 1..3 : i = 1 \/ i = 2 \/ i = 3
  OBVIOUS
<1> QED BY <1>1 DEF Triple

LEMMA MakeTriple ==
  ASSUME NEW a \in Field, NEW b \in Field, NEW c \in Field
  PROVE  /\ <<a, b, c>> \in Triple
         /\ <<a, b, c>>[1] = a /\ <<a, b, c>>[2] = b /\ <<a, b, c>>[3] = c
<1>1. <<a, b, c>> \in [1..3 -> Field]
  <2>1. <<a, b, c>> \in Seq(Field) /\ Len(<<a, b, c>>) = 3
    OBVIOUS
  <2> QED BY <2>1
<1> QED BY <1>1 DEF Triple

\* mix multiplies by a matrix.
LEMMA MixForm ==
  ASSUME NEW s \in Triple
  PROVE  /\ mix(s) \in Triple
         /\ mix(s)[1] = (3 * s[1] + s[2] + s[3]) % P
         /\ mix(s)[2] = (s[1] - s[2] + s[3]) % P
         /\ mix(s)[3] = (s[1] + s[2] - 2 * s[3]) % P
<1> DEFINE a == s[1]
           b == s[2]
           c == s[3]
           t == a ++ b ++ c
           u == a + b + c
<1>1. a \in Int /\ b \in Int /\ c \in Int
  BY TripleInt
<1> HIDE DEF a, b, c
<1>2. u \in Int /\ 2 * a \in Int /\ 2 * b \in Int /\ 3 * c \in Int
  BY <1>1
<1>3. t = u % P
  <2>1. a + b \in Int
    BY <1>1
  <2>2. (((a + b) % P) + c) % P = ((a + b) + c) % P
    BY <1>1, <2>1, ModAdd
  <2> QED BY <2>2 DEF ++
<1>4. ((u % P) + ((2 * a) % P)) % P = (u + 2 * a) % P
  BY <1>2, ModAddBoth
<1>5. ((u % P) - ((2 * b) % P)) % P = (u - 2 * b) % P
  BY <1>2, ModAddBoth
<1>6. ((u % P) - ((3 * c) % P)) % P = (u - 3 * c) % P
  BY <1>2, ModAddBoth
<1>7. mix(s) = <<t ++ 2 ** a, t -- 2 ** b, t -- 3 ** c>>
  BY DEF mix, a, b, c
<1>8. /\ t ++ 2 ** a = (u + 2 * a) % P
      /\ t -- 2 ** b = (u - 2 * b) % P
      /\ t -- 3 ** c = (u - 3 * c) % P
  <2> HIDE DEF u, t
  <2> QED BY <1>3, <1>4, <1>5, <1>6 DEF ++, --, **
<1>9. u + 2 * a = 3 * a + b + c /\ u - 2 * b = a - b + c /\ u - 3 * c = a + b - 2 * c
  BY <1>1
<1> HIDE DEF t, u
<1>10. /\ t ++ 2 ** a = (3 * a + b + c) % P
       /\ t -- 2 ** b = (a - b + c) % P
       /\ t -- 3 ** c = (a + b - 2 * c) % P
  BY <1>8, <1>9
<1>11. 3 * a + b + c \in Int /\ a - b + c \in Int /\ a + b - 2 * c \in Int
  BY <1>1
<1>12. t ++ 2 ** a \in Field /\ t -- 2 ** b \in Field /\ t -- 3 ** c \in Field
  BY <1>10, <1>11, ModInField
<1> DEFINE d == t ++ 2 ** a
           e == t -- 2 ** b
           f == t -- 3 ** c
<1> HIDE DEF d, e, f
<1>13. mix(s) = <<d, e, f>> /\ d \in Field /\ e \in Field /\ f \in Field
  BY <1>7, <1>12 DEF d, e, f
<1>14. mix(s) \in Triple /\ mix(s)[1] = d /\ mix(s)[2] = e /\ mix(s)[3] = f
  BY <1>13, MakeTriple
<1> QED BY <1>10, <1>14 DEF a, b, c, d, e, f

\* The matrix of remainders.
LEMMA ModForm ==
  ASSUME NEW x \in Int, NEW y \in Int, NEW z \in Int
  PROVE  /\ (3 * (x % P) + (y % P) + (z % P)) % P = (3 * x + y + z) % P
         /\ ((x % P) - (y % P) + (z % P)) % P = (x - y + z) % P
         /\ ((x % P) + (y % P) - 2 * (z % P)) % P = (x + y - 2 * z) % P
<1> DEFINE a == x % P
           b == y % P
           c == z % P
           d == x \div P
           e == y \div P
           f == z \div P
<1>1. /\ d \in Int /\ a \in Int /\ x = P * d + a
      /\ e \in Int /\ b \in Int /\ y = P * e + b
      /\ f \in Int /\ c \in Int /\ z = P * f + c
      /\ P \in Int
  BY Quotient, ModInField, FieldAssumption
<1> HIDE DEF a, b, c, d, e, f
<1>2. (3 * x + y + z) % P = (3 * a + b + c) % P
  <2>1. P * (3 * d + e + f) = 3 * (P * d) + P * e + P * f
    BY <1>1
  <2>2. /\ 3 * x + y + z = P * (3 * d + e + f) + (3 * a + b + c)
        /\ 3 * d + e + f \in Int /\ 3 * a + b + c \in Int /\ 3 * x + y + z \in Int
    BY <1>1, <2>1
  <2> QED BY <2>2, ModShift
<1>3. (x - y + z) % P = (a - b + c) % P
  <2>1. P * (d - e + f) = P * d - P * e + P * f
    BY <1>1
  <2>2. /\ x - y + z = P * (d - e + f) + (a - b + c)
        /\ d - e + f \in Int /\ a - b + c \in Int /\ x - y + z \in Int
    BY <1>1, <2>1
  <2> QED BY <2>2, ModShift
<1>4. (x + y - 2 * z) % P = (a + b - 2 * c) % P
  <2>1. P * (d + e - 2 * f) = P * d + P * e - 2 * (P * f)
    BY <1>1
  <2>2. /\ x + y - 2 * z = P * (d + e - 2 * f) + (a + b - 2 * c)
        /\ d + e - 2 * f \in Int /\ a + b - 2 * c \in Int /\ x + y - 2 * z \in Int
    BY <1>1, <2>1
  <2> QED BY <2>2, ModShift
<1> QED BY <1>2, <1>3, <1>4 DEF a, b, c

LEMMA PlusTriple ==
  ASSUME NEW s \in Triple, NEW k \in Triple
  PROVE  /\ Plus(s, k) \in Triple
         /\ \A i \in 1..3 : Plus(s, k)[i] = (s[i] + k[i]) % P
<1>1. \A i \in 1..3 : s[i] \in Int /\ k[i] \in Int
  BY FieldMod DEF Triple
<1>2. \A i \in 1..3 : s[i] + k[i] \in Int
  BY <1>1
<1>3. Plus(s, k) = [i \in 1..3 |-> (s[i] + k[i]) % P]
  BY DEF Plus, ++
<1>4. \A i \in 1..3 : (s[i] + k[i]) % P \in Field
  BY <1>2, ModInField
<1> QED BY <1>3, <1>4 DEF Triple

\* Keys may be added before the linear layer or, moved through it, after.
LEMMA MixLinear ==
  ASSUME NEW s \in Triple, NEW k \in Triple
  PROVE  mix(Plus(s, k)) = Plus(mix(s), mix(k))
<1> DEFINE p == Plus(s, k)
           x == s[1] + k[1]
           y == s[2] + k[2]
           z == s[3] + k[3]
<1>1. /\ s[1] \in Int /\ s[2] \in Int /\ s[3] \in Int
      /\ k[1] \in Int /\ k[2] \in Int /\ k[3] \in Int
  BY TripleInt
<1>2. p \in Triple /\ p[1] = x % P /\ p[2] = y % P /\ p[3] = z % P
  BY PlusTriple
<1>3. x \in Int /\ y \in Int /\ z \in Int
  BY <1>1
<1> HIDE DEF p
<1>4. /\ mix(p) \in Triple
      /\ mix(p)[1] = (3 * p[1] + p[2] + p[3]) % P
      /\ mix(p)[2] = (p[1] - p[2] + p[3]) % P
      /\ mix(p)[3] = (p[1] + p[2] - 2 * p[3]) % P
  BY <1>2, MixForm
<1>5. /\ mix(p)[1] = (3 * x + y + z) % P
      /\ mix(p)[2] = (x - y + z) % P
      /\ mix(p)[3] = (x + y - 2 * z) % P
  <2> HIDE DEF x, y, z
  <2>1. /\ mix(p)[1] = (3 * (x % P) + (y % P) + (z % P)) % P
        /\ mix(p)[2] = ((x % P) - (y % P) + (z % P)) % P
        /\ mix(p)[3] = ((x % P) + (y % P) - 2 * (z % P)) % P
    BY <1>2, <1>4
  <2>2. /\ (3 * (x % P) + (y % P) + (z % P)) % P = (3 * x + y + z) % P
        /\ ((x % P) - (y % P) + (z % P)) % P = (x - y + z) % P
        /\ ((x % P) + (y % P) - 2 * (z % P)) % P = (x + y - 2 * z) % P
    BY <1>3, ModForm
  <2> QED BY <2>1, <2>2
<1> DEFINE a == 3 * s[1] + s[2] + s[3]
           b == s[1] - s[2] + s[3]
           c == s[1] + s[2] - 2 * s[3]
           d == 3 * k[1] + k[2] + k[3]
           e == k[1] - k[2] + k[3]
           f == k[1] + k[2] - 2 * k[3]
           q == Plus(mix(s), mix(k))
<1>6. /\ mix(s) \in Triple /\ mix(s)[1] = a % P /\ mix(s)[2] = b % P /\ mix(s)[3] = c % P
      /\ mix(k) \in Triple /\ mix(k)[1] = d % P /\ mix(k)[2] = e % P /\ mix(k)[3] = f % P
  BY MixForm
<1>7. /\ a \in Int /\ b \in Int /\ c \in Int /\ d \in Int /\ e \in Int /\ f \in Int
      /\ a + d = 3 * x + y + z /\ b + e = x - y + z /\ c + f = x + y - 2 * z
  BY <1>1
<1> HIDE DEF a, b, c, d, e, f, x, y, z
<1>8. /\ q \in Triple
      /\ q[1] = ((a % P) + (d % P)) % P
      /\ q[2] = ((b % P) + (e % P)) % P
      /\ q[3] = ((c % P) + (f % P)) % P
  BY <1>6, PlusTriple
<1>9. q[1] = (a + d) % P /\ q[2] = (b + e) % P /\ q[3] = (c + f) % P
  BY <1>7, <1>8, ModAddBoth
<1> HIDE DEF q
<1>10. mix(p) = q
  BY <1>4, <1>5, <1>7, <1>8, <1>9, TripleEqual
<1> QED BY <1>10 DEF p, q

\* Keys add up.
LEMMA PlusAssociative ==
  ASSUME NEW s \in Triple, NEW k \in Triple, NEW l \in Triple
  PROVE  Plus(Plus(s, k), l) = Plus(s, Plus(k, l))
<1> DEFINE a == Plus(Plus(s, k), l)
           b == Plus(s, Plus(k, l))
<1>1. Plus(s, k) \in Triple /\ Plus(k, l) \in Triple
  BY PlusTriple
<1>2. a \in Triple /\ b \in Triple
  BY <1>1, PlusTriple
<1>3. ASSUME NEW i \in 1..3 PROVE a[i] = b[i]
  <2>1. s[i] \in Int /\ k[i] \in Int /\ l[i] \in Int
    BY FieldMod DEF Triple
  <2>2. a[i] = (((s[i] + k[i]) % P) + l[i]) % P /\ b[i] = (s[i] + ((k[i] + l[i]) % P)) % P
    BY <1>1, PlusTriple
  <2>3. s[i] + k[i] \in Int /\ k[i] + l[i] \in Int
    BY <2>1
  <2>4. a[i] = ((s[i] + k[i]) + l[i]) % P
    BY <2>1, <2>2, <2>3, ModAdd
  <2>5. b[i] = (s[i] + (k[i] + l[i])) % P
    BY <2>1, <2>2, <2>3, ModAddBoth
  <2>6. (s[i] + k[i]) + l[i] = s[i] + (k[i] + l[i])
    BY <2>1
  <2> QED BY <2>4, <2>5, <2>6
<1> HIDE DEF a, b
<1>4. a = b
  BY <1>2, <1>3 DEF Triple
<1> QED BY <1>4 DEF a, b

LEMMA PlusZero ==
  ASSUME NEW s \in Triple
  PROVE  /\ <<0, 0, 0>> \in Triple
         /\ Plus(s, <<0, 0, 0>>) = s /\ Plus(<<0, 0, 0>>, s) = s
<1> DEFINE o == <<0, 0, 0>>
<1>1. o \in Triple /\ o[1] = 0 /\ o[2] = 0 /\ o[3] = 0
  <2>1. 0 \in Field
    BY FieldAssumption DEF Field
  <2> QED BY <2>1, MakeTriple
<1> HIDE DEF o
<1>2. \A i \in 1..3 : o[i] = 0
  BY <1>1
<1>3. ASSUME NEW i \in 1..3 PROVE Plus(s, o)[i] = s[i] /\ Plus(o, s)[i] = s[i]
  <2>1. s[i] \in Field /\ s[i] \in Int /\ s[i] % P = s[i]
    BY FieldMod DEF Triple
  <2>2. Plus(s, o)[i] = (s[i] + 0) % P /\ Plus(o, s)[i] = (0 + s[i]) % P
    BY <1>1, <1>2, PlusTriple
  <2>3. s[i] + 0 = s[i] /\ 0 + s[i] = s[i]
    BY <2>1
  <2> QED BY <2>1, <2>2, <2>3
<1>4. Plus(s, o) \in Triple /\ Plus(o, s) \in Triple
  BY <1>1, PlusTriple
<1>5. Plus(s, o) = s /\ Plus(o, s) = s
  BY <1>3, <1>4 DEF Triple
<1> QED BY <1>1, <1>5 DEF o

-----------------------------------------------------------------------------
(***************************************************************************)
(* The compressed round keys.                                              *)
(***************************************************************************)
RoundKeySets == [Rounds -> Triple]

LEMMA RoundCounts ==
  /\ HALF \in Nat \ {0} /\ FULL_ROUNDS = 2 * HALF
  /\ PARTIAL_ROUNDS \in Nat /\ ALL_ROUNDS = 2 * HALF + PARTIAL_ROUNDS
BY PoseidonAssumption DEF HALF, ALL_ROUNDS

\* The keys that go on through the linear layer.
Passed(k) == mix([k EXCEPT ![3] = 0])

LEMMA DropTriple ==
  ASSUME NEW k \in Triple, NEW a \in Field
  PROVE  /\ [k EXCEPT ![3] = a] \in Triple
         /\ [k EXCEPT ![3] = a][1] = k[1] /\ [k EXCEPT ![3] = a][2] = k[2]
         /\ [k EXCEPT ![3] = a][3] = a
BY DEF Triple

LEMMA PassedTriple ==
  ASSUME NEW k \in Triple
  PROVE  Passed(k) \in Triple
<1>1. 0 \in Field
  BY FieldAssumption DEF Field
<1>2. [k EXCEPT ![3] = 0] \in Triple
  BY <1>1, DropTriple
<1> QED BY <1>2, MixForm DEF Passed

\* Each key of a partial round takes in what is passed on from the one before.
LEMMA MovedKeySteps ==
  ASSUME NEW rcs
  PROVE  /\ moved_keys(rcs)[1] = Plus(<<0, 0, 0>>, rcs[HALF + 1])
         /\ \A i \in 2..(PARTIAL_ROUNDS + 1) :
              moved_keys(rcs)[i] = Plus(Passed(moved_keys(rcs)[i - 1]), rcs[HALF + i])
<1> DEFINE n == PARTIAL_ROUNDS
           mk == moved_keys(rcs)
           first == Plus(<<0, 0, 0>>, rcs[HALF + 1])
<1>1. n \in Nat /\ HALF \in Nat
  BY RoundCounts
<1>2. PICK g : Computes(g, "compress", rcs, first, n)
  BY <1>1, Recursion
<1>3. \A i \in 0..n :
        g[i] = IF i = 0 THEN first ELSE Plus(Passed(g[i - 1]), rcs[HALF + i + 1])
  BY <1>2 DEF Computes, Step, Passed
<1> HIDE DEF first
<1> DEFINE h == [i \in 1..(n + 1) |-> g[i - 1]]
<1>4. ASSUME NEW i \in 1..(n + 1)
      PROVE  h[i] = Plus(IF i = 1 THEN <<0, 0, 0>> ELSE Passed(h[i - 1]), rcs[HALF + i])
  <2>1. i - 1 \in 0..n /\ (i - 1 = 0 <=> i = 1) /\ HALF + (i - 1) + 1 = HALF + i
    BY <1>1
  <2>2. h[i] = IF i = 1 THEN first ELSE Plus(Passed(g[(i - 1) - 1]), rcs[HALF + i])
    BY <1>3, <2>1
  <2>3. CASE i = 1
    BY <2>2, <2>3 DEF first
  <2>4. CASE i # 1
    <3>1. i - 1 \in 1..(n + 1)
      BY <1>1, <2>4
    <3>2. h[i - 1] = g[(i - 1) - 1]
      BY <3>1
    <3> HIDE DEF h
    <3> QED BY <2>2, <2>4, <3>2
  <2> QED BY <2>3, <2>4
<1>5. h = [i \in 1..(n + 1) |->
             Plus(IF i = 1 THEN <<0, 0, 0>> ELSE Passed(h[i - 1]), rcs[HALF + i])]
  <2> HIDE DEF h
  <2>1. h = [i \in 1..(n + 1) |-> h[i]]
    BY DEF h
  <2> QED BY <1>4, <2>1
<1> HIDE DEF h
<1>6. mk = [i \in 1..(n + 1) |->
              Plus(IF i = 1 THEN <<0, 0, 0>> ELSE Passed(mk[i - 1]), rcs[HALF + i])]
  BY <1>5 DEF moved_keys, Passed
<1> HIDE DEF mk, n
<1>7. \A i \in 1..(n + 1) :
        mk[i] = Plus(IF i = 1 THEN <<0, 0, 0>> ELSE Passed(mk[i - 1]), rcs[HALF + i])
  BY <1>6
<1>8. mk[1] = Plus(<<0, 0, 0>>, rcs[HALF + 1])
  <2>1. 1 \in 1..(n + 1)
    BY <1>1 DEF n
  <2> QED BY <1>7, <2>1
<1>9. ASSUME NEW i \in 2..(n + 1) PROVE mk[i] = Plus(Passed(mk[i - 1]), rcs[HALF + i])
  <2>1. i \in 1..(n + 1) /\ i # 1
    BY <1>1 DEF n
  <2> QED BY <1>7, <2>1
<1> QED BY <1>8, <1>9 DEF mk, n

LEMMA MovedKeyTriples ==
  ASSUME NEW rcs \in RoundKeySets
  PROVE  \A i \in 1..(PARTIAL_ROUNDS + 1) : moved_keys(rcs)[i] \in Triple
<1> DEFINE mk == moved_keys(rcs)
           S == {i \in 1..(PARTIAL_ROUNDS + 1) : mk[i] \notin Triple}
<1> SUFFICES ASSUME S # {} PROVE FALSE
  OBVIOUS
<1> HIDE DEF mk
<1>1. PICK i \in S : \A k \in S : i <= k
  <2>1. S \in SUBSET Nat
    BY RoundCounts
  <2> HIDE DEF S
  <2> QED BY <2>1, LeastElement
<1>2. HALF + i \in Rounds
  BY <1>1, RoundCounts DEF Rounds
<1>3. rcs[HALF + i] \in Triple
  BY <1>2 DEF RoundKeySets
<1>4. CASE i = 1
  <2>1. mk[1] = Plus(<<0, 0, 0>>, rcs[HALF + 1])
    BY MovedKeySteps DEF mk
  <2>2. mk[1] = rcs[HALF + 1]
    BY <1>3, <1>4, <2>1, PlusZero
  <2> QED BY <1>1, <1>3, <1>4, <2>2
<1>5. CASE i # 1
  <2>1. i \in 2..(PARTIAL_ROUNDS + 1) /\ i - 1 \in 1..(PARTIAL_ROUNDS + 1) /\ ~ (i <= i - 1)
    BY <1>1, <1>5, RoundCounts
  <2>2. mk[i - 1] \in Triple
    BY <1>1, <2>1
  <2>3. mk[i] = Plus(Passed(mk[i - 1]), rcs[HALF + i])
    BY <2>1, MovedKeySteps DEF mk
  <2>4. Passed(mk[i - 1]) \in Triple
    BY <2>2, PassedTriple
  <2>5. mk[i] \in Triple
    BY <1>3, <2>3, <2>4, PlusTriple
  <2> QED BY <1>1, <2>5
<1> QED BY <1>4, <1>5

\* The elements of triples, one after the other.
LEMMA FlatTriples ==
  ASSUME NEW n \in Nat, NEW ts \in [1..n -> Triple]
  PROVE  /\ Flat(ts) \in Seq(Field) /\ Len(Flat(ts)) = 3 * n
         /\ \A r \in 1..n, i \in 1..3 : Flat(ts)[3 * (r - 1) + i] = ts[r][i]
<1> DEFINE f == Flat(ts)
           m == 3 * n
<1>1. Len(ts) = n
  OBVIOUS
<1>2. f = [k \in 1..m |-> ts[(k - 1) \div 3 + 1][((k - 1) % 3) + 1]]
  BY <1>1 DEF Flat
<1> HIDE DEF f
<1>3. ASSUME NEW k \in 1..m
      PROVE  ts[(k - 1) \div 3 + 1][((k - 1) % 3) + 1] \in Field
  <2>1. (k - 1) \div 3 + 1 \in 1..n /\ ((k - 1) % 3) + 1 \in 1..3
    OBVIOUS
  <2> QED BY <2>1 DEF Triple
<1>4. f \in [1..m -> Field] /\ m \in Nat
  BY <1>2, <1>3
<1>5. f \in Seq(Field) /\ Len(f) = m
  <2> HIDE DEF m
  <2> QED BY <1>4
<1>6. ASSUME NEW r \in 1..n, NEW i \in 1..3 PROVE f[3 * (r - 1) + i] = ts[r][i]
  <2> DEFINE k == 3 * (r - 1) + i
  <2>1. k \in 1..m /\ (k - 1) \div 3 + 1 = r /\ ((k - 1) % 3) + 1 = i
    OBVIOUS
  <2> HIDE DEF k
  <2> QED BY <1>2, <2>1 DEF k
<1> QED BY <1>5, <1>6 DEF f

LEMMA Joined ==
  ASSUME NEW T, NEW a \in Seq(T), NEW b \in Seq(T)
  PROVE  /\ a \o b \in Seq(T) /\ Len(a \o b) = Len(a) + Len(b)
         /\ \A k \in 1..Len(a) : (a \o b)[k] = a[k]
         /\ \A k \in 1..Len(b) : (a \o b)[Len(a) + k] = b[k]
<1>1. Len(a) \in Nat /\ Len(b) \in Nat /\ Len(a \o b) = Len(a) + Len(b)
  OBVIOUS
<1>2. \A k \in 1..Len(a) : k \in 1..Len(a \o b)
  BY <1>1
<1>3. \A k \in 1..Len(b) : /\ Len(a) + k \in 1..Len(a \o b) /\ ~ (Len(a) + k <= Len(a))
                           /\ (Len(a) + k) - Len(a) = k
  BY <1>1
<1>4. \A k \in 1..Len(a) : (a \o b)[k] = a[k]
  BY <1>1, <1>2
<1>5. \A k \in 1..Len(b) : (a \o b)[Len(a) + k] = b[k]
  BY <1>1, <1>3
<1> QED BY <1>1, <1>4, <1>5

\* Where the keys of a round are.
LEMMA KeysOfRounds ==
  ASSUME NEW rcs \in RoundKeySets
  PROVE  LET consts == compress_roundkeys(rcs)
         IN  /\ \A r \in Rounds : r <= HALF \/ r > HALF + PARTIAL_ROUNDS + 1 =>
                  \A i \in 1..3 : consts[KeyIndex(r) + i] = rcs[r][i]
             /\ \A i \in 1..PARTIAL_ROUNDS :
                  consts[KeyIndex(HALF + i) + 1] = moved_keys(rcs)[i][3]
             /\ \A i \in 1..3 :
                  consts[KeyIndex(HALF + PARTIAL_ROUNDS + 1) + i] =
                    moved_keys(rcs)[PARTIAL_ROUNDS + 1][i]
<1> DEFINE H == HALF
           N == PARTIAL_ROUNDS
           mk == moved_keys(rcs)
           s1 == SubSeq(rcs, 1, H)
           s3 == SubSeq(rcs, H + N + 2, Len(rcs))
           a == Flat(s1)
           b == compress_roundkeys_partial(rcs)
           c == Flat(s3)
           consts == a \o b \o c
<1>1. H \in Nat \ {0} /\ N \in Nat /\ ALL_ROUNDS = 2 * H + N
  BY RoundCounts
<1>2. rcs \in Seq(Triple) /\ Len(rcs) = 2 * H + N
  <2> DEFINE n == 2 * H + N
  <2>1. n \in Nat /\ rcs \in [1..n -> Triple]
    BY <1>1 DEF RoundKeySets, Rounds
  <2> HIDE DEF n
  <2>2. rcs \in Seq(Triple) /\ Len(rcs) = n
    BY <2>1
  <2> QED BY <2>2 DEF n
<1> HIDE DEF H, N, mk
<1>3. s1 \in [1..H -> Triple] /\ \A r \in 1..H : s1[r] = rcs[r]
  <2>1. s1 = [r \in 1..H |-> rcs[r]]
    BY <1>1, <1>2
  <2>2. \A r \in 1..H : rcs[r] \in Triple
    BY <1>1, <1>2
  <2> QED BY <2>1, <2>2
<1>4. s3 \in [1..(H - 1) -> Triple] /\ \A r \in 1..(H - 1) : s3[r] = rcs[H + N + 1 + r]
  <2>1. s3 = [r \in 1..(H - 1) |-> rcs[H + N + 1 + r]]
    BY <1>1, <1>2
  <2>2. \A r \in 1..(H - 1) : rcs[H + N + 1 + r] \in Triple
    BY <1>1, <1>2
  <2> QED BY <2>1, <2>2
<1> HIDE DEF s1, s3
<1>5. /\ a \in Seq(Field) /\ Len(a) = 3 * H
      /\ \A r \in 1..H, i \in 1..3 : a[3 * (r - 1) + i] = rcs[r][i]
  <2>1. H \in Nat
    BY <1>1
  <2>2. /\ a \in Seq(Field) /\ Len(a) = 3 * H
        /\ \A r \in 1..H, i \in 1..3 : a[3 * (r - 1) + i] = s1[r][i]
    BY <1>3, <2>1, FlatTriples
  <2>3. \A r \in 1..H, i \in 1..3 : a[3 * (r - 1) + i] = rcs[r][i]
    BY <1>3, <2>2
  <2> QED BY <2>2, <2>3
<1>6. /\ c \in Seq(Field) /\ Len(c) = 3 * (H - 1)
      /\ \A r \in 1..(H - 1), i \in 1..3 : c[3 * (r - 1) + i] = rcs[H + N + 1 + r][i]
  <2> DEFINE n == H - 1
  <2>1. n \in Nat
    BY <1>1
  <2>2. s3 \in [1..n -> Triple] /\ \A r \in 1..n : s3[r] = rcs[H + N + 1 + r]
    BY <1>4
  <2> HIDE DEF n
  <2>3. /\ c \in Seq(Field) /\ Len(c) = 3 * n
        /\ \A r \in 1..n, i \in 1..3 : c[3 * (r - 1) + i] = s3[r][i]
    BY <2>1, <2>2, FlatTriples
  <2>4. \A r \in 1..n, i \in 1..3 : c[3 * (r - 1) + i] = rcs[H + N + 1 + r][i]
    BY <2>2, <2>3
  <2> QED BY <2>3, <2>4 DEF n
<1>7. /\ b \in Seq(Field) /\ Len(b) = N + 3
      /\ \A i \in 1..N : b[i] = mk[i][3]
      /\ \A i \in 1..3 : b[N + i] = mk[N + 1][i]
  <2>1. b = [i \in 1..(N + 3) |-> IF i <= N THEN mk[i][3] ELSE mk[N + 1][i - N]]
    BY DEF compress_roundkeys_partial, N, mk
  <2>2. \A i \in 1..(N + 1) : mk[i] \in Triple
    BY MovedKeyTriples DEF mk, N
  <2> HIDE DEF b
  <2>3. ASSUME NEW i \in 1..(N + 3)
        PROVE  (IF i <= N THEN mk[i][3] ELSE mk[N + 1][i - N]) \in Field
    <3>1. CASE i <= N
      <4>1. i \in 1..(N + 1)
        BY <1>1, <3>1
      <4> QED BY <2>2, <3>1, <4>1 DEF Triple
    <3>2. CASE ~ (i <= N)
      <4>1. N + 1 \in 1..(N + 1) /\ i - N \in 1..3
        BY <1>1, <3>2
      <4> QED BY <2>2, <3>2, <4>1 DEF Triple
    <3> QED BY <3>1, <3>2
  <2>4. b \in [1..(N + 3) -> Field]
    BY <2>1, <2>3
  <2>5. b \in Seq(Field) /\ Len(b) = N + 3
    <3>1. N + 3 \in Nat
      BY <1>1
    <3> QED BY <2>4, <3>1
  <2>6. \A i \in 1..N : i \in 1..(N + 3) /\ i <= N
    BY <1>1
  <2>7. \A i \in 1..3 : N + i \in 1..(N + 3) /\ ~ (N + i <= N) /\ (N + i) - N = i
    BY <1>1
  <2>8. \A i \in 1..N : b[i] = mk[i][3]
    BY <2>1, <2>6
  <2>9. \A i \in 1..3 : b[N + i] = mk[N + 1][i]
    BY <2>1, <2>7
  <2> QED BY <2>5, <2>8, <2>9
<1> HIDE DEF a, b, c
<1>8. /\ \A k \in 1..(3 * H) : consts[k] = a[k]
      /\ \A k \in 1..(N + 3) : consts[3 * H + k] = b[k]
      /\ \A k \in 1..(3 * (H - 1)) : consts[3 * H + (N + 3) + k] = c[k]
  <2> DEFINE la == 3 * H
             lb == N + 3
             lc == 3 * (H - 1)
  <2>1. la \in Nat /\ lb \in Nat /\ lc \in Nat
    BY <1>1
  <2>2. Len(a) = la /\ Len(b) = lb /\ Len(c) = lc
    BY <1>5, <1>6, <1>7
  <2> HIDE DEF la, lb, lc
  <2>3. /\ a \o b \in Seq(Field) /\ Len(a \o b) = la + lb
        /\ \A k \in 1..la : (a \o b)[k] = a[k]
        /\ \A k \in 1..lb : (a \o b)[la + k] = b[k]
    <3>1. a \in Seq(Field) /\ b \in Seq(Field)
      BY <1>5, <1>7
    <3>2. /\ a \o b \in Seq(Field) /\ Len(a \o b) = Len(a) + Len(b)
          /\ \A k \in 1..Len(a) : (a \o b)[k] = a[k]
          /\ \A k \in 1..Len(b) : (a \o b)[Len(a) + k] = b[k]
      BY <3>1, Joined
    <3> QED BY <2>2, <3>2
  <2> DEFINE ab == a \o b
  <2> HIDE DEF ab
  <2>4. ab \in Seq(Field) /\ Len(ab) = la + lb
    BY <2>3 DEF ab
  <2>5. /\ \A k \in 1..(la + lb) : (ab \o c)[k] = ab[k]
        /\ \A k \in 1..lc : (ab \o c)[la + lb + k] = c[k]
    BY <1>6, <2>2, <2>4, Joined
  <2>6. \A k \in 1..la : k \in 1..(la + lb)
    BY <2>1
  <2>7. \A k \in 1..lb : la + k \in 1..(la + lb)
    BY <2>1
  <2>8. /\ \A k \in 1..la : (ab \o c)[k] = a[k]
        /\ \A k \in 1..lb : (ab \o c)[la + k] = b[k]
    BY <2>3, <2>5, <2>6, <2>7 DEF ab
  <2> QED BY <2>5, <2>8 DEF ab, la, lb, lc
<1>9. consts = compress_roundkeys(rcs)
  BY DEF compress_roundkeys, a, b, c, s1, s3, H, N
<1> HIDE DEF consts
<1>10. ASSUME NEW r \in Rounds, r <= H, NEW i \in 1..3
       PROVE  consts[KeyIndex(r) + i] = rcs[r][i]
  <2>1. r \in 1..H /\ 3 * (r - 1) + i \in 1..(3 * H) /\ r <= H + 1
    BY <1>1, <1>10 DEF Rounds
  <2>2. KeyIndex(r) = 3 * (r - 1)
    BY <2>1 DEF KeyIndex, H
  <2> QED BY <1>5, <1>8, <2>1, <2>2
<1>11. ASSUME NEW r \in Rounds, r > H + N + 1, NEW i \in 1..3
       PROVE  consts[KeyIndex(r) + i] = rcs[r][i]
  <2> DEFINE q == r - (H + N + 1)
             k == 3 * (q - 1) + i
  <2>1. /\ q \in 1..(H - 1) /\ k \in 1..(3 * (H - 1)) /\ H + N + 1 + q = r
        /\ ~ (r <= H + 1) /\ ~ (r <= H + N + 1)
    BY <1>1, <1>11 DEF Rounds
  <2>2. KeyIndex(r) = 3 * (r - 1) - 2 * N
    BY <2>1 DEF KeyIndex, H, N
  <2>3. KeyIndex(r) + i = 3 * H + (N + 3) + k
    BY <1>1, <2>1, <2>2
  <2>4. c[k] = rcs[r][i]
    BY <1>6, <2>1
  <2> HIDE DEF k, q
  <2> QED BY <1>8, <2>1, <2>3, <2>4
<1>12. ASSUME NEW i \in 1..N PROVE consts[KeyIndex(H + i) + 1] = mk[i][3]
  <2>1. KeyIndex(H + i) = 3 * H + (i - 1)
    <3>1. CASE i = 1
      <4>1. H + i <= H + 1 /\ 3 * ((H + i) - 1) = 3 * H + (i - 1)
        BY <1>1, <3>1
      <4> QED BY <4>1 DEF KeyIndex, H
    <3>2. CASE i # 1
      <4>1. ~ (H + i <= H + 1) /\ H + i <= H + N + 1 /\ (H + i) - 1 - H = i - 1
        BY <1>1, <3>2
      <4> QED BY <4>1 DEF KeyIndex, H, N
    <3> QED BY <3>1, <3>2
  <2>2. KeyIndex(H + i) + 1 = 3 * H + i /\ i \in 1..(N + 3)
    BY <1>1, <2>1
  <2> QED BY <1>7, <1>8, <2>2
<1>13. ASSUME NEW i \in 1..3 PROVE consts[KeyIndex(H + N + 1) + i] = mk[N + 1][i]
  <2>1. KeyIndex(H + N + 1) = 3 * H + N
    <3>1. CASE N = 0
      <4>1. H + N + 1 <= H + 1 /\ 3 * ((H + N + 1) - 1) = 3 * H + N
        BY <1>1, <3>1
      <4> QED BY <4>1 DEF KeyIndex, H
    <3>2. CASE N # 0
      <4>1. ~ (H + N + 1 <= H + 1) /\ (H + N + 1) - 1 - H = N /\ H + N + 1 <= H + N + 1
        BY <1>1, <3>2
      <4> QED BY <4>1 DEF KeyIndex, H, N
    <3> QED BY <3>1, <3>2
  <2>2. KeyIndex(H + N + 1) + i = 3 * H + (N + i) /\ N + i \in 1..(N + 3)
    BY <1>1, <2>1
  <2> QED BY <1>7, <1>8, <2>2
<1> QED BY <1>9, <1>10, <1>11, <1>12, <1>13 DEF H, N, mk

-----------------------------------------------------------------------------
(***************************************************************************)
(* Round by round: the state of the permutation is that of                 *)
(* poseidon_permute_comp and what the key of the round passed on.          *)
(***************************************************************************)
LEMMA CompRounds ==
  ASSUME NEW state, NEW consts
  PROVE  /\ rounds_comp(state, consts)[0] = state
         /\ \A r \in Rounds : rounds_comp(state, consts)[r] =
              round_comp(rounds_comp(state, consts)[r - 1], consts, KeyIndex(r), FullRound(r))
<1> DEFINE c == rounds_comp(state, consts)
<1>1. ALL_ROUNDS \in Nat
  BY RoundCounts
<1>2. PICK g : Computes(g, "permute_comp", consts, state, ALL_ROUNDS)
  BY <1>1, Recursion
<1>3. g = [r \in 0..ALL_ROUNDS |->
             IF r = 0 THEN state ELSE round_comp(g[r - 1], consts, KeyIndex(r), FullRound(r))]
  BY <1>2 DEF Computes, Step
<1>4. c = [r \in 0..ALL_ROUNDS |->
             IF r = 0 THEN state ELSE round_comp(c[r - 1], consts, KeyIndex(r), FullRound(r))]
  BY <1>3 DEF rounds_comp
<1> HIDE DEF c
<1>5. 0 \in 0..ALL_ROUNDS /\ \A r \in Rounds : r \in 0..ALL_ROUNDS /\ r # 0
  BY <1>1 DEF Rounds
<1>6. c[0] = state
  BY <1>4, <1>5
<1>7. \A r \in Rounds : c[r] = round_comp(c[r - 1], consts, KeyIndex(r), FullRound(r))
  BY <1>4, <1>5
<1> QED BY <1>6, <1>7 DEF c

LEMMA KeyedRoundSteps ==
  ASSUME NEW state, NEW rcs
  PROVE  /\ KeyedRounds(state, rcs)[0] = state
         /\ \A r \in Rounds : KeyedRounds(state, rcs)[r] =
              KeyedRound(KeyedRounds(state, rcs)[r - 1], rcs[r], FullRound(r))
<1> DEFINE t == KeyedRounds(state, rcs)
<1>1. ALL_ROUNDS \in Nat
  BY RoundCounts
<1>2. PICK g : Computes(g, "Permutation", rcs, state, ALL_ROUNDS)
  BY <1>1, Recursion
<1>3. g = [r \in 0..ALL_ROUNDS |->
             IF r = 0 THEN state ELSE KeyedRound(g[r - 1], rcs[r], FullRound(r))]
  BY <1>2 DEF Computes, Step
<1>4. t = [r \in 0..ALL_ROUNDS |->
             IF r = 0 THEN state ELSE KeyedRound(t[r - 1], rcs[r], FullRound(r))]
  BY <1>3 DEF KeyedRounds
<1> HIDE DEF t
<1>5. 0 \in 0..ALL_ROUNDS /\ \A r \in Rounds : r \in 0..ALL_ROUNDS /\ r # 0
  BY <1>1 DEF Rounds
<1>6. t[0] = state
  BY <1>4, <1>5
<1>7. \A r \in Rounds : t[r] = KeyedRound(t[r - 1], rcs[r], FullRound(r))
  BY <1>4, <1>5
<1> QED BY <1>6, <1>7 DEF t

\* The cubes of a triple, and those of its last element only.
Cubed(k) == [i \in 1..3 |-> cube(k[i])]

CubedLast(k) == [k EXCEPT ![3] = cube(k[3])]

LEMMA CubeField ==
  ASSUME NEW a \in Field
  PROVE  cube(a) \in Field
<1>1. a \in Int
  BY FieldMod
<1>2. a ** a \in Field
  BY <1>1, FieldOps
<1>3. a ** a \in Int
  BY <1>2, FieldMod
<1> QED BY <1>1, <1>3, FieldOps DEF cube

LEMMA CubedTriple ==
  ASSUME NEW k \in Triple
  PROVE  Cubed(k) \in Triple /\ CubedLast(k) \in Triple
<1>1. \A i \in 1..3 : cube(k[i]) \in Field
  BY CubeField DEF Triple
<1>2. Cubed(k) \in Triple
  BY <1>1 DEF Cubed, Triple
<1>3. CubedLast(k) \in Triple
  <2>1. cube(k[3]) \in Field
    BY <1>1
  <2> QED BY <2>1, DropTriple DEF CubedLast
<1> QED BY <1>2, <1>3

\* A full round that finds the sum of the key in its place.
LEMMA FullRoundComp ==
  ASSUME NEW s \in Triple, NEW k \in Triple, NEW consts, NEW idx,
         \A i \in 1..3 : consts[idx + i] = k[i]
  PROVE  round_comp(s, consts, idx, TRUE) = mix(Cubed(Plus(s, k)))
<1>1. [i \in 1..3 |-> cube(s[i] ++ consts[idx + i])] = Cubed(Plus(s, k))
  BY DEF Cubed, Plus
<1> QED BY <1>1 DEF round_comp

\* A partial round adds and cubes the last element only; the rest of the key
\* passes through the linear layer.
LEMMA PartialRoundComp ==
  ASSUME NEW s \in Triple, NEW k \in Triple, NEW consts, NEW idx,
         consts[idx + 1] = k[3]
  PROVE  /\ round_comp(s, consts, idx, FALSE) \in Triple
         /\ mix(CubedLast(Plus(s, k))) = Plus(round_comp(s, consts, idx, FALSE), Passed(k))
<1> DEFINE a == cube(s[3] ++ k[3])
           x == [s EXCEPT ![3] = a]
           y == [k EXCEPT ![3] = 0]
           p == Plus(s, k)
<1>1. /\ p \in Triple
      /\ p[1] = (s[1] + k[1]) % P /\ p[2] = (s[2] + k[2]) % P /\ p[3] = (s[3] + k[3]) % P
  BY PlusTriple
<1>2. p[3] = s[3] ++ k[3]
  BY <1>1 DEF ++
<1>3. a \in Field /\ a = cube(p[3])
  <2>1. p[3] \in Field
    BY <1>1 DEF Triple
  <2> QED BY <1>2, <2>1, CubeField
<1>4. /\ x \in Triple /\ x[1] = s[1] /\ x[2] = s[2] /\ x[3] = a
  BY <1>3, DropTriple
<1>5. y \in Triple /\ y[1] = k[1] /\ y[2] = k[2] /\ y[3] = 0
  <2>1. 0 \in Field
    BY FieldAssumption DEF Field
  <2> QED BY <2>1, DropTriple
<1>6. round_comp(s, consts, idx, FALSE) = mix(x)
  BY DEF round_comp
<1>7. CubedLast(p) = Plus(x, y)
  <2> DEFINE q == CubedLast(p)
             z == Plus(x, y)
  <2> HIDE DEF p, x, y, a
  <2>1. q \in Triple /\ q[1] = p[1] /\ q[2] = p[2] /\ q[3] = a
    <3>1. cube(p[3]) \in Field
      BY <1>3
    <3> QED BY <1>1, <1>3, <3>1, DropTriple DEF CubedLast
  <2>2. /\ z \in Triple
        /\ z[1] = (s[1] + k[1]) % P /\ z[2] = (s[2] + k[2]) % P /\ z[3] = (a + 0) % P
    BY <1>4, <1>5, PlusTriple
  <2>3. (a + 0) % P = a
    <3>1. a + 0 = a /\ a % P = a
      BY <1>3, FieldMod
    <3> QED BY <3>1
  <2> HIDE DEF q, z
  <2>4. q = z
    BY <1>1, <2>1, <2>2, <2>3, TripleEqual
  <2> QED BY <2>4 DEF q, z
<1>8. mix(Plus(x, y)) = Plus(mix(x), mix(y)) /\ mix(x) \in Triple
  <2> HIDE DEF x, y
  <2> QED BY <1>4, <1>5, MixLinear, MixForm
<1> QED BY <1>6, <1>7, <1>8 DEF Passed

LEMMA KeyedRoundForm ==
  ASSUME NEW s, NEW k, NEW full \in BOOLEAN
  PROVE  KeyedRound(s, k, full) = mix(IF full THEN Cubed(Plus(s, k)) ELSE CubedLast(Plus(s, k)))
BY DEF KeyedRound, Cubed, CubedLast

\* What is passed on after r rounds.
Carried(rcs, r) ==
  IF r > HALF /\ r <= HALF + PARTIAL_ROUNDS THEN Passed(moved_keys(rcs)[r - HALF])
  ELSE <<0, 0, 0>>

LEMMA CarriedTriple ==
  ASSUME NEW rcs \in RoundKeySets, NEW r \in 0..ALL_ROUNDS
  PROVE  Carried(rcs, r) \in Triple
<1>1. CASE r > HALF /\ r <= HALF + PARTIAL_ROUNDS
  <2>1. r - HALF \in 1..(PARTIAL_ROUNDS + 1)
    BY <1>1, RoundCounts
  <2>2. Passed(moved_keys(rcs)[r - HALF]) \in Triple
    BY <2>1, MovedKeyTriples, PassedTriple
  <2> QED BY <1>1, <2>2 DEF Carried
<1>2. CASE ~ (r > HALF /\ r <= HALF + PARTIAL_ROUNDS)
  <2>1. <<0, 0, 0>> \in Triple
    <3>1. 0 \in Field
      BY FieldAssumption DEF Field
    <3> QED BY <3>1, MakeTriple
  <2> QED BY <1>2, <2>1 DEF Carried
<1> QED BY <1>1, <1>2

\* From HALF rounds on, the key of the next round takes in what is passed on.
LEMMA NextMovedKey ==
  ASSUME NEW rcs \in RoundKeySets, NEW i \in 1..(PARTIAL_ROUNDS + 1)
  PROVE  moved_keys(rcs)[i] = Plus(Carried(rcs, HALF + i - 1), rcs[HALF + i])
<1>1. CASE i = 1
  <2>1. ~ (HALF + i - 1 > HALF)
    BY <1>1, RoundCounts
  <2>2. Carried(rcs, HALF + i - 1) = <<0, 0, 0>>
    BY <2>1 DEF Carried
  <2> QED BY <1>1, <2>2, MovedKeySteps
<1>2. CASE i # 1
  <2>1. /\ HALF + i - 1 > HALF /\ HALF + i - 1 <= HALF + PARTIAL_ROUNDS
        /\ (HALF + i - 1) - HALF = i - 1 /\ i \in 2..(PARTIAL_ROUNDS + 1)
    BY <1>2, RoundCounts
  <2>2. Carried(rcs, HALF + i - 1) = Passed(moved_keys(rcs)[i - 1])
    BY <2>1 DEF Carried
  <2> QED BY <2>1, <2>2, MovedKeySteps
<1> QED BY <1>1, <1>2

\* Both rounds give the same, but for what is passed on.
Alike(c, t, rcs, r) == c \in Triple /\ t \in Triple /\ t = Plus(c, Carried(rcs, r))

LEMMA RoundsAlike ==
  ASSUME NEW rcs \in RoundKeySets, NEW r \in Rounds, NEW c, NEW t, Alike(c, t, rcs, r - 1)
  PROVE  Alike(round_comp(c, compress_roundkeys(rcs), KeyIndex(r), FullRound(r)),
               KeyedRound(t, rcs[r], FullRound(r)), rcs, r)
<1> DEFINE consts == compress_roundkeys(rcs)
           key == Plus(Carried(rcs, r - 1), rcs[r])
           full == FullRound(r)
           H == HALF
           N == PARTIAL_ROUNDS
           new == round_comp(c, consts, KeyIndex(r), full)
<1>1. /\ H \in Nat \ {0} /\ N \in Nat /\ ALL_ROUNDS = 2 * H + N
      /\ r \in 1..(2 * H + N) /\ r - 1 \in 0..ALL_ROUNDS
  BY RoundCounts DEF Rounds
<1>2. rcs[r] \in Triple /\ Carried(rcs, r - 1) \in Triple
  BY <1>1, CarriedTriple DEF RoundKeySets
<1>3. key \in Triple /\ Plus(t, rcs[r]) = Plus(c, key) /\ c \in Triple
  <2>1. c \in Triple /\ t = Plus(c, Carried(rcs, r - 1))
    BY DEF Alike
  <2> QED BY <1>2, <2>1, PlusTriple, PlusAssociative
<1>4. full \in BOOLEAN /\ (full <=> r <= H \/ r > H + N)
  BY DEF FullRound
<1>5. KeyedRound(t, rcs[r], full) =
        mix(IF full THEN Cubed(Plus(c, key)) ELSE CubedLast(Plus(c, key)))
  BY <1>3, <1>4, KeyedRoundForm
<1>6. /\ \A q \in Rounds : q <= H \/ q > H + N + 1 =>
           \A i \in 1..3 : consts[KeyIndex(q) + i] = rcs[q][i]
      /\ \A i \in 1..N : consts[KeyIndex(H + i) + 1] = moved_keys(rcs)[i][3]
      /\ \A i \in 1..3 : consts[KeyIndex(H + N + 1) + i] = moved_keys(rcs)[N + 1][i]
  BY KeysOfRounds
<1>7. Plus(c, key) \in Triple /\ Cubed(Plus(c, key)) \in Triple /\ CubedLast(Plus(c, key)) \in Triple
  BY <1>3, PlusTriple, CubedTriple
<1> HIDE DEF consts, key, full
<1>8. CASE full
  <2>1. \A i \in 1..3 : consts[KeyIndex(r) + i] = key[i]
    <3>1. CASE r = H + N + 1
      <4>1. N + 1 \in 1..(N + 1) /\ H + (N + 1) - 1 = r - 1 /\ H + (N + 1) = r
        BY <1>1, <3>1
      <4>2. moved_keys(rcs)[N + 1] = Plus(Carried(rcs, H + (N + 1) - 1), rcs[H + (N + 1)])
        BY <4>1, NextMovedKey
      <4>3. moved_keys(rcs)[N + 1] = key
        BY <4>1, <4>2 DEF key
      <4> QED BY <1>6, <3>1, <4>3
    <3>2. CASE r # H + N + 1
      <4>1. r <= H \/ r > H + N + 1
        BY <1>1, <1>4, <1>8, <3>2
      <4>2. Carried(rcs, r - 1) = <<0, 0, 0>>
        <5>1. ~ (r - 1 > H /\ r - 1 <= H + N)
          BY <1>1, <4>1
        <5> QED BY <5>1 DEF Carried
      <4>3. key = rcs[r]
        BY <1>2, <4>2, PlusZero DEF key
      <4> QED BY <1>6, <4>1, <4>3
    <3> QED BY <3>1, <3>2
  <2>2. full = TRUE
    BY <1>4, <1>8
  <2>3. new = mix(Cubed(Plus(c, key)))
    BY <1>3, <2>1, <2>2, FullRoundComp
  <2>4. KeyedRound(t, rcs[r], full) = new /\ new \in Triple
    BY <1>5, <1>7, <1>8, <2>3, MixForm
  <2>5. Carried(rcs, r) = <<0, 0, 0>>
    <3>1. ~ (r > H /\ r <= H + N)
      BY <1>1, <1>4, <1>8
    <3> QED BY <3>1 DEF Carried
  <2> HIDE DEF new
  <2>6. Alike(new, KeyedRound(t, rcs[r], full), rcs, r)
    BY <2>4, <2>5, PlusZero DEF Alike
  <2> QED BY <2>6 DEF new, full, consts
<1>9. CASE ~ full
  <2> DEFINE i == r - H
  <2>1. /\ i \in 1..N /\ i \in 1..(N + 1) /\ H + i = r /\ H + i - 1 = r - 1
        /\ r > H /\ r <= H + N
    BY <1>1, <1>4, <1>9
  <2>2. moved_keys(rcs)[i] = key
    <3> HIDE DEF i
    <3>1. moved_keys(rcs)[i] = Plus(Carried(rcs, H + i - 1), rcs[H + i])
      BY <2>1, NextMovedKey
    <3> QED BY <2>1, <3>1 DEF key
  <2>3. consts[KeyIndex(r) + 1] = key[3]
    <3> HIDE DEF i
    <3> QED BY <1>6, <2>1, <2>2
  <2>4. full = FALSE
    BY <1>4, <1>9
  <2>5. /\ new \in Triple
        /\ mix(CubedLast(Plus(c, key))) = Plus(new, Passed(key))
    <3> DEFINE idx == KeyIndex(r)
    <3>1. c \in Triple /\ key \in Triple /\ consts[idx + 1] = key[3]
      BY <1>3, <2>3
    <3>2. new = round_comp(c, consts, idx, FALSE)
      BY <2>4
    <3> HIDE DEF new, idx
    <3> QED BY ONLY <3>1, <3>2, PartialRoundComp
  <2>6. Carried(rcs, r) = Passed(key)
    BY <2>1, <2>2 DEF Carried
  <2>7. KeyedRound(t, rcs[r], full) = mix(CubedLast(Plus(c, key)))
    BY <1>5, <1>9
  <2>8. mix(CubedLast(Plus(c, key))) \in Triple
    BY <1>7, MixForm
  <2> HIDE DEF new
  <2>9. Alike(new, KeyedRound(t, rcs[r], full), rcs, r)
    BY <2>5, <2>6, <2>7, <2>8 DEF Alike
  <2> QED BY <2>9 DEF new, full, consts
<1> QED BY <1>8, <1>9

LEMMA CompressedKeysAgree ==
  ASSUME NEW rcs \in RoundKeySets, NEW state \in Triple
  PROVE  CompressedAgrees(state, rcs)
<1> DEFINE consts == compress_roundkeys(rcs)
           c == rounds_comp(state, consts)
           t == KeyedRounds(state, rcs)
           S == {r \in 0..ALL_ROUNDS : ~ Alike(c[r], t[r], rcs, r)}
<1>1. ALL_ROUNDS \in Nat /\ HALF \in Nat \ {0} /\ ALL_ROUNDS = 2 * HALF + PARTIAL_ROUNDS
  BY RoundCounts
<1>2. Alike(c[0], t[0], rcs, 0)
  <2>1. c[0] = state /\ t[0] = state
    BY CompRounds, KeyedRoundSteps
  <2>2. Carried(rcs, 0) = <<0, 0, 0>>
    BY <1>1 DEF Carried
  <2> HIDE DEF c, t
  <2> QED BY <2>1, <2>2, PlusZero DEF Alike
<1>3. ASSUME NEW r \in Rounds, Alike(c[r - 1], t[r - 1], rcs, r - 1)
      PROVE  Alike(c[r], t[r], rcs, r)
  <2>1. /\ c[r] = round_comp(c[r - 1], consts, KeyIndex(r), FullRound(r))
        /\ t[r] = KeyedRound(t[r - 1], rcs[r], FullRound(r))
    BY CompRounds, KeyedRoundSteps
  <2> HIDE DEF c, t
  <2> QED BY <1>3, <2>1, RoundsAlike
<1> HIDE DEF c, t
<1>4. S = {}
  <2> SUFFICES ASSUME S # {} PROVE FALSE
    OBVIOUS
  <2>1. PICK r \in S : \A k \in S : r <= k
    <3>1. S \in SUBSET Nat
      OBVIOUS
    <3> HIDE DEF S
    <3> QED BY <3>1, LeastElement
  <2>2. r \in Rounds /\ r - 1 \in 0..ALL_ROUNDS /\ ~ (r <= r - 1)
    <3>1. r # 0
      BY <1>2, <2>1
    <3> QED BY <1>1, <2>1, <3>1 DEF Rounds
  <2>3. Alike(c[r - 1], t[r - 1], rcs, r - 1)
    BY <2>1, <2>2
  <2>4. Alike(c[r], t[r], rcs, r)
    BY <1>3, <2>2, <2>3
  <2> QED BY <2>1, <2>4
<1>5. Alike(c[ALL_ROUNDS], t[ALL_ROUNDS], rcs, ALL_ROUNDS)
  BY <1>1, <1>4
<1>6. Carried(rcs, ALL_ROUNDS) = <<0, 0, 0>>
  <2>1. ~ (ALL_ROUNDS <= HALF + PARTIAL_ROUNDS)
    BY RoundCounts
  <2> QED BY <2>1 DEF Carried
<1>7. t[ALL_ROUNDS] = c[ALL_ROUNDS]
  BY <1>5, <1>6, PlusZero DEF Alike
<1> QED BY <1>7 DEF CompressedAgrees, poseidon_permute_comp, Permutation, c, t

(***************************************************************************)
(* Compressing the round keys does not change the permutation: for every   *)
(* prime, every number of rounds, all round keys and every state.          *)
(***************************************************************************)
THEOREM AlwaysPermutationAgrees == AlgorithmsSpec => []PermutationAgrees
<1>1. input \in Inputs \union {NoInput} => PermutationAgrees
  <2> SUFFICES ASSUME input \in Inputs, input.kind = "state"
               PROVE  CompressedAgrees(input.state, RoundKeys)
    BY DEF PermutationAgrees, Of, NoInput
  <2>1. input.state \in Triple
    BY InputsAssumption
  <2>2. RoundKeys \in RoundKeySets
    BY RoundKeysAssumption DEF RoundKeySets
  <2> QED BY <2>1, <2>2, CompressedKeysAgree
<1> QED BY <1>1, InputKept, PTL

-----------------------------------------------------------------------------
(***************************************************************************)
(* The ranking of models.                                                  *)
(***************************************************************************)
LEMMA TotalNat ==
  ASSUME NEW n \in Nat, NEW d \in [1..n -> Nat]
  PROVE  Total(d) \in Nat
<1> DEFINE t == sums(d)
           S == {i \in 0..n : t[i] \notin Nat}
<1>1. Len(d) = n
  BY VectorLength
<1>2. PICK g : Computes(g, "Total", d, 0, n)
  BY Recursion
<1>3. g = [i \in 0..n |-> IF i = 0 THEN 0 ELSE g[i - 1] + d[i]]
  BY <1>2 DEF Computes, Step
<1>4. t = [i \in 0..n |-> IF i = 0 THEN 0 ELSE t[i - 1] + d[i]]
  BY <1>1, <1>3 DEF sums
<1> HIDE DEF t
<1>5. \A i \in 0..n : t[i] = IF i = 0 THEN 0 ELSE t[i - 1] + d[i]
  BY <1>4
<1>6. S = {}
  <2> SUFFICES ASSUME S # {} PROVE FALSE
    OBVIOUS
  <2>1. PICK i \in S : \A k \in S : i <= k
    <3>1. S \in SUBSET Nat
      OBVIOUS
    <3> HIDE DEF S
    <3> QED BY <3>1, LeastElement
  <2>2. i \in 1..n /\ i - 1 \in 0..n /\ ~ (i <= i - 1)
    BY <1>5, <2>1
  <2>3. t[i - 1] \in Nat
    BY <2>1, <2>2
  <2>4. t[i] = t[i - 1] + d[i] /\ d[i] \in Nat
    BY <1>5, <2>2
  <2> QED BY <2>1, <2>3, <2>4
<1>7. t[n] \in Nat
  BY <1>6
<1> QED BY <1>1, <1>7 DEF Total, t

\* In the field, half of a number below the prime is a smaller number if and
\* only if it is even and positive.
LEMMA HalfIndex ==
  ASSUME NEW n \in Nat, n < Prime
  PROVE  /\ n > 0 /\ half(n) < n <=> n > 0 /\ n % 2 = 0
         /\ n > 0 /\ half(n) < n => half(n) + 1 \in 1..n
<1>1. Prime \in Nat /\ Prime % 2 = 1
  BY RankingAssumption
<1>2. CASE n % 2 = 0
  <2>1. half(n) = n \div 2
    BY <1>2 DEF half
  <2> QED BY <1>2, <2>1
<1>3. CASE n % 2 # 0
  <2>1. half(n) = (n + Prime) \div 2
    BY <1>3 DEF half
  <2>2. (n + Prime) \div 2 >= n
    BY <1>1
  <2>3. ~ (half(n) < n)
    BY <1>1, <2>1, <2>2
  <2> QED BY <1>3, <2>3
<1> QED BY <1>2, <1>3

\* A list of verifications of one model, beside the real results.
IsModel(vs, real) ==
  /\ vs \in Seq(Elements(vs)) /\ Len(vs) < Prime
  /\ \A k \in 1..Len(vs) :
       /\ vs[k].num_test_problems = Len(real)
       /\ vs[k].class_confidence \in Nat
       /\ vs[k].class_confidence = vs[1].class_confidence
       /\ vs[k].evaluations \in Matrix(Len(real), vs[k].class_confidence)
       /\ real \in Matrix(Len(real), vs[k].class_confidence)

ReadsWithinModel(vs, real) ==
  /\ vs # <<>>
  /\ half(Len(vs)) < Len(vs)
  /\ Readable(median_source(vs).evaluations, vs[1].num_test_problems, vs[1].class_confidence)
  /\ Readable(real, vs[1].num_test_problems, vs[1].class_confidence)

LEMMA MatrixReadable ==
  ASSUME NEW rows \in Nat, NEW columns \in Nat, NEW M \in Matrix(rows, columns)
  PROVE  Readable(M, rows, columns)
<1>1. M = [i \in 1..rows |-> M[i]] /\ \A i \in 1..rows : M[i] \in [1..columns -> Int]
  BY DEF Matrix
<1>2. Len(M) = rows
  BY <1>1, VectorLength
<1>3. ASSUME NEW i \in 1..rows PROVE Len(M[i]) = columns
  <2> DEFINE row == M[i]
  <2>1. row = [j \in 1..columns |-> row[j]]
    BY <1>1
  <2> HIDE DEF row
  <2>2. Len(row) = columns
    BY <2>1, VectorLength
  <2> QED BY <2>2 DEF row
<1> QED BY <1>2, <1>3 DEF Readable

\* The consensus exists if and only if the number of verifications is even,
\* and its distance to the real results is a number.
LEMMA ModelRate ==
  ASSUME NEW vs, NEW real, Len(real) \in Nat, IsModel(vs, real)
  PROVE  /\ ReadsWithinModel(vs, real) <=> Len(vs) > 0 /\ Len(vs) % 2 = 0
         /\ ReadsWithinModel(vs, real) => get_model_error_rate(vs, real) \in Nat
<1> DEFINE n == Len(vs)
           rows == Len(real)
<1>1. n \in Nat /\ n < Prime /\ (vs # <<>> <=> n > 0)
  BY DEF IsModel
<1>2. CASE ~ (n > 0 /\ half(n) < n)
  BY <1>1, <1>2, HalfIndex DEF ReadsWithinModel
<1>3. CASE n > 0 /\ half(n) < n
  <2> DEFINE h == half(n) + 1
             columns == vs[1].class_confidence
             E == vs[h].evaluations
             C == build_consensus_matrix(vs)
  <2>1. h \in 1..n /\ n % 2 = 0 /\ 1 \in 1..n
    BY <1>1, <1>3, HalfIndex
  <2>2. /\ columns \in Nat /\ vs[1].num_test_problems = rows
        /\ E \in Matrix(rows, columns) /\ real \in Matrix(rows, columns)
    BY <2>1 DEF IsModel
  <2>3. median_source(vs).evaluations = E
    BY DEF median_source
  <2>4. Readable(E, rows, columns) /\ Readable(real, rows, columns)
    <3> HIDE DEF E, columns
    <3> QED BY <2>2, MatrixReadable
  <2>5. ReadsWithinModel(vs, real)
    BY <1>1, <1>3, <2>2, <2>3, <2>4 DEF ReadsWithinModel
  <2>6. C = [i \in 1..rows |-> [j \in 1..columns |-> E[i][j]]]
    BY <2>2 DEF build_consensus_matrix, get_matrix_element_median, median_source
  <2> HIDE DEF E, C, columns, h
  <2>7. \A i \in 1..rows, j \in 1..columns : E[i][j] \in Int /\ real[i][j] \in Int
    BY <2>2 DEF Matrix
  <2>8. ASSUME NEW i \in 1..rows PROVE sum_row_error_distances(C[i], real[i]) \in Nat
    <3> DEFINE d == [j \in 1..columns |-> abs_value(E[i][j] - real[i][j])]
    <3>1. C[i] = [j \in 1..columns |-> E[i][j]]
      BY <2>6
    <3>2. [j \in DOMAIN C[i] |-> abs_value(C[i][j] - real[i][j])] = d
      BY <3>1
    <3>3. d \in [1..columns -> Nat]
      <4>1. ASSUME NEW j \in 1..columns PROVE abs_value(E[i][j] - real[i][j]) \in Nat
        BY <2>7 DEF abs_value
      <4> QED BY <4>1
    <3> HIDE DEF d
    <3>4. Total(d) \in Nat
      BY <2>2, <3>3, TotalNat
    <3> QED BY <3>2, <3>4 DEF sum_row_error_distances
  <2>9. get_model_error_rate(vs, real) \in Nat
    <3> DEFINE d == [i \in 1..rows |-> sum_row_error_distances(C[i], real[i])]
    <3>1. DOMAIN C = 1..rows
      BY <2>6
    <3>2. d \in [1..rows -> Nat]
      BY <2>8
    <3>3. sum_matrix_error_distances(C, real) = Total(d)
      BY <3>1 DEF sum_matrix_error_distances
    <3> HIDE DEF d
    <3>4. Total(d) \in Nat
      BY <3>2, TotalNat
    <3> QED BY <3>3, <3>4 DEF get_model_error_rate, C
  <2> QED BY <1>3, <2>1, <2>5, <2>9
<1> QED BY <1>2, <1>3

\* The first of the rates that is v.
FirstOf(rates, v, m) == m \in DOMAIN rates /\ rates[m] = v /\ \A l \in 1..(m - 1) : rates[l] # v

LEMMA FirstExists ==
  ASSUME NEW n \in Nat, NEW rates \in [1..n -> Nat], NEW v \in Elements(rates)
  PROVE  \E m \in 1..n : FirstOf(rates, v, m)
<1> DEFINE S == {m \in 1..n : rates[m] = v}
<1>1. S \in SUBSET Nat /\ S # {}
  BY DEF Elements
<1>2. PICK m \in S : \A k \in S : m <= k
  <2> HIDE DEF S
  <2> QED BY <1>1, LeastElement
<1>3. ASSUME NEW l \in 1..(m - 1) PROVE rates[l] # v
  <2>1. l \in 1..n /\ ~ (m <= l)
    BY <1>2
  <2> QED BY <1>2, <2>1
<1> QED BY <1>2, <1>3 DEF FirstOf

LEMMA FirstUnique ==
  ASSUME NEW n \in Nat, NEW rates \in [1..n -> Nat], NEW v,
         NEW l, FirstOf(rates, v, l), NEW m, FirstOf(rates, v, m)
  PROVE  l = m
<1>1. /\ l \in 1..n /\ m \in 1..n /\ rates[l] = v /\ rates[m] = v
      /\ m \notin 1..(l - 1) /\ l \notin 1..(m - 1)
  BY DEF FirstOf
<1> QED BY <1>1

\* The model named at a place of the ranking is the first of the rate there.
LEMMA RankedModel ==
  ASSUME NEW ids, NEW n \in Nat, NEW rates \in [1..n -> Nat], NEW v \in Elements(rates)
  PROVE  \E m \in 1..n : FirstOf(rates, v, m) /\ find_model_id(ids, rates, v) = ids[m]
<1> DEFINE m == CHOOSE i \in DOMAIN rates :
                  rates[i] = v /\ \A l \in 1..(i - 1) : rates[l] # v
<1>1. \E i \in DOMAIN rates : rates[i] = v /\ \A l \in 1..(i - 1) : rates[l] # v
  BY FirstExists DEF FirstOf
<1>2. m \in DOMAIN rates /\ rates[m] = v /\ \A l \in 1..(m - 1) : rates[l] # v
  <2> HIDE <1>1
  <2> QED BY <1>1
<1>3. find_model_id(ids, rates, v) = ids[m]
  BY DEF find_model_id
<1> HIDE DEF m
<1> QED BY <1>2, <1>3 DEF FirstOf

Ranked(n, ids, rates, ranks) ==
  \A m \in 1..n :
    /\ {k \in DOMAIN ranks : ranks[k] = ids[m]} = {} <=>
         \E l \in 1..(m - 1) : rates[l] = rates[m]
    /\ \A l \in 1..n :
         \A k \in {i \in DOMAIN ranks : ranks[i] = ids[m]},
            j \in {i \in DOMAIN ranks : ranks[i] = ids[l]} :
           k < j <=> rates[m] < rates[l]

LEMMA RatesRank ==
  ASSUME NEW n \in Nat, NEW ids, NEW rates \in [1..n -> Nat],
         \A l \in 1..n, m \in 1..n : ids[l] = ids[m] => l = m
  PROVE  Ranked(n, ids, rates, build_rankings_array(ids, rates, usort(rates)))
<1> DEFINE E == Elements(rates)
           A == Ascending(E)
           c == Cardinality(E)
           ranks == build_rankings_array(ids, rates, A)
           rank(m) == {k \in DOMAIN ranks : ranks[k] = ids[m]}
<1>1. E \in SUBSET Nat /\ IsFiniteSet(E)
  <2>1. IsFiniteSet(1..n)
    BY FS_Interval
  <2>2. E \in SUBSET Nat /\ rates \in Surjection(1..n, E)
    BY DEF Elements, Surjection
  <2> QED BY <2>1, <2>2, FS_Surjection
<1>2. A \in Seq(E) /\ Len(A) = c /\ Elements(A) = E
  <2> HIDE DEF E
  <2> QED BY <1>1, AscendingElements
<1>3. c \in Nat
  BY <1>1, FS_CardinalityType
<1>4. \A j \in 1..c, k \in 1..c : A[j] < A[k] <=> j < k
  <2> HIDE DEF E
  <2> QED BY <1>1, AscendingOrder
<1>5. ranks = [k \in DOMAIN A |-> find_model_id(ids, rates, A[k])]
  BY DEF build_rankings_array
<1> HIDE DEF E, A, c, ranks
<1>6. DOMAIN A = 1..c /\ DOMAIN ranks = 1..c /\ \A k \in 1..c : A[k] \in E
  BY <1>2, <1>3, <1>5
<1>7. ASSUME NEW k \in 1..c, NEW m \in 1..n
      PROVE  ranks[k] = ids[m] <=> FirstOf(rates, A[k], m)
  <2>1. A[k] \in Elements(rates) /\ ranks[k] = find_model_id(ids, rates, A[k])
    BY <1>5, <1>6 DEF E
  <2>2. PICK l \in 1..n : FirstOf(rates, A[k], l) /\ ranks[k] = ids[l]
    BY <2>1, RankedModel
  <2>3. ranks[k] = ids[m] => l = m
    BY <2>2
  <2>4. FirstOf(rates, A[k], m) => l = m
    BY <2>2, FirstUnique
  <2> QED BY <2>2, <2>3, <2>4
<1>8. ASSUME NEW m \in 1..n
      PROVE  rank(m) = {} <=> \E l \in 1..(m - 1) : rates[l] = rates[m]
  <2>1. ASSUME NEW k \in rank(m), NEW l \in 1..(m - 1), rates[l] = rates[m] PROVE FALSE
    <3>1. FirstOf(rates, A[k], m)
      BY <1>6, <1>7
    <3> QED BY <2>1, <3>1 DEF FirstOf
  <2>2. ASSUME \A l \in 1..(m - 1) : rates[l] # rates[m] PROVE rank(m) # {}
    <3>1. rates[m] \in E
      BY DEF E, Elements
    <3>2. PICK k \in 1..c : A[k] = rates[m]
      BY <1>2, <1>6, <3>1 DEF Elements
    <3>3. FirstOf(rates, A[k], m)
      BY <2>2, <3>2 DEF FirstOf
    <3>4. k \in rank(m)
      BY <1>6, <1>7, <3>3
    <3> QED BY <3>4
  <2> QED BY <2>1, <2>2
<1>9. ASSUME NEW m \in 1..n, NEW l \in 1..n, NEW k \in rank(m), NEW j \in rank(l)
      PROVE  k < j <=> rates[m] < rates[l]
  <2>1. k \in 1..c /\ j \in 1..c /\ FirstOf(rates, A[k], m) /\ FirstOf(rates, A[j], l)
    BY <1>6, <1>7
  <2>2. rates[m] = A[k] /\ rates[l] = A[j]
    BY <2>1 DEF FirstOf
  <2> QED BY <1>4, <2>1, <2>2
<1>10. ranks = build_rankings_array(ids, rates, usort(rates))
  BY DEF ranks, A, E, usort
<1>11. Ranked(n, ids, rates, ranks)
  BY <1>8, <1>9 DEF Ranked
<1> QED BY <1>10, <1>11

\* One problem.
LEMMA ProblemRanked ==
  ASSUME NEW problem, IsProblem(problem)
  PROVE  /\ ReadsWithin(problem) <=> VerifiedEvenly(problem)
         /\ ReadsWithin(problem) => RanksFirstOfEachRate(problem)
<1> DEFINE ids == problem.model_ids
           vs == problem.verifications
           real == problem.real_results
           n == Len(ids)
           rates == build_error_rates_array(problem)
<1>1. n \in Nat /\ DOMAIN ids = 1..n /\ Len(real) \in Nat
  BY DEF IsProblem
<1>2. \A l \in 1..n, m \in 1..n : ids[l] = ids[m] => l = m
  BY DEF IsProblem
<1>3. \A m \in 1..n : IsModel(vs[m], real)
  BY DEF IsProblem, IsModel
<1>4. \A m \in 1..n :
        /\ ReadsWithinModel(vs[m], real) <=> Len(vs[m]) > 0 /\ Len(vs[m]) % 2 = 0
        /\ ReadsWithinModel(vs[m], real) => get_model_error_rate(vs[m], real) \in Nat
  BY <1>1, <1>3, ModelRate
<1>5. ReadsWithin(problem) <=> \A m \in 1..n : ReadsWithinModel(vs[m], real)
  BY <1>1 DEF ReadsWithin, ReadsWithinModel
<1>6. ASSUME ReadsWithin(problem) PROVE RanksFirstOfEachRate(problem)
  <2>1. rates \in [1..n -> Nat]
    BY <1>1, <1>4, <1>5, <1>6 DEF build_error_rates_array
  <2> HIDE DEF rates, n, ids
  <2> DEFINE ranks == build_rankings_array(ids, rates, usort(rates))
  <2>2. ranks = rank_models(problem)
    BY DEF rank_models, rates, ids
  <2> HIDE DEF ranks
  <2>3. Ranked(n, ids, rates, ranks)
    BY <1>1, <1>2, <2>1, RatesRank DEF ranks
  <2> QED BY <1>1, <2>2, <2>3 DEF RanksFirstOfEachRate, Ranked, rates, ids
<1> QED BY <1>1, <1>4, <1>5, <1>6 DEF VerifiedEvenly

(***************************************************************************)
(* For every odd prime and every problem that memory holds: the functions  *)
(* of rank_models read nothing beyond it if and only if every model has an *)
(* even number of verifications, and the ranking is then of the first      *)
(* model of each error rate, by increasing rate.                           *)
(***************************************************************************)
THEOREM AlwaysRanksModels == AlgorithmsSpec => []RanksModels
<1>1. input \in Inputs \union {NoInput} => RanksModels
  <2> SUFFICES ASSUME input \in Inputs, input.kind = "ranking"
               PROVE  /\ ReadsWithin(input.problem) <=> VerifiedEvenly(input.problem)
                      /\ ReadsWithin(input.problem) => RanksFirstOfEachRate(input.problem)
    BY DEF RanksModels, Of, NoInput
  <2>1. IsProblem(input.problem)
    BY InputsAssumption
  <2> QED BY <2>1, ProblemRanked
<1> QED BY <1>1, InputKept, PTL

-----------------------------------------------------------------------------
(***************************************************************************)
(* Numbers and their digits.                                               *)
(***************************************************************************)
LEMMA DivMod ==
  ASSUME NEW a \in Nat, NEW b \in Nat \ {0}
  PROVE  /\ a \div b \in Nat /\ a % b \in 0..(b - 1)
         /\ a = b * (a \div b) + (a % b)
  OBVIOUS

LEMMA DivBound ==
  ASSUME NEW a \in Nat, NEW b \in Nat \ {0}, NEW p \in Nat, a < b * p
  PROVE  a \div b < p
<1> DEFINE q == a \div b
<1>1. q \in Nat /\ b * q <= a
  BY DivMod
<1> HIDE DEF q
<1>2. CASE p <= q
  <2>1. b * p <= b * q
    BY <1>1, <1>2
  <2> QED BY <1>1, <2>1
<1> QED BY <1>1, <1>2 DEF q

LEMMA DigitCounts ==
  /\ Nibbles \in Nat \ {0} /\ 4 * Nibbles \in Nat
  /\ Nibbles \in 0..(4 * Nibbles) /\ 4 * Nibbles \in 0..(4 * Nibbles)
  /\ Nibbles \div 2 \in 0..(4 * Nibbles) /\ 2 * (Nibbles \div 2) = Nibbles
<1> DEFINE h == Nibbles \div 2
<1>1. Nibbles \in Nat \ {0} /\ Nibbles % 2 = 0
  BY FieldAssumption
<1>2. h \in Nat /\ Nibbles = 2 * h
  BY <1>1, DivMod
<1>3. 4 * Nibbles \in Nat /\ Nibbles <= 4 * Nibbles
  BY ONLY <1>1
<1> HIDE DEF h
<1>4. h <= 4 * Nibbles
  BY ONLY <1>1, <1>2
<1> QED BY <1>1, <1>2, <1>3, <1>4 DEF h

LEMMA PowerSteps ==
  ASSUME NEW base \in Nat \ {0}
  PROVE  /\ Powers(base)[0] = 1
         /\ \A n \in 1..(4 * Nibbles) : Powers(base)[n] = base * Powers(base)[n - 1]
         /\ \A n \in 0..(4 * Nibbles) : Powers(base)[n] \in Nat \ {0}
<1> DEFINE p == Powers(base)
           W == 4 * Nibbles
           S == {n \in 0..W : p[n] \notin Nat \ {0}}
<1>1. W \in Nat
  BY DigitCounts
<1>2. PICK g : Computes(g, "power", base, 1, W)
  BY <1>1, Recursion
<1>3. g = [n \in 0..W |-> IF n = 0 THEN 1 ELSE base * g[n - 1]]
  BY <1>2 DEF Computes, Step
<1>4. p = [n \in 0..W |-> IF n = 0 THEN 1 ELSE base * p[n - 1]]
  BY <1>3 DEF Powers
<1> HIDE DEF p, W
<1>5. 0 \in 0..W /\ \A n \in 1..W : n \in 0..W /\ n # 0
  BY <1>1
<1>6. p[0] = 1 /\ \A n \in 1..W : p[n] = base * p[n - 1]
  BY <1>4, <1>5
<1>7. S = {}
  <2> SUFFICES ASSUME S # {} PROVE FALSE
    OBVIOUS
  <2>1. PICK n \in S : \A k \in S : n <= k
    <3>1. S \in SUBSET Nat
      OBVIOUS
    <3> HIDE DEF S
    <3> QED BY <3>1, LeastElement
  <2>2. n \in 1..W /\ n - 1 \in 0..W /\ ~ (n <= n - 1)
    BY <1>1, <1>6, <2>1
  <2>3. p[n - 1] \in Nat \ {0} /\ p[n] = base * p[n - 1]
    BY <1>6, <2>1, <2>2
  <2>4. base * p[n - 1] \in Nat \ {0}
    BY <2>3
  <2> QED BY <2>1, <2>3, <2>4
<1> QED BY <1>6, <1>7 DEF p, W

LEMMA QuotientSteps ==
  ASSUME NEW u \in Nat, NEW base \in Nat \ {0}
  PROVE  /\ quotients(u, base)[0] = u
         /\ \A k \in 1..(4 * Nibbles) :
              quotients(u, base)[k] = quotients(u, base)[k - 1] \div base
         /\ \A k \in 0..(4 * Nibbles) : quotients(u, base)[k] \in Nat
<1> DEFINE q == quotients(u, base)
           W == 4 * Nibbles
           S == {n \in 0..W : q[n] \notin Nat}
<1>1. W \in Nat
  BY DigitCounts
<1>2. PICK g : Computes(g, "quotients", base, u, W)
  BY <1>1, Recursion
<1>3. g = [k \in 0..W |-> IF k = 0 THEN u ELSE g[k - 1] \div base]
  BY <1>2 DEF Computes, Step
<1>4. q = [k \in 0..W |-> IF k = 0 THEN u ELSE q[k - 1] \div base]
  BY <1>3 DEF quotients
<1> HIDE DEF q, W
<1>5. 0 \in 0..W /\ \A n \in 1..W : n \in 0..W /\ n # 0
  BY <1>1
<1>6. q[0] = u /\ \A n \in 1..W : q[n] = q[n - 1] \div base
  BY <1>4, <1>5
<1>7. S = {}
  <2> SUFFICES ASSUME S # {} PROVE FALSE
    OBVIOUS
  <2>1. PICK n \in S : \A k \in S : n <= k
    <3>1. S \in SUBSET Nat
      OBVIOUS
    <3> HIDE DEF S
    <3> QED BY <3>1, LeastElement
  <2>2. n \in 1..W /\ n - 1 \in 0..W /\ ~ (n <= n - 1)
    BY <1>1, <1>6, <2>1
  <2>3. q[n - 1] \in Nat /\ q[n] = q[n - 1] \div base
    BY <1>6, <2>1, <2>2
  <2>4. q[n - 1] \div base \in Nat
    BY <2>3, DivMod
  <2> QED BY <2>1, <2>3, <2>4
<1> QED BY <1>6, <1>7 DEF q, W

\* A number below the n-th power has no more than n digits.
LEMMA QuotientsEnd ==
  ASSUME NEW u \in Nat, NEW base \in Nat \ {0}, NEW n \in 0..(4 * Nibbles),
         u < Powers(base)[n]
  PROVE  quotients(u, base)[n] = 0
<1> DEFINE q == quotients(u, base)
           p == Powers(base)
           W == 4 * Nibbles
           S == {k \in 0..n : ~ (q[k] < p[n - k])}
<1>1. /\ W \in Nat /\ n \in 0..W
      /\ p[0] = 1 /\ \A k \in 1..W : p[k] = base * p[k - 1]
      /\ \A k \in 0..W : p[k] \in Nat
  BY DigitCounts, PowerSteps
<1>2. /\ q[0] = u /\ \A k \in 1..W : q[k] = q[k - 1] \div base
      /\ \A k \in 0..W : q[k] \in Nat
  BY QuotientSteps
<1>3. u < p[n]
  OBVIOUS
<1> HIDE DEF q, p, W
<1>4. S = {}
  <2> SUFFICES ASSUME S # {} PROVE FALSE
    OBVIOUS
  <2>1. PICK k \in S : \A l \in S : k <= l
    <3>1. S \in SUBSET Nat
      BY <1>1
    <3> HIDE DEF S
    <3> QED BY <3>1, LeastElement
  <2>2. k # 0
    BY <1>1, <1>2, <1>3, <2>1
  <2>3. k \in 1..W /\ k - 1 \in 0..n /\ k - 1 \in 0..W /\ ~ (k <= k - 1)
    BY <1>1, <2>1, <2>2
  <2>4. n - (k - 1) \in 1..W /\ (n - (k - 1)) - 1 = n - k /\ n - k \in 0..W
    BY <1>1, <2>1, <2>3
  <2>5. q[k - 1] < p[n - (k - 1)]
    BY <2>1, <2>3
  <2>6. p[n - (k - 1)] = base * p[n - k]
    BY <1>1, <2>4
  <2>7. q[k] = q[k - 1] \div base /\ q[k - 1] \in Nat /\ p[n - k] \in Nat
    BY <1>1, <1>2, <2>3, <2>4
  <2>8. q[k] < p[n - k]
    BY <2>5, <2>6, <2>7, DivBound
  <2> QED BY <2>1, <2>8
<1>5. n \in 0..n /\ n - n = 0
  BY <1>1
<1>6. q[n] < p[0]
  BY <1>4, <1>5
<1> QED BY <1>1, <1>2, <1>6 DEF q

NumberStep(d, base, k) == numbers(d, base)[k] = base * numbers(d, base)[k - 1] + d[k]

LEMMA NumberSteps ==
  ASSUME NEW n \in Nat, NEW d \in [1..n -> Nat], NEW base \in Nat
  PROVE  /\ Len(d) = n /\ Number(d, base) = numbers(d, base)[n]
         /\ numbers(d, base)[0] = 0
         /\ \A k \in 1..n : NumberStep(d, base, k)
         /\ \A k \in 0..n : numbers(d, base)[k] \in Nat
<1> DEFINE N == numbers(d, base)
           x == [base |-> base, digits |-> d]
           S == {k \in 0..n : N[k] \notin Nat}
<1>1. Len(d) = n
  BY VectorLength
<1>2. PICK g : Computes(g, "numbers", x, 0, n)
  BY Recursion
<1>3. g = [k \in 0..n |-> IF k = 0 THEN 0 ELSE base * g[k - 1] + d[k]]
  BY <1>2 DEF Computes, Step
<1>4. N = [k \in 0..n |-> IF k = 0 THEN 0 ELSE base * N[k - 1] + d[k]]
  BY <1>1, <1>3 DEF numbers
<1>5. Number(d, base) = N[n]
  BY <1>1 DEF Number
<1> HIDE DEF N
<1>6. 0 \in 0..n /\ \A k \in 1..n : k \in 0..n /\ k # 0
  OBVIOUS
<1>7. N[0] = 0 /\ \A k \in 1..n : N[k] = base * N[k - 1] + d[k]
  BY <1>4, <1>6
<1>8. S = {}
  <2> SUFFICES ASSUME S # {} PROVE FALSE
    OBVIOUS
  <2>1. PICK k \in S : \A l \in S : k <= l
    <3>1. S \in SUBSET Nat
      OBVIOUS
    <3> HIDE DEF S
    <3> QED BY <3>1, LeastElement
  <2>2. k \in 1..n /\ k - 1 \in 0..n /\ ~ (k <= k - 1)
    BY <1>7, <2>1
  <2>3. N[k - 1] \in Nat /\ N[k] = base * N[k - 1] + d[k] /\ d[k] \in Nat
    BY <1>7, <2>1, <2>2
  <2>4. base * N[k - 1] \in Nat
    BY <2>3
  <2> QED BY <2>1, <2>3, <2>4
<1> QED BY <1>1, <1>5, <1>7, <1>8 DEF N, NumberStep

\* The digits of a number denote it, once the divisions have come to zero.
LEMMA DigitsNumber ==
  ASSUME NEW u \in Nat, NEW base \in Nat \ {0}, NEW n \in 0..(4 * Nibbles),
         quotients(u, base)[n] = 0
  PROVE  LET d == Digits(u, base, n)
         IN  /\ d \in [1..n -> 0..(base - 1)] /\ Len(d) = n
             /\ \A k \in 0..n : numbers(d, base)[k] = quotients(u, base)[n - k]
             /\ Number(d, base) = u
<1> DEFINE q == quotients(u, base)
           d == Digits(u, base, n)
           N == numbers(d, base)
           W == 4 * Nibbles
           S == {k \in 0..n : N[k] # q[n - k]}
<1>1. W \in Nat /\ n \in 0..W /\ n \in Nat
  BY DigitCounts
<1>2. /\ q[0] = u /\ \A k \in 1..W : q[k] = q[k - 1] \div base
      /\ \A k \in 0..W : q[k] \in Nat
  BY QuotientSteps
<1>3. q[n] = 0
  OBVIOUS
<1>4. d = [k \in 1..n |-> q[n - k] % base]
  BY DEF Digits
<1> HIDE DEF q, d, W
<1>5. \A k \in 1..n : n - k \in 0..W /\ q[n - k] \in Nat /\ q[n - k] % base \in 0..(base - 1)
  <2> SUFFICES ASSUME NEW k \in 1..n
               PROVE  n - k \in 0..W /\ q[n - k] \in Nat /\ q[n - k] % base \in 0..(base - 1)
    OBVIOUS
  <2>1. n - k \in 0..W
    BY <1>1
  <2>2. q[n - k] \in Nat
    BY <1>2, <2>1
  <2> QED BY <2>1, <2>2, DivMod
<1>6. d \in [1..n -> 0..(base - 1)]
  BY <1>4, <1>5
<1>7. d \in [1..n -> Nat]
  BY <1>6
<1>8. /\ Len(d) = n /\ Number(d, base) = N[n] /\ N[0] = 0
      /\ \A k \in 1..n : N[k] = base * N[k - 1] + d[k]
  <2>1. base \in Nat /\ n \in Nat
    BY <1>1
  <2>2. Len(d) = n /\ Number(d, base) = numbers(d, base)[n] /\ numbers(d, base)[0] = 0
    BY ONLY <1>7, <2>1, NumberSteps
  <2>3. \A k \in 1..n : NumberStep(d, base, k)
    BY ONLY <1>7, <2>1, NumberSteps
  <2> QED BY ONLY <2>2, <2>3 DEF NumberStep
<1> HIDE DEF N
<1>9. S = {}
  <2> SUFFICES ASSUME S # {} PROVE FALSE
    OBVIOUS
  <2>1. PICK k \in S : \A l \in S : k <= l
    <3>1. S \in SUBSET Nat
      OBVIOUS
    <3> HIDE DEF S
    <3> QED BY <3>1, LeastElement
  <2>2. k # 0
    <3>1. n - 0 = n
      BY <1>1
    <3> QED BY <1>3, <1>8, <2>1, <3>1
  <2>3. k \in 1..n /\ k - 1 \in 0..n /\ ~ (k <= k - 1)
    BY <1>1, <2>1, <2>2
  <2>4. n - (k - 1) \in 1..W /\ (n - (k - 1)) - 1 = n - k
    BY <1>1, <2>3
  <2>5. N[k - 1] = q[n - (k - 1)]
    BY <2>1, <2>3
  <2>6. q[n - (k - 1)] = q[n - k] \div base
    BY <1>2, <2>4
  <2>7. q[n - k] \in Nat
    BY <1>5, <2>3
  <2>8. q[n - k] = base * (q[n - k] \div base) + (q[n - k] % base)
    BY <2>7, DivMod
  <2>9. d[k] = q[n - k] % base /\ N[k] = base * N[k - 1] + d[k]
    BY <1>4, <1>8, <2>3
  <2>10. N[k] = q[n - k]
    BY <2>5, <2>6, <2>8, <2>9
  <2> QED BY <2>1, <2>10
<1>10. n - n = 0 /\ n \in 0..n
  BY <1>1
<1>11. N[n] = u
  BY <1>2, <1>9, <1>10
<1>12. \A k \in 0..n : N[k] = q[n - k]
  BY <1>9
<1> QED BY <1>6, <1>8, <1>11, <1>12 DEF N, d, q

-----------------------------------------------------------------------------
(***************************************************************************)
(* Reading.                                                                *)
(***************************************************************************)
LEMMA WideNumber == WIDE \in Nat /\ P \in Nat /\ 3 < P /\ P < WIDE
<1>1. Powers(16)[Nibbles] \in Nat
  BY DigitCounts, PowerSteps
<1> QED BY <1>1, FieldAssumption DEF WIDE

DecDigits(s, k) == \A i \in 1..k : s[i] \in 0..9

\* What was read of the first k digits: their number while it is in the width.
DecReadSound(s, k) ==
  IF DecDigits(s, k) /\ numbers(s, 10)[k] < WIDE
  THEN dec_reads(s)[k] = Ok(numbers(s, 10)[k])
  ELSE dec_reads(s)[k].ok = FALSE

LEMMA DecReads ==
  ASSUME NEW s \in Seq(Nat)
  PROVE  \A k \in 0..Len(s) : DecReadSound(s, k)
<1> DEFINE n == Len(s)
           R == dec_reads(s)
           N == numbers(s, 10)
           S == {k \in 0..n : ~ DecReadSound(s, k)}
<1>1. n \in Nat /\ s \in [1..n -> Nat]
  OBVIOUS
<1>2. PICK g : Computes(g, "dec_reads", s, Ok(0), n)
  BY <1>1, Recursion
<1>3. g = [k \in 0..n |->
             IF k = 0 THEN Ok(0)
             ELSE IF ~g[k - 1].ok THEN g[k - 1]
             ELSE IF s[k] \notin 0..9 THEN Err(InvalidCharacter)
             ELSE push_digit(g[k - 1].value, s[k])]
  BY <1>2 DEF Computes, Step
<1>4. R = [k \in 0..n |->
             IF k = 0 THEN Ok(0)
             ELSE IF ~R[k - 1].ok THEN R[k - 1]
             ELSE IF s[k] \notin 0..9 THEN Err(InvalidCharacter)
             ELSE push_digit(R[k - 1].value, s[k])]
  BY <1>3 DEF dec_reads
<1> HIDE DEF R
<1>5. 0 \in 0..n /\ \A k \in 1..n : k \in 0..n /\ k # 0
  BY <1>1
<1>6. /\ R[0] = Ok(0)
      /\ \A k \in 1..n : R[k] = IF ~R[k - 1].ok THEN R[k - 1]
                                ELSE IF s[k] \notin 0..9 THEN Err(InvalidCharacter)
                                ELSE push_digit(R[k - 1].value, s[k])
  BY <1>4, <1>5
<1>7. /\ N[0] = 0 /\ \A k \in 1..n : NumberStep(s, 10, k)
      /\ \A k \in 0..n : N[k] \in Nat
  <2> HIDE DEF n
  <2> QED BY <1>1, NumberSteps
<1>8. S = {}
  <2> SUFFICES ASSUME S # {} PROVE FALSE
    OBVIOUS
  <2>1. PICK k \in S : \A l \in S : k <= l
    <3>1. S \in SUBSET Nat
      BY <1>1
    <3> HIDE DEF S
    <3> QED BY <3>1, LeastElement
  <2>2. k \in 0..n /\ ~ DecReadSound(s, k)
    BY <2>1
  <2>3. k # 0
    <3>1. SUFFICES ASSUME k = 0 PROVE DecReadSound(s, k)
      BY <2>2
    <3>2. DecDigits(s, 0)
      BY DEF DecDigits
    <3> QED BY <1>6, <1>7, <3>1, <3>2, WideNumber DEF DecReadSound, R, N
  <2>4. k \in 1..n /\ k - 1 \in 0..n /\ ~ (k <= k - 1) /\ k - 1 \in Nat /\ k \in Nat
    BY <1>1, <2>2, <2>3
  <2>5. DecReadSound(s, k - 1)
    BY <2>1, <2>4
  <2>6. /\ N[k] = 10 * N[k - 1] + s[k] /\ N[k] \in Nat /\ N[k - 1] \in Nat
        /\ s[k] \in Nat /\ N[k - 1] <= N[k]
    <3>1. N[k] = 10 * N[k - 1] + s[k] /\ N[k] \in Nat /\ N[k - 1] \in Nat /\ s[k] \in Nat
      BY <1>1, <1>5, <1>7, <2>4 DEF NumberStep
    <3> HIDE DEF N
    <3> QED BY ONLY <3>1
  <2>7. DecDigits(s, k) <=> DecDigits(s, k - 1) /\ s[k] \in 0..9
    <3>1. \A i \in 1..k : i = k \/ i \in 1..(k - 1)
      BY <2>4
    <3>2. k \in 1..k /\ \A i \in 1..(k - 1) : i \in 1..k
      BY <2>4
    <3> QED BY ONLY <3>1, <3>2 DEF DecDigits
  <2>8. R[k] = IF ~R[k - 1].ok THEN R[k - 1]
               ELSE IF s[k] \notin 0..9 THEN Err(InvalidCharacter)
               ELSE push_digit(R[k - 1].value, s[k])
    BY <1>6, <2>4
  <2>9. CASE DecDigits(s, k - 1) /\ N[k - 1] < WIDE
    <3>1. R[k - 1] = Ok(N[k - 1])
      BY <2>5, <2>9 DEF DecReadSound, R
    <3>2. R[k - 1].ok /\ R[k - 1].value = N[k - 1]
      BY <3>1 DEF Ok
    <3>3. CASE s[k] \notin 0..9
      <4>1. R[k] = Err(InvalidCharacter)
        BY <2>8, <3>2, <3>3
      <4> QED BY <2>2, <2>7, <3>3, <4>1 DEF DecReadSound, R, Err
    <3>4. CASE s[k] \in 0..9
      <4>1. R[k] = push_digit(N[k - 1], s[k])
        BY <2>8, <3>2, <3>4
      <4>2. R[k] = IF N[k] >= WIDE THEN Err(OutOfRange) ELSE Ok(N[k])
        BY <2>6, <4>1 DEF push_digit
      <4>3. DecDigits(s, k)
        BY <2>7, <2>9, <3>4
      <4>4. CASE N[k] < WIDE
        <5>1. R[k] = Ok(N[k])
          BY <2>6, <4>2, <4>4, WideNumber
        <5> QED BY <2>2, <4>3, <4>4, <5>1 DEF DecReadSound, R
      <4>5. CASE ~ (N[k] < WIDE)
        <5>1. R[k] = Err(OutOfRange)
          BY <2>6, <4>2, <4>5, WideNumber
        <5> QED BY <2>2, <4>5, <5>1 DEF DecReadSound, R, Err
      <4> QED BY <4>4, <4>5
    <3> QED BY <3>3, <3>4
  <2>10. CASE ~ (DecDigits(s, k - 1) /\ N[k - 1] < WIDE)
    <3>1. R[k - 1].ok = FALSE
      BY <2>5, <2>10 DEF DecReadSound, R
    <3>2. R[k].ok = FALSE
      BY <2>8, <3>1
    <3>3. ~ (DecDigits(s, k) /\ N[k] < WIDE)
      BY <2>6, <2>7, <2>10, WideNumber
    <3> QED BY <2>2, <3>2, <3>3 DEF DecReadSound, R
  <2> QED BY <2>9, <2>10
<1> QED BY <1>8

LEMMA ReadsDecimal ==
  ASSUME NEW s \in Seq(Nat)
  PROVE  /\ Number(s, 10) \in Nat
         /\ IF (\A k \in DOMAIN s : s[k] \in 0..9) /\ Number(s, 10) < P
            THEN from_dec_str(s) = Ok(Number(s, 10))
            ELSE from_dec_str(s).ok = FALSE
<1> DEFINE n == Len(s)
           a == Number(s, 10)
           res == dec_reads(s)[n]
<1>1. n \in Nat /\ n \in 0..n /\ s \in [1..n -> Nat] /\ DOMAIN s = 1..n
  OBVIOUS
<1>2. a = numbers(s, 10)[n]
  BY DEF Number
<1>3. a \in Nat
  <2> HIDE DEF n
  <2> QED BY <1>1, <1>2, NumberSteps
<1>4. DecReadSound(s, n)
  BY <1>1, DecReads
<1>5. from_dec_str(s) = IF res.ok THEN from_bigint(res.value) ELSE res
  BY DEF from_dec_str
<1>6. IF (\A k \in DOMAIN s : s[k] \in 0..9) /\ a < WIDE THEN res = Ok(a) ELSE res.ok = FALSE
  BY <1>1, <1>2, <1>4 DEF DecReadSound, DecDigits
<1> HIDE DEF a, res
<1>7. CASE (\A k \in DOMAIN s : s[k] \in 0..9) /\ a < WIDE
  <2>1. res = Ok(a)
    BY <1>6, <1>7
  <2>2. res.ok /\ res.value = a
    BY <2>1 DEF Ok
  <2>3. from_dec_str(s) = IF a < P THEN Ok(a) ELSE Err(OutOfRange)
    BY <1>5, <2>2 DEF from_bigint
  <2> QED BY <1>3, <1>7, <2>3 DEF Err, a
<1>8. CASE ~ ((\A k \in DOMAIN s : s[k] \in 0..9) /\ a < WIDE)
  <2>1. res.ok = FALSE
    BY <1>6, <1>8
  <2>2. from_dec_str(s).ok = FALSE
    BY <1>5, <2>1
  <2>3. ~ ((\A k \in DOMAIN s : s[k] \in 0..9) /\ a < P)
    BY <1>3, <1>8, WideNumber
  <2> QED BY <1>3, <2>2, <2>3 DEF a
<1> QED BY <1>7, <1>8

LEMMA ReadsHexadecimal ==
  ASSUME NEW s \in Seq(Nat)
  PROVE  IF /\ Len(s) <= Nibbles
            /\ \A k \in DOMAIN s : s[k] \in 0..15
            /\ Number(s, 16) < P
         THEN from_hex_be(s) = Ok(Number(s, 16))
         ELSE from_hex_be(s).ok = FALSE
<1> DEFINE a == Number(s, 16)
<1>1. Len(s) \in Nat /\ Nibbles \in Nat
  BY DigitCounts
<1> HIDE DEF a
<1>2. CASE Len(s) > Nibbles
  BY <1>1, <1>2 DEF from_hex_be, Err
<1>3. CASE \E k \in DOMAIN s : s[k] \notin 0..15
  BY <1>1, <1>3 DEF from_hex_be, Err
<1>4. CASE ~ (Len(s) > Nibbles) /\ ~ \E k \in DOMAIN s : s[k] \notin 0..15
  <2>1. from_hex_be(s) = IF a < P THEN Ok(a) ELSE Err(OutOfRange)
    BY <1>4 DEF from_hex_be, from_bigint, a
  <2> QED BY <1>1, <1>4, <2>1 DEF Err, a
<1> QED BY <1>2, <1>3, <1>4

LEMMA TextsRead ==
  ASSUME NEW s \in Seq(Nat)
  PROVE  ReadsCanonical(s)
<1> DEFINE Agrees(r, base) ==
             r.ok <=> (\A k \in DOMAIN s : s[k] \in 0..(base - 1)) /\ Number(s, base) < P
           Right(r, base) == r.ok => r.value = Number(s, base)
<1>1. 10 - 1 = 9 /\ 16 - 1 = 15
  OBVIOUS
<1>2. Agrees(from_dec_str(s), 10) /\ Right(from_dec_str(s), 10)
  <2> DEFINE C == (\A k \in DOMAIN s : s[k] \in 0..9) /\ Number(s, 10) < P
  <2>1. CASE C
    <3>1. from_dec_str(s) = Ok(Number(s, 10))
      BY <2>1, ReadsDecimal
    <3>2. from_dec_str(s).ok = TRUE /\ from_dec_str(s).value = Number(s, 10)
      BY <3>1 DEF Ok
    <3> QED BY <1>1, <2>1, <3>2
  <2>2. CASE ~C
    <3>1. from_dec_str(s).ok = FALSE
      BY <2>2, ReadsDecimal
    <3> QED BY <1>1, <2>2, <3>1
  <2> QED BY <2>1, <2>2
<1>3. (Len(s) <= Nibbles => Agrees(from_hex_be(s), 16)) /\ Right(from_hex_be(s), 16)
  <2> DEFINE C == (\A k \in DOMAIN s : s[k] \in 0..15) /\ Number(s, 16) < P
  <2>1. CASE Len(s) <= Nibbles /\ C
    <3>1. from_hex_be(s) = Ok(Number(s, 16))
      BY <2>1, ReadsHexadecimal
    <3>2. from_hex_be(s).ok = TRUE /\ from_hex_be(s).value = Number(s, 16)
      BY <3>1 DEF Ok
    <3> QED BY <1>1, <2>1, <3>2
  <2>2. CASE ~ (Len(s) <= Nibbles /\ C)
    <3>1. from_hex_be(s).ok = FALSE
      BY <2>2, ReadsHexadecimal
    <3> QED BY <1>1, <2>2, <3>1
  <2> QED BY <2>1, <2>2
<1> QED BY <1>2, <1>3 DEF ReadsCanonical

-----------------------------------------------------------------------------
(***************************************************************************)
(* Writing.  The width of the numbers is sixteen to the power of Nibbles;  *)
(* in the other bases it takes at most so many digits.                     *)
(***************************************************************************)
AtMost(base, m, c) ==
  \A i \in 0..(4 * Nibbles - m) : Powers(base)[i + m] <= c * Powers(base)[i]

AtLeast(base, m, c) ==
  \A i \in 0..(4 * Nibbles - m) : c * Powers(base)[i] <= Powers(base)[i + m]

LEMMA PowersCompared ==
  ASSUME NEW a \in Nat \ {0}, NEW b \in Nat \ {0}, NEW c \in Nat,
         NEW m \in 1..4, NEW l \in 1..4, AtMost(a, m, c), AtLeast(b, l, c)
  PROVE  \A k \in Nat :
           m * k <= 4 * Nibbles /\ l * k <= 4 * Nibbles => Powers(a)[m * k] <= Powers(b)[l * k]
<1> DEFINE p == Powers(a)
           q == Powers(b)
           W == 4 * Nibbles
           S == {k \in Nat : m * k <= W /\ l * k <= W /\ ~ (p[m * k] <= q[l * k])}
<1>1. W \in Nat /\ m \in Nat /\ l \in Nat
  BY DigitCounts
<1>2. p[0] = 1 /\ q[0] = 1 /\ \A i \in 0..W : p[i] \in Nat /\ q[i] \in Nat
  BY PowerSteps
<1>3. \A i \in 0..(W - m) : p[i + m] <= c * p[i]
  BY DEF AtMost
<1>4. \A i \in 0..(W - l) : c * q[i] <= q[i + l]
  BY DEF AtLeast
<1> HIDE DEF p, q, W
<1>5. S = {}
  <2> SUFFICES ASSUME S # {} PROVE FALSE
    OBVIOUS
  <2>1. PICK k \in S : \A j \in S : k <= j
    <3>1. S \in SUBSET Nat
      OBVIOUS
    <3> HIDE DEF S
    <3> QED BY <3>1, LeastElement
  <2>2. k \in Nat /\ m * k <= W /\ l * k <= W /\ ~ (p[m * k] <= q[l * k])
    BY <2>1
  <2>3. k # 0
    <3>1. m * 0 = 0 /\ l * 0 = 0
      BY <1>1
    <3> QED BY <1>2, <2>2, <3>1
  <2> DEFINE i == m * (k - 1)
             j == l * (k - 1)
  <2>4. k - 1 \in Nat /\ ~ (k <= k - 1)
    BY <2>2, <2>3
  <2>5. i \in Nat /\ j \in Nat /\ i + m = m * k /\ j + l = l * k
    BY <1>1, <2>2, <2>4
  <2> HIDE DEF i, j
  <2>6. /\ i \in 0..(W - m) /\ j \in 0..(W - l) /\ i \in 0..W /\ j \in 0..W
        /\ i + m \in 0..W /\ j + l \in 0..W
    BY <1>1, <2>2, <2>5
  <2>7. p[i] <= q[j]
    BY <2>1, <2>4, <2>6 DEF i, j
  <2>8. p[i] \in Nat /\ q[j] \in Nat /\ p[i + m] \in Nat /\ q[j + l] \in Nat
    BY <1>2, <2>6
  <2>9. c * p[i] <= c * q[j]
    BY ONLY <2>7, <2>8, c \in Nat
  <2>10. p[i + m] <= c * p[i] /\ c * q[j] <= q[j + l]
    BY <1>3, <1>4, <2>6
  <2>11. c * p[i] \in Nat /\ c * q[j] \in Nat
    BY <2>8
  <2>12. p[i + m] <= q[j + l]
    BY ONLY <2>8, <2>9, <2>10, <2>11
  <2> QED BY <2>2, <2>5, <2>12
<1> QED BY <1>5 DEF p, q, W

LEMMA WideInOtherBases ==
  /\ WIDE <= Powers(10)[4 * Nibbles] /\ WIDE <= Powers(2)[4 * Nibbles]
  /\ WIDE <= Powers(256)[Nibbles \div 2]
<1> DEFINE W == 4 * Nibbles
           h == Nibbles \div 2
<1>1. /\ W \in Nat /\ 4 <= W /\ Nibbles \in Nat /\ h \in Nat /\ 2 * h = Nibbles
      /\ Nibbles <= W /\ h <= W /\ 4 * Nibbles = W /\ 1 * Nibbles = Nibbles /\ 1 * h = h
  BY DigitCounts
<1> HIDE DEF W, h
<1>2. ASSUME NEW base \in Nat \ {0}
      PROVE  /\ \A i \in 1..W : Powers(base)[i] = base * Powers(base)[i - 1]
             /\ \A i \in 0..W : Powers(base)[i] \in Nat
  BY PowerSteps DEF W
<1>3. ASSUME NEW base \in Nat \ {0}, NEW i \in 0..(W - 1)
      PROVE  Powers(base)[i + 1] = base * Powers(base)[i] /\ Powers(base)[i] \in Nat
  <2>1. i + 1 \in 1..W /\ (i + 1) - 1 = i /\ i \in 0..W
    BY <1>1
  <2> QED BY <1>2, <2>1
<1>4. AtMost(16, 1, 16) /\ AtLeast(256, 1, 256)
  <2>1. ASSUME NEW i \in 0..(W - 1)
        PROVE  Powers(16)[i + 1] <= 16 * Powers(16)[i] /\ 256 * Powers(256)[i] <= Powers(256)[i + 1]
    <3>1. /\ Powers(16)[i + 1] = 16 * Powers(16)[i] /\ Powers(16)[i] \in Nat
          /\ Powers(256)[i + 1] = 256 * Powers(256)[i] /\ Powers(256)[i] \in Nat
      BY <1>3
    <3> QED BY ONLY <3>1
  <2> QED BY <2>1 DEF AtMost, AtLeast, W
<1>5. AtMost(16, 2, 256)
  <2>1. ASSUME NEW i \in 0..(W - 2)
        PROVE  Powers(16)[i + 2] <= 256 * Powers(16)[i]
    <3>1. i \in 0..(W - 1) /\ i + 1 \in 0..(W - 1) /\ (i + 1) + 1 = i + 2
      BY <1>1
    <3>2. /\ Powers(16)[i + 1] = 16 * Powers(16)[i] /\ Powers(16)[i] \in Nat
          /\ Powers(16)[i + 2] = 16 * Powers(16)[i + 1]
      BY <1>3, <3>1
    <3> QED BY ONLY <3>2
  <2> QED BY <2>1 DEF AtMost, W
<1>6. ASSUME NEW base \in Nat \ {0}, NEW i \in 0..(W - 4)
      PROVE  /\ Powers(base)[i + 4] = base * (base * (base * (base * Powers(base)[i])))
             /\ Powers(base)[i] \in Nat
  <2>1. /\ i \in 0..(W - 1) /\ i + 1 \in 0..(W - 1) /\ i + 2 \in 0..(W - 1) /\ i + 3 \in 0..(W - 1)
        /\ (i + 1) + 1 = i + 2 /\ (i + 2) + 1 = i + 3 /\ (i + 3) + 1 = i + 4
    BY <1>1
  <2>2. /\ Powers(base)[i + 1] = base * Powers(base)[i] /\ Powers(base)[i] \in Nat
        /\ Powers(base)[i + 2] = base * Powers(base)[i + 1]
    BY <1>3, <2>1
  <2>3. /\ Powers(base)[i + 3] = base * Powers(base)[i + 2]
        /\ Powers(base)[i + 4] = base * Powers(base)[i + 3]
    BY <1>3, <2>1
  <2> QED BY ONLY <2>2, <2>3
<1>7. AtLeast(10, 4, 16) /\ AtLeast(2, 4, 16)
  <2>1. ASSUME NEW i \in 0..(W - 4)
        PROVE  16 * Powers(10)[i] <= Powers(10)[i + 4] /\ 16 * Powers(2)[i] <= Powers(2)[i + 4]
    <3>1. /\ Powers(10)[i + 4] = 10 * (10 * (10 * (10 * Powers(10)[i]))) /\ Powers(10)[i] \in Nat
          /\ Powers(2)[i + 4] = 2 * (2 * (2 * (2 * Powers(2)[i]))) /\ Powers(2)[i] \in Nat
      BY <1>6
    <3> QED BY ONLY <3>1
  <2> QED BY <2>1 DEF AtLeast, W
<1>8. Powers(16)[1 * Nibbles] <= Powers(10)[4 * Nibbles]
  BY <1>1, <1>4, <1>7, PowersCompared DEF W
<1>9. Powers(16)[1 * Nibbles] <= Powers(2)[4 * Nibbles]
  BY <1>1, <1>4, <1>7, PowersCompared DEF W
<1>10. Powers(16)[2 * h] <= Powers(256)[1 * h]
  BY <1>1, <1>4, <1>5, PowersCompared DEF W
<1> QED BY <1>1, <1>8, <1>9, <1>10 DEF WIDE, h

LEMMA FieldNumbers ==
  ASSUME NEW a \in Field
  PROVE  /\ a \in Nat /\ a < P /\ a < WIDE
         /\ quotients(a, 10)[4 * Nibbles] = 0 /\ quotients(a, 2)[4 * Nibbles] = 0
         /\ quotients(a, 256)[Nibbles \div 2] = 0 /\ quotients(a, 16)[Nibbles] = 0
<1>1. a \in Nat /\ a < P /\ a < WIDE
  BY WideNumber DEF Field
<1>2. /\ Powers(10)[4 * Nibbles] \in Nat /\ Powers(2)[4 * Nibbles] \in Nat
      /\ Powers(256)[Nibbles \div 2] \in Nat
  BY DigitCounts, PowerSteps
<1>3. /\ a < Powers(10)[4 * Nibbles] /\ a < Powers(2)[4 * Nibbles]
      /\ a < Powers(256)[Nibbles \div 2] /\ a < Powers(16)[Nibbles]
  BY <1>1, <1>2, WideNumber, WideInOtherBases DEF WIDE
<1>4. quotients(a, 10)[4 * Nibbles] = 0 /\ quotients(a, 2)[4 * Nibbles] = 0
  BY <1>1, <1>3, DigitCounts, QuotientsEnd
<1>5. quotients(a, 256)[Nibbles \div 2] = 0 /\ quotients(a, 16)[Nibbles] = 0
  BY <1>1, <1>3, DigitCounts, QuotientsEnd
<1> QED BY <1>1, <1>4, <1>5

\* A text of as many digits as it takes is read as the number it was written from.
LEMMA DigitsRead ==
  ASSUME NEW a \in Field, NEW base \in Nat \ {0}, NEW n \in 0..(4 * Nibbles),
         quotients(a, base)[n] = 0
  PROVE  LET d == Digits(a, base, n)
         IN  /\ d \in Seq(Nat) /\ Len(d) = n /\ Number(d, base) = a
             /\ \A k \in DOMAIN d : d[k] \in Nat /\ d[k] < base
<1> DEFINE d == Digits(a, base, n)
<1>1. a \in Nat /\ n \in Nat
  BY FieldNumbers, DigitCounts
<1>2. d \in [1..n -> 0..(base - 1)] /\ Len(d) = n /\ Number(d, base) = a
  BY <1>1, DigitsNumber
<1> HIDE DEF d
<1>3. d \in [1..n -> Nat]
  BY <1>2
<1>4. d \in Seq(Nat)
  BY <1>1, <1>3
<1>5. \A k \in DOMAIN d : d[k] \in Nat /\ d[k] < base
  BY <1>2
<1> QED BY <1>2, <1>4, <1>5 DEF d

LEMMA DisplayRead ==
  ASSUME NEW a \in Field
  PROVE  from_dec_str(Display(a)) = Ok(a)
<1> DEFINE q == quotients(a, 10)
           W == 4 * Nibbles
           S == {n \in 1..W : q[n] = 0}
           Shortest(n) == q[n] = 0 /\ \A m \in 1..(n - 1) : q[m] # 0
           n == CHOOSE n \in 1..W : Shortest(n)
<1>1. W \in Nat /\ W \in 1..W /\ q[W] = 0 /\ a < P
  BY DigitCounts, FieldNumbers
<1> HIDE DEF q, W
<1>2. \E k \in 1..W : Shortest(k)
  <2>1. PICK k \in S : \A l \in S : k <= l
    <3>1. S \in SUBSET Nat /\ S # {}
      BY <1>1
    <3> HIDE DEF S
    <3> QED BY <3>1, LeastElement
  <2>2. ASSUME NEW m \in 1..(k - 1) PROVE q[m] # 0
    <3>1. k \in 1..W
      BY <2>1
    <3>2. m \in 1..W /\ ~ (k <= m)
      BY <1>1, <3>1
    <3> QED BY <2>1, <3>2
  <2> QED BY <2>1, <2>2
<1>3. n \in 1..W /\ q[n] = 0
  <2> HIDE DEF Shortest
  <2>1. n \in 1..W /\ Shortest(n)
    BY <1>2
  <2> QED BY <2>1 DEF Shortest
<1>4. Display(a) = Digits(a, 10, n)
  BY DEF Display, q, W
<1> HIDE DEF n
<1>5. n \in 0..W
  BY <1>1, <1>3
<1>6. /\ Display(a) \in Seq(Nat) /\ Number(Display(a), 10) = a
      /\ \A k \in DOMAIN Display(a) : Display(a)[k] \in Nat /\ Display(a)[k] < 10
  BY <1>3, <1>4, <1>5, DigitsRead DEF q, W
<1>7. ASSUME NEW k \in DOMAIN Display(a) PROVE Display(a)[k] \in 0..9
  <2>1. Display(a)[k] \in Nat /\ Display(a)[k] < 10
    BY <1>6
  <2> QED BY ONLY <2>1
<1> QED BY <1>1, <1>6, <1>7, ReadsDecimal

\* The digits that are left out are zero.
LEMMA LowerHexRead ==
  ASSUME NEW a \in Field, NEW width \in 0..Nibbles
  PROVE  from_hex_be(LowerHex(a, width)) = Ok(a)
<1> DEFINE q == quotients(a, 16)
           n == Nibbles
           nibble(ind) == Digits(a, 16, Nibbles)[ind + 1]
           Stop(ind) == ind = Nibbles \/ nibble(ind) # 0 \/ Nibbles - ind <= width
           First(ind) == Stop(ind) /\ \A i \in 0..(ind - 1) : nibble(i) = 0 /\ Nibbles - i > width
           latch == CHOOSE ind \in 0..Nibbles : First(ind)
           S == {ind \in 0..Nibbles : Stop(ind)}
<1>1. n \in Nat \ {0} /\ n \in 0..(4 * Nibbles) /\ q[n] = 0 /\ a < P /\ a \in Nat
  BY DigitCounts, FieldNumbers
<1>2. \E ind \in 0..n : First(ind)
  <2> HIDE DEF Stop
  <2>1. PICK ind \in S : \A l \in S : ind <= l
    <3>1. S \in SUBSET Nat
      OBVIOUS
    <3>2. n \in S
      BY <1>1 DEF Stop
    <3> HIDE DEF S
    <3> QED BY <3>1, <3>2, LeastElement
  <2>2. ASSUME NEW i \in 0..(ind - 1) PROVE ~Stop(i)
    <3>1. ind \in 0..n
      BY <2>1
    <3>2. i \in 0..n /\ ~ (ind <= i)
      BY <1>1, <3>1
    <3> QED BY <2>1, <3>2
  <2>3. ASSUME NEW i \in 0..(ind - 1) PROVE nibble(i) = 0 /\ Nibbles - i > width
    <3>1. nibble(i) = 0 /\ ~ (Nibbles - i <= width)
      BY <2>2 DEF Stop
    <3>2. i \in Int /\ width \in Int
      BY <2>1
    <3> HIDE DEF nibble
    <3> QED BY <1>1, <3>1, <3>2
  <2> QED BY <2>1, <2>3
<1>3. latch \in 0..n /\ First(latch)
  <2> HIDE DEF First
  <2> QED BY <1>2
<1>4. LowerHex(a, width) = Digits(a, 16, Nibbles - latch)
  BY DEF LowerHex
<1> DEFINE z == latch
           Z == {i \in 0..z : q[n - i] # 0}
<1>5. z \in 0..n /\ \A i \in 0..(z - 1) : nibble(i) = 0
  BY <1>3
<1> HIDE DEF z
<1>6. ASSUME NEW i \in 0..(z - 1)
      PROVE  q[(n - i) - 1] % 16 = 0
  <2>1. i + 1 \in 1..n /\ n - (i + 1) = (n - i) - 1
    BY <1>1, <1>5
  <2>2. nibble(i) = q[n - (i + 1)] % 16
    BY <2>1 DEF Digits
  <2> QED BY <1>5, <2>1, <2>2
<1> HIDE DEF q, n
<1>7. /\ q[0] = a /\ \A k \in 1..(4 * Nibbles) : q[k] = q[k - 1] \div 16
      /\ \A k \in 0..(4 * Nibbles) : q[k] \in Nat
  BY <1>1, QuotientSteps DEF q
<1>8. Z = {}
  <2> SUFFICES ASSUME Z # {} PROVE FALSE
    OBVIOUS
  <2>1. PICK i \in Z : \A l \in Z : i <= l
    <3>1. Z \in SUBSET Nat
      BY <1>1, <1>5
    <3> HIDE DEF Z
    <3> QED BY <3>1, LeastElement
  <2>2. i \in 0..z /\ q[n - i] # 0 /\ i \in Nat /\ z \in Nat
    BY <1>1, <1>5, <2>1
  <2>3. i # 0
    <3>1. n - 0 = n
      BY <1>1
    <3> QED BY <1>1, <2>2, <3>1
  <2>4. /\ i - 1 \in 0..(z - 1) /\ i - 1 \in 0..z /\ ~ (i <= i - 1)
        /\ (n - (i - 1)) - 1 = n - i
    BY <1>1, <1>5, <2>2, <2>3
  <2>5. q[n - i] % 16 = 0
    BY <1>6, <2>4
  <2>6. q[n - (i - 1)] = 0
    BY <2>1, <2>4
  <2>7. n - (i - 1) \in 1..(4 * Nibbles) /\ n - i \in 0..(4 * Nibbles)
    BY <1>1, <1>5, <2>2, <2>3, DigitCounts
  <2>8. q[n - (i - 1)] = q[n - i] \div 16 /\ q[n - i] \in Nat
    BY <1>7, <2>4, <2>7
  <2>9. q[n - i] = 16 * (q[n - i] \div 16) + (q[n - i] % 16)
    BY ONLY <2>8
  <2> QED BY <2>2, <2>5, <2>6, <2>8, <2>9
<1>9. z \in 0..z
  BY <1>1, <1>5
<1>10. q[n - z] = 0
  BY <1>8, <1>9
<1>11. n - z \in 0..(4 * Nibbles) /\ n - z <= n
  BY <1>1, <1>5, DigitCounts
<1> DEFINE s == Digits(a, 16, n - z)
<1>12. /\ s \in Seq(Nat) /\ Len(s) = n - z /\ Number(s, 16) = a
       /\ \A k \in DOMAIN s : s[k] \in Nat /\ s[k] < 16
  BY <1>10, <1>11, DigitsRead DEF q
<1>13. LowerHex(a, width) = s
  BY <1>4 DEF n, z
<1> HIDE DEF s
<1>14. Len(s) <= Nibbles /\ Number(s, 16) < P
  BY <1>1, <1>11, <1>12 DEF n
<1>15. ASSUME NEW k \in DOMAIN s PROVE s[k] \in 0..15
  <2>1. s[k] \in Nat /\ s[k] < 16
    BY <1>12
  <2> QED BY ONLY <2>1
<1> QED BY <1>12, <1>13, <1>14, <1>15, ReadsHexadecimal

LEMMA BytesRead ==
  ASSUME NEW a \in Field
  PROVE  from_byte_slice_be(to_bytes_be(a)) = Ok(a)
<1> DEFINE h == Nibbles \div 2
           s == Digits(a, 256, h)
<1>1. h \in 0..(4 * Nibbles) /\ 2 * h = Nibbles /\ Nibbles \in Nat /\ quotients(a, 256)[h] = 0
  BY DigitCounts, FieldNumbers
<1> HIDE DEF h
<1>2. Len(s) = h /\ Number(s, 256) = a
  BY <1>1, DigitsRead
<1>3. to_bytes_be(a) = s
  BY DEF to_bytes_be, h
<1> HIDE DEF s
<1>4. ~ (2 * Len(s) > Nibbles)
  BY <1>1, <1>2
<1>5. a < P
  BY FieldNumbers
<1> QED BY <1>2, <1>3, <1>4, <1>5 DEF from_byte_slice_be, from_bigint

\* The bits, the last one first, are the digits in the base two.
LEMMA BitsRead ==
  ASSUME NEW a \in Field
  PROVE  Number(Reverse([k \in DOMAIN to_bits_le(a) |->
                           IF to_bits_le(a)[k] THEN 1 ELSE 0]), 2) = a
<1> DEFINE q == quotients(a, 2)
           W == 4 * Nibbles
           B == [k \in DOMAIN to_bits_le(a) |-> IF to_bits_le(a)[k] THEN 1 ELSE 0]
<1>1. W \in Nat /\ W \in 0..W /\ q[W] = 0 /\ a \in Nat
  BY DigitCounts, FieldNumbers
<1>2. \A k \in 0..W : q[k] \in Nat
  BY <1>1, QuotientSteps
<1>3. DOMAIN to_bits_le(a) = 1..W /\ \A k \in 1..W : to_bits_le(a)[k] = (q[k - 1] % 2 = 1)
  BY DEF to_bits_le
<1>4. Number(Digits(a, 2, W), 2) = a
  BY <1>1, DigitsRead
<1>5. Digits(a, 2, W) = [k \in 1..W |-> q[W - k] % 2]
  BY DEF Digits
<1> HIDE DEF q, W
<1>6. ASSUME NEW k \in 1..W PROVE B[k] = q[k - 1] % 2
  <2>1. k - 1 \in 0..W
    BY <1>1
  <2>2. q[k - 1] % 2 \in 0..1
    BY <1>2, <2>1
  <2>3. B[k] = IF q[k - 1] % 2 = 1 THEN 1 ELSE 0
    BY <1>3
  <2> HIDE DEF B
  <2> QED BY <2>2, <2>3
<1>7. DOMAIN B = 1..W /\ B = [k \in 1..W |-> B[k]]
  BY <1>3
<1> HIDE DEF B
<1>8. Len(B) = W
  BY <1>1, <1>7
<1>9. Reverse(B) = [k \in 1..W |-> q[W - k] % 2]
  <2>1. ASSUME NEW k \in 1..W PROVE B[(W - k) + 1] = q[W - k] % 2
    <3>1. (W - k) + 1 \in 1..W /\ ((W - k) + 1) - 1 = W - k
      BY <1>1
    <3> QED BY <1>6, <3>1
  <2>2. Reverse(B) = [k \in 1..W |-> B[(W - k) + 1]]
    BY <1>8 DEF Reverse
  <2> QED BY <2>1, <2>2
<1> QED BY <1>4, <1>5, <1>9 DEF B

LEMMA QuotientAndRemainder ==
  ASSUME NEW a \in Field, NEW b \in Field, b # 0
  PROVE  floor_div(a, b) * b + rem(a, b) = a /\ rem(a, b) < b
<1> DEFINE q == a \div b
           r == a % b
<1>1. a \in Nat /\ b \in Nat \ {0}
  BY FieldNumbers
<1>2. q \in Nat /\ r \in 0..(b - 1) /\ a = b * q + r
  BY <1>1, DivMod
<1>3. floor_div(a, b) = q /\ rem(a, b) = IF a < b THEN a ELSE r
  BY DEF floor_div, rem
<1>4. a < b => q = 0
  <2>1. a < b => a < b * 1
    BY <1>1
  <2>2. a < b => q < 1
    BY <1>1, <2>1, DivBound
  <2> HIDE DEF q
  <2> QED BY <1>2, <2>2
<1> HIDE DEF q, r
<1>5. CASE a < b
  BY <1>1, <1>3, <1>4, <1>5
<1>6. CASE ~ (a < b)
  <2>1. b * q = q * b
    BY <1>1, <1>2
  <2> QED BY <1>1, <1>2, <1>3, <1>6, <2>1
<1> QED BY <1>5, <1>6

-----------------------------------------------------------------------------
(***************************************************************************)
(* Every text of any length is read as the number it denotes or refused,   *)
(* and every element is read back from every format it is written in: for  *)
(* every prime and every even number of nibbles that hold it.              *)
(***************************************************************************)
THEOREM AlwaysNumbersReadBack == AlgorithmsSpec => []NumbersReadBack
<1>1. input \in Inputs \union {NoInput} => NumbersReadBack
  <2> SUFFICES ASSUME input \in Inputs \union {NoInput} PROVE NumbersReadBack
    OBVIOUS
  <2>1. ASSUME Of("text") PROVE ReadsCanonical(input.text)
    <3>1. input \in Inputs
      BY <2>1 DEF Of, NoInput
    <3>2. input.text \in Seq(Nat)
      BY <2>1, <3>1, InputsAssumption DEF Of
    <3> QED BY <3>2, TextsRead
  <2>2. ASSUME Of("number") PROVE WritesAndReads(input.a, input.b)
    <3> DEFINE a == input.a
               b == input.b
               width == IF b < Nibbles THEN b ELSE Nibbles
    <3>1. input \in Inputs
      BY <2>2 DEF Of, NoInput
    <3>2. a \in Field /\ b \in Field
      BY <2>2, <3>1, InputsAssumption DEF Of
    <3> HIDE DEF a, b
    <3>3. width \in 0..Nibbles
      BY <3>2, FieldNumbers, DigitCounts
    <3> HIDE DEF width
    <3>4. from_hex_be(LowerHex(a, width)) = Ok(a)
      BY <3>2, <3>3, LowerHexRead
    <3>5. from_dec_str(Display(a)) = Ok(a) /\ from_byte_slice_be(to_bytes_be(a)) = Ok(a)
      BY <3>2, DisplayRead, BytesRead
    <3>6. Number(Reverse([k \in DOMAIN to_bits_le(a) |->
                            IF to_bits_le(a)[k] THEN 1 ELSE 0]), 2) = a
      BY <3>2, BitsRead
    <3>7. b # 0 => floor_div(a, b) * b + rem(a, b) = a /\ rem(a, b) < b
      BY <3>2, QuotientAndRemainder
    <3> QED BY <3>4, <3>5, <3>6, <3>7 DEF WritesAndReads, a, b, width
  <2> QED BY <2>1, <2>2 DEF NumbersReadBack
<1> QED BY <1>1, InputKept, PTL

-----------------------------------------------------------------------------
(***************************************************************************)
(* Short strings.  The digits of a number are the only ones that denote it *)
(* in so many places, and the first digit bounds the number.               *)
(***************************************************************************)
LEMMA NumberDigits ==
  ASSUME NEW base \in Nat \ {0}, NEW n \in 0..(4 * Nibbles), NEW d \in [1..n -> Nat],
         \A k \in 1..n : d[k] < base
  PROVE  Number(d, base) \in Nat /\ Digits(Number(d, base), base, n) = d
<1> DEFINE N == numbers(d, base)
           u == Number(d, base)
           q == quotients(u, base)
           W == 4 * Nibbles
           S == {k \in 0..n : q[k] # N[n - k]}
<1>1. W \in Nat /\ n \in 0..W /\ n \in Nat /\ base \in Nat
  BY DigitCounts
<1>2. d \in [1..n -> Nat] /\ \A k \in 1..n : d[k] \in 0..(base - 1)
  BY <1>1
<1>3. /\ u = N[n] /\ \A k \in 1..n : NumberStep(d, base, k)
      /\ \A k \in 0..n : N[k] \in Nat
  BY ONLY <1>1, <1>2, NumberSteps
<1>4. n \in 0..n
  BY <1>1
<1>5. u \in Nat
  BY <1>3, <1>4
<1> HIDE DEF u
<1>6. q[0] = u /\ \A k \in 1..W : q[k] = q[k - 1] \div base
  BY <1>5, QuotientSteps
<1> HIDE DEF q, W
<1>7. ASSUME NEW k \in 1..n
      PROVE  /\ n - k \in 0..n /\ (n - k) + 1 \in 1..n /\ ((n - k) + 1) - 1 = n - k
             /\ N[(n - k) + 1] \div base = N[n - k]
             /\ N[(n - k) + 1] % base = d[(n - k) + 1]
  <2> DEFINE j == (n - k) + 1
             x == N[n - k]
             c == d[j]
  <2>1. n - k \in 0..n /\ j \in 1..n /\ j - 1 = n - k
    BY <1>1
  <2>2. NumberStep(d, base, j)
    BY <1>3, <2>1
  <2>3. N[j] = base * x + c
    BY <2>1, <2>2 DEF NumberStep
  <2>4. x \in Nat /\ c \in 0..(base - 1)
    BY <1>2, <1>3, <2>1
  <2> HIDE DEF x, c
  <2>5. (base * x + c) \div base = x /\ (base * x + c) % base = c
    BY <2>4
  <2> QED BY <2>1, <2>3, <2>5 DEF x, c
<1> HIDE DEF N
<1>8. S = {}
  <2> SUFFICES ASSUME S # {} PROVE FALSE
    OBVIOUS
  <2>1. PICK k \in S : \A l \in S : k <= l
    <3>1. S \in SUBSET Nat
      BY <1>1
    <3> HIDE DEF S
    <3> QED BY <3>1, LeastElement
  <2>2. k # 0
    <3>1. n - 0 = n
      BY <1>1
    <3> QED BY <1>3, <1>6, <2>1, <3>1
  <2>3. k \in 1..n /\ k \in 1..W /\ k - 1 \in 0..n /\ ~ (k <= k - 1) /\ n - (k - 1) = (n - k) + 1
    BY <1>1, <2>1, <2>2
  <2>4. q[k - 1] = N[(n - k) + 1]
    BY <2>1, <2>3
  <2>5. q[k] = q[k - 1] \div base
    BY <1>6, <2>3
  <2>6. N[(n - k) + 1] \div base = N[n - k]
    BY <1>7, <2>3
  <2> QED BY <2>1, <2>4, <2>5, <2>6
<1>9. ASSUME NEW k \in 1..n PROVE q[n - k] % base = d[k]
  <2>1. n - k \in 0..n /\ n - (n - k) = k
    BY <1>1
  <2>2. q[n - k] = N[k]
    BY <1>8, <2>1
  <2> DEFINE j == (n - k) + 1
  <2>3. j \in 1..n /\ (n - j) + 1 = k
    BY <1>1
  <2>4. N[(n - j) + 1] % base = d[(n - j) + 1]
    BY <1>7, <2>3
  <2> QED BY <2>2, <2>3, <2>4
<1>10. Digits(u, base, n) = [k \in 1..n |-> q[n - k] % base]
  BY DEF Digits, q
<1>11. Digits(u, base, n) = d
  BY <1>9, <1>10
<1> QED BY <1>5, <1>11 DEF u

LEMMA NumberBound ==
  ASSUME NEW base \in Nat \ {0}, NEW n \in 1..(4 * Nibbles), NEW d \in [1..n -> Nat],
         \A k \in 1..n : d[k] < base,
         NEW c \in Nat, d[1] < c
  PROVE  Number(d, base) < c * Powers(base)[n - 1]
<1> DEFINE N == numbers(d, base)
           p == Powers(base)
           W == 4 * Nibbles
           S == {k \in 1..n : ~ (N[k] < c * p[k - 1])}
<1>1. W \in Nat /\ n \in 1..W /\ n \in Nat /\ base \in Nat /\ 1 \in 1..n
  BY DigitCounts
<1>2. d \in [1..n -> Nat] /\ \A k \in 1..n : d[k] \in 0..(base - 1)
  BY <1>1
<1>3. /\ Number(d, base) = N[n] /\ N[0] = 0 /\ \A k \in 1..n : NumberStep(d, base, k)
      /\ \A k \in 0..n : N[k] \in Nat
  BY ONLY <1>1, <1>2, NumberSteps
<1>4. /\ p[0] = 1 /\ \A k \in 1..W : p[k] = base * p[k - 1]
      /\ \A k \in 0..W : p[k] \in Nat
  BY PowerSteps
<1>5. ASSUME NEW k \in 1..n PROVE N[k] = base * N[k - 1] + d[k]
  BY <1>3 DEF NumberStep
<1> HIDE DEF N, p, W
<1>6. S = {}
  <2> SUFFICES ASSUME S # {} PROVE FALSE
    OBVIOUS
  <2>1. PICK k \in S : \A l \in S : k <= l
    <3>1. S \in SUBSET Nat
      BY <1>1
    <3> HIDE DEF S
    <3> QED BY <3>1, LeastElement
  <2>2. k # 1
    <3>1. N[1] = base * N[0] + d[1]
      <4>1. N[1] = base * N[1 - 1] + d[1]
        BY <1>1, <1>5
      <4> QED BY <4>1
    <3>2. N[1] = d[1]
      BY <1>1, <1>2, <1>3, <3>1
    <3>3. ASSUME k = 1 PROVE FALSE
      <4>1. k - 1 = 0 /\ c * 1 = c
        BY <3>3
      <4> QED BY <1>4, <2>1, <3>2, <3>3, <4>1
    <3> QED BY <3>3
  <2>3. /\ k \in 1..n /\ k - 1 \in 1..n /\ k - 1 \in 1..W /\ ~ (k <= k - 1)
        /\ k - 1 \in 0..n /\ (k - 1) - 1 \in 0..W
    BY <1>1, <2>1, <2>2
  <2> DEFINE x == N[k - 1]
             t == p[(k - 1) - 1]
             y == c * t
             e == d[k]
  <2>4. x < y
    BY <2>1, <2>3
  <2>5. N[k] = base * x + e /\ p[k - 1] = base * t
    BY <1>4, <1>5, <2>3
  <2>6. x \in Nat /\ t \in Nat /\ e \in 0..(base - 1)
    BY <1>2, <1>3, <1>4, <2>3
  <2> HIDE DEF x, t, e
  <2>9. y \in Nat /\ c * (base * t) = base * y
    BY <1>1, <2>6
  <2> HIDE DEF y
  <2>7. base * x + base <= base * y
    <3>1. x + 1 <= y
      BY <2>4, <2>6, <2>9
    <3>2. base * (x + 1) <= base * y
      BY <1>1, <2>6, <2>9, <3>1
    <3> QED BY <1>1, <2>6, <2>9, <3>2
  <2>8. base * x + e < base * y
    <3> DEFINE bx == base * x
               by == base * y
    <3>1. bx \in Nat /\ by \in Nat /\ bx + base <= by /\ e \in Nat /\ e < base
      BY <1>1, <2>6, <2>7, <2>9
    <3> HIDE DEF bx, by
    <3>2. bx + e < by
      BY ONLY <1>1, <3>1
    <3> QED BY <3>2 DEF bx, by
  <2> QED BY <2>1, <2>5, <2>8, <2>9
<1>7. n \in 1..n
  BY <1>1
<1> QED BY <1>3, <1>6, <1>7 DEF p

\* A text of bytes that begins with six zero bits holds an element, and is its bytes.
LEMMA BytesOfShort ==
  /\ Bytes \in Nat \ {0} /\ 2 * Bytes = Nibbles
  /\ \A s \in [1..Bytes -> Nat] :
       s[1] < 4 /\ (\A k \in 1..Bytes : s[k] < 256) =>
                   /\ Number(s, 256) \in Field
                   /\ from_byte_slice_be(s) = Ok(Number(s, 256))
                   /\ to_bytes_be(Number(s, 256)) = s
<1>1. Bytes \in Nat \ {0} /\ 2 * Bytes = Nibbles /\ Bytes \in 1..(4 * Nibbles)
  BY DigitCounts DEF Bytes
<1>2. ASSUME NEW s \in [1..Bytes -> Nat], s[1] < 4, \A k \in 1..Bytes : s[k] < 256
      PROVE  /\ Number(s, 256) \in Field
             /\ from_byte_slice_be(s) = Ok(Number(s, 256))
             /\ to_bytes_be(Number(s, 256)) = s
  <2> DEFINE u == Number(s, 256)
             top == Powers(256)[Bytes - 1]
  <2>1. Bytes \in 0..(4 * Nibbles) /\ Bytes - 1 \in 0..(4 * Nibbles)
    BY <1>1
  <2>2. s \in [1..Bytes -> Nat] /\ \A k \in 1..Bytes : s[k] < 256
    BY <1>2
  <2>3. u \in Nat /\ Digits(u, 256, Bytes) = s
    <3> HIDE DEF u
    <3> QED BY <2>1, <2>2, NumberDigits DEF u
  <2>4. u < 4 * top
    <3> DEFINE c == 4
    <3>1. c \in Nat /\ s[1] < c /\ 256 \in Nat \ {0}
      BY <1>2
    <3> HIDE DEF c
    <3>2. u < c * top
      BY ONLY <1>1, <2>2, <3>1, NumberBound
    <3> QED BY <3>2 DEF c
  <2>5. top \in Nat
    BY <2>1, PowerSteps
  <2>6. 4 * top <= P /\ P \in Nat
    BY FieldAssumption DEF Bytes
  <2> HIDE DEF top
  <2>7. u < P
    BY ONLY <2>3, <2>4, <2>5, <2>6
  <2>8. Len(s) = Bytes
    BY <1>1, VectorLength
  <2>9. from_byte_slice_be(s) = Ok(u)
    BY <1>1, <2>7, <2>8 DEF from_byte_slice_be, from_bigint
  <2>10. to_bytes_be(u) = s
    BY <2>3 DEF to_bytes_be, Bytes
  <2>11. u \in Field
    BY <2>3, <2>6, <2>7 DEF Field
  <2> QED BY <2>9, <2>10, <2>11
<1> QED BY <1>1, <1>2

\* What was read of the first k bytes, the first m of them zero.
ReadsFrom(s, k, m) ==
  /\ m \in 0..k /\ \A i \in 1..m : s[i] = 0
  /\ \A i \in (m + 1)..k : s[i] # 0
  /\ buffers(s)[k] = Ok([i \in 1..(k - m) |-> s[i + m]])

ZerosFirst(s, k) == \A i, j \in 1..k : i < j /\ s[i] # 0 => s[j] # 0

BufferSound(s, k) ==
  \/ \E m \in 0..k : ReadsFrom(s, k, m)
  \/ ~ ZerosFirst(s, k) /\ buffers(s)[k].ok = FALSE

LEMMA BuffersRead ==
  ASSUME NEW n \in Nat, NEW s \in [1..n -> Nat]
  PROVE  \A k \in 0..n : BufferSound(s, k)
<1> DEFINE B == buffers(s)
           S == {k \in 0..n : ~ BufferSound(s, k)}
<1>1. Len(s) = n
  BY VectorLength
<1>2. PICK g : Computes(g, "buffers", s, Ok(<<>>), n)
  BY Recursion
<1>3. g = [k \in 0..n |->
             IF k = 0 THEN Ok(<<>>)
             ELSE IF ~g[k - 1].ok THEN g[k - 1]
             ELSE IF s[k] # 0 THEN Ok(Append(g[k - 1].value, s[k]))
             ELSE IF g[k - 1].value # <<>> THEN Err("UnexpectedNullTerminator")
             ELSE g[k - 1]]
  BY <1>2 DEF Computes, Step
<1>4. B = [k \in 0..n |->
             IF k = 0 THEN Ok(<<>>)
             ELSE IF ~B[k - 1].ok THEN B[k - 1]
             ELSE IF s[k] # 0 THEN Ok(Append(B[k - 1].value, s[k]))
             ELSE IF B[k - 1].value # <<>> THEN Err("UnexpectedNullTerminator")
             ELSE B[k - 1]]
  BY <1>1, <1>3 DEF buffers
<1> HIDE DEF B
<1>5. 0 \in 0..n /\ \A k \in 1..n : k \in 0..n /\ k # 0
  OBVIOUS
<1>6. /\ B[0] = Ok(<<>>)
      /\ \A k \in 1..n : B[k] = IF ~B[k - 1].ok THEN B[k - 1]
                                ELSE IF s[k] # 0 THEN Ok(Append(B[k - 1].value, s[k]))
                                ELSE IF B[k - 1].value # <<>> THEN Err("UnexpectedNullTerminator")
                                ELSE B[k - 1]
  BY <1>4, <1>5
<1>7. BufferSound(s, 0)
  <2>1. [i \in 1..(0 - 0) |-> s[i + 0]] = <<>>
    OBVIOUS
  <2>2. ReadsFrom(s, 0, 0)
    BY <1>6, <2>1 DEF ReadsFrom, B
  <2> QED BY <2>2 DEF BufferSound
<1>8. ASSUME NEW k \in 1..n, BufferSound(s, k - 1)
      PROVE  BufferSound(s, k)
  <2>1. /\ k \in Nat /\ k - 1 \in 0..n
        /\ B[k] = IF ~B[k - 1].ok THEN B[k - 1]
                  ELSE IF s[k] # 0 THEN Ok(Append(B[k - 1].value, s[k]))
                  ELSE IF B[k - 1].value # <<>> THEN Err("UnexpectedNullTerminator")
                  ELSE B[k - 1]
    BY <1>6
  <2>2. CASE ~ ZerosFirst(s, k - 1) /\ B[k - 1].ok = FALSE
    <3>1. \A i \in 1..(k - 1) : i \in 1..k
      BY <2>1
    <3>2. ~ ZerosFirst(s, k)
      BY <2>2, <3>1 DEF ZerosFirst
    <3>3. B[k].ok = FALSE
      BY <2>1, <2>2
    <3> QED BY <3>2, <3>3 DEF BufferSound, B
  <2>3. ASSUME NEW m \in 0..(k - 1), ReadsFrom(s, k - 1, m)
        PROVE  BufferSound(s, k)
    <3> DEFINE v == [i \in 1..((k - 1) - m) |-> s[i + m]]
               w == [i \in 1..(k - m) |-> s[i + m]]
    <3>1. /\ m \in Nat /\ m \in 0..k /\ m \in 0..(k - 1) /\ (k - 1) - m \in Nat
          /\ k - m = ((k - 1) - m) + 1 /\ (((k - 1) - m) + 1) + m = k
      BY <2>1
    <3>2. \A i \in 1..m : s[i] = 0
      BY <2>3 DEF ReadsFrom
    <3>3. \A i \in (m + 1)..(k - 1) : s[i] # 0
      BY <2>3 DEF ReadsFrom
    <3>4. B[k - 1] = Ok(v)
      BY <2>3 DEF ReadsFrom, B
    <3>5. Len(v) = (k - 1) - m
      BY <3>1, VectorLength
    <3>6. v \in Seq(Nat)
      <4>1. ASSUME NEW i \in 1..((k - 1) - m) PROVE s[i + m] \in Nat
        <5>1. i + m \in 1..n
          BY <2>1, <3>1
        <5> QED BY <5>1
      <4>2. v \in [1..((k - 1) - m) -> Nat]
        BY <4>1
      <4> HIDE DEF v
      <4> QED BY <3>1, <4>2
    <3>7. B[k - 1].ok = TRUE /\ B[k - 1].value = v
      BY <3>4 DEF Ok
    <3>8. CASE s[k] # 0
      <4>1. B[k] = Ok(Append(v, s[k]))
        BY <2>1, <3>7, <3>8
      <4>2. Append(v, s[k]) = w
        <5>1. Append(v, s[k]) = [i \in 1..(k - m) |-> IF i = k - m THEN s[k] ELSE v[i]]
          <6> HIDE DEF v, w
          <6>1. s[k] \in Nat
            OBVIOUS
          <6>2. /\ Append(v, s[k]) = [i \in 1..(Len(v) + 1) |->
                                         IF i = Len(v) + 1 THEN s[k] ELSE v[i]]
            BY <3>6, <6>1
          <6> QED BY <3>1, <3>5, <6>2
        <5>2. ASSUME NEW i \in 1..(k - m) PROVE w[i] = IF i = k - m THEN s[k] ELSE v[i]
          <6>1. CASE i = k - m
            BY <2>1, <3>1, <6>1
          <6>2. CASE i # k - m
            <7>1. i \in 1..((k - 1) - m)
              BY <2>1, <3>1, <6>2
            <7> QED BY <6>2, <7>1
          <6> QED BY <6>1, <6>2
        <5>3. w = [i \in 1..(k - m) |-> w[i]]
          OBVIOUS
        <5> HIDE DEF v, w
        <5> QED BY <5>1, <5>2, <5>3
      <4>3. \A i \in (m + 1)..k : s[i] # 0
        <5>1. \A i \in (m + 1)..k : i = k \/ i \in (m + 1)..(k - 1)
          BY <2>1, <3>1
        <5> QED BY <3>3, <3>8, <5>1
      <4>4. ReadsFrom(s, k, m)
        BY <3>1, <3>2, <4>1, <4>2, <4>3 DEF ReadsFrom, B
      <4> QED BY <3>1, <4>4 DEF BufferSound
    <3>9. CASE s[k] = 0 /\ m = k - 1
      <4>1. v = <<>> /\ [i \in 1..(k - k) |-> s[i + k]] = <<>>
        BY <2>1, <3>9
      <4>2. B[k] = Ok(<<>>)
        BY <2>1, <3>4, <3>7, <3>9, <4>1
      <4>3. \A i \in 1..k : s[i] = 0
        <5>1. \A i \in 1..k : i = k \/ i \in 1..m
          BY <2>1, <3>9
        <5> QED BY <3>2, <3>9, <5>1
      <4>4. k \in 0..k /\ \A i \in (k + 1)..k : FALSE
        BY <2>1
      <4>5. ReadsFrom(s, k, k)
        BY <4>1, <4>2, <4>3, <4>4 DEF ReadsFrom, B
      <4> QED BY <4>4, <4>5 DEF BufferSound
    <3>10. CASE s[k] = 0 /\ m # k - 1
      <4>1. m + 1 \in (m + 1)..(k - 1) /\ m + 1 \in 1..k /\ k \in 1..k /\ m + 1 < k
        BY <2>1, <3>1, <3>10
      <4>2. ~ ZerosFirst(s, k)
        BY <3>3, <3>10, <4>1 DEF ZerosFirst
      <4>3. v # <<>>
        BY <2>1, <3>1, <3>5, <3>10
      <4>4. B[k] = Err("UnexpectedNullTerminator")
        BY <2>1, <3>7, <3>10, <4>3
      <4>5. B[k].ok = FALSE
        BY <4>4 DEF Err
      <4> QED BY <4>2, <4>5 DEF BufferSound, B
    <3> QED BY <3>8, <3>9, <3>10
  <2> QED BY <1>8, <2>2, <2>3 DEF BufferSound, B
<1>9. S = {}
  <2> SUFFICES ASSUME S # {} PROVE FALSE
    OBVIOUS
  <2>1. PICK k \in S : \A l \in S : k <= l
    <3>1. S \in SUBSET Nat
      OBVIOUS
    <3> HIDE DEF S
    <3> QED BY <3>1, LeastElement
  <2>2. k \in 1..n /\ k - 1 \in 0..n /\ ~ (k <= k - 1)
    BY <1>7, <2>1
  <2>3. BufferSound(s, k - 1)
    BY <2>1, <2>2
  <2> QED BY <1>8, <2>1, <2>2, <2>3
<1> QED BY <1>9

PadTo(str) == [k \in 1..(Bytes - Len(str)) |-> 0] \o str

LEMMA Padding ==
  ASSUME NEW str \in Seq(Nat), Len(str) <= Bytes - 1
  PROVE  /\ PadTo(str) \in [1..Bytes -> Nat] /\ Bytes - Len(str) \in 1..Bytes
         /\ \A k \in 1..(Bytes - Len(str)) : PadTo(str)[k] = 0
         /\ \A k \in 1..Len(str) :
              /\ k + (Bytes - Len(str)) \in (Bytes - Len(str) + 1)..Bytes
              /\ PadTo(str)[k + (Bytes - Len(str))] = str[k]
<1> DEFINE l == Len(str)
           z == Bytes - l
           zs == [k \in 1..z |-> 0]
           s == PadTo(str)
<1>1. Bytes \in Nat \ {0} /\ l \in Nat /\ z \in Nat /\ z \in 1..Bytes /\ z + l = Bytes
  BY BytesOfShort
<1>2. zs \in Seq(Nat) /\ Len(zs) = z
  <2>1. zs \in [1..z -> Nat]
    OBVIOUS
  <2> HIDE DEF zs, z
  <2> QED BY <1>1, <2>1, VectorLength
<1>3. \A k \in 1..z : zs[k] = 0
  OBVIOUS
<1> HIDE DEF zs
<1>4. s = zs \o str
  BY DEF PadTo, zs
<1> HIDE DEF s
<1>5. /\ s \in Seq(Nat) /\ Len(s) = z + l
      /\ \A k \in 1..(z + l) : s[k] = IF k <= z THEN zs[k] ELSE str[k - z]
  <2> HIDE DEF z
  <2> QED BY <1>1, <1>2, <1>4
<1> HIDE DEF z
<1>6. s \in [1..Bytes -> Nat]
  BY <1>1, <1>5
<1>7. ASSUME NEW k \in 1..z PROVE s[k] = 0
  <2>1. k \in 1..(z + l) /\ k <= z
    BY <1>1
  <2>2. s[k] = zs[k]
    BY <1>5, <2>1
  <2> QED BY <1>3, <2>2
<1>8. ASSUME NEW k \in 1..l PROVE k + z \in (z + 1)..Bytes /\ s[k + z] = str[k]
  <2>1. k + z \in 1..(z + l) /\ ~ (k + z <= z) /\ (k + z) - z = k /\ k + z \in (z + 1)..Bytes
    BY <1>1
  <2> QED BY <1>5, <2>1
<1> QED BY <1>1, <1>6, <1>7, <1>8 DEF s, z

\* The digits of zero are zero.
LEMMA ZeroText ==
  ASSUME NEW s \in [1..Bytes -> Nat], s[1] = 0, \A k \in 1..Bytes : s[k] < 256
  PROVE  Number(s, 256) = 0 <=> \A k \in 1..Bytes : s[k] = 0
<1> DEFINE zs == [k \in 1..Bytes |-> 0]
<1>1. Bytes \in Nat \ {0} /\ 2 * Bytes = Nibbles
  BY BytesOfShort
<1>2. to_bytes_be(Number(s, 256)) = s
  <2>1. s[1] < 4
    OBVIOUS
  <2> QED BY <2>1, BytesOfShort
<1>3. to_bytes_be(0) = zs
  <2>1. to_bytes_be(0) = [k \in 1..Bytes |-> quotients(0, 256)[Bytes - k] % 256]
    BY DEF to_bytes_be, Digits, Bytes
  <2>2. ASSUME NEW k \in 1..Bytes PROVE quotients(0, 256)[Bytes - k] = 0
    <3>1. Bytes - k \in 0..(4 * Nibbles)
      BY <1>1
    <3>2. Powers(256)[Bytes - k] \in Nat \ {0}
      BY <3>1, PowerSteps
    <3>3. 0 < Powers(256)[Bytes - k]
      BY <3>2
    <3> QED BY <3>1, <3>3, QuotientsEnd
  <2>3. \A k \in 1..Bytes : quotients(0, 256)[Bytes - k] % 256 = 0
    BY <2>2
  <2> QED BY <2>1, <2>3
<1>4. zs \in [1..Bytes -> Nat] /\ zs[1] = 0 /\ \A k \in 1..Bytes : zs[k] < 256
  BY <1>1
<1>5. to_bytes_be(Number(zs, 256)) = zs /\ from_byte_slice_be(zs) = Ok(Number(zs, 256))
  <2>1. zs[1] < 4
    BY <1>4
  <2> HIDE DEF zs
  <2> QED BY <1>4, <2>1, BytesOfShort
<1>6. Number(zs, 256) = 0
  <2>1. 0 \in Field
    BY FieldAssumption DEF Field
  <2>2. from_byte_slice_be(to_bytes_be(0)) = Ok(0)
    BY <2>1, BytesRead
  <2> HIDE DEF zs
  <2>3. Ok(Number(zs, 256)) = Ok(0)
    BY <1>3, <1>5, <2>2
  <2> QED BY <2>3 DEF Ok
<1>7. ASSUME Number(s, 256) = 0 PROVE \A k \in 1..Bytes : s[k] = 0
  BY <1>2, <1>3, <1>7
<1>8. ASSUME \A k \in 1..Bytes : s[k] = 0 PROVE Number(s, 256) = 0
  <2>1. s = zs
    BY <1>8
  <2> QED BY <1>6, <2>1
<1> QED BY <1>7, <1>8

\* What is read of an element that has fewer characters than there are bytes.
ParsedAs(s, m) ==
  /\ m \in 0..Bytes /\ \A i \in 1..m : s[i] = 0
  /\ \A i \in (m + 1)..Bytes : s[i] # 0
  /\ parse_cairo_short_string(Number(s, 256)) = Ok([i \in 1..(Bytes - m) |-> s[i + m]])

LEMMA ShortParsed ==
  ASSUME NEW s \in [1..Bytes -> Nat], s[1] = 0, \A k \in 1..Bytes : s[k] < 256
  PROVE  \/ \E m \in 0..Bytes : ParsedAs(s, m)
         \/ ~ ZerosFirst(s, Bytes) /\ parse_cairo_short_string(Number(s, 256)).ok = FALSE
<1> DEFINE u == Number(s, 256)
<1>1. Bytes \in Nat \ {0}
  BY BytesOfShort
<1>2. to_bytes_be(u) = s
  <2>1. s[1] < 4
    OBVIOUS
  <2> QED BY <2>1, BytesOfShort
<1>3. BufferSound(s, Bytes)
  <2>1. Bytes \in Nat /\ Bytes \in 0..Bytes
    BY <1>1
  <2> QED BY <2>1, BuffersRead
<1>4. u = 0 <=> \A k \in 1..Bytes : s[k] = 0
  BY ZeroText
<1> HIDE DEF u
<1>5. CASE u = 0
  <2>1. parse_cairo_short_string(u) = Ok(<<>>)
    BY <1>5 DEF parse_cairo_short_string
  <2>2. [i \in 1..(Bytes - Bytes) |-> s[i + Bytes]] = <<>>
    BY <1>1
  <2>3. Bytes \in 0..Bytes /\ \A i \in (Bytes + 1)..Bytes : FALSE
    BY <1>1
  <2>4. ParsedAs(s, Bytes)
    BY <1>4, <1>5, <2>1, <2>2, <2>3 DEF ParsedAs, u
  <2> QED BY <2>3, <2>4
<1>6. CASE u # 0
  <2>1. parse_cairo_short_string(u) = buffers(s)[Bytes]
    BY <1>2, <1>6 DEF parse_cairo_short_string
  <2>2. CASE \E m \in 0..Bytes : ReadsFrom(s, Bytes, m)
    BY <2>1, <2>2 DEF ReadsFrom, ParsedAs, u
  <2>3. CASE ~ ZerosFirst(s, Bytes) /\ buffers(s)[Bytes].ok = FALSE
    BY <2>1, <2>3 DEF u
  <2> QED BY <1>3, <2>2, <2>3 DEF BufferSound
<1> QED BY <1>5, <1>6

LEMMA StringsReadBack ==
  ASSUME NEW str \in Seq(Nat)
  PROVE  StringReadBack(str)
<1> DEFINE l == Len(str)
           felt == cairo_short_string_to_felt(str)
           read == parse_cairo_short_string(felt.value)
           ordered == \A i, j \in DOMAIN str : i < j /\ str[i] # 0 => str[j] # 0
           rest(n) == /\ \A i \in 1..n : str[i] = 0
                      /\ read.value = SubSeq(str, n + 1, l)
                      /\ n < l => str[n + 1] # 0
<1>1. Bytes \in Nat \ {0} /\ l \in Nat /\ DOMAIN str = 1..l
  BY BytesOfShort
<1>2. CASE ~ (is_ascii(str) /\ l < Bytes)
  <2>1. felt.ok = FALSE
    BY <1>1, <1>2 DEF cairo_short_string_to_felt, Err
  <2> HIDE DEF felt
  <2> QED BY <1>2, <2>1 DEF StringReadBack, felt
<1>3. CASE is_ascii(str) /\ l < Bytes
  <2> DEFINE s == PadTo(str)
             z == Bytes - l
             u == Number(s, 256)
  <2>1. z \in Nat /\ z \in 1..Bytes /\ z + l = Bytes /\ l <= Bytes - 1 /\ ~ (l > Bytes - 1)
    BY <1>1, <1>3
  <2>2. /\ s \in [1..Bytes -> Nat] /\ \A k \in 1..z : s[k] = 0
        /\ \A k \in 1..l : k + z \in (z + 1)..Bytes /\ s[k + z] = str[k]
    BY <2>1, Padding
  <2>3. felt = from_byte_slice_be(s)
    BY <1>3, <2>1 DEF cairo_short_string_to_felt, PadTo
  <2> HIDE DEF s, z, felt
  <2>4. \A k \in 1..l : str[k] < 128
    BY <1>1, <1>3 DEF is_ascii
  <2>5. ASSUME NEW k \in 1..Bytes
        PROVE  /\ s[k] < 256
               /\ k \notin 1..z => k - z \in 1..l /\ s[k] = str[k - z]
    <3>1. CASE k \in 1..z
      BY <2>2, <3>1
    <3>2. CASE k \notin 1..z
      <4>1. k - z \in 1..l /\ (k - z) + z = k
        BY <1>1, <2>1, <3>2
      <4>2. s[k] = str[k - z] /\ str[k - z] < 128 /\ str[k - z] \in Nat
        BY <1>1, <2>2, <2>4, <4>1
      <4> QED BY <3>2, <4>1, <4>2
    <3> QED BY <3>1, <3>2
  <2>6. s[1] = 0 /\ s[1] < 4
    BY <2>1, <2>2
  <2>7. felt = Ok(u)
    BY <2>2, <2>3, <2>5, <2>6, BytesOfShort
  <2>8. felt.ok = TRUE /\ felt.value = u
    BY <2>7 DEF Ok
  <2> HIDE DEF u, read
  <2>9. read = parse_cairo_short_string(u)
    BY <2>8 DEF read
  <2>10. ASSUME NEW m \in 0..Bytes, ParsedAs(s, m)
         PROVE  ordered /\ read.ok = TRUE /\ \E n \in 0..l : rest(n)
    <3>1. /\ \A i \in 1..m : s[i] = 0
          /\ \A i \in (m + 1)..Bytes : s[i] # 0
          /\ read = Ok([i \in 1..(Bytes - m) |-> s[i + m]])
      BY <2>9, <2>10 DEF ParsedAs, u
    <3>2. z <= m
      <4>1. m < z => z \in (m + 1)..Bytes /\ z \in 1..z
        BY <1>1, <2>1
      <4>2. m < z => FALSE
        BY <2>2, <3>1, <4>1
      <4> QED BY <2>1, <4>2
    <3> DEFINE n == m - z
    <3>3. n \in 0..l /\ Bytes - m = l - n /\ n + z = m
      BY <1>1, <2>1, <3>2
    <3>4. \A i \in 1..n : str[i] = 0
      <4>1. ASSUME NEW i \in 1..n PROVE str[i] = 0
        <5>1. i \in 1..l /\ i + z \in 1..m
          BY <1>1, <2>1, <3>3
        <5> QED BY <2>2, <3>1, <5>1
      <4> QED BY <4>1
    <3>5. ASSUME NEW i \in (n + 1)..l PROVE i \in 1..l /\ str[i] # 0 /\ s[i + z] = str[i]
      <4>1. i \in 1..l /\ i + z \in (m + 1)..Bytes
        BY <1>1, <2>1, <3>3
      <4> QED BY <2>2, <3>1, <4>1
    <3>6. ordered
      <4>1. ASSUME NEW i \in 1..l, NEW j \in 1..l, i < j, str[i] # 0 PROVE str[j] # 0
        <5>1. i \notin 1..n
          BY <3>4, <4>1
        <5>2. j \in (n + 1)..l
          BY <1>1, <3>3, <4>1, <5>1
        <5> QED BY <3>5, <5>2
      <4> QED BY <1>1, <4>1
    <3>7. read.ok = TRUE /\ read.value = [i \in 1..(Bytes - m) |-> s[i + m]]
      BY <3>1 DEF Ok
    <3>8. SubSeq(str, n + 1, l) = [i \in 1..(l - n) |-> str[i + n]]
      <4> HIDE DEF n
      <4>1. n + 1 \in 1..(l + 1) /\ l \in n..l /\ (l - (n + 1)) + 1 = l - n
        BY <1>1, <3>3
      <4>2. SubSeq(str, n + 1, l) = [i \in 1..((l - (n + 1)) + 1) |-> str[(i + (n + 1)) - 1]]
        BY <1>1, <3>3, <4>1
      <4>3. \A i \in 1..(l - n) : (i + (n + 1)) - 1 = i + n
        BY <3>3
      <4> QED BY <4>1, <4>2, <4>3
    <3>9. ASSUME NEW i \in 1..(l - n) PROVE s[i + m] = str[i + n]
      <4>1. i + n \in (n + 1)..l /\ (i + n) + z = i + m
        BY <1>1, <2>1, <3>3
      <4> QED BY <3>5, <4>1
    <3>10. read.value = SubSeq(str, n + 1, l)
      <4> HIDE DEF n
      <4> QED BY <3>3, <3>7, <3>8, <3>9
    <3>11. n < l => str[n + 1] # 0
      <4>1. n < l => n + 1 \in (n + 1)..l
        BY <1>1, <3>3
      <4> QED BY <3>5, <4>1
    <3> HIDE DEF n
    <3> QED BY <3>3, <3>4, <3>6, <3>7, <3>10, <3>11
  <2>11. ASSUME ~ ZerosFirst(s, Bytes), parse_cairo_short_string(u).ok = FALSE
         PROVE  ~ ordered /\ read.ok = FALSE
    <3>1. PICK i \in 1..Bytes : \E j \in 1..Bytes : i < j /\ s[i] # 0 /\ s[j] = 0
      BY <2>11 DEF ZerosFirst
    <3>2. PICK j \in 1..Bytes : i < j /\ s[i] # 0 /\ s[j] = 0
      BY <3>1
    <3>3. i \notin 1..z
      BY <2>2, <3>2
    <3>4. j \notin 1..z
      BY <2>1, <3>2, <3>3
    <3>5. /\ i - z \in 1..l /\ j - z \in 1..l /\ i - z < j - z
          /\ str[i - z] # 0 /\ str[j - z] = 0
      BY <1>1, <2>1, <2>5, <3>2, <3>3, <3>4
    <3> QED BY <1>1, <2>9, <2>11, <3>5
  <2>12. \/ \E m \in 0..Bytes : ParsedAs(s, m)
         \/ ~ ZerosFirst(s, Bytes) /\ parse_cairo_short_string(u).ok = FALSE
    BY <2>2, <2>5, <2>6, ShortParsed DEF u
  <2>13. (read.ok <=> ordered) /\ (read.ok => \E n \in 0..l : rest(n))
    <3> HIDE DEF rest, ordered
    <3>1. CASE \E m \in 0..Bytes : ParsedAs(s, m)
      BY <2>10, <3>1
    <3>2. CASE ~ ZerosFirst(s, Bytes) /\ parse_cairo_short_string(u).ok = FALSE
      BY <2>11, <3>2
    <3> QED BY <2>12, <3>1, <3>2
  <2> QED BY <1>3, <2>8, <2>13 DEF StringReadBack, read, felt
<1> QED BY <1>2, <1>3

LEMMA FeltsReadBack ==
  ASSUME NEW felt \in Field
  PROVE  FeltReadBack(felt)
<1> DEFINE read == parse_cairo_short_string(felt)
           v == read.value
           s == to_bytes_be(felt)
<1> SUFFICES ASSUME read.ok, is_ascii(v)
             PROVE  cairo_short_string_to_felt(v) = Ok(felt)
  BY DEF FeltReadBack
<1>1. Bytes \in Nat \ {0} /\ 2 * Bytes = Nibbles /\ 1 \in 1..Bytes
  BY BytesOfShort
<1>2. /\ s \in [1..Bytes -> Nat] /\ \A k \in 1..Bytes : s[k] < 256
      /\ Number(s, 256) = felt
  <2>1. Bytes \in 0..(4 * Nibbles) /\ quotients(felt, 256)[Bytes] = 0
    BY <1>1, FieldNumbers DEF Bytes
  <2>2. s = Digits(felt, 256, Bytes)
    BY DEF to_bytes_be, Bytes
  <2> HIDE DEF s
  <2>3. /\ s \in Seq(Nat) /\ Len(s) = Bytes /\ Number(s, 256) = felt
        /\ \A k \in DOMAIN s : s[k] \in Nat /\ s[k] < 256
    BY <2>1, <2>2, DigitsRead
  <2> QED BY <2>3
<1>3. from_byte_slice_be(s) = Ok(felt)
  BY BytesRead
<1> HIDE DEF s
<1>4. s[1] = 0
  <2>1. CASE felt = 0
    <3>1. [k \in 1..Bytes |-> 0][1] = 0
      BY <1>1
    <3>2. \A k \in 1..Bytes : s[k] = 0
      <4> DEFINE zs == [k \in 1..Bytes |-> 0]
      <4>1. zs \in [1..Bytes -> Nat] /\ zs[1] = 0 /\ (\A k \in 1..Bytes : zs[k] < 256)
        BY <1>1
      <4>2. \A k \in 1..Bytes : zs[k] = 0
        OBVIOUS
      <4>5. zs[1] < 4
        BY <4>1
      <4> HIDE DEF zs
      <4>3. Number(zs, 256) = 0 /\ to_bytes_be(Number(zs, 256)) = zs
        BY <4>1, <4>2, <4>5, ZeroText, BytesOfShort
      <4>4. s = zs
        BY <2>1, <4>3 DEF s
      <4> QED BY <4>2, <4>4
    <3> QED BY <1>1, <3>2
  <2>2. CASE felt # 0
    <3>1. s[1] > 0 => read.ok = FALSE
      BY <2>2 DEF parse_cairo_short_string, s, Err
    <3>2. s[1] \in Nat
      BY <1>1, <1>2
    <3> QED BY <3>1, <3>2
  <2> QED BY <2>1, <2>2
<1>5. PICK m \in 0..Bytes : ParsedAs(s, m)
  BY <1>2, <1>4, ShortParsed
<1> DEFINE w == [i \in 1..(Bytes - m) |-> s[i + m]]
<1>6. /\ \A i \in 1..m : s[i] = 0
      /\ \A i \in (m + 1)..Bytes : s[i] # 0
      /\ read = Ok(w)
  BY <1>2, <1>5 DEF ParsedAs
<1>7. m \in 1..Bytes
  <2>1. m # 0
    <3>1. m = 0 => 1 \in (m + 1)..Bytes
      BY <1>1
    <3> QED BY <1>4, <1>6, <3>1
  <2> QED BY <2>1
<1>8. v = w
  BY <1>6 DEF Ok
<1>9. w \in Seq(Nat) /\ Len(w) = Bytes - m
  <2>1. Bytes - m \in Nat
    BY <1>1, <1>7
  <2>2. ASSUME NEW i \in 1..(Bytes - m) PROVE s[i + m] \in Nat
    <3>1. i + m \in 1..Bytes
      BY <1>1, <1>7
    <3> QED BY <1>2, <3>1
  <2>3. w \in [1..(Bytes - m) -> Nat]
    BY <2>2
  <2> HIDE DEF w
  <2> QED BY <2>1, <2>3, VectorLength
<1>10. \A i \in 1..(Bytes - m) : w[i] = s[i + m]
  OBVIOUS
<1> HIDE DEF w
<1>11. /\ Len(w) <= Bytes - 1 /\ ~ (Len(w) > Bytes - 1) /\ Bytes - Len(w) = m
       /\ Bytes \in Nat /\ m \in Nat /\ Len(w) \in Nat
  BY <1>1, <1>7, <1>9
<1>12. PadTo(w) = s
  <2>1. /\ PadTo(w) \in [1..Bytes -> Nat] /\ \A k \in 1..m : PadTo(w)[k] = 0
        /\ \A k \in 1..Len(w) : PadTo(w)[k + m] = w[k]
    BY <1>9, <1>11, Padding
  <2>2. ASSUME NEW k \in 1..Bytes PROVE PadTo(w)[k] = s[k]
    <3>1. CASE k \in 1..m
      BY <1>6, <2>1, <3>1
    <3>2. CASE k \notin 1..m
      <4>1. k - m \in 1..Len(w) /\ k - m \in 1..(Bytes - m) /\ (k - m) + m = k
        BY <1>9, <1>11, <3>2
      <4> QED BY <1>10, <2>1, <4>1
    <3> QED BY <3>1, <3>2
  <2>3. PadTo(w) = [k \in 1..Bytes |-> PadTo(w)[k]] /\ s = [k \in 1..Bytes |-> s[k]]
    BY <1>2, <2>1
  <2> QED BY ONLY <2>2, <2>3
<1>13. cairo_short_string_to_felt(w) = from_byte_slice_be(PadTo(w))
  BY <1>8, <1>11 DEF cairo_short_string_to_felt, PadTo
<1> QED BY <1>3, <1>8, <1>12, <1>13 DEF s

LEMMA HashesNumber ==
  ASSUME \A a \in Nat, b \in Nat : pedersen_hash(a, b) \in Nat,
         NEW first \in Nat, NEW data \in Seq(Nat)
  PROVE  hashes(first, data)[Len(data)] \in Nat
<1> DEFINE n == Len(data)
           C == hashes(first, data)
           S == {k \in 0..n : C[k] \notin Nat}
<1>1. n \in Nat /\ n \in 0..n /\ data \in [1..n -> Nat]
  BY ONLY data \in Seq(Nat)
<1>2. PICK g : Computes(g, "hashes", data, first, n)
  BY <1>1, Recursion
<1>3. g = [k \in 0..n |-> IF k = 0 THEN first ELSE pedersen_hash(g[k - 1], data[k])]
  BY <1>2 DEF Computes, Step
<1>4. C = [k \in 0..n |-> IF k = 0 THEN first ELSE pedersen_hash(C[k - 1], data[k])]
  BY <1>3 DEF hashes
<1> HIDE DEF C
<1>5. 0 \in 0..n /\ \A k \in 1..n : k \in 0..n /\ k # 0 /\ data[k] \in Nat
  <2> HIDE DEF n
  <2> QED BY ONLY <1>1
<1>6. C[0] = first /\ \A k \in 1..n : C[k] = pedersen_hash(C[k - 1], data[k])
  BY <1>4, <1>5
<1> HIDE DEF n
<1>7. S = {}
  <2> SUFFICES ASSUME S # {} PROVE FALSE
    OBVIOUS
  <2>1. PICK k \in S : \A l \in S : k <= l
    <3>1. S \in SUBSET Nat
      BY <1>1
    <3> HIDE DEF S
    <3> QED BY <3>1, LeastElement
  <2>2. k \in 1..n /\ k - 1 \in 0..n /\ ~ (k <= k - 1)
    <3>1. k \in 0..n /\ C[k] \notin Nat
      BY <2>1
    <3>2. k # 0
      BY <1>6, <3>1
    <3> QED BY <1>1, <3>1, <3>2
  <2>3. C[k - 1] \in Nat /\ data[k] \in Nat
    BY <1>5, <2>1, <2>2
  <2> QED BY <1>6, <2>1, <2>2, <2>3
<1> QED BY <1>1, <1>7 DEF C, n

LEMMA ElementsHashed ==
  ASSUME \A a \in Nat, b \in Nat : pedersen_hash(a, b) \in Nat,
         NEW data \in Seq(Nat)
  PROVE  compute_hash_on_elements(data) \in Nat
<1>1. Len(data) \in Nat /\ 0 \in Nat
  OBVIOUS
<1>2. hashes(0, data)[Len(data)] \in Nat
  BY <1>1, HashesNumber
<1> QED BY <1>1, <1>2 DEF compute_hash_on_elements

LEMMA RemainderInRange ==
  ASSUME NEW a \in Nat, NEW b \in Nat \ {0}
  PROVE  rem(a, b) \in 0..(b - 1)
BY DivMod DEF rem

-----------------------------------------------------------------------------
(***************************************************************************)
(* cairo_short_string_to_felt and parse_cairo_short_string undo each other *)
(* for every string and every element, but for the character NUL; every    *)
(* selector fits the field, every variable and contract is at an address,  *)
(* and both crates compute the same address of an account: whatever the    *)
(* hash functions are, as long as one returns bytes and the other numbers. *)
(***************************************************************************)
THEOREM NamesReadBack ==
  ASSUME \A data \in Seq(Nat) : Keccak256(data) \in [1..Bytes -> {b \in Nat : b < 256}],
         \A a \in Nat, b \in Nat : pedersen_hash(a, b) \in Nat,
         CONTRACT_ADDRESS_PREFIX \in Nat, ADDR_BOUND \in Nat \ {0}
  PROVE  /\ \A str \in Seq(Nat) : StringReadBack(str)
         /\ \A felt \in Field : FeltReadBack(felt)
         /\ \A name \in Seq(Nat), args \in Seq(Nat) : DerivedInRange(name, args)
<1>1. ASSUME NEW data \in Seq(Nat)
      PROVE  \E u \in Nat : starknet_keccak(data) = Ok(u)
  <2> DEFINE k == Keccak256(data)
             s == [k EXCEPT ![1] = @ % 4]
  <2>1. Bytes \in Nat \ {0} /\ 1 \in 1..Bytes
    BY BytesOfShort
  <2>2. k \in [1..Bytes -> {b \in Nat : b < 256}]
    OBVIOUS
  <2> HIDE DEF k
  <2> DEFINE first == k[1] % 4
  <2>3. s[1] = first /\ k[1] \in Nat
    BY <2>1, <2>2
  <2>4. first \in Nat /\ first < 4
    <3>1. k[1] \in Nat /\ 4 \in Nat \ {0}
      BY <2>3
    <3>2. first \in 0..(4 - 1)
      BY ONLY <3>1, DivMod
    <3> HIDE DEF first
    <3> QED BY ONLY <3>2
  <2>12. \A i \in 1..Bytes : i # 1 => s[i] = k[i]
    BY <2>2
  <2>13. s = [i \in 1..Bytes |-> s[i]]
    BY <2>2
  <2> HIDE DEF s, first
  <2>5. ASSUME NEW i \in 1..Bytes PROVE s[i] \in Nat /\ s[i] < 256
    <3>1. CASE i = 1
      <4>1. s[i] = first
        BY <2>3, <3>1
      <4>2. first \in Nat /\ first < 256
        BY ONLY <2>4
      <4> QED BY ONLY <4>1, <4>2
    <3>2. CASE i # 1
      <4>1. s[i] = k[i] /\ k[i] \in {b \in Nat : b < 256}
        BY <2>2, <2>12, <3>2
      <4> QED BY <4>1
    <3> QED BY <3>1, <3>2
  <2>6. s \in [1..Bytes -> Nat] /\ s[1] < 4
    <3>1. s = [i \in 1..Bytes |-> s[i]]
      BY <2>13
    <3>2. s[1] < 4
      BY <2>3, <2>4
    <3> HIDE DEF s
    <3> QED BY <2>5, <3>1, <3>2
  <2>7. starknet_keccak(data) = from_byte_slice_be(s)
    BY DEF starknet_keccak, k, s
  <2>8. starknet_keccak(data) = Ok(Number(s, 256)) /\ Number(s, 256) \in Field
    BY <2>5, <2>6, <2>7, BytesOfShort
  <2>9. Number(s, 256) \in Nat
    BY <2>8, FieldNumbers
  <2> QED BY <2>8, <2>9
<1>2. ASSUME NEW name \in Seq(Nat), NEW args \in Seq(Nat)
      PROVE  DerivedInRange(name, args)
  <2> DEFINE salt == Number(name, 256) % P
             selector == get_selector_from_name(name)
             variable == get_storage_var_address(name, args)
  <2>1. PICK u \in Nat : starknet_keccak(name) = Ok(u)
    BY <1>1
  <2>2. starknet_keccak(name).ok = TRUE /\ starknet_keccak(name).value = u
    BY <2>1 DEF Ok
  <2>3. selector.ok <=> is_ascii(name) \/ name \in DefaultNames
    BY <2>2 DEF get_selector_from_name, Ok, Err
  <2>4. /\ variable.ok <=> is_ascii(name)
        /\ variable.ok => variable.value = normalize_address(hashes(u, args)[Len(args)])
    <3>1. CASE is_ascii(name)
      <4>1. variable = Ok(normalize_address(hashes(u, args)[Len(args)]))
        BY <2>2, <3>1 DEF get_storage_var_address
      <4> QED BY <3>1, <4>1 DEF Ok
    <3>2. CASE ~ is_ascii(name)
      <4>1. variable.ok = FALSE
        BY <3>2 DEF get_storage_var_address, Err
      <4> QED BY <3>2, <4>1
    <3> QED BY <3>1, <3>2
  <2>5. hashes(u, args)[Len(args)] \in Nat
    BY HashesNumber
  <2>6. normalize_address(hashes(u, args)[Len(args)]) \in 0..(ADDR_BOUND - 1)
    BY <2>5, RemainderInRange DEF normalize_address
  <2>7. salt \in Nat
    <3>1. Len(name) \in Nat /\ name \in [1..Len(name) -> Nat] /\ 256 \in Nat
      BY ONLY name \in Seq(Nat)
    <3>2. Number(name, 256) \in Nat
      <4> DEFINE n == Len(name)
      <4>1. n \in Nat /\ n \in 0..n /\ name \in [1..n -> Nat]
        BY <3>1
      <4> HIDE DEF n
      <4>2. Number(name, 256) = numbers(name, 256)[n] /\ numbers(name, 256)[n] \in Nat
        BY ONLY <3>1, <4>1, NumberSteps
      <4> QED BY <4>2
    <3>3. P \in Nat \ {0}
      BY WideNumber
    <3> DEFINE number == Number(name, 256)
    <3>4. number % P \in 0..(P - 1)
      <4> HIDE DEF number
      <4>1. number \in Nat
        BY <3>2 DEF number
      <4> QED BY ONLY <3>3, <4>1, DivMod
    <3> QED BY <3>3, <3>4
  <2>8. compute_hash_on_elements(args) \in Nat
    BY ElementsHashed
  <2> HIDE DEF salt
  <2>9. ASSUME NEW deployer \in {0, 1}
        PROVE  get_contract_address(salt, 1, args, deployer) \in 0..(ADDR_BOUND - 1)
    <3> DEFINE data == <<CONTRACT_ADDRESS_PREFIX, deployer, salt, 1, compute_hash_on_elements(args)>>
    <3>1. data \in Seq(Nat)
      BY <2>7, <2>8
    <3>2. compute_hash_on_elements(data) \in Nat
      <4> HIDE DEF data
      <4> QED BY <3>1, ElementsHashed
    <3>3. get_contract_address(salt, 1, args, deployer) = rem(compute_hash_on_elements(data), ADDR_BOUND)
      BY DEF get_contract_address, normalize_address
    <3> HIDE DEF data
    <3> QED BY <3>2, <3>3, RemainderInRange
  <2>10. get_contract_address(salt, 1, args, 0) = calculate_contract_address(salt, 1, args)
    BY DEF get_contract_address, calculate_contract_address, normalize_address
  <2> HIDE DEF selector, variable
  <2>11. /\ is_ascii(name) => starknet_keccak(name).ok
         /\ variable.ok => variable.value \in 0..(ADDR_BOUND - 1)
    BY <2>2, <2>4, <2>6
  <2> QED BY <2>3, <2>4, <2>9, <2>10, <2>11 DEF DerivedInRange, salt, selector, variable
<1> QED BY <1>2, StringsReadBack, FeltsReadBack

-----------------------------------------------------------------------------
(***************************************************************************)
(* The hashes of contract classes.  Rows of one width are told by what     *)
(* they are flattened to.                                                  *)
(***************************************************************************)
FlatSound(f, s, w, X, k) ==
  /\ f \in Seq(X) /\ Len(f) = w * k
  /\ \A i \in 1..k, j \in 1..w : f[w * (i - 1) + j] = s[i][j]

LEMMA Concatenation ==
  ASSUME NEW X, NEW f \in Seq(X), NEW t \in Seq(X)
  PROVE  /\ f \o t \in Seq(X) /\ Len(f \o t) = Len(f) + Len(t)
         /\ \A l \in 1..(Len(f) + Len(t)) :
              (f \o t)[l] = IF l <= Len(f) THEN f[l] ELSE t[l - Len(f)]
OBVIOUS

LEMMA SameRows ==
  ASSUME NEW X, NEW f \in Seq(X), NEW t \in Seq(X), Len(f) = Len(t),
         \A j \in 1..Len(f) : f[j] = t[j]
  PROVE  f = t
  OBVIOUS

LEMMA FlatAppend ==
  ASSUME NEW X, NEW w \in Nat \ {0}, NEW k \in Nat, NEW f, NEW s, NEW t \in Seq(X),
         FlatSound(f, s, w, X, k), s[k + 1] = t, Len(t) = w
  PROVE  FlatSound(f \o t, s, w, X, k + 1)
<1> DEFINE c == w * k
           g == f \o t
<1>1. c \in Nat /\ w * (k + 1) = c + w /\ w \in Nat
  OBVIOUS
<1>2. f \in Seq(X) /\ Len(f) = c /\ \A i \in 1..k, j \in 1..w : f[w * (i - 1) + j] = s[i][j]
  BY DEF FlatSound
<1> HIDE DEF c
<1>3. /\ g \in Seq(X) /\ Len(g) = c + w
      /\ \A l \in 1..(c + w) : g[l] = IF l <= c THEN f[l] ELSE t[l - c]
  <2>1. f \in Seq(X) /\ Len(f) = c
    BY <1>2
  <2> QED BY <2>1, Concatenation
<1> HIDE DEF g
<1>4. ASSUME NEW i \in 1..(k + 1), NEW j \in 1..w
      PROVE  g[w * (i - 1) + j] = s[i][j]
  <2> DEFINE l == w * (i - 1) + j
  <2>1. CASE i = k + 1
    <3>1. w * (i - 1) = c
      BY <2>1 DEF c
    <3>2. l = c + j
      BY <3>1
    <3> HIDE DEF l
    <3>3. l \in 1..(c + w) /\ ~ (l <= c) /\ l - c = j
      BY <1>1, <3>2
    <3>4. g[l] = t[j]
      BY <1>3, <3>3
    <3> QED BY <2>1, <3>4 DEF l
  <2>2. CASE i # k + 1
    <3>1. i \in 1..k
      BY <2>2
    <3>2. l \in 1..c
      <4> DEFINE e == w * (i - 1)
      <4>1. i - 1 \in Nat /\ i - 1 <= k - 1 /\ k - 1 \in Nat
        BY <3>1
      <4>2. e \in Nat /\ e <= w * (k - 1) /\ w * (k - 1) = c - w
        BY <1>1, <4>1 DEF c
      <4> HIDE DEF e
      <4>3. e + j \in 1..c
        BY ONLY <1>1, <4>2, j \in 1..w
      <4> QED BY <4>3 DEF e
    <3>3. f[l] = s[i][j]
      BY <1>2, <3>1
    <3> HIDE DEF l
    <3>4. l \in 1..(c + w) /\ l <= c
      BY ONLY <1>1, <3>2
    <3>5. g[l] = f[l]
      BY <1>3, <3>4
    <3> QED BY <3>3, <3>5 DEF l
  <2> QED BY <2>1, <2>2
<1> QED BY <1>1, <1>3, <1>4 DEF FlatSound, g

LEMMA Flattened ==
  ASSUME NEW X, NEW w \in Nat \ {0}, NEW s \in Seq(Seq(X)),
         \A i \in 1..Len(s) : Len(s[i]) = w
  PROVE  FlatSound(FlattenSeq(s), s, w, X, Len(s))
<1> DEFINE n == Len(s)
<1>1. n \in Nat /\ s \in [1..n -> Seq(X)]
  OBVIOUS
<1>2. CASE n = 0
  <2>1. s = <<>>
    BY <1>2
  <2>2. FlattenSeq(s) = <<>>
    BY <1>2, <2>1 DEF FlattenSeq
  <2>3. w * 0 = 0 /\ <<>> \in Seq(X) /\ Len(<<>>) = 0 /\ \A i \in 1..0 : FALSE
    OBVIOUS
  <2> QED BY <1>2, <2>2, <2>3 DEF FlatSound
<1>3. CASE n # 0
  <2> DEFINE h(g) == [i \in 1..n |-> g[i - 1]]
             S(g) == {k \in 1..n : ~ FlatSound(h(g)[k], s, w, X, k)}
  <2>1. n - 1 \in Nat
    BY <1>1, <1>3
  <2>2. PICK g : Computes(g, "FlattenSeq", s, s[1], n - 1)
    BY <2>1, Recursion
  <2>3. g = [i \in 0..(n - 1) |-> IF i = 0 THEN s[1] ELSE g[i - 1] \o s[i + 1]]
    BY <2>2 DEF Computes, Step
  <2> DEFINE F == h(g)
  <2>4. ASSUME NEW i \in 1..n PROVE F[i] = IF i = 1 THEN s[i] ELSE F[i - 1] \o s[i]
    <3>1. i - 1 \in 0..(n - 1) /\ (i - 1) + 1 = i
      BY <1>1
    <3>2. g[i - 1] = IF i - 1 = 0 THEN s[1] ELSE g[(i - 1) - 1] \o s[(i - 1) + 1]
      BY <2>3, <3>1
    <3>3. i # 1 => i - 1 \in 1..n
      BY <1>1
    <3>4. F[i] = g[i - 1] /\ (i # 1 => F[i - 1] = g[(i - 1) - 1])
      BY <3>3
    <3>5. i - 1 = 0 <=> i = 1
      BY <1>1
    <3> QED BY <3>1, <3>2, <3>4, <3>5
  <2>5. F = [i \in 1..n |-> IF i = 1 THEN s[i] ELSE F[i - 1] \o s[i]]
    <3>1. F = [i \in 1..n |-> F[i]]
      OBVIOUS
    <3> HIDE DEF F
    <3> QED BY <2>4, <3>1
  <2> HIDE DEF h
  <2> DEFINE G == CHOOSE G : G = [i \in 1..n |-> IF i = 1 THEN s[i] ELSE G[i - 1] \o s[i]]
  <2>6. FlattenSeq(s) = G[n]
    BY <1>3 DEF FlattenSeq
  <2>7. G = [i \in 1..n |-> IF i = 1 THEN s[i] ELSE G[i - 1] \o s[i]]
    BY <2>5
  <2> HIDE DEF G
  <2> DEFINE Z == {k \in 1..n : ~ FlatSound(G[k], s, w, X, k)}
  <2>8. \A i \in 1..n : G[i] = IF i = 1 THEN s[i] ELSE G[i - 1] \o s[i]
    BY <2>7
  <2>9. Z = {}
    <3> SUFFICES ASSUME Z # {} PROVE FALSE
      OBVIOUS
    <3>1. PICK k \in Z : \A l \in Z : k <= l
      <4>1. Z \in SUBSET Nat
        BY <1>1
      <4> HIDE DEF Z
      <4> QED BY <4>1, LeastElement
    <3>2. k \in 1..n /\ ~ FlatSound(G[k], s, w, X, k)
      BY <3>1
    <3>3. s[k] \in Seq(X) /\ Len(s[k]) = w
      BY <1>1, <3>2
    <3>4. CASE k = 1
      <4>1. G[k] = s[k]
        BY <2>8, <3>2, <3>4
      <4>2. ASSUME NEW i \in 1..1, NEW j \in 1..w PROVE s[k][w * (i - 1) + j] = s[i][j]
        <5>1. i = 1 /\ w * (i - 1) = 0 /\ 0 + j = j
          OBVIOUS
        <5> QED BY <3>4, <5>1
      <4>3. w * 1 = w
        OBVIOUS
      <4> QED BY <3>2, <3>3, <3>4, <4>1, <4>2, <4>3 DEF FlatSound
    <3>5. CASE k # 1
      <4>1. k - 1 \in 1..n /\ k - 1 \in Nat /\ ~ (k <= k - 1) /\ (k - 1) + 1 = k
        BY <1>1, <3>2, <3>5
      <4>2. FlatSound(G[k - 1], s, w, X, k - 1)
        BY <3>1, <4>1
      <4>3. G[k] = G[k - 1] \o s[k]
        BY <2>8, <3>2, <3>5
      <4>4. FlatSound(G[k - 1] \o s[k], s, w, X, (k - 1) + 1)
        BY <3>3, <4>1, <4>2, FlatAppend
      <4> QED BY <3>2, <4>1, <4>3, <4>4
    <3> QED BY <3>4, <3>5
  <2>10. n \in 1..n
    BY <1>1, <1>3
  <2> QED BY <2>6, <2>9, <2>10
<1> QED BY <1>2, <1>3

LEMMA FlattenTells ==
  ASSUME NEW X, NEW w \in Nat \ {0}, NEW s \in Seq(Seq(X)), NEW t \in Seq(Seq(X)),
         \A i \in 1..Len(s) : Len(s[i]) = w, \A i \in 1..Len(t) : Len(t[i]) = w,
         FlattenSeq(s) = FlattenSeq(t)
  PROVE  s = t
<1> DEFINE f == FlattenSeq(s)
<1>5. FlatSound(FlattenSeq(s), s, w, X, Len(s))
  BY Flattened
<1>6. FlatSound(FlattenSeq(t), t, w, X, Len(t))
  BY Flattened
<1> HIDE DEF f
<1>1. /\ Len(f) = w * Len(s)
      /\ \A i \in 1..Len(s), j \in 1..w : f[w * (i - 1) + j] = s[i][j]
  BY <1>5 DEF FlatSound, f
<1>2. /\ Len(f) = w * Len(t)
      /\ \A i \in 1..Len(t), j \in 1..w : f[w * (i - 1) + j] = t[i][j]
  BY <1>6 DEF FlatSound, f
<1>3. Len(s) = Len(t)
  <2>1. Len(s) \in Nat /\ Len(t) \in Nat
    OBVIOUS
  <2>3. w * Len(s) = w * Len(t)
    BY <1>1, <1>2
  <2>2. ASSUME NEW p \in Nat, NEW q \in Nat, w * p = w * q PROVE p = q
    <3>1. w * (p - q) = 0
      BY <2>2
    <3> QED BY <3>1
  <2> QED BY <2>1, <2>2, <2>3
<1>4. ASSUME NEW i \in 1..Len(s) PROVE s[i] = t[i]
  <2>1. s[i] \in Seq(X) /\ t[i] \in Seq(X)
    BY <1>3
  <2>3. Len(s[i]) = w /\ Len(t[i]) = w
    BY <1>3
  <2>2. \A j \in 1..w : s[i][j] = t[i][j]
    BY <1>1, <1>2, <1>3
  <2> QED BY <2>1, <2>2, <2>3, SameRows
<1> QED BY <1>3, <1>4, SameRows

-----------------------------------------------------------------------------
(***************************************************************************)
(* What the class hashes are told apart by: that the hash functions do not *)
(* collide, not even when a hash of Poseidon is brought into the range of  *)
(* addresses, and that the names of builtins have different elements.  It  *)
(* holds, as in the run, when a hash is the sequence or pair it is of.     *)
(***************************************************************************)
NoCollisions(Names) ==
  /\ \A s, t : address_of(poseidon(s)) = address_of(poseidon(t)) => s = t
  /\ \A a, b, c, d : pedersen_of(a, b) = pedersen_of(c, d) => a = c /\ b = d
  /\ \A a, b : keccak(text_of(a)) = keccak(text_of(b)) => a = b
  /\ \A n, m \in Names :
       short_felt(n).ok /\ short_felt(m).ok /\ short_felt(n).value = short_felt(m).value => n = m

\* The classes, of any data.
ByType(Entry) == [external : Seq(Entry), l1_handler : Seq(Entry), constructor : Seq(Entry)]

SierraClass(A) ==
  [sierra_program : Seq(A), sierra_program_debug_info : A, contract_class_version : A,
   entry_points_by_type : ByType([selector : A, function_idx : A]), abi : A]

CompiledClass(A, Names) ==
  [bytecode : Seq(A), hints : A,
   entry_points_by_type : ByType([selector : A, offset : A, builtins : Seq(Names)])]

Option(A) == {<<>>} \union {<<a>> : a \in A}

LegacyClass(A, Names) ==
  [abi : A,
   entry_points_by_type : ByType([selector : A, offset : [as : A, value : A]]),
   program : [attributes : Option(Seq(A)), builtins : Seq(Names), data : Seq(A),
              debug_info : Option(A)]]

\* The chain of Pedersen hashes, and the length at its end, tell the elements.
LEMMA ChainTells ==
  ASSUME NEW Names, NoCollisions(Names), NEW X, NEW s \in Seq(X), NEW t \in Seq(X),
         Classes!compute_hash_on_elements(s) = Classes!compute_hash_on_elements(t)
  PROVE  s = t
<1> DEFINE f == Classes!current_hashes(s)
           g == Classes!current_hashes(t)
           n == Len(s)
<1>1. n \in Nat
  OBVIOUS
<1>2. \A a, b, c, d : pedersen_of(a, b) = pedersen_of(c, d) => a = c /\ b = d
  BY DEF NoCollisions
<1>3. Len(t) = n /\ f[n] = g[n]
  BY <1>2 DEF Classes!compute_hash_on_elements
<1>4. ASSUME NEW x, NEW m \in Nat, Len(x) = m
      PROVE  \A k \in 1..m :
               Classes!current_hashes(x)[k] =
                 pedersen_of(Classes!current_hashes(x)[k - 1], x[k])
  <2>1. PICK h : Computes(h, "class hashes", x, Zero, m)
    BY Recursion
  <2>2. h = [k \in 0..m |-> IF k = 0 THEN Zero ELSE pedersen_of(h[k - 1], x[k])]
    BY <2>1 DEF Computes, Step
  <2> DEFINE H == Classes!current_hashes(x)
  <2>3. H = [k \in 0..m |-> IF k = 0 THEN Zero ELSE pedersen_of(H[k - 1], x[k])]
    BY <1>4, <2>2 DEF Classes!current_hashes
  <2> HIDE DEF H
  <2>4. ASSUME NEW k \in 1..m PROVE H[k] = pedersen_of(H[k - 1], x[k])
    <3>1. k \in 0..m /\ k # 0
      OBVIOUS
    <3> QED BY <2>3, <3>1
  <2> QED BY <2>4 DEF H
<1>5. \A k \in 1..n : f[k] = pedersen_of(f[k - 1], s[k]) /\ g[k] = pedersen_of(g[k - 1], t[k])
  BY <1>1, <1>3, <1>4
<1> HIDE DEF f, g
<1> DEFINE Z == {i \in 0..n : f[n - i] # g[n - i]}
<1>6. Z = {}
  <2> SUFFICES ASSUME Z # {} PROVE FALSE
    OBVIOUS
  <2>1. PICK i \in Z : \A l \in Z : i <= l
    <3>1. Z \in SUBSET Nat
      BY <1>1
    <3> HIDE DEF Z
    <3> QED BY <3>1, LeastElement
  <2>2. i # 0
    BY <1>1, <1>3, <2>1
  <2>3. i - 1 \in 0..n /\ ~ (i <= i - 1)
    BY <1>1, <2>1, <2>2
  <2>4. f[n - (i - 1)] = g[n - (i - 1)]
    BY <2>1, <2>3
  <2> DEFINE k == n - (i - 1)
  <2>5. k \in 1..n /\ k - 1 = n - i
    BY <1>1, <2>1, <2>2
  <2> HIDE DEF k
  <2>6. f[k] = g[k]
    BY <2>4 DEF k
  <2>7. f[k - 1] = g[k - 1]
    BY <1>2, <1>5, <2>5, <2>6
  <2> QED BY <2>1, <2>5, <2>7
<1>7. ASSUME NEW k \in 1..n PROVE s[k] = t[k]
  <2>1. n - k \in 0..n /\ n - (n - k) = k
    BY <1>1
  <2>2. f[k] = g[k]
    BY <1>6, <2>1
  <2> QED BY <1>2, <1>5, <2>2
<1> QED BY <1>3, <1>7, SameRows

\* A Poseidon hash tells what it is of.
LEMMA PoseidonTells ==
  ASSUME NEW Names, NoCollisions(Names), NEW s, NEW t, poseidon(s) = poseidon(t)
  PROVE  s = t
BY DEF NoCollisions

LEMMA Element ==
  ASSUME NEW E, NEW x \in Seq(E), NEW i \in 1..Len(x)
  PROVE  x[i] \in E
OBVIOUS

LEMMA SameFlattening ==
  ASSUME NEW x
  PROVE  Classes!FlattenSeq(x) = FlattenSeq(x)
BY DEF Classes!FlattenSeq, FlattenSeq

\* The entry points of a class, by the elements that are hashed of them.
LEMMA SierraEntriesTell ==
  ASSUME NEW A, NEW Names, NoCollisions(Names),
         NEW d \in Seq([selector : A, function_idx : A]),
         NEW e \in Seq([selector : A, function_idx : A]),
         Classes!hash_sierra_entrypoints(d) = Classes!hash_sierra_entrypoints(e)
  PROVE  d = e
<1> DEFINE E == [selector : A, function_idx : A]
           row(x) == [i \in DOMAIN x |-> <<x[i].selector, x[i].function_idx>>]
<1>1. ASSUME NEW x \in Seq(E)
      PROVE  /\ row(x) \in Seq(Seq(A)) /\ Len(row(x)) = Len(x)
             /\ \A i \in 1..Len(x) :
                  /\ Len(row(x)[i]) = 2
                  /\ row(x)[i][1] = x[i].selector /\ row(x)[i][2] = x[i].function_idx
                  /\ x[i] = [selector |-> row(x)[i][1], function_idx |-> row(x)[i][2]]
  <2>1. DOMAIN x = 1..Len(x) /\ Len(x) \in Nat
    OBVIOUS
  <2>2. ASSUME NEW i \in 1..Len(x) PROVE x[i] \in E
    <3> HIDE DEF E
    <3> QED BY Element
  <2>3. ASSUME NEW i \in 1..Len(x)
        PROVE  <<x[i].selector, x[i].function_idx>> \in Seq(A)
    <3>1. x[i].selector \in A /\ x[i].function_idx \in A
      BY <2>2
    <3> QED BY <3>1
  <2>4. row(x) \in [1..Len(x) -> Seq(A)] /\ row(x) \in Seq(Seq(A))
    BY <2>1, <2>3
  <2>5. Len(row(x)) = Len(x)
    BY <2>1
  <2> QED BY <2>1, <2>2, <2>4, <2>5
<1>2. FlattenSeq(row(d)) = FlattenSeq(row(e))
  <2>1. /\ Classes!hash_sierra_entrypoints(d) = poseidon(FlattenSeq(row(d)))
        /\ Classes!hash_sierra_entrypoints(e) = poseidon(FlattenSeq(row(e)))
    BY SameFlattening DEF Classes!hash_sierra_entrypoints
  <2> HIDE DEF row
  <2> QED BY <2>1, PoseidonTells
<1> HIDE DEF row
<1>3. row(d) = row(e)
  <2>1. \A i \in 1..Len(row(d)) : Len(row(d)[i]) = 2
    BY <1>1
  <2>2. \A i \in 1..Len(row(e)) : Len(row(e)[i]) = 2
    BY <1>1
  <2>3. row(d) \in Seq(Seq(A)) /\ row(e) \in Seq(Seq(A))
    BY <1>1
  <2> QED BY <1>2, <2>1, <2>2, <2>3, FlattenTells, 2 \in Nat \ {0}
<1>4. Len(d) = Len(e) /\ \A i \in 1..Len(d) : d[i] = e[i]
  <2>1. Len(d) = Len(e)
    BY <1>1, <1>3
  <2>2. ASSUME NEW i \in 1..Len(d) PROVE d[i] = e[i]
    <3>1. d[i] = [selector |-> row(d)[i][1], function_idx |-> row(d)[i][2]]
      BY <1>1
    <3>2. e[i] = [selector |-> row(e)[i][1], function_idx |-> row(e)[i][2]]
      BY <1>1, <2>1
    <3> QED BY <1>3, <3>1, <3>2
  <2> QED BY <2>1, <2>2
<1> HIDE DEF E
<1> QED BY <1>4, SameRows

LEMMA LegacyEntriesTell ==
  ASSUME NEW A, NEW Names, NoCollisions(Names),
         NEW d \in Seq([selector : A, offset : [as : A, value : A]]),
         NEW e \in Seq([selector : A, offset : [as : A, value : A]]),
         Classes!hash_legacy_entrypoints(d) = Classes!hash_legacy_entrypoints(e)
  PROVE  [i \in DOMAIN d |-> <<d[i].selector, Classes!OffsetOf(d[i])>>] =
         [i \in DOMAIN e |-> <<e[i].selector, Classes!OffsetOf(e[i])>>]
<1> DEFINE E == [selector : A, offset : [as : A, value : A]]
           row(x) == [i \in DOMAIN x |-> <<x[i].selector, Classes!OffsetOf(x[i])>>]
<1>1. ASSUME NEW x \in Seq(E)
      PROVE  row(x) \in Seq(Seq(A)) /\ \A i \in 1..Len(row(x)) : Len(row(x)[i]) = 2
  <2>1. DOMAIN x = 1..Len(x) /\ Len(x) \in Nat
    OBVIOUS
  <2>2. ASSUME NEW i \in 1..Len(x) PROVE <<x[i].selector, Classes!OffsetOf(x[i])>> \in Seq(A)
    <3>1. x[i] \in E
      <4> HIDE DEF E
      <4> QED BY Element
    <3>2. x[i].selector \in A /\ Classes!OffsetOf(x[i]) \in A
      BY <3>1 DEF Classes!OffsetOf
    <3> QED BY <3>2
  <2>3. row(x) \in [1..Len(x) -> Seq(A)] /\ row(x) \in Seq(Seq(A))
    BY <2>1, <2>2
  <2>4. Len(row(x)) = Len(x)
    BY <2>1
  <2> QED BY <2>1, <2>3, <2>4
<1>2. FlattenSeq(row(d)) = FlattenSeq(row(e))
  <2>1. FlattenSeq(row(d)) \in Seq(A) /\ FlattenSeq(row(e)) \in Seq(A)
    <3>1. FlatSound(FlattenSeq(row(d)), row(d), 2, A, Len(row(d)))
      BY <1>1, Flattened, 2 \in Nat \ {0}
    <3>2. FlatSound(FlattenSeq(row(e)), row(e), 2, A, Len(row(e)))
      BY <1>1, Flattened, 2 \in Nat \ {0}
    <3> QED BY <3>1, <3>2 DEF FlatSound
  <2>2. /\ Classes!hash_legacy_entrypoints(d) = Classes!compute_hash_on_elements(FlattenSeq(row(d)))
        /\ Classes!hash_legacy_entrypoints(e) = Classes!compute_hash_on_elements(FlattenSeq(row(e)))
    BY SameFlattening DEF Classes!hash_legacy_entrypoints
  <2> HIDE DEF row
  <2> QED BY <2>1, <2>2, ChainTells
<1> HIDE DEF row
<1>3. row(d) = row(e)
  <2>1. \A i \in 1..Len(row(d)) : Len(row(d)[i]) = 2
    BY <1>1
  <2>2. \A i \in 1..Len(row(e)) : Len(row(e)[i]) = 2
    BY <1>1
  <2>3. row(d) \in Seq(Seq(A)) /\ row(e) \in Seq(Seq(A))
    BY <1>1
  <2> QED BY <1>2, <2>1, <2>2, <2>3, FlattenTells, 2 \in Nat \ {0}
<1> QED BY <1>3 DEF row

\* Valid names have elements that tell them.
LEMMA ValuesTell ==
  ASSUME NEW Names, NoCollisions(Names), NEW s \in Seq(Names), NEW t \in Seq(Names),
         Classes!Valid(s), Classes!Valid(t), Classes!Values(s) = Classes!Values(t)
  PROVE  s = t
<1>1. ASSUME NEW x \in Seq(Names), Classes!Valid(x)
      PROVE  /\ DOMAIN Classes!Values(x) = 1..Len(x) /\ Len(x) \in Nat
             /\ \A k \in 1..Len(x) :
                  x[k] \in Names /\ short_felt(x[k]).ok /\ Classes!Values(x)[k] = short_felt(x[k]).value
  <2>1. DOMAIN x = 1..Len(x) /\ Len(x) \in Nat
    OBVIOUS
  <2>2. \A k \in 1..Len(x) : x[k] \in Names
    BY Element
  <2>3. DOMAIN Classes!Values(x) = DOMAIN x
    BY DEF Classes!Values
  <2>4. \A k \in DOMAIN x : short_felt(x[k]).ok /\ Classes!Values(x)[k] = short_felt(x[k]).value
    BY <1>1 DEF Classes!Values, Classes!Valid, Classes!Felts
  <2> QED BY <2>1, <2>2, <2>3, <2>4
<1>2. Len(s) = Len(t)
  <2>1. 1..Len(s) = 1..Len(t) /\ Len(s) \in Nat /\ Len(t) \in Nat
    BY <1>1
  <2> QED BY <2>1
<1>3. \A k \in 1..Len(s) : s[k] = t[k]
  BY <1>1, <1>2 DEF NoCollisions
<1> QED BY <1>2, <1>3, SameRows

\* An entry point of a compiled class is hashed by its names.
BuiltinsOk(entrypoints) ==
  \A i \in DOMAIN entrypoints : Classes!Valid(entrypoints[i].builtins)

LEMMA EntriesHashed ==
  ASSUME NEW d
  PROVE  /\ Classes!hash_entrypoints(d).ok <=> BuiltinsOk(d)
         /\ BuiltinsOk(d) =>
              Classes!hash_entrypoints(d).value =
                poseidon(FlattenSeq(
                  [i \in DOMAIN d |-> <<d[i].selector, d[i].offset,
                                        poseidon(Classes!Values(d[i].builtins))>>]))
<1> DEFINE rows == [i \in DOMAIN d |-> <<d[i].selector, d[i].offset,
                                         poseidon(Classes!Values(d[i].builtins))>>]
<1>1. CASE BuiltinsOk(d)
  <2>1. Classes!hash_entrypoints(d) = Classes!HashOk(poseidon(Classes!FlattenSeq(rows)))
    BY <1>1 DEF Classes!hash_entrypoints, BuiltinsOk
  <2> HIDE DEF rows
  <2>2. Classes!FlattenSeq(rows) = FlattenSeq(rows)
    BY SameFlattening
  <2>3. /\ Classes!hash_entrypoints(d).ok = TRUE
        /\ Classes!hash_entrypoints(d).value = poseidon(FlattenSeq(rows))
    BY <2>1, <2>2 DEF Classes!HashOk
  <2> QED BY <1>1, <2>3 DEF rows
<1>2. CASE ~BuiltinsOk(d)
  <2>1. Classes!hash_entrypoints(d) = Classes!InvalidBuiltinName
    BY <1>2 DEF Classes!hash_entrypoints, BuiltinsOk
  <2> QED BY <1>2, <2>1 DEF Classes!InvalidBuiltinName
<1> QED BY <1>1, <1>2

LEMMA CompiledEntriesTell ==
  ASSUME NEW A, NEW Names, NoCollisions(Names),
         NEW d \in Seq([selector : A, offset : A, builtins : Seq(Names)]),
         NEW e \in Seq([selector : A, offset : A, builtins : Seq(Names)]),
         BuiltinsOk(d), BuiltinsOk(e),
         Classes!hash_entrypoints(d).value = Classes!hash_entrypoints(e).value
  PROVE  d = e
<1> DEFINE E == [selector : A, offset : A, builtins : Seq(Names)]
           X == A \union {poseidon(Classes!Values(b)) : b \in Seq(Names)}
           row(x) == [i \in DOMAIN x |-> <<x[i].selector, x[i].offset,
                                           poseidon(Classes!Values(x[i].builtins))>>]
<1>1. ASSUME NEW x \in Seq(E)
      PROVE  /\ row(x) \in Seq(Seq(X)) /\ Len(row(x)) = Len(x)
             /\ \A i \in 1..Len(x) :
                  /\ Len(row(x)[i]) = 3 /\ x[i] \in E /\ i \in DOMAIN x
                  /\ row(x)[i] = <<x[i].selector, x[i].offset,
                                   poseidon(Classes!Values(x[i].builtins))>>
  <2>1. DOMAIN x = 1..Len(x) /\ Len(x) \in Nat
    OBVIOUS
  <2>2. ASSUME NEW i \in 1..Len(x) PROVE x[i] \in E
    <3> HIDE DEF E
    <3> QED BY Element
  <2>3. ASSUME NEW i \in 1..Len(x)
        PROVE  <<x[i].selector, x[i].offset, poseidon(Classes!Values(x[i].builtins))>> \in Seq(X)
    <3>1. x[i].selector \in A /\ x[i].offset \in A /\ x[i].builtins \in Seq(Names)
      BY <2>2
    <3>2. /\ x[i].selector \in X /\ x[i].offset \in X
          /\ poseidon(Classes!Values(x[i].builtins)) \in X
      BY <3>1
    <3> HIDE DEF X
    <3> QED BY <3>2
  <2> HIDE DEF X
  <2>4. row(x) \in [1..Len(x) -> Seq(X)] /\ row(x) \in Seq(Seq(X))
    BY <2>1, <2>3
  <2>5. Len(row(x)) = Len(x)
    BY <2>1
  <2> HIDE DEF E
  <2> QED BY <2>1, <2>2, <2>4, <2>5
<1>2. FlattenSeq(row(d)) = FlattenSeq(row(e))
  <2>1. /\ Classes!hash_entrypoints(d).value = poseidon(FlattenSeq(row(d)))
        /\ Classes!hash_entrypoints(e).value = poseidon(FlattenSeq(row(e)))
    BY EntriesHashed
  <2> HIDE DEF row
  <2> QED BY <2>1, PoseidonTells
<1> HIDE DEF row
<1> HIDE DEF X
<1>3. row(d) = row(e)
  <2>1. \A i \in 1..Len(row(d)) : Len(row(d)[i]) = 3
    BY <1>1
  <2>2. \A i \in 1..Len(row(e)) : Len(row(e)[i]) = 3
    BY <1>1
  <2>3. row(d) \in Seq(Seq(X)) /\ row(e) \in Seq(Seq(X))
    BY <1>1
  <2> QED BY <1>2, <2>1, <2>2, <2>3, FlattenTells, 3 \in Nat \ {0}
<1>4. Len(d) = Len(e)
  BY <1>1, <1>3
<1>5. ASSUME NEW i \in 1..Len(d) PROVE d[i] = e[i]
  <2>1. /\ d[i] \in E /\ e[i] \in E /\ i \in DOMAIN d /\ i \in DOMAIN e
        /\ row(d)[i] = <<d[i].selector, d[i].offset, poseidon(Classes!Values(d[i].builtins))>>
        /\ row(e)[i] = <<e[i].selector, e[i].offset, poseidon(Classes!Values(e[i].builtins))>>
    BY <1>1, <1>4
  <2>2. /\ d[i].selector = e[i].selector /\ d[i].offset = e[i].offset
        /\ poseidon(Classes!Values(d[i].builtins)) = poseidon(Classes!Values(e[i].builtins))
    BY <1>3, <2>1
  <2>3. Classes!Values(d[i].builtins) = Classes!Values(e[i].builtins)
    BY <2>2, PoseidonTells
  <2>4. d[i].builtins \in Seq(Names) /\ e[i].builtins \in Seq(Names)
    BY <2>1
  <2>5. Classes!Valid(d[i].builtins) /\ Classes!Valid(e[i].builtins)
    BY <2>1 DEF BuiltinsOk
  <2>6. d[i].builtins = e[i].builtins
    BY <2>3, <2>4, <2>5, ValuesTell
  <2> DEFINE B == Seq(Names)
  <2>7. d[i] \in [selector : A, offset : A, builtins : B] /\ e[i] \in [selector : A, offset : A, builtins : B]
    BY <2>1
  <2> HIDE DEF B
  <2>8. ASSUME NEW x \in [selector : A, offset : A, builtins : B]
        PROVE  x = [selector |-> x.selector, offset |-> x.offset, builtins |-> x.builtins]
    OBVIOUS
  <2> QED BY <2>2, <2>6, <2>7, <2>8
<1> HIDE DEF E
<1> QED BY <1>4, <1>5, SameRows

\* What is told of the three kinds of entry points is told of all of them.
LEMMA AllEntries ==
  ASSUME NEW E, NEW d \in ByType(E), NEW e \in ByType(E),
         d.external = e.external, d.l1_handler = e.l1_handler, d.constructor = e.constructor
  PROVE  d = e
<1> DEFINE S == Seq(E)
<1>1. /\ d \in [external : S, l1_handler : S, constructor : S]
      /\ e \in [external : S, l1_handler : S, constructor : S]
  BY DEF ByType
<1> HIDE DEF S
<1>2. ASSUME NEW x \in [external : S, l1_handler : S, constructor : S]
      PROVE  x = [external |-> x.external, l1_handler |-> x.l1_handler,
                  constructor |-> x.constructor]
  OBVIOUS
<1> QED BY <1>1, <1>2

LEMMA SierraTold ==
  ASSUME NEW A, NEW Names, NoCollisions(Names), NEW classes \in SUBSET SierraClass(A)
  PROVE  Classes!SierraTold(classes)
<1>1. ASSUME NEW c \in classes PROVE Classes!FlattenKeepsHash(c)
  BY DEF Classes!FlattenKeepsHash, Classes!flatten, Classes!flattened_class_hash,
         Classes!sierra_class_hash
<1>2. ASSUME NEW c \in classes, NEW d \in classes
      PROVE  Classes!sierra_class_hash(c) = Classes!sierra_class_hash(d) <=>
             Classes!SierraContent(c) = Classes!SierraContent(d)
  <2> DEFINE E == [selector : A, function_idx : A]
             T == ByType(E)
             S == Seq(A)
  <2>1. /\ c \in [sierra_program : S, sierra_program_debug_info : A, contract_class_version : A,
                  entry_points_by_type : T, abi : A]
        /\ d \in [sierra_program : S, sierra_program_debug_info : A, contract_class_version : A,
                  entry_points_by_type : T, abi : A]
    BY DEF SierraClass
  <2> HIDE DEF S, T
  <2>2. Classes!SierraContent(c) = Classes!SierraContent(d) <=>
          /\ c.sierra_program = d.sierra_program /\ c.abi = d.abi
          /\ c.entry_points_by_type = d.entry_points_by_type
    <3>1. ASSUME NEW x \in [sierra_program : S, sierra_program_debug_info : A,
                            contract_class_version : A, entry_points_by_type : T, abi : A]
          PROVE  Classes!SierraContent(x) =
                   [sierra_program |-> x.sierra_program, sierra_program_debug_info |-> "none",
                    contract_class_version |-> "0.1.0",
                    entry_points_by_type |-> x.entry_points_by_type, abi |-> x.abi]
      <4>1. ASSUME NEW v, NEW n
            PROVE  [x EXCEPT !.contract_class_version = v, !.sierra_program_debug_info = n] =
                     [sierra_program |-> x.sierra_program, sierra_program_debug_info |-> n,
                      contract_class_version |-> v,
                      entry_points_by_type |-> x.entry_points_by_type, abi |-> x.abi]
        <5> DEFINE y == [x EXCEPT !.contract_class_version = v]
                   z == [y EXCEPT !.sierra_program_debug_info = n]
        <5>1. y = [sierra_program |-> x.sierra_program,
                   sierra_program_debug_info |-> x.sierra_program_debug_info,
                   contract_class_version |-> v,
                   entry_points_by_type |-> x.entry_points_by_type, abi |-> x.abi]
          OBVIOUS
        <5> HIDE DEF y
        <5>2. z = [sierra_program |-> y.sierra_program, sierra_program_debug_info |-> n,
                   contract_class_version |-> y.contract_class_version,
                   entry_points_by_type |-> y.entry_points_by_type, abi |-> y.abi]
          BY <5>1
        <5>3. z = [x EXCEPT !.contract_class_version = v, !.sierra_program_debug_info = n]
          BY DEF y
        <5> HIDE DEF z
        <5> QED BY <5>1, <5>2, <5>3
      <4> QED BY <4>1 DEF Classes!SierraContent
    <3> QED BY <2>1, <3>1
  <2>3. ASSUME Classes!sierra_class_hash(c) = Classes!sierra_class_hash(d)
        PROVE  /\ c.sierra_program = d.sierra_program /\ c.abi = d.abi
               /\ c.entry_points_by_type = d.entry_points_by_type
    <3> DEFINE f(x) ==
          <<"CONTRACT_CLASS_V0.1.0",
            Classes!hash_sierra_entrypoints(x.entry_points_by_type.external),
            Classes!hash_sierra_entrypoints(x.entry_points_by_type.l1_handler),
            Classes!hash_sierra_entrypoints(x.entry_points_by_type.constructor),
            keccak(text_of(x.abi)), poseidon(x.sierra_program)>>
    <3>1. f(c) = f(d)
      <4>1. address_of(poseidon(f(c))) = address_of(poseidon(f(d)))
        BY <2>3 DEF Classes!sierra_class_hash
      <4> HIDE DEF f
      <4> QED BY <4>1 DEF NoCollisions
    <3>2. /\ poseidon(c.sierra_program) = poseidon(d.sierra_program)
          /\ keccak(text_of(c.abi)) = keccak(text_of(d.abi))
          /\ \A type \in {"external", "l1_handler", "constructor"} :
               Classes!hash_sierra_entrypoints(c.entry_points_by_type[type]) =
               Classes!hash_sierra_entrypoints(d.entry_points_by_type[type])
      BY <3>1
    <3>3. c.sierra_program = d.sierra_program /\ c.abi = d.abi
      BY <3>2, PoseidonTells DEF NoCollisions
    <3>4. c.entry_points_by_type \in T /\ d.entry_points_by_type \in T
      BY <2>1
    <3>5. ASSUME NEW x \in T
          PROVE  /\ x.external \in Seq(E) /\ x.l1_handler \in Seq(E) /\ x.constructor \in Seq(E)
      <4> HIDE DEF E
      <4> QED BY DEF T, ByType
    <3>6. /\ c.entry_points_by_type.external = d.entry_points_by_type.external
          /\ c.entry_points_by_type.l1_handler = d.entry_points_by_type.l1_handler
          /\ c.entry_points_by_type.constructor = d.entry_points_by_type.constructor
      BY <3>2, <3>4, <3>5, SierraEntriesTell
    <3>7. c.entry_points_by_type = d.entry_points_by_type
      <4> HIDE DEF E
      <4> QED BY <3>4, <3>6, AllEntries DEF T
    <3> QED BY <3>3, <3>7
  <2>4. ASSUME c.sierra_program = d.sierra_program, c.abi = d.abi,
               c.entry_points_by_type = d.entry_points_by_type
        PROVE  Classes!sierra_class_hash(c) = Classes!sierra_class_hash(d)
    BY <2>4 DEF Classes!sierra_class_hash
  <2> QED BY <2>2, <2>3, <2>4
<1> QED BY <1>1, <1>2 DEF Classes!SierraTold, Classes!TellsApart

LEMMA CompiledTold ==
  ASSUME NEW A, NEW Names, NoCollisions(Names), NEW classes \in SUBSET CompiledClass(A, Names)
  PROVE  Classes!CompiledTold(classes)
<1> DEFINE E == [selector : A, offset : A, builtins : Seq(Names)]
           T == ByType(E)
           S == Seq(A)
           types == {"external", "l1_handler", "constructor"}
           ok(c) == \A type \in types : BuiltinsOk(c.entry_points_by_type[type])
           entries(c, type) == Classes!hash_entrypoints(c.entry_points_by_type[type])
           f(c) == <<"COMPILED_CLASS_V1", entries(c, "external").value,
                     entries(c, "l1_handler").value, entries(c, "constructor").value,
                     poseidon(c.bytecode)>>
<1>1. ASSUME NEW c \in classes
      PROVE  /\ c \in [bytecode : S, hints : A, entry_points_by_type : T]
             /\ c.entry_points_by_type \in T
             /\ DOMAIN c.entry_points_by_type = types
             /\ \A type \in types : c.entry_points_by_type[type] \in Seq(E)
  <2>1. c \in [bytecode : S, hints : A, entry_points_by_type : T]
    BY DEF CompiledClass
  <2>2. c.entry_points_by_type \in T
    <3> HIDE DEF S, T
    <3> QED BY <2>1
  <2> HIDE DEF E
  <2>3. /\ DOMAIN c.entry_points_by_type = types
        /\ \A type \in types : c.entry_points_by_type[type] \in Seq(E)
    BY <2>2 DEF ByType
  <2> QED BY <2>1, <2>2, <2>3
<1> HIDE DEF S
<1>2. ASSUME NEW c \in classes
      PROVE  /\ Classes!ValidCompiled(c) <=> ok(c)
             /\ Classes!compiled_class_hash(c).ok <=> ok(c)
             /\ ok(c) => Classes!compiled_class_hash(c).value = poseidon(f(c))
  <2>1. Classes!ValidCompiled(c) <=> ok(c)
    BY <1>1 DEF Classes!ValidCompiled, BuiltinsOk
  <2>2. \A type \in types : entries(c, type).ok <=> BuiltinsOk(c.entry_points_by_type[type])
    BY EntriesHashed
  <2>3. ok(c) <=> /\ entries(c, "external").ok /\ entries(c, "l1_handler").ok
                  /\ entries(c, "constructor").ok
    BY <2>2
  <2>4. Classes!compiled_class_hash(c) =
          IF ok(c) THEN Classes!HashOk(poseidon(f(c))) ELSE Classes!InvalidBuiltinName
    BY <2>3 DEF Classes!compiled_class_hash
  <2> HIDE DEF ok, f
  <2> QED BY <2>1, <2>4 DEF Classes!HashOk, Classes!InvalidBuiltinName
<1>3. ASSUME NEW c \in classes, NEW d \in classes, ok(c), ok(d), f(c) = f(d)
      PROVE  c.bytecode = d.bytecode /\ c.entry_points_by_type = d.entry_points_by_type
  <2>1. /\ poseidon(c.bytecode) = poseidon(d.bytecode)
        /\ \A type \in types : entries(c, type).value = entries(d, type).value
    BY <1>3
  <2>2. c.bytecode = d.bytecode
    BY <2>1, PoseidonTells
  <2>3. ASSUME NEW type \in types
        PROVE  c.entry_points_by_type[type] = d.entry_points_by_type[type]
    <3>1. BuiltinsOk(c.entry_points_by_type[type]) /\ BuiltinsOk(d.entry_points_by_type[type])
      BY <1>3
    <3>2. entries(c, type).value = entries(d, type).value
      BY <2>1
    <3>3. c.entry_points_by_type[type] \in Seq(E) /\ d.entry_points_by_type[type] \in Seq(E)
      BY <1>1
    <3> QED BY <3>1, <3>2, <3>3, CompiledEntriesTell
  <2>4. c.entry_points_by_type \in T /\ d.entry_points_by_type \in T
    BY <1>1
  <2> HIDE DEF E
  <2>5. /\ c.entry_points_by_type.external = d.entry_points_by_type.external
        /\ c.entry_points_by_type.l1_handler = d.entry_points_by_type.l1_handler
        /\ c.entry_points_by_type.constructor = d.entry_points_by_type.constructor
    BY <2>3
  <2> QED BY <2>2, <2>4, <2>5, AllEntries
<1>4. ASSUME NEW c \in classes, NEW d \in classes, ok(c), ok(d)
      PROVE  Classes!compiled_class_hash(c) = Classes!compiled_class_hash(d) <=>
             Classes!CompiledContent(c) = Classes!CompiledContent(d)
  <2>1. ASSUME Classes!compiled_class_hash(c) = Classes!compiled_class_hash(d)
        PROVE  f(c) = f(d)
    <3>1. poseidon(f(c)) = poseidon(f(d))
      BY <1>2, <1>4, <2>1
    <3> HIDE DEF f
    <3> QED BY <3>1, PoseidonTells
  <2>2. ASSUME c.bytecode = d.bytecode, c.entry_points_by_type = d.entry_points_by_type
        PROVE  Classes!compiled_class_hash(c) = Classes!compiled_class_hash(d)
    BY <2>2 DEF Classes!compiled_class_hash
  <2>3. Classes!CompiledContent(c) = Classes!CompiledContent(d) <=>
          c.bytecode = d.bytecode /\ c.entry_points_by_type = d.entry_points_by_type
    BY DEF Classes!CompiledContent
  <2> QED BY <1>3, <1>4, <2>1, <2>2, <2>3
<1> HIDE DEF ok
<1> QED BY <1>2, <1>4 DEF Classes!CompiledTold, Classes!TellsApart

\* What is hashed of the program keeps all but the debug information.
LEMMA HintedProgram ==
  ASSUME NEW F, NEW B, NEW D, NEW I,
         NEW p \in [attributes : F, builtins : B, data : D, debug_info : I]
  PROVE  Classes!ProgramForHintedHash(p) =
           [attributes |-> IF p.attributes = <<<<>>>> THEN <<>> ELSE p.attributes,
            builtins |-> p.builtins, data |-> p.data, debug_info |-> <<>>]
<1> DEFINE a == IF p.attributes = <<<<>>>> THEN <<>> ELSE p.attributes
           y == [p EXCEPT !.debug_info = <<>>]
           z == [y EXCEPT !.attributes = a]
<1>1. y = [attributes |-> p.attributes, builtins |-> p.builtins, data |-> p.data,
           debug_info |-> <<>>]
  OBVIOUS
<1>2. y.attributes = p.attributes
  BY <1>1
<1>3. Classes!ProgramForHintedHash(p) = z
  BY <1>2 DEF Classes!ProgramForHintedHash
<1> HIDE DEF a, y
<1>4. z = [attributes |-> a, builtins |-> y.builtins, data |-> y.data,
           debug_info |-> y.debug_info]
  BY <1>1
<1> HIDE DEF z
<1> QED BY <1>1, <1>3, <1>4 DEF a

LEMMA LegacyTold ==
  ASSUME NEW A, NEW Names, NoCollisions(Names), NEW classes \in SUBSET LegacyClass(A, Names)
  PROVE  Classes!LegacyTold(classes)
<1> DEFINE E == [selector : A, offset : [as : A, value : A]]
           T == ByType(E)
           F == Option(Seq(A))
           B == Seq(Names)
           D == Seq(A)
           I == Option(A)
           Program == [attributes : F, builtins : B, data : D, debug_info : I]
           types == {"external", "l1_handler", "constructor"}
           plain(x) == [i \in DOMAIN x |-> <<x[i].selector, Classes!OffsetOf(x[i])>>]
           norm(a) == IF a = <<<<>>>> THEN <<>> ELSE a
           listed(a) == IF a = <<>> THEN <<>> ELSE a[1]
           ok(c) == Classes!Valid(c.program.builtins)
           f(c) == <<Zero,
                     Classes!hash_legacy_entrypoints(c.entry_points_by_type.external),
                     Classes!hash_legacy_entrypoints(c.entry_points_by_type.l1_handler),
                     Classes!hash_legacy_entrypoints(c.entry_points_by_type.constructor),
                     Classes!compute_hash_on_elements(Classes!Values(c.program.builtins)),
                     Classes!hinted_class_hash(c),
                     Classes!compute_hash_on_elements(c.program.data)>>
           Same(c, d) ==
             /\ c.abi = d.abi
             /\ \A type \in types :
                  plain(c.entry_points_by_type[type]) = plain(d.entry_points_by_type[type])
             /\ c.program.builtins = d.program.builtins /\ c.program.data = d.program.data
             /\ norm(c.program.attributes) = norm(d.program.attributes)
<1>1. ASSUME NEW c \in classes
      PROVE  /\ c.program \in Program /\ c.program.builtins \in B /\ c.program.data \in D
             /\ c.program.attributes \in F
             /\ DOMAIN c.entry_points_by_type = types
             /\ \A type \in types : c.entry_points_by_type[type] \in Seq(E)
  <2> HIDE DEF F, B, D, I
  <2>1. c \in [abi : A, entry_points_by_type : T, program : Program]
    BY DEF LegacyClass, F, B, D, I
  <2>2. c.program \in Program
    <3> HIDE DEF T, Program
    <3> QED BY <2>1
  <2>3. c.entry_points_by_type \in T
    <3> HIDE DEF T, Program
    <3> QED BY <2>1
  <2>4. c.program.builtins \in B /\ c.program.data \in D /\ c.program.attributes \in F
    BY <2>2
  <2> HIDE DEF E
  <2>5. /\ DOMAIN c.entry_points_by_type = types
        /\ \A type \in types : c.entry_points_by_type[type] \in Seq(E)
    BY <2>3 DEF ByType
  <2> QED BY <2>2, <2>4, <2>5
<1>2. ASSUME NEW c \in classes
      PROVE  /\ Classes!legacy_class_hash(c).ok <=> ok(c)
             /\ ok(c) => Classes!legacy_class_hash(c).value = Classes!compute_hash_on_elements(f(c))
  <2>1. Classes!legacy_class_hash(c) =
          IF ok(c) THEN Classes!HashOk(Classes!compute_hash_on_elements(f(c)))
          ELSE Classes!InvalidBuiltinName
    BY DEF Classes!legacy_class_hash
  <2> HIDE DEF ok, f
  <2> QED BY <2>1 DEF Classes!HashOk, Classes!InvalidBuiltinName
<1>3. ASSUME NEW a \in F, NEW b \in F
      PROVE  norm(a) = norm(b) <=> listed(a) = listed(b)
  <2> DEFINE S == Seq(A)
  <2>1. a \in {<<>>} \union {<<x>> : x \in S} /\ b \in {<<>>} \union {<<x>> : x \in S}
    BY DEF Option
  <2> HIDE DEF S, F
  <2>2. ASSUME NEW x \in S
        PROVE  listed(<<x>>) = x /\ norm(<<x>>) = IF x = <<>> THEN <<>> ELSE <<x>>
    OBVIOUS
  <2>3. listed(<<>>) = <<>> /\ norm(<<>>) = <<>>
    OBVIOUS
  <2>4. \A x \in S : <<x>> # <<>>
    OBVIOUS
  <2>5. \A x \in S, y \in S : <<x>> = <<y>> => x = y
    OBVIOUS
  <2> HIDE DEF norm, listed
  <2> QED BY <2>1, <2>2, <2>3, <2>4, <2>5
<1>4. ASSUME NEW c \in classes, NEW d \in classes
      PROVE  Classes!LegacyContent(c) = Classes!LegacyContent(d) <=> Same(c, d)
  <2> DEFINE entries(x) == [type \in types |-> plain(x.entry_points_by_type[type])]
             content(x) == <<x.abi, entries(x), x.program.builtins, x.program.data,
                             listed(x.program.attributes)>>
  <2>1. Classes!LegacyContent(c) = content(c) /\ Classes!LegacyContent(d) = content(d)
    BY <1>1 DEF Classes!LegacyContent
  <2>2. entries(c) = entries(d) <=>
          \A type \in types :
            plain(c.entry_points_by_type[type]) = plain(d.entry_points_by_type[type])
    <3> HIDE DEF plain
    <3> QED OBVIOUS
  <2>3. norm(c.program.attributes) = norm(d.program.attributes) <=>
          listed(c.program.attributes) = listed(d.program.attributes)
    <3>1. c.program.attributes \in F /\ d.program.attributes \in F
      BY <1>1
    <3> HIDE DEF F, norm, listed
    <3> QED BY <1>3, <3>1
  <2> HIDE DEF entries, plain, norm, listed
  <2>4. content(c) = content(d) <=>
          /\ c.abi = d.abi /\ entries(c) = entries(d)
          /\ c.program.builtins = d.program.builtins /\ c.program.data = d.program.data
          /\ listed(c.program.attributes) = listed(d.program.attributes)
    OBVIOUS
  <2> QED BY <2>1, <2>2, <2>3, <2>4
<1>5. ASSUME NEW c \in classes
      PROVE  Classes!hinted_class_hash(c) =
               keccak(text_of(
                 [abi |-> c.abi,
                  program |-> [attributes |-> norm(c.program.attributes),
                               builtins |-> c.program.builtins, data |-> c.program.data,
                               debug_info |-> <<>>]]))
  <2>1. c.program \in Program
    BY <1>1
  <2> HIDE DEF F, B, D, I
  <2>2. Classes!ProgramForHintedHash(c.program) =
          [attributes |-> norm(c.program.attributes), builtins |-> c.program.builtins,
           data |-> c.program.data, debug_info |-> <<>>]
    BY <2>1, HintedProgram
  <2> QED BY <2>2 DEF Classes!hinted_class_hash
<1>6. ASSUME NEW c \in classes, NEW d \in classes, ok(c), ok(d),
             Classes!compute_hash_on_elements(f(c)) = Classes!compute_hash_on_elements(f(d))
      PROVE  Same(c, d)
  <2>1. f(c) = f(d)
    <3> DEFINE X == {f(c)[i] : i \in 1..7} \union {f(d)[i] : i \in 1..7}
    <3>1. f(c) \in Seq(X) /\ f(d) \in Seq(X)
      <4>1. Len(f(c)) = 7 /\ Len(f(d)) = 7
        OBVIOUS
      <4>2. f(c) = [i \in 1..7 |-> f(c)[i]] /\ f(d) = [i \in 1..7 |-> f(d)[i]]
        OBVIOUS
      <4> HIDE DEF f
      <4>3. f(c) \in [1..7 -> X] /\ f(d) \in [1..7 -> X]
        BY <4>2
      <4> HIDE DEF X
      <4>4. \A m \in Nat : [1..m -> X] \subseteq Seq(X)
        OBVIOUS
      <4>5. 7 \in Nat
        OBVIOUS
      <4> QED BY <4>3, <4>4, <4>5
    <3> HIDE DEF f, X
    <3> QED BY <1>6, <3>1, ChainTells
  <2>2. /\ \A type \in types :
             Classes!hash_legacy_entrypoints(c.entry_points_by_type[type]) =
             Classes!hash_legacy_entrypoints(d.entry_points_by_type[type])
        /\ Classes!hinted_class_hash(c) = Classes!hinted_class_hash(d)
    BY <2>1
  <2>3. ASSUME NEW type \in types
        PROVE  plain(c.entry_points_by_type[type]) = plain(d.entry_points_by_type[type])
    <3>1. c.entry_points_by_type[type] \in Seq(E) /\ d.entry_points_by_type[type] \in Seq(E)
      BY <1>1
    <3> QED BY <2>2, <3>1, LegacyEntriesTell
  <2> DEFINE program(x) == [attributes |-> norm(x.program.attributes),
                            builtins |-> x.program.builtins, data |-> x.program.data,
                            debug_info |-> <<>>]
             hinted(x) == [abi |-> x.abi, program |-> program(x)]
  <2>4. hinted(c) = hinted(d)
    <3>1. keccak(text_of(hinted(c))) = keccak(text_of(hinted(d)))
      BY <1>5, <2>2
    <3> HIDE DEF hinted
    <3> QED BY <3>1 DEF NoCollisions
  <2>5. c.abi = d.abi /\ program(c) = program(d)
    <3> HIDE DEF program
    <3> QED BY <2>4
  <2>6. /\ norm(c.program.attributes) = norm(d.program.attributes)
        /\ c.program.builtins = d.program.builtins /\ c.program.data = d.program.data
    <3> HIDE DEF norm
    <3> QED BY <2>5
  <2> HIDE DEF plain, norm
  <2> QED BY <2>3, <2>5, <2>6
<1>7. ASSUME NEW c \in classes, NEW d \in classes, ok(c), ok(d), Same(c, d)
      PROVE  Classes!legacy_class_hash(c) = Classes!legacy_class_hash(d)
  <2>1. \A type \in types :
          Classes!hash_legacy_entrypoints(c.entry_points_by_type[type]) =
          Classes!hash_legacy_entrypoints(d.entry_points_by_type[type])
    BY <1>7 DEF Classes!hash_legacy_entrypoints
  <2>2. Classes!hinted_class_hash(c) = Classes!hinted_class_hash(d)
    <3> HIDE DEF norm, plain
    <3> QED BY <1>5, <1>7
  <2>3. f(c) = f(d)
    <3> HIDE DEF norm, plain
    <3> QED BY <1>7, <2>1, <2>2
  <2> HIDE DEF f
  <2>4. Classes!legacy_class_hash(c) = Classes!HashOk(Classes!compute_hash_on_elements(f(c)))
    BY <1>7 DEF Classes!legacy_class_hash, f
  <2>5. Classes!legacy_class_hash(d) = Classes!HashOk(Classes!compute_hash_on_elements(f(d)))
    BY <1>7 DEF Classes!legacy_class_hash, f
  <2> QED BY <2>3, <2>4, <2>5
<1> HIDE DEF Same, f
<1>8. ASSUME NEW c \in classes, NEW d \in classes, ok(c), ok(d)
      PROVE  Classes!legacy_class_hash(c) = Classes!legacy_class_hash(d) <=>
             Classes!LegacyContent(c) = Classes!LegacyContent(d)
  BY <1>2, <1>4, <1>6, <1>7, <1>8
<1> QED BY <1>2, <1>8 DEF Classes!LegacyTold, Classes!TellsApart

(***************************************************************************)
(* The hash of a class, whichever of the three kinds it is, is the same    *)
(* for two classes if and only if they are the same in all that it is      *)
(* meant to tell, for any number of classes with any number of entry       *)
(* points, builtins and elements of data; and it is refused for no other   *)
(* reason than the name of a builtin.  A Sierra class keeps its hash when  *)
(* it is flattened.                                                        *)
(***************************************************************************)
THEOREM ClassesToldApart ==
  ASSUME NEW A, NEW Names, NoCollisions(Names)
  PROVE  /\ \A classes \in SUBSET SierraClass(A) : Classes!SierraTold(classes)
         /\ \A classes \in SUBSET CompiledClass(A, Names) : Classes!CompiledTold(classes)
         /\ \A classes \in SUBSET LegacyClass(A, Names) : Classes!LegacyTold(classes)
BY SierraTold, CompiledTold, LegacyTold
=============================================================================
