------------------------------- MODULE Algorithms -------------------------------
(***************************************************************************)
(* The pure algorithms beside the storage of verifications.  A behavior is *)
(* one of the storage, or stays at one input of an algorithm beside an     *)
(* empty storage; what is said of the algorithm's value is an invariant.   *)
(* The inputs are a parameter, and the assumptions about them are what the *)
(* callers in the code see to.                                             *)
(***************************************************************************)
EXTENDS Storage, TreeAlgorithms, Ranking, Poseidon

CONSTANTS
  Inputs,          \* records: a kind, and arguments under names of their own
  RoundKeys        \* the round keys of Poseidon, a triple for every round

VARIABLE input

Of(kind) == input.kind = kind

NoInput == [kind |-> "storage"]

-----------------------------------------------------------------------------
(***************************************************************************)
(* What the inputs of build_tree, rank_models and Poseidon are.            *)
(***************************************************************************)
\* From one leaf to as many as the tree has.
IsTree(leaves) == leaves \in Seq(Elements(leaves)) /\ Len(leaves) \in 1..2 ^ Depth

Matrix(rows, columns) == [1..rows -> [1..columns -> Int]]

\* Models have ids of their own, and every verification evaluates each test
\* problem that has a real result, with the confidence in as many classes.
IsProblem(problem) ==
  LET models == 1..Len(problem.model_ids)
      rows   == Len(problem.real_results)
  IN  /\ problem.model_ids \in Seq(Elements(problem.model_ids))
      /\ problem.real_results \in Seq(Elements(problem.real_results))
      /\ \A l \in models, m \in models :
           problem.model_ids[l] = problem.model_ids[m] => l = m
      /\ DOMAIN problem.verifications = models
      /\ \A m \in models :
           LET vs == problem.verifications[m]
           IN  /\ vs \in Seq(Elements(vs)) /\ Len(vs) < Prime
               /\ \A k \in 1..Len(vs) :
                    /\ vs[k].num_test_problems = rows
                    /\ vs[k].class_confidence \in Nat
                    /\ vs[k].class_confidence = vs[1].class_confidence
                    /\ vs[k].evaluations \in Matrix(rows, vs[k].class_confidence)
                    /\ problem.real_results \in Matrix(rows, vs[k].class_confidence)

Triple == [1..3 -> Field]

ASSUME InputsAssumption ==
  \A i \in Inputs :
    /\ i.kind = "tree" => IsTree(i.leaves)
    /\ i.kind = "ranking" => IsProblem(i.problem)
    /\ i.kind = "state" => i.state \in Triple
    /\ i.kind = "messages" => i.msgs \in Seq(Field)
    /\ i.kind = "text" => i.text \in Seq(Nat)
    /\ i.kind = "number" => i.a \in Field /\ i.b \in Field

(***************************************************************************)
(* build_tree pads with the zero hash of the row's own number; STRIDE is   *)
(* 250, and a chunk of an odd number of nodes would share a pair with the  *)
(* next.                                                                   *)
(***************************************************************************)
ASSUME BuildTreeAssumption == Shift = 0 /\ Stride % 2 = 0

ASSUME RoundKeysAssumption == RoundKeys \in [Rounds -> Triple]

-----------------------------------------------------------------------------
AlgorithmsInit ==
  \/ Init /\ input = NoInput
  \/ /\ Init /\ \A p \in Problem : db[p].count = None
     /\ input \in Inputs

AlgorithmsNext == Of("storage") /\ Next /\ UNCHANGED input

AlgorithmsSpec == AlgorithmsInit /\ [][AlgorithmsNext]_<<vars, input>>

-----------------------------------------------------------------------------
(***************************************************************************)
(* For every number of leaves no copy of hash_tree_level panics, the       *)
(* parallel tasks of a row write each of its places once, and build_tree   *)
(* returns the root of the tree hashed in one go.                          *)
(***************************************************************************)
BuildsTree == Of("tree") => BuildTreeIsMerkle(input.leaves)

VerifiedEvenly(problem) ==
  \A m \in DOMAIN problem.model_ids :
    Len(problem.verifications[m]) > 0 /\ Len(problem.verifications[m]) % 2 = 0

(***************************************************************************)
(* Over a memory that holds a problem, the functions of rank_models read   *)
(* nothing beyond it if and only if every model has an even number of      *)
(* verifications (the index of the consensus is a quotient in the field);  *)
(* the ranking then names models by increasing error rate, and leaves one  *)
(* out only for an earlier model of the same rate.  (No run of the program *)
(* comes so far: see Ranking.)                                             *)
(***************************************************************************)
RanksModels ==
  Of("ranking") =>
    /\ ReadsWithin(input.problem) <=> VerifiedEvenly(input.problem)
    /\ ReadsWithin(input.problem) => RanksFirstOfEachRate(input.problem)

(***************************************************************************)
(* poseidon_permute_comp with compressed round keys is the permutation     *)
(* whose rounds add their three keys.                                      *)
(***************************************************************************)
PermutationAgrees == Of("state") => CompressedAgrees(input.state, RoundKeys)

(***************************************************************************)
(* PoseidonHasher gives the hash of poseidon_hash_many for every number of *)
(* messages, as its documentation says.                                    *)
(***************************************************************************)
HashersAgree == Of("messages") => HasherAgrees(input.msgs, RoundKeys)

(***************************************************************************)
(* from_dec_str and from_hex_be read a text as the number it denotes or    *)
(* refuse it, and never reduce a number to the prime or to 256 bits; what  *)
(* Display, LowerHex and to_bytes_be write is read back as the same        *)
(* element, with every width; to_bits_le, floor_div and Rem agree with the *)
(* number.                                                                 *)
(***************************************************************************)
NumbersReadBack ==
  /\ Of("text") => ReadsCanonical(input.text)
  /\ Of("number") => WritesAndReads(input.a, input.b)
=============================================================================
