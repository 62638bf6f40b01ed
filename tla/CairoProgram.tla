------------------------------ MODULE CairoProgram ------------------------------
(***************************************************************************)
(* The Cairo program, src/prover/main.cairo and transactions/*.cairo: a    *)
(* function from the swap_output_json of a batch file to the accesses of   *)
(* its state dictionary and to its output, or no run at all.               *)
(*                                                                         *)
(* An entry is a record with a request and a state_index, and possibly a   *)
(* public_key.  Signatures are read from nowhere and checked by nothing.   *)
(***************************************************************************)
EXTENDS Naturals, RequestHashes, Enumeration

CONSTANT Zero

\* The order of the fields in the program, per request type.
hash_problem_req(r) ==
  poseidon_hash_many(<<r.user_address, r.timestamp, r.title, r.id, r.reward,
                       r.deadline, r.description>>)

\* The file comes after the problem, as in DataRequest's other readers.
hash_dataset_req_swapped(r) ==
  poseidon_hash_many(<<r.id, r.problem_id, r.file_train, r.description>>)

hash_dataset_req(r) ==
  poseidon_hash_many(<<r.id, r.file_train, r.problem_id, r.description>>)

hash_submission_req(r) ==
  poseidon_hash_many(<<r.id, r.id, r.author, r.model, r.data_id>>)

\* The arms of verify_requests that run to their end.
Arms == {"problem", "dataset", "model_submission"}

\* The hints of these two arms name what no entry holds (evaluations beside
\* the request, verifications per model): the run fails.
BrokenArms == {"verification", "rank_models"}

request_hash(r) ==
  CASE r.request_type = "problem"          -> hash_problem_req(r)
    [] r.request_type = "dataset"          -> hash_dataset_req(r)
    [] r.request_type = "model_submission" -> hash_submission_req(r)

\* The hint of each arm.
public_key(e) == IF "public_key" \in DOMAIN e THEN e.public_key ELSE 0

\* What the entry of a request of a known type contributes to the output.
RequestOutput(e) ==
  [id |-> e.request.id, user_pub_key |-> public_key(e),
   request_hash |-> request_hash(e.request)]

\* Requests of unknown types are printed and skipped.
Verified(json) ==
  Subsequence(json, {k \in DOMAIN json : json[k].request.request_type \in Arms})

update_state(e) ==
  [key |-> e.state_index, prev_value |-> Zero, new_value |-> request_hash(e.request)]

state_dict(json) ==
  [k \in DOMAIN Verified(json) |-> update_state(Verified(json)[k])]

\* squash_dict: an access to a key starts from the value the last one left.
Squashes(dict) ==
  \A k \in DOMAIN dict : \A j \in 1..(k - 1) :
     dict[j].key = dict[k].key
       /\ (\A i \in (j + 1)..(k - 1) : dict[i].key # dict[k].key)
     => dict[k].prev_value = dict[j].new_value

\* The tree update itself is a comment: any roots are accepted.
Completes(json) ==
  /\ \A k \in DOMAIN json : json[k].request.request_type \notin BrokenArms
  /\ Squashes(state_dict(json))

\* RequestOutput of each request that has an arm, in order.
Output(json) ==
  [k \in DOMAIN Verified(json) |-> RequestOutput(Verified(json)[k])]
=============================================================================
