----------------------------- MODULE RequestHashes -----------------------------
(***************************************************************************)
(* hash_request of the four Rust handlers, src/requests/*_request.rs: the  *)
(* order in which the fields of a request are hashed.  The server writes   *)
(* this hash to the leaf of the request and returns it to the client.      *)
(* A request is a record of its request_type and of the fields of its      *)
(* struct in src/utils/request_types.rs.                                   *)
(***************************************************************************)
EXTENDS Sequences, SequencesExt

CONSTANT poseidon_hash_many(_)

hash_problem_request(r) ==
  poseidon_hash_many(<<r.id, r.user_address, r.timestamp, r.title, r.reward,
                       r.deadline, r.description>>)

hash_data_request(r) ==
  poseidon_hash_many(<<r.id, r.file_train, r.problem_id, r.description>>)

hash_submission_request(r) ==
  poseidon_hash_many(<<r.id, r.author, r.model, r.data_id>>)

\* The evaluations are hashed line by line.
hash_verification_request(r) ==
  poseidon_hash_many(<<r.id, r.model_id, r.verifier_address, r.class_confidence,
                       r.num_test_problems>> \o FlattenSeq(r.evaluations))

hash_request(r) ==
  CASE r.request_type = "problem"            -> hash_problem_request(r)
    [] r.request_type = "dataset"            -> hash_data_request(r)
    [] r.request_type = "model_submission"   -> hash_submission_request(r)
    [] r.request_type = "model_verification" -> hash_verification_request(r)
=============================================================================
