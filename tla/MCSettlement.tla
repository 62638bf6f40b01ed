------------------------------ MODULE MCSettlement ------------------------------
(* Model for TLC: a problem with id 0, under which an unregistered request   *)
(* reads as all zero; a dataset, a submission and a verification with id 1,  *)
(* which overwrite each other.  Hashes are the tuples of what is hashed.     *)
EXTENDS Settlement

CONSTANTS alice, bob, Coin

MCHashMany(s) == s

Dataset == [request_type |-> "dataset", id |-> 1, file_train |-> 5, problem_id |-> 7,
            description |-> 6]

Problem == [request_type |-> "problem", id |-> 0, user_address |-> 3, timestamp |-> 4,
            title |-> 5, reward |-> 6, deadline |-> 7, description |-> 8]

Submission == [request_type |-> "model_submission", id |-> 1, author |-> 3, model |-> 4,
               data_id |-> 1]

Verification == [request_type |-> "model_verification", id |-> 1, model_id |-> 1,
                 verifier_address |-> 3, class_confidence |-> 1, num_test_problems |-> 1,
                 evaluations |-> <<<<9>>>>]

MCRequest == {Dataset, Problem}

AllRequests == {Dataset, Problem, Submission, Verification}

MCToken == {Usdc, Coin}

MCZero == <<>>

MCCommitment == {MCZero} \union {request_hash(r) : r \in {Dataset, Problem, Submission}}

Registers(sender, key, request, pay) ==
  [sender |-> sender, publicKey |-> key, requestId |-> request.id,
   commitment |-> request_hash(request), usdcPayment |-> pay]

MCRegistration ==
  {Registers(alice, 11, Dataset, 0), Registers(alice, 11, Dataset, 1),
   Registers(bob, 11, Submission, 2), Registers(bob, 11, Problem, 0),
   Registers(bob, 0, Problem, 0)}
=============================================================================
