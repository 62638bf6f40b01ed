----------------------------- MODULE MCProverServer -----------------------------
(* Model for TLC: what the clients of each run may send, and a hash that     *)
(* keeps requests of different types and bodies apart.                       *)
EXTENDS ProverServer

CONSTANTS c1, c2, b1, b2

MCClient  == {c1, c2}
OneClient == {c1}
MCBody    == {b1, b2}

Post(url, body) == [method |-> "POST", url |-> url, body |-> body]

\* The four request handlers and finalize.
Handlers ==
  {Post("problem", b1), Post("dataset", b1), Post("models", b1), Post("results", b2),
   Post("finalize", b1)}

\* Every other arm of the loop, each next to a request and a finalize.
Arms ==
  {Post("problem", b1), Post("finalize", b1), Post("dataset", NotJson),
   Post("models", NotFelt), Post("other", b1),
   [method |-> "GET", url |-> "test", body |-> b1],
   [method |-> "OPTIONS", url |-> "results", body |-> b1]}

OneMessage == {Post("problem", b1), Post("finalize", b1)}

MCHash == 0..8

MCHashRequest(type, body) ==
  (CASE type = "problem" -> 1 [] type = "dataset" -> 2
     [] type = "model_submission" -> 3 [] type = "model_verification" -> 4)
  + (IF body = b1 THEN 0 ELSE 4)
=============================================================================
